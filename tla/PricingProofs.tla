---------------------------- MODULE PricingProofs ----------------------------
(***************************************************************************)
(* Proofs about Pricing and what it is made of: what a shopper pays, for   *)
(* every base price, every pair of candidates and every policy; what the   *)
(* rules make of a vendor row, for every set of rules; the cache and what  *)
(* a version tells, for any number of callers, any rules and edits, any    *)
(* time to live and any number of failures.                                *)
(***************************************************************************)
EXTENDS Pricing, FiniteSetTheorems, FunctionTheorems, WellFoundedInduction, TLAPS

(* A priced candidate costs between nothing and the base price.             *)
LEMMA EffectiveBounds ==
    ASSUME NEW base \in Nat, NEW promotion \in Candidate, Priceable(base, promotion)
    PROVE  EffectiveCents(base, promotion) \in 0..base
<1>1. promotion.value \in Nat
    BY DEF Priceable, Candidate
<1>2. DiscountCents(base, promotion) \in Nat
    <2>1. base * promotion.value \in Nat
        BY <1>1
    <2>2. (base * promotion.value) \div FullDiscount \in Nat
        BY <2>1 DEF FullDiscount
    <2> QED
        BY <1>1, <2>2 DEF DiscountCents
<1> QED
    BY <1>2 DEF EffectiveCents

LEMMA CandidateBounds ==
    ASSUME NEW base \in Nat, NEW promotion \in Candidate
    PROVE  CandidateCents(base, promotion) \in 0..base \union {Null}
BY EffectiveBounds DEF CandidateCents

(* Whatever the policy: no entry costs more than its base price or less     *)
(* than nothing (ProductPricer.price).                                      *)
THEOREM NobodyPaysMore ==
    ASSUME NEW base \in Nat, NEW p \in Candidate, NEW q \in Candidate, NEW policy
    PROVE  Entry(policy, base, p, q).effective \in 0..base
<1> DEFINE product  == CandidateCents(base, p)
           category == CandidateCents(base, q)
<1>1. /\ product # Null => product \in 0..base
      /\ category # Null => category \in 0..base
    BY CandidateBounds
<1> QED
    BY <1>1 DEF Entry

(* The rule that fires for the prices of two candidates, under the seeded   *)
(* rules: at most one does, so their priorities never have to decide.       *)
LEMMA SeededSelects ==
    ASSUME NEW product \in Int \union {Null}, NEW category \in Int \union {Null}
    PROVE  Select(Seeded, product, category) =
               IF product = Null /\ category = Null THEN Null
               ELSE IF category = Null THEN "product"
               ELSE IF product = Null THEN "category"
               ELSE IF product <= category THEN "product" ELSE "category"
<1> DEFINE results == {rule \in Seeded : Matches(rule, product, category)}
           Is(name, priority, level) == [name |-> name, priority |-> priority, level |-> level]
           One(rule) == results = {rule}
<1>1. ASSUME NEW rule, One(rule)
      PROVE  Select(Seeded, product, category) = rule.level
    <2>1. rule \in results /\ \A other \in results : other = rule
        BY <1>1
    <2>2. rule.priority <= rule.priority
        BY <2>1 DEF Seeded
    <2> QED
        BY <1>1, <2>1, <2>2 DEF Select
<1>2. CASE product = Null /\ category = Null
    <2>1. results = {}
        BY <1>2 DEF Matches
    <2> QED
        BY <1>2, <2>1 DEF Select
<1>3. CASE product # Null /\ category = Null
    <2>1. One(Is("product-only", 30, "product"))
        BY <1>3 DEF Matches, Seeded
    <2>2. Select(Seeded, product, category) = Is("product-only", 30, "product").level
        BY <1>1, <2>1
    <2> QED
        BY <1>3, <2>2
<1>4. CASE product = Null /\ category # Null
    <2>1. One(Is("category-only", 25, "category"))
        BY <1>4 DEF Matches, Seeded
    <2>2. Select(Seeded, product, category) = Is("category-only", 25, "category").level
        BY <1>1, <2>1
    <2> QED
        BY <1>4, <2>2
<1>5. CASE product # Null /\ category # Null /\ product <= category
    <2>1. One(Is("lower-price-product", 20, "product"))
        BY <1>5, NullAssumption DEF Matches, Seeded
    <2>2. Select(Seeded, product, category) = Is("lower-price-product", 20, "product").level
        BY <1>1, <2>1
    <2> QED
        BY <1>5, <2>2
<1>6. CASE product # Null /\ category # Null /\ ~(product <= category)
    <2>1. One(Is("lower-price-category", 15, "category"))
        BY <1>6, NullAssumption DEF Matches, Seeded
    <2>2. Select(Seeded, product, category) = Is("lower-price-category", 15, "category").level
        BY <1>1, <2>1
    <2> QED
        BY <1>6, <2>2
<1> QED
    BY <1>2, <1>3, <1>4, <1>5, <1>6

(* Under the seeded rules the lower candidate wins, for every base price    *)
(* and every pair of promotions (migration 0006).                           *)
THEOREM LowestWins ==
    ASSUME NEW base \in Nat, NEW p \in Candidate, NEW q \in Candidate
    PROVE  IsLowest(Entry(Seeded, base, p, q), p, q)
<1> DEFINE product  == CandidateCents(base, p)
           category == CandidateCents(base, q)
           entry    == Entry(Seeded, base, p, q)
           level    == Select(Seeded, product, category)
<1>1. product \in 0..base \union {Null} /\ category \in 0..base \union {Null}
    BY CandidateBounds
<1>2. entry.base = base
    BY DEF Entry
<1>3. entry.effective \in 0..base
    BY NobodyPaysMore
<1>4. product \in Int \union {Null} /\ category \in Int \union {Null}
    BY <1>1
<1>5. level = IF product = Null /\ category = Null THEN Null
              ELSE IF category = Null THEN "product"
              ELSE IF product = Null THEN "category"
              ELSE IF product <= category THEN "product" ELSE "category"
    BY <1>4, SeededSelects
<1>6. entry = IF level = "product" /\ product # Null
                THEN [base |-> base, effective |-> product, promotion |-> p.id]
              ELSE IF level = "category" /\ category # Null
                THEN [base |-> base, effective |-> category, promotion |-> q.id]
              ELSE [base |-> base, effective |-> base, promotion |-> Null]
    BY DEF Entry
<1> HIDE DEF product, category, level, entry
<1>7. \A cents \in {product, category} \ {Null} : entry.effective <= cents
    BY <1>1, <1>5, <1>6, NullAssumption
<1>8. \/ product # Null /\ entry.effective = product /\ entry.promotion = p.id
      \/ category # Null /\ entry.effective = category /\ entry.promotion = q.id
      \/ product = Null /\ category = Null /\ entry.effective = base /\ entry.promotion = Null
    BY <1>1, <1>5, <1>6, NullAssumption
<1> QED
    BY <1>2, <1>3, <1>7, <1>8 DEF IsLowest, product, category, entry

-----------------------------------------------------------------------------
(* Every non-empty set of natural numbers has a least element, and one that *)
(* is bounded has a largest, which is what Max gives.                       *)
Below == {p \in Nat \X Nat : p[1] < p[2]}

LEMMA LeastNat ==
    ASSUME NEW T \in SUBSET Nat, T # {}
    PROVE  \E x \in T : \A y \in T : x <= y
<1>1. OpToRel(<, Nat) = Below
  BY DEF OpToRel, Below
<1>2. IsWellFoundedOn(Below, Nat)
  BY <1>1, NatLessThanWellFounded
<1>3. PICK x \in T : \A y \in T : <<y, x>> \notin Below
  BY <1>2, WFMin
<1>4. ASSUME NEW y \in T PROVE x <= y
  <2>1. <<y, x>> \in Nat \X Nat /\ <<y, x>>[1] = y /\ <<y, x>>[2] = x
    OBVIOUS
  <2>2. ~(y < x)
    BY <1>3, <2>1 DEF Below
  <2> QED
    BY <2>2
<1> QED
  BY <1>4

LEMMA LargestNat ==
    ASSUME NEW n \in Nat, NEW T \in SUBSET (0..n), T # {}
    PROVE  \E x \in T : \A y \in T : y <= x
<1>1. {n - t : t \in T} \in SUBSET Nat /\ {n - t : t \in T} # {}
  <2>1. ASSUME NEW t \in T PROVE n - t \in Nat
    <3>1. t \in 0..n
      OBVIOUS
    <3> QED
      BY <3>1
  <2> QED
    BY <2>1
<1>2. PICK m \in {n - t : t \in T} : \A k \in {n - t : t \in T} : m <= k
  BY <1>1, LeastNat
<1>3. PICK x \in T : m = n - x
  BY <1>2
<1>4. ASSUME NEW y \in T PROVE y <= x
  <2>1. n - x <= n - y
    BY <1>2, <1>3
  <2> QED
    BY <2>1
<1> QED
  BY <1>4

LEMMA MaxIs ==
    ASSUME NEW n \in Nat, NEW T \in SUBSET (0..n), T # {}
    PROVE  Max(T) \in T /\ \A y \in T : y <= Max(T)
<1>1. \E x \in T : \A y \in T : x >= y
  BY LargestNat
<1> QED
  BY <1>1 DEF Max

(* So has a finite one.                                                     *)
LEMMA FiniteMax ==
    ASSUME NEW T \in SUBSET Nat, IsFiniteSet(T), T # {}
    PROVE  Max(T) \in T
<1> DEFINE Topped(S) == \E x \in S : \A y \in S : x >= y
           Short(n, S) == S # {} /\ IsFiniteSet(S) /\ Cardinality(S) = n
           bad == {n \in Nat : \E S \in SUBSET Nat : Short(n, S) /\ ~Topped(S)}
<1>1. ASSUME bad # {} PROVE FALSE
  <2>1. PICK n \in bad : \A m \in bad : n <= m
    BY <1>1, LeastNat
  <2>2. PICK S \in SUBSET Nat : Short(n, S) /\ ~Topped(S)
    BY <2>1
  <2>3. PICK x \in S : TRUE
    BY <2>2
  <2>4. IsFiniteSet(S \ {x}) /\ Cardinality(S \ {x}) = n - 1
    BY <2>2, <2>3, FS_RemoveElement
  <2>5. n \in Nat /\ n - 1 \in Nat
    BY <2>1, <2>4, FS_CardinalityType
  <2>6. n - 1 \notin bad
    BY <2>1, <2>5
  <2>7. S \ {x} = {} \/ Topped(S \ {x})
    BY <2>4, <2>5, <2>6
  <2>8. CASE S \ {x} = {}
    <3>1. \A y \in S : y = x
      BY <2>8
    <3> QED
      BY <2>2, <2>3, <3>1
  <2>9. CASE Topped(S \ {x})
    <3>1. PICK z \in S \ {x} : \A y \in S \ {x} : z >= y
      BY <2>9
    <3>2. x \in Nat /\ z \in Nat /\ z \in S /\ \A y \in S : y \in Nat
      BY <2>3
    <3>3. (\A y \in S : x >= y) \/ (\A y \in S : z >= y)
      BY <3>1, <3>2
    <3> QED
      BY <2>2, <2>3, <3>2, <3>3
  <2> QED
    BY <2>7, <2>8, <2>9
<1>2. Cardinality(T) \in Nat
  BY FS_CardinalityType
<1>3. Topped(T)
  BY <1>1, <1>2
<1> QED
  BY <1>3 DEF Max

LEMMA MaxIsThe ==
    ASSUME NEW n \in Nat, NEW T \in SUBSET (0..n), NEW x \in T, \A y \in T : y <= x
    PROVE  Max(T) = x
<1>1. Max(T) \in T /\ x <= Max(T)
  BY MaxIs
<1>2. Max(T) <= x
  BY <1>1
<1>3. \A y \in T : y \in Nat
  OBVIOUS
<1>4. x \in Nat /\ Max(T) \in Nat
  BY <1>1, <1>3
<1> QED
  BY <1>1, <1>2, <1>4

-----------------------------------------------------------------------------
(* What a run of rules makes of a row, one rule at a time: the fold of      *)
(* Priced, as the prices on its way.                                        *)
Prices(run, row, n, price) ==
    /\ price = [k \in 0..n |-> price[k]]
    /\ price[0] = row.cents
    /\ \A k \in 1..n : price[k] = Adjusted(price[k - 1], run[k])

Folds(run, row, n, iter) ==
    iter = [s \in SUBSET (1..n) |->
               IF s = {} THEN row.cents ELSE Adjusted(iter[s \ {Max(s)}], run[Max(s)])]

LEMMA FoldExists ==
    ASSUME NEW run, NEW row, NEW n \in Nat
    PROVE  \E iter : Folds(run, row, n, iter)
<1> DEFINE bad == {m \in Nat : ~\E iter : Folds(run, row, m, iter)}
<1>1. SUFFICES ASSUME bad # {} PROVE FALSE
  OBVIOUS
<1>2. PICK m \in bad : \A k \in bad : m <= k
  BY <1>1, LeastNat
<1>3. CASE m = 0
  <2>1. SUBSET (1..0) = {{}}
    OBVIOUS
  <2>2. Folds(run, row, 0, [s \in SUBSET (1..0) |-> row.cents])
    BY <2>1 DEF Folds
  <2> QED
    BY <1>2, <1>3, <2>2
<1>4. CASE m > 0
  <2>1. m - 1 \in Nat /\ m - 1 \notin bad /\ m \in Nat
    BY <1>2, <1>4
  <2>2. PICK g : Folds(run, row, m - 1, g)
    BY <2>1
  <2> DEFINE h == [s \in SUBSET (1..m) |->
                      IF m \in s THEN Adjusted(g[s \ {m}], run[m]) ELSE g[s]]
  <2>3. ASSUME NEW s \in SUBSET (1..m)
        PROVE  h[s] = IF s = {} THEN row.cents
                      ELSE Adjusted(h[s \ {Max(s)}], run[Max(s)])
    <3>1. h[s] = IF m \in s THEN Adjusted(g[s \ {m}], run[m]) ELSE g[s]
      OBVIOUS
    <3>2. ASSUME NEW t \in SUBSET (1..(m - 1)) PROVE h[t] = g[t]
      <4>1. t \in SUBSET (1..m) /\ m \notin t
        BY <2>1
      <4> QED
        BY <4>1
    <3> HIDE DEF h
    <3>3. CASE m \in s
      <4>1. s \in SUBSET (0..m) /\ \A y \in s : y <= m
        BY <2>1
      <4>2. Max(s) = m
        BY <2>1, <3>3, <4>1, MaxIsThe
      <4>3. s \ {m} \in SUBSET (1..(m - 1))
        BY <2>1
      <4> QED
        BY <3>1, <3>2, <3>3, <4>2, <4>3
    <3>4. CASE m \notin s
      <4>1. s \in SUBSET (1..(m - 1))
        BY <2>1, <3>4
      <4>2. g[s] = IF s = {} THEN row.cents ELSE Adjusted(g[s \ {Max(s)}], run[Max(s)])
        BY <2>2, <4>1 DEF Folds
      <4>3. s \ {Max(s)} \in SUBSET (1..(m - 1))
        BY <4>1
      <4> QED
        BY <3>1, <3>2, <3>4, <4>2, <4>3
    <3> QED
      BY <3>3, <3>4
  <2>4. Folds(run, row, m, h)
    BY <2>3 DEF Folds
  <2> QED
    BY <1>2, <2>4
<1> QED
  BY <1>2, <1>3, <1>4

LEMMA PricedIs ==
    ASSUME NEW R, NEW n \in Nat, NEW run \in [1..n -> R], NEW row
    PROVE  \E price : Prices(run, row, n, price) /\ Priced(run, row) = price[n]
<1> DEFINE iter == CHOOSE g : Folds(run, row, n, g)
           price == [k \in 0..n |-> iter[1..k]]
<1>1. Priced(run, row) = iter[1..n]
  <2>1. DOMAIN run = 1..n
    OBVIOUS
  <2> QED
    BY <2>1 DEF Priced, FoldLeft, MapThenFoldSet, Folds
<1>2. Folds(run, row, n, iter)
  BY FoldExists
<1> HIDE DEF iter
<1>3. \A s \in SUBSET (1..n) :
          iter[s] = IF s = {} THEN row.cents ELSE Adjusted(iter[s \ {Max(s)}], run[Max(s)])
  BY <1>2 DEF Folds
<1>4. price[0] = row.cents
  <2>1. 1..0 = {}
    OBVIOUS
  <2>2. price[0] = iter[1..0]
    OBVIOUS
  <2>3. {} \in SUBSET (1..n)
    OBVIOUS
  <2> HIDE DEF price
  <2>4. iter[{}] = row.cents
    BY <1>3, <2>3
  <2> QED
    BY <2>1, <2>2, <2>4
<1>5. ASSUME NEW k \in 1..n PROVE price[k] = Adjusted(price[k - 1], run[k])
  <2>1. k \in 1..k /\ k \in Nat
        /\ (\A y \in 1..k : y \in 1..n) /\ (\A y \in 1..k : y \in 0..k)
    OBVIOUS
  <2>2. 1..k \in SUBSET (1..n) /\ 1..k # {} /\ 1..k \in SUBSET (0..k)
    BY <2>1
  <2>3. \A y \in 1..k : y <= k
    OBVIOUS
  <2>4. Max(1..k) = k
    BY <2>1, <2>2, <2>3, MaxIsThe
  <2>5. (1..k) \ {k} = 1..(k - 1)
    OBVIOUS
  <2>6. price[k] = iter[1..k] /\ price[k - 1] = iter[1..(k - 1)]
    OBVIOUS
  <2> HIDE DEF price
  <2>7. iter[1..k] = Adjusted(iter[(1..k) \ {Max(1..k)}], run[Max(1..k)])
    BY <1>3, <2>1, <2>2
  <2> QED
    BY <2>4, <2>5, <2>6, <2>7
<1>6. price = [k \in 0..n |-> price[k]] /\ price[n] = iter[1..n]
  OBVIOUS
<1> HIDE DEF price
<1> QED
  BY <1>1, <1>4, <1>5, <1>6 DEF Prices

(* A row that is not rejected was never out of range.                       *)
LEMMA AlwaysInRange ==
    ASSUME NEW run, NEW row, row.cents \in 0..MaxCents, NEW n \in Nat, NEW price,
           Prices(run, row, n, price), price[n] # Rejected, NEW k \in 0..n
    PROVE  price[k] \in 0..MaxCents
<1>1. ASSUME NEW j \in 0..n PROVE price[j] = Rejected \/ price[j] \in 0..MaxCents
  <2>1. j = 0 \/ j \in 1..n
    OBVIOUS
  <2>2. CASE j = 0
    BY <2>2 DEF Prices
  <2>3. CASE j \in 1..n
    <3>1. price[j] = Adjusted(price[j - 1], run[j])
      BY <2>3 DEF Prices
    <3> QED
      BY <3>1 DEF Adjusted
  <2> QED
    BY <2>1, <2>2, <2>3
<1> DEFINE bad == {j \in 0..n : price[j] = Rejected}
<1>2. bad = {}
  <2>1. SUFFICES ASSUME bad # {} PROVE FALSE
    OBVIOUS
  <2>2. PICK j \in bad : \A i \in bad : i <= j
    BY <2>1, LargestNat
  <2>3. j \in 0..n /\ j # n
    BY <2>2
  <2>4. j + 1 \in 1..n /\ (j + 1) - 1 = j
    BY <2>3
  <2>5. price[j + 1] = Adjusted(price[j], run[j + 1])
    BY <2>4 DEF Prices
  <2>6. price[j + 1] = Rejected
    BY <2>2, <2>5 DEF Adjusted
  <2>7. j + 1 \in bad
    BY <2>4, <2>6
  <2> QED
    BY <2>2, <2>3, <2>7
<1> QED
  BY <1>1, <1>2

-----------------------------------------------------------------------------
(* The order in which rules run is total on rules of different ids, and the *)
(* rank of a rule is its place in it.                                       *)
Rules(S) ==
    /\ IsFiniteSet(S)
    /\ \A a \in S : a.priority \in Int /\ a.id \in Nat /\ a.event \in Event
    /\ \A a, b \in S : a.id = b.id => a = b

Ahead(S, a) == {b \in S : RanksBefore(b, a)}
Place(S, a) == 1 + Cardinality(Ahead(S, a))

LEMMA RulesSubset ==
    ASSUME NEW S, Rules(S), NEW T \in SUBSET S
    PROVE  Rules(T)
BY FS_Subset DEF Rules

LEMMA RanksTotal ==
    ASSUME NEW S, Rules(S), NEW a \in S, NEW b \in S
    PROVE  /\ ~RanksBefore(a, a)
           /\ RanksBefore(a, b) => ~RanksBefore(b, a)
           /\ a # b => RanksBefore(a, b) \/ RanksBefore(b, a)
           /\ \A c \in S : RanksBefore(a, b) /\ RanksBefore(b, c) => RanksBefore(a, c)
BY DEF Rules, RanksBefore

LEMMA PlaceBounds ==
    ASSUME NEW S, Rules(S), NEW a \in S
    PROVE  /\ Place(S, a) \in 1..Cardinality(S)
           /\ \A b \in S : RanksBefore(b, a) => Place(S, b) < Place(S, a)
<1>1. IsFiniteSet(S) /\ Cardinality(S) \in Nat
  BY FS_CardinalityType DEF Rules
<1>2. \A T \in SUBSET S : /\ IsFiniteSet(T) /\ Cardinality(T) \in Nat
                          /\ Cardinality(T) <= Cardinality(S)
                          /\ Cardinality(T) = Cardinality(S) => T = S
  BY <1>1, FS_Subset, FS_CardinalityType
<1>3. Ahead(S, a) \in SUBSET S /\ a \notin Ahead(S, a)
  BY RanksTotal DEF Ahead
<1>4. Cardinality(Ahead(S, a)) < Cardinality(S) /\ Cardinality(Ahead(S, a)) \in Nat
  <2>1. Ahead(S, a) # S
    BY <1>3
  <2> QED
    BY <1>1, <1>2, <1>3, <2>1
<1>5. ASSUME NEW b \in S, RanksBefore(b, a) PROVE Place(S, b) < Place(S, a)
  <2>1. Ahead(S, b) \subseteq Ahead(S, a)
    BY <1>5, RanksTotal DEF Ahead
  <2>2. b \in Ahead(S, a) /\ b \notin Ahead(S, b)
    BY <1>5, RanksTotal DEF Ahead
  <2>3. IsFiniteSet(Ahead(S, a)) /\ Cardinality(Ahead(S, b)) \in Nat
    <3>1. Ahead(S, b) \in SUBSET S
      BY DEF Ahead
    <3> QED
      BY <1>2, <1>3, <3>1
  <2>4. Cardinality(Ahead(S, b)) <= Cardinality(Ahead(S, a))
        /\ Cardinality(Ahead(S, a)) # Cardinality(Ahead(S, b))
    BY <2>1, <2>2, <2>3, FS_Subset
  <2> QED
    BY <1>4, <2>3, <2>4 DEF Place
<1> QED
  BY <1>1, <1>4, <1>5 DEF Place

(* A run of some rules: each of them once, in their order.                  *)
Sorted(S, run) ==
    /\ run \in [1..Cardinality(S) -> S]
    /\ \A i, j \in DOMAIN run : i < j => RanksBefore(run[i], run[j])

LEMMA SortExists ==
    ASSUME NEW S, Rules(S)
    PROVE  \E run : Sorted(S, run)
<1> DEFINE n == Cardinality(S)
           place == [a \in S |-> Place(S, a)]
<1>1. n \in Nat /\ IsFiniteSet(S)
  BY FS_CardinalityType DEF Rules
<1>2. IsFiniteSet(1..n) /\ Cardinality(1..n) = n
  BY <1>1, FS_Interval
<1>3. place \in Injection(S, 1..n)
  <2>1. place \in [S -> 1..n]
    BY PlaceBounds
  <2>2. ASSUME NEW a \in S, NEW b \in S, a # b PROVE place[a] # place[b]
    <3>1. Place(S, a) < Place(S, b) \/ Place(S, b) < Place(S, a)
      BY <2>2, RanksTotal, PlaceBounds
    <3>2. Place(S, a) \in 1..n /\ Place(S, b) \in 1..n
      BY PlaceBounds
    <3> QED
      BY <3>1, <3>2
  <2> QED
    BY <2>1, <2>2 DEF Injection, IsInjective
<1>4. place \in Surjection(S, 1..n)
  BY <1>2, <1>3, FS_Injection
<1>5. \A i \in 1..n : \E a \in S : Place(S, a) = i
  BY <1>4 DEF Surjection
<1> DEFINE run == [i \in 1..n |-> CHOOSE a \in S : Place(S, a) = i]
<1>6. \A i \in 1..n : run[i] \in S /\ Place(S, run[i]) = i
  BY <1>5
<1>7. run \in [1..n -> S] /\ DOMAIN run = 1..n
  BY <1>6
<1> HIDE DEF run
<1>8. ASSUME NEW i \in 1..n, NEW j \in 1..n, i < j PROVE RanksBefore(run[i], run[j])
  <2>1. run[i] # run[j] /\ ~(Place(S, run[j]) < Place(S, run[i]))
    BY <1>6, <1>8
  <2> QED
    BY <1>6, <2>1, RanksTotal, PlaceBounds
<1> QED
  BY <1>7, <1>8 DEF Sorted

(* Whatever run it is, each rule is in its place in it.                     *)
LEMMA SortedPlaces ==
    ASSUME NEW S, Rules(S), NEW run, Sorted(S, run)
    PROVE  /\ \A i \in 1..Cardinality(S) : Place(S, run[i]) = i
           /\ \A a \in S : Place(S, a) \in 1..Cardinality(S) /\ run[Place(S, a)] = a
<1> DEFINE n == Cardinality(S)
<1>1. n \in Nat /\ IsFiniteSet(S) /\ DOMAIN run = 1..n /\ run \in [1..n -> S]
  BY FS_CardinalityType DEF Rules, Sorted
<1>2. IsFiniteSet(1..n) /\ Cardinality(1..n) = n
  BY <1>1, FS_Interval
<1>3. \A i, j \in 1..n : i < j => RanksBefore(run[i], run[j])
  BY <1>1 DEF Sorted
<1>4. \A i, j \in 1..n : i # j => run[i] # run[j]
  <2> SUFFICES ASSUME NEW i \in 1..n, NEW j \in 1..n, i < j PROVE run[i] # run[j]
    BY <1>1
  <2> QED
    BY <1>1, <1>3, RanksTotal
<1>5. run \in Injection(1..n, S)
  BY <1>1, <1>4 DEF Injection, IsInjective
<1>6. run \in Surjection(1..n, S)
  BY <1>1, <1>2, <1>5, FS_Injection
<1>7. \A a \in S : \E i \in 1..n : run[i] = a
  BY <1>6 DEF Surjection
<1>8. ASSUME NEW i \in 1..n PROVE Place(S, run[i]) = i
  <2> DEFINE before == 1..(i - 1)
             g == [j \in before |-> run[j]]
  <2>1. before \subseteq 1..n /\ i \in Nat /\ IsFiniteSet(before) /\ Cardinality(before) = i - 1
    <3>1. i \in Nat /\ i >= 1 /\ i <= n /\ i - 1 \in Int
      BY <1>1
    <3>2. IsFiniteSet(before) /\ Cardinality(before) = IF 1 > i - 1 THEN 0 ELSE (i - 1) - 1 + 1
      BY <3>1, FS_Interval
    <3>3. Cardinality(before) = i - 1
      BY <3>1, <3>2
    <3>4. \A j \in before : j \in 1..n
      BY <1>1, <3>1
    <3> QED
      BY <3>1, <3>2, <3>3, <3>4
  <2>2. \A j \in before : g[j] = run[j] /\ run[j] \in Ahead(S, run[i])
    BY <1>1, <1>3, <2>1 DEF Ahead
  <2>3. ASSUME NEW a \in Ahead(S, run[i]) PROVE \E j \in before : g[j] = a
    <3>1. a \in S /\ RanksBefore(a, run[i])
      BY DEF Ahead
    <3>2. PICK j \in 1..n : run[j] = a
      BY <1>7, <3>1
    <3>3. j < i
      <4>1. j # i
        BY <1>1, <3>1, <3>2, RanksTotal
      <4>2. ~(i < j)
        BY <1>1, <1>3, <3>1, <3>2, RanksTotal
      <4> QED
        BY <1>1, <4>1, <4>2
    <3> QED
      BY <1>1, <3>2, <3>3
  <2>4. \A j, k \in before : g[j] = g[k] => j = k
    BY <1>4, <2>1
  <2>5. g \in [before -> Ahead(S, run[i])]
    BY <2>2
  <2> HIDE DEF g, before
  <2>6. g \in Injection(before, Ahead(S, run[i])) /\ g \in Surjection(before, Ahead(S, run[i]))
    BY <2>3, <2>4, <2>5 DEF Injection, Surjection, IsInjective
  <2>7. Cardinality(Ahead(S, run[i])) = Cardinality(before)
    BY <2>1, <2>6, FS_Surjection
  <2> QED
    BY <2>1, <2>7 DEF Place
<1> QED
  BY <1>7, <1>8, PlaceBounds

-----------------------------------------------------------------------------
(* The rules the engine fires for a row, and what its arithmetic gives.     *)
Applying(rows, row) == {rule \in Active(rows) : row.category \in rule.conditions}

LEMMA FiredIs ==
    ASSUME NEW rows, Rules(rows), NEW row
    PROVE  Rules(Applying(rows, row)) /\ Sorted(Applying(rows, row), Fired(rows, row))
<1> DEFINE S == Applying(rows, row)
<1>1. Rules(S)
  <2>1. S \in SUBSET rows
    BY DEF Applying, Active
  <2> QED
    BY <2>1, RulesSubset
<1>2. Fired(rows, row) = CHOOSE run \in [1..Cardinality(S) -> S] :
          \A i, j \in DOMAIN run : i < j => RanksBefore(run[i], run[j])
  BY DEF Fired, Applying
<1> HIDE DEF S
<1>3. \E run \in [1..Cardinality(S) -> S] :
          \A i, j \in DOMAIN run : i < j => RanksBefore(run[i], run[j])
  BY <1>1, SortExists DEF Sorted
<1>4. Sorted(S, Fired(rows, row))
  BY <1>2, <1>3 DEF Sorted
<1> QED
  BY <1>1, <1>4 DEF S

LEMMA Floors ==
    ASSUME NEW x \in Int, NEW after \in Int, after = x \div Bps
    PROVE  after * Bps <= x /\ x < (after + 1) * Bps
BY DEF Bps

(* The engine's price is the one the rules give, whatever the rules: each   *)
(* that applies takes the price of the one before it to the largest whole   *)
(* cent within its adjustment (calculate of BasePriceCalculator).           *)
THEOREM EngineAgrees ==
    ASSUME NEW rows, Rules(rows), NEW row \in VendorRow,
           Calculate(rows, row) # Rejected
    PROVE  IsBasePrice(Calculate(rows, row), rows, row)
<1> DEFINE S == Applying(rows, row)
           n == Cardinality(S)
           run == Fired(rows, row)
<1>1. Rules(S) /\ Sorted(S, run)
  BY FiredIs
<1> HIDE DEF run, S
<1>2. n \in Nat /\ run \in [1..n -> S]
  BY <1>1, FS_CardinalityType DEF Rules, Sorted
<1>3. PICK price : Prices(run, row, n, price) /\ Priced(run, row) = price[n]
  BY <1>2, PricedIs
<1>4. Calculate(rows, row) = price[n]
  BY <1>3 DEF Calculate, run
<1>5. \A k \in 0..n : price[k] \in 0..MaxCents
  <2>1. row.cents \in 0..MaxCents
    BY DEF VendorRow
  <2> QED
    BY <1>2, <1>3, <1>4, <2>1, AlwaysInRange
<1>6. price \in [0..n -> 0..MaxCents] /\ price[0] = row.cents
  BY <1>3, <1>5 DEF Prices
<1>7. ASSUME NEW rule \in S
      PROVE  LET before == price[Place(S, rule) - 1]
                 after  == price[Place(S, rule)]
                 value  == rule.event.value
             IN  IF rule.event.type = "adjustCents"
                   THEN after = before + value
                   ELSE /\ after * Bps <= before * (Bps + value)
                        /\ before * (Bps + value) < (after + 1) * Bps
  <2> DEFINE k == Place(S, rule)
             before == price[k - 1]
             after == price[k]
             value == rule.event.value
  <2>1. k \in 1..n /\ run[k] = rule
    BY <1>1, SortedPlaces
  <2>2. after = Adjusted(before, rule) /\ before \in 0..MaxCents /\ after \in 0..MaxCents
    <3>1. k \in 0..n /\ k - 1 \in 0..n
      BY <1>2, <2>1
    <3> QED
      BY <1>3, <1>5, <2>1, <3>1 DEF Prices
  <2>3. rule.event \in Event /\ value \in Int
    BY <1>1 DEF Rules, Event
  <2>4. after = Apply(before, rule.event)
    BY <2>2, RejectedAssumption DEF Adjusted
  <2> HIDE DEF k, before, after, value
  <2>5. before \in Int /\ after \in Int
    BY <2>2, MaxCentsAssumption DEF MaxCentsAssumption
  <2>6. CASE rule.event.type = "adjustCents"
    BY <2>4, <2>6 DEF Apply, k, before, after, value
  <2>7. CASE rule.event.type # "adjustCents"
    <3>1. after = (before * (Bps + value)) \div Bps
      BY <2>4, <2>7 DEF Apply, value
    <3>2. before * (Bps + value) \in Int
      BY <2>3, <2>5 DEF Bps
    <3>3. after * Bps <= before * (Bps + value) /\ before * (Bps + value) < (after + 1) * Bps
      BY <2>5, <3>1, <3>2, Floors
    <3> QED
      BY <2>7, <3>3 DEF k, before, after, value
  <2> QED
    BY <2>6, <2>7
<1>8. \A rule \in S : Place(S, rule) = 1 + Cardinality({other \in S :
                          \/ other.priority > rule.priority
                          \/ other.priority = rule.priority /\ other.id < rule.id})
  BY DEF Place, Ahead, RanksBefore
<1> HIDE DEF n
<1>9. \E p \in [0..n -> 0..MaxCents] :
          /\ p[0] = row.cents
          /\ p[n] = Calculate(rows, row)
          /\ \A rule \in S :
                LET before == p[Place(S, rule) - 1]
                    after  == p[Place(S, rule)]
                    value  == rule.event.value
                IN  IF rule.event.type = "adjustCents"
                      THEN after = before + value
                      ELSE /\ after * Bps <= before * (Bps + value)
                           /\ before * (Bps + value) < (after + 1) * Bps
  BY <1>4, <1>6, <1>7
<1> QED
  BY <1>9 DEF IsBasePrice, Applying, S, n, Place, Ahead, RanksBefore

-----------------------------------------------------------------------------
(* The cache.                                                               *)
USE TimesAssumption, NoneAssumption DEF TimesAssumption, NoneAssumption

LoadState == {"unused", "pending", "ready", "spent", "failed"}

IsLoad(load) ==
    /\ load = [state |-> load.state, rows |-> load.rows, readAt |-> load.readAt]
    /\ load.state \in LoadState
    /\ load.readAt \in Nat

Loaded(load) == load.state \in {"ready", "spent"}

Live(load) == load.state \in {"pending", "ready", "spent"}

Types ==
    /\ now \in Nat
    /\ cached \in [expiresAt : Nat, load : Load] \union {None}
    /\ loads = [l \in Load |-> loads[l]]
    /\ \A l \in Load : IsLoad(loads[l])
    /\ holds \in [Caller -> Load \union {None}]
    /\ asked \in [Caller -> Nat]

(* A load that the cache or a caller has is alive, and any other is gone.   *)
Reached ==
    /\ cached # None => Live(loads[cached.load])
    /\ \A c \in Caller : holds[c] # None => Live(loads[holds[c]])
    /\ \A l \in Load : \/ loads[l].state = "unused" /\ loads[l] = Unused
                       \/ cached # None /\ cached.load = l
                       \/ \E c \in Caller : holds[c] = l

(* An entry expires within ttlMs of its read, and nobody is given it after. *)
InTime ==
    /\ cached # None =>
          /\ cached.expiresAt <= now + Ttl
          /\ Loaded(loads[cached.load]) => cached.expiresAt <= loads[cached.load].readAt + Ttl
    /\ \A c \in Caller :
          /\ asked[c] <= now
          /\ holds[c] # None /\ Loaded(loads[holds[c]]) => asked[c] < loads[holds[c]].readAt + Ttl

IInv == Types /\ Reached /\ InTime

LEMMA NoneIsNoLoad == None \notin Load
BY DEF Load

(* There are more calculators than callers, so one is free for a new load.  *)
LEMMA OneIsFree ==
    ASSUME Types, Reached
    PROVE  \E l \in Load : loads[l] = Unused \/
               (cached # None /\ cached.load = l /\ \A d \in Caller : holds[d] # l)
<1> DEFINE held == Range(holds)
<1>1. IsFiniteSet(held) /\ Cardinality(held) <= Cardinality(Caller)
  <2>1. holds \in Surjection(Caller, held)
    BY Fun_RangeProperties DEF Types
  <2> QED
    BY <2>1, FS_Surjection, CallerAssumption DEF CallerAssumption
<1>2. Cardinality(Caller) \in Nat
  BY FS_CardinalityType, CallerAssumption DEF CallerAssumption
<1>3. IsFiniteSet(Load) /\ Cardinality(Load) = Cardinality(Caller) + 1
  BY <1>2, FS_Interval DEF Load
<1>4. ~(Load \subseteq held)
  <2> SUFFICES ASSUME Load \subseteq held PROVE FALSE
    OBVIOUS
  <2>1. Cardinality(Load) <= Cardinality(held) /\ Cardinality(held) \in Nat
    BY <1>1, FS_Subset, FS_CardinalityType
  <2> QED
    BY <1>1, <1>2, <1>3, <2>1
<1>5. PICK l \in Load : \A c \in Caller : holds[c] # l
  BY <1>4 DEF Range, Types
<1> QED
  BY <1>5 DEF Reached

LEMMA InitInv == Init => IInv
<1> SUFFICES ASSUME Init PROVE IInv
  OBVIOUS
<1>1. Types
  BY DEF Init, Types, IsLoad, Unused, LoadState
<1>2. Reached
  BY DEF Init, Reached, Unused
<1>3. InTime
  BY DEF Init, InTime
<1> QED
  BY <1>1, <1>2, <1>3 DEF IInv

(* Neither the clock nor the operator nor a price reaches the cache.        *)
LEMMA OthersKeep ==
    ASSUME IInv, UNCHANGED <<cacheVars, callerVars>>, now' \in Nat, now <= now'
    PROVE  IInv'
<1>1. Types'
  BY DEF IInv, Types, cacheVars, callerVars
<1>2. Reached'
  BY DEF IInv, Reached, Live, cacheVars, callerVars
<1>3. InTime'
  BY DEF IInv, Types, InTime, Loaded, cacheVars, callerVars
<1> QED
  BY <1>1, <1>2, <1>3 DEF IInv

(* Dropping what nobody has does not touch what somebody has.               *)
LEMMA KeptKeeps ==
    ASSUME NEW ls, \A l \in Load : IsLoad(ls[l]), NEW entry, NEW held
    PROVE  LET ks == Kept(ls, entry, held) IN
           /\ ks = [l \in Load |-> ks[l]]
           /\ \A l \in Load : IsLoad(ks[l])
           /\ \A l \in Load : (entry # None /\ entry.load = l) \/ (\E c \in Caller : held[c] = l)
                  => ks[l] = ls[l]
           /\ \A l \in Load : ks[l] # Unused =>
                  (entry # None /\ entry.load = l) \/ (\E c \in Caller : held[c] = l)
<1>1. IsLoad(Unused)
  BY DEF IsLoad, Unused, LoadState
<1> QED
  BY <1>1 DEF Kept

LEMMA CurrentKeeps ==
    ASSUME IInv, NEW c \in Caller, Current(c)
    PROVE  IInv'
<1> USE DEF IInv
<1>1. now' = now /\ asked' = [asked EXCEPT ![c] = now]
  BY DEF Current
<1>2. CASE cached # None /\ ~Expired
  <2>1. holds' = [holds EXCEPT ![c] = cached.load] /\ UNCHANGED cacheVars
    BY <1>2 DEF Current
  <2>2. cached.load \in Load /\ now < cached.expiresAt /\ cached.expiresAt \in Nat
    BY <1>2 DEF Types, Expired
  <2>3. Types'
    BY <1>1, <2>1, <2>2 DEF Types, cacheVars
  <2>4. Reached'
    <3>1. \A d \in Caller : /\ holds'[d] = holds[d] \/ holds'[d] = cached.load
                            /\ d # c => holds'[d] = holds[d]
      BY <2>1 DEF Types
    <3>2. holds[c] = None
      BY DEF Current
    <3>3. \A d \in Caller : holds'[d] # None => Live(loads[holds'[d]])
      BY <1>2, <3>1 DEF Reached
    <3>4. \A l \in Load : (\E d \in Caller : holds[d] = l) => \E d \in Caller : holds'[d] = l
      BY <3>1, <3>2, NoneIsNoLoad
    <3> QED
      BY <2>1, <3>3, <3>4 DEF Reached, cacheVars
  <2>5. InTime'
    <3>1. ASSUME NEW d \in Caller
          PROVE  /\ asked'[d] <= now
                 /\ holds'[d] # None /\ Loaded(loads[holds'[d]]) =>
                       asked'[d] < loads[holds'[d]].readAt + Ttl
      <4>1. CASE d = c
        <5>1. holds'[d] = cached.load /\ asked'[d] = now
          BY <1>1, <2>1, <4>1 DEF Types
        <5>2. loads[cached.load].readAt \in Nat
          BY <2>2 DEF Types, IsLoad
        <5> QED
          BY <1>2, <2>2, <5>1, <5>2 DEF Types, InTime
      <4>2. CASE d # c
        BY <1>1, <2>1, <4>2 DEF Types, InTime
      <4> QED
        BY <4>1, <4>2
    <3> QED
      BY <1>1, <2>1, <3>1 DEF InTime, cacheVars
  <2> QED
    BY <2>3, <2>4, <2>5
<1>3. CASE ~(cached # None /\ ~Expired)
  <2> DEFINE l == CHOOSE l \in Load : loads[l] = Unused \/
                     (cached # None /\ cached.load = l /\ \A d \in Caller : holds[d] # l)
             fresh == [Unused EXCEPT !.state = "pending"]
             ls == [loads EXCEPT ![l] = fresh]
  <2>1. l \in Load
    BY OneIsFree
  <2>2. /\ holds' = [holds EXCEPT ![c] = l]
        /\ cached' = [expiresAt |-> now + Ttl, load |-> l]
        /\ loads' = Kept(ls, cached', holds')
    BY <1>3 DEF Current
  <2>3. fresh = [state |-> "pending", rows |-> {}, readAt |-> 0] /\ IsLoad(fresh)
    BY DEF Unused, IsLoad, LoadState
  <2> HIDE DEF l, fresh
  <2>4. /\ ls[l] = fresh
        /\ \A k \in Load : k # l => ls[k] = loads[k]
        /\ \A k \in Load : IsLoad(ls[k])
    BY <2>1, <2>3 DEF Types
  <2> HIDE DEF ls
  <2>5. /\ cached' \in [expiresAt : Nat, load : Load]
        /\ cached' # None /\ cached'.load = l /\ cached'.expiresAt = now + Ttl
    BY <2>1, <2>2 DEF Types, Load
  <2>6. /\ loads' = [k \in Load |-> loads'[k]]
        /\ \A k \in Load : IsLoad(loads'[k])
        /\ \A k \in Load : k = l \/ (\E d \in Caller : holds'[d] = k) => loads'[k] = ls[k]
        /\ \A k \in Load : loads'[k] # Unused => k = l \/ \E d \in Caller : holds'[d] = k
    <3> DEFINE ks == Kept(ls, cached', holds')
    <3>1. /\ ks = [k \in Load |-> ks[k]]
          /\ \A k \in Load : IsLoad(ks[k])
          /\ \A k \in Load : (cached' # None /\ cached'.load = k)
                              \/ (\E d \in Caller : holds'[d] = k) => ks[k] = ls[k]
          /\ \A k \in Load : ks[k] # Unused =>
                (cached' # None /\ cached'.load = k) \/ (\E d \in Caller : holds'[d] = k)
      BY <2>4, KeptKeeps
    <3>2. loads' = ks
      BY <2>2
    <3> HIDE DEF ks
    <3> QED
      BY <2>5, <3>1, <3>2
  <2>7. holds'[c] = l /\ \A d \in Caller : d # c => holds'[d] = holds[d]
    BY <2>2 DEF Types
  <2>8. Types'
    BY <1>1, <2>1, <2>2, <2>5, <2>6 DEF Types
  <2>9. Reached'
    <3>1. Live(loads'[l])
      BY <2>1, <2>3, <2>4, <2>6 DEF Live
    <3>2. ASSUME NEW d \in Caller, holds'[d] # None PROVE Live(loads'[holds'[d]])
      <4>1. CASE holds'[d] = l
        BY <3>1, <4>1
      <4>2. CASE holds'[d] # l
        <5>1. holds'[d] = holds[d] /\ holds[d] \in Load
          BY <3>2, <4>2, <2>7 DEF Types
        <5>2. loads'[holds[d]] = loads[holds[d]]
          BY <5>1, <4>2, <2>4, <2>6
        <5> QED
          BY <3>2, <5>1, <5>2 DEF Reached
      <4> QED
        BY <4>1, <4>2
    <3>3. ASSUME NEW k \in Load
          PROVE  \/ loads'[k].state = "unused" /\ loads'[k] = Unused
                 \/ cached' # None /\ cached'.load = k
                 \/ \E d \in Caller : holds'[d] = k
      BY <2>5, <2>6 DEF Unused
    <3> QED
      BY <2>5, <3>1, <3>2, <3>3 DEF Reached
  <2>10. InTime'
    <3>1. ~Loaded(loads'[l])
      BY <2>1, <2>3, <2>4, <2>6 DEF Loaded
    <3>2. ASSUME NEW d \in Caller
          PROVE  /\ asked'[d] <= now'
                 /\ holds'[d] # None /\ Loaded(loads'[holds'[d]]) =>
                       asked'[d] < loads'[holds'[d]].readAt + Ttl
      <4>1. asked'[d] <= now'
        BY <1>1 DEF Types, InTime
      <4>2. CASE holds'[d] = l
        BY <3>1, <4>1, <4>2 DEF Loaded
      <4>3. CASE holds'[d] # l
        <5>1. d # c /\ holds'[d] = holds[d] /\ asked'[d] = asked[d]
          BY <1>1, <2>7, <4>3 DEF Types
        <5>2. holds[d] # None => holds[d] \in Load /\ loads'[holds[d]] = loads[holds[d]]
          BY <5>1, <4>3, <2>4, <2>6 DEF Types
        <5> QED
          BY <4>1, <5>1, <5>2 DEF InTime, Loaded
      <4> QED
        BY <4>2, <4>3
    <3> QED
      BY <1>1, <2>5, <3>1, <3>2 DEF InTime, Types
  <2> QED
    BY <2>8, <2>9, <2>10
<1> QED
  BY <1>2, <1>3

LEMMA LoadReadsKeeps ==
    ASSUME IInv, NEW l \in Load, LoadReads(l)
    PROVE  IInv'
<1> USE DEF IInv
<1>1. /\ loads[l].state = "pending"
      /\ now' = now /\ cached' = cached /\ holds' = holds /\ asked' = asked
      /\ \A k \in Load : k # l => loads'[k] = loads[k]
      /\ loads'[l] = [state |-> "ready", rows |-> Active(Rows(table)), readAt |-> now]
      /\ loads' = [k \in Load |-> loads'[k]]
  BY DEF LoadReads, Types, callerVars
<1>2. Types'
  <2>1. IsLoad(loads'[l])
    BY <1>1 DEF Types, IsLoad, LoadState
  <2>2. \A k \in Load : IsLoad(loads'[k])
    BY <1>1, <2>1 DEF Types
  <2> QED
    BY <1>1, <2>2 DEF Types
<1>3. Reached'
  <2>1. \A k \in Load : Live(loads[k]) => Live(loads'[k])
    BY <1>1 DEF Live
  <2>2. cached' # None => Live(loads'[cached'.load])
    BY <1>1, <2>1 DEF Types, Reached
  <2>3. ASSUME NEW c \in Caller, holds'[c] # None PROVE Live(loads'[holds'[c]])
    <3>1. holds'[c] = holds[c] /\ holds[c] \in Load
      BY <1>1, <2>3 DEF Types
    <3>2. Live(loads[holds[c]])
      BY <2>3, <3>1 DEF Reached
    <3> QED
      BY <2>1, <3>1, <3>2
  <2>4. ASSUME NEW k \in Load
        PROVE  \/ loads'[k].state = "unused" /\ loads'[k] = Unused
               \/ cached' # None /\ cached'.load = k
               \/ \E c \in Caller : holds'[c] = k
    <3>1. k = l => loads[k].state # "unused"
      BY <1>1
    <3> QED
      BY <1>1, <3>1 DEF Reached
  <2> QED
    BY <2>2, <2>3, <2>4 DEF Reached
<1>4. InTime'
  <2>1. cached' # None =>
          /\ cached'.expiresAt <= now' + Ttl
          /\ Loaded(loads'[cached'.load]) => cached'.expiresAt <= loads'[cached'.load].readAt + Ttl
    BY <1>1 DEF Types, InTime, Loaded
  <2>2. ASSUME NEW c \in Caller
        PROVE  /\ asked'[c] <= now'
               /\ holds'[c] # None /\ Loaded(loads'[holds'[c]]) =>
                     asked'[c] < loads'[holds'[c]].readAt + Ttl
    BY <1>1 DEF Types, InTime, Loaded
  <2> QED
    BY <2>1, <2>2 DEF InTime
<1> QED
  BY <1>2, <1>3, <1>4

(* What a step that takes entries and calculators away has to keep: those   *)
(* that are left are what they were, or have been used up.                  *)
LEMMA FewerKeep ==
    ASSUME IInv, now' = now,
           cached' = cached \/ cached' = None,
           holds' \in [Caller -> Load \union {None}], asked' \in [Caller -> Nat],
           \A c \in Caller : /\ (holds'[c] = holds[c] \/ holds'[c] = None)
                             /\ (asked'[c] = asked[c] \/ (asked'[c] = 0 /\ holds'[c] = None)),
           NEW ls, loads' = Kept(ls, cached', holds'),
           \A l \in Load :
              /\ IsLoad(ls[l])
              /\ (cached' # None /\ cached'.load = l) \/ (\E c \in Caller : holds'[c] = l) =>
                    \/ ls[l] = loads[l]
                    \/ Loaded(loads[l]) /\ ls[l].state = "spent" /\ ls[l].readAt = loads[l].readAt
    PROVE  IInv'
<1> USE DEF IInv
<1> DEFINE Had(l) == (cached' # None /\ cached'.load = l) \/ (\E c \in Caller : holds'[c] = l)
<1>1. /\ loads' = [l \in Load |-> loads'[l]]
      /\ \A l \in Load : IsLoad(loads'[l])
      /\ \A l \in Load : Had(l) => loads'[l] = ls[l]
      /\ \A l \in Load : loads'[l] # Unused => Had(l)
  BY KeptKeeps
<1>2. ASSUME NEW l \in Load, Had(l)
      PROVE  /\ Live(loads[l]) => Live(loads'[l])
             /\ Loaded(loads'[l]) => Loaded(loads[l])
             /\ loads'[l].readAt = loads[l].readAt
  BY <1>1, <1>2 DEF Live, Loaded
<1>3. Types'
  BY <1>1 DEF Types
<1>4. cached' # None => cached' = cached /\ cached.load \in Load /\ Had(cached.load)
  BY DEF Types
<1>5. ASSUME NEW c \in Caller, holds'[c] # None
      PROVE  holds'[c] = holds[c] /\ holds[c] \in Load /\ Had(holds[c]) /\ asked'[c] = asked[c]
  BY <1>5 DEF Types
<1>6. Reached'
  <2>1. cached' # None => Live(loads'[cached.load])
    BY <1>2, <1>4 DEF Reached, Live
  <2>2. \A c \in Caller : holds'[c] # None => Live(loads'[holds[c]])
    BY <1>2, <1>5 DEF Reached, Live
  <2>3. \A l \in Load : (loads'[l].state = "unused" /\ loads'[l] = Unused) \/ Had(l)
    BY <1>1 DEF Unused
  <2> QED
    BY <2>1, <2>2, <2>3 DEF Reached
<1>7. InTime'
  <2>1. cached' # None =>
          /\ cached'.expiresAt <= now' + Ttl
          /\ Loaded(loads'[cached.load]) => cached'.expiresAt <= loads'[cached'.load].readAt + Ttl
    BY <1>2, <1>4 DEF InTime, Loaded
  <2>2. ASSUME NEW c \in Caller
        PROVE  /\ asked'[c] <= now'
               /\ holds'[c] # None /\ Loaded(loads'[holds[c]]) =>
                     asked'[c] < loads'[holds'[c]].readAt + Ttl
    <3>1. asked'[c] <= now'
      BY DEF Types, InTime
    <3>2. CASE holds'[c] # None
      BY <1>2, <1>5, <3>1, <3>2 DEF InTime, Loaded
    <3> QED
      BY <3>1, <3>2
  <2> QED
    BY <2>1, <2>2 DEF InTime
<1> QED
  BY <1>3, <1>6, <1>7

LEMMA LoadFailsKeeps ==
    ASSUME IInv, NEW l \in Load, LoadFails(l)
    PROVE  IInv'
<1> USE DEF IInv
<1> DEFINE ls == [loads EXCEPT ![l].state = "failed"]
<1>1. /\ now' = now /\ cached' = None
      /\ holds' = [c \in Caller |-> IF holds[c] = l THEN None ELSE holds[c]]
      /\ asked' = [c \in Caller |-> IF holds[c] = l THEN 0 ELSE asked[c]]
      /\ loads' = Kept(ls, cached', holds')
  BY DEF LoadFails, Cleared
<1>2. \A k \in Load : IsLoad(ls[k]) /\ (k # l => ls[k] = loads[k])
  BY DEF Types, IsLoad, LoadState
<1> HIDE DEF ls
<1>3. holds' \in [Caller -> Load \union {None}] /\ asked' \in [Caller -> Nat]
  BY <1>1 DEF Types
<1>4. \A c \in Caller : /\ (holds'[c] = holds[c] \/ holds'[c] = None)
                        /\ (asked'[c] = asked[c] \/ (asked'[c] = 0 /\ holds'[c] = None))
                        /\ holds'[c] # l
  BY <1>1 DEF Load
<1> QED
  BY <1>1, <1>2, <1>3, <1>4, FewerKeep

LEMMA CallerEndsKeeps ==
    ASSUME IInv, NEW c \in Caller, Ends(c) \/ RulesFault(c)
    PROVE  IInv'
<1> USE DEF IInv
<1> DEFINE ls == [loads EXCEPT ![holds[c]].state = "spent"]
<1>1. /\ now' = now /\ cached' = cached
      /\ HasCalculator(c)
      /\ holds' = [holds EXCEPT ![c] = None]
      /\ asked' = [asked EXCEPT ![c] = 0]
      /\ loads' = Kept(loads, cached', holds') \/ loads' = Kept(ls, cached', holds')
  BY DEF Ends, RulesFault, Idles
<1>2. /\ holds' \in [Caller -> Load \union {None}] /\ asked' \in [Caller -> Nat]
      /\ \A d \in Caller : /\ (holds'[d] = holds[d] \/ holds'[d] = None)
                           /\ (asked'[d] = asked[d] \/ (asked'[d] = 0 /\ holds'[d] = None))
  BY <1>1 DEF Types
<1>3. CASE loads' = Kept(loads, cached', holds')
  BY <1>1, <1>2, <1>3, FewerKeep DEF Types
<1>4. CASE loads' = Kept(ls, cached', holds')
  <2>1. holds[c] \in Load /\ Loaded(loads[holds[c]])
    BY <1>1 DEF HasCalculator, Types, Loaded
  <2>2. \A k \in Load :
          /\ IsLoad(ls[k])
          /\ \/ ls[k] = loads[k]
             \/ Loaded(loads[k]) /\ ls[k].state = "spent" /\ ls[k].readAt = loads[k].readAt
    BY <2>1 DEF Types, IsLoad, LoadState
  <2> HIDE DEF ls
  <2> QED
    BY <1>1, <1>2, <1>4, <2>2, FewerKeep
<1> QED
  BY <1>1, <1>3, <1>4

LEMMA RestartKeeps ==
    ASSUME IInv, Restart
    PROVE  IInv'
<1>1. Types'
  BY DEF IInv, Restart, Types, IsLoad, Unused, LoadState
<1>2. Reached'
  BY DEF Restart, Reached, Unused
<1>3. InTime'
  BY DEF IInv, Types, Restart, InTime
<1> QED
  BY <1>1, <1>2, <1>3 DEF IInv

LEMMA NextKeeps == IInv /\ [Next]_vars => IInv'
<1> SUFFICES ASSUME IInv, [Next]_vars PROVE IInv'
  OBVIOUS
<1>1. CASE UNCHANGED vars
  BY <1>1, OthersKeep DEF IInv, Types, vars
<1>2. CASE Tick
  BY <1>2, OthersKeep DEF IInv, Types, Tick
<1>3. CASE Statement
  BY <1>3, OthersKeep DEF IInv, Types, Statement
<1>4. ASSUME NEW c \in Caller, NEW row \in Row, PriceRow(c, row) PROVE IInv'
  BY <1>4, OthersKeep DEF IInv, Types, PriceRow
<1>5. ASSUME NEW r \in Rule, \/ Edit(r) \/ Retire(r) \/ Restore(r) \/ Delete(r)
                              \/ \E body \in Body : Insert(r, body)
      PROVE  Statement
  BY <1>5 DEF Edit, Retire, Restore, Update, Delete, Insert
<1> QED
  BY <1>1, <1>2, <1>3, <1>4, <1>5, CurrentKeeps, LoadReadsKeeps, LoadFailsKeeps,
     CallerEndsKeeps, RestartKeeps DEF Next

LEMMA PricingInvariant == Spec => []IInv
BY InitInv, NextKeeps, PTL DEF Spec

(* Nobody prices with rules read a ttlMs or more before it asked, and no    *)
(* failed load stays cached, whatever the order of the callers and of the   *)
(* loads (BasePriceCalculatorCache.current).                                *)
THEOREM Fresh == Spec => []RulesAreFresh
<1>1. IInv => RulesAreFresh
  BY DEF IInv, Types, Reached, InTime, RulesAreFresh, HasCalculator, Live, Loaded
<1> QED
  BY <1>1, PricingInvariant, PTL

-----------------------------------------------------------------------------
(* The table, the loads and the stored price.                               *)
USE LimitsAssumption, MaxCentsAssumption, RejectedAssumption
    DEF LimitsAssumption, MaxCentsAssumption, RejectedAssumption

RowOf(t, r) ==
    [id |-> r, priority |-> t[r].body.priority, conditions |-> t[r].body.conditions,
     event |-> t[r].body.event, active |-> t[r].active, updatedAt |-> t[r].updatedAt]

TableRow == [body : Body, active : BOOLEAN, updatedAt : 0..MaxNow]

LEMMA NoneIsNoRow == None \notin TableRow
<1>1. TableRow \subseteq [body : Body, active : BOOLEAN, updatedAt : Nat]
  BY DEF TableRow
<1> QED
  BY <1>1, NoneAssumption DEF NoneAssumption

Table == [Rule -> TableRow \union {None}]

Held(t) == {r \in Rule : t[r] # None}

Stamped(S) == \A a \in S : a.updatedAt \in 0..MaxNow

LEMMA RowsAreRules ==
    ASSUME NEW t \in Table
    PROVE  Rules(Rows(t)) /\ Stamped(Rows(t))
<1> DEFINE f == [r \in Held(t) |-> RowOf(t, r)]
<1>1. Rows(t) = {RowOf(t, r) : r \in Held(t)}
  BY DEF Rows, RowOf, Held
<1>2. IsFiniteSet(Rows(t))
  <2>1. f \in [Held(t) -> Rows(t)] /\ \A x \in Rows(t) : \E r \in Held(t) : f[r] = x
    BY <1>1
  <2>2. IsFiniteSet(Held(t))
    <3>1. Held(t) \subseteq Rule
      BY DEF Held
    <3> QED
      BY <3>1, FS_Subset, RuleAssumption DEF RuleAssumption
  <2> HIDE DEF f
  <2>3. f \in Surjection(Held(t), Rows(t))
    BY <2>1 DEF Surjection
  <2> QED
    BY <2>2, <2>3, FS_Surjection
<1>3. ASSUME NEW r \in Held(t)
      PROVE  /\ RowOf(t, r).priority \in Int /\ RowOf(t, r).event \in Event
             /\ RowOf(t, r).id = r /\ r \in Nat /\ RowOf(t, r).updatedAt \in 0..MaxNow
  <2>1. t[r] \in TableRow
    BY DEF Table, Held
  <2>2. t[r].body.priority \in Int /\ t[r].body.event \in Event
    BY <2>1, BodyAssumption DEF BodyAssumption, TableRow
  <2>3. r \in Nat
    BY RuleAssumption DEF RuleAssumption, Held
  <2> QED
    BY <2>1, <2>2, <2>3 DEF RowOf, TableRow
<1> QED
  BY <1>1, <1>2, <1>3 DEF Rules, Stamped

LEMMA ActiveTwice ==
    ASSUME NEW rows
    PROVE  Active(Active(rows)) = Active(rows)
BY DEF Active

(* Only the active rules tell the version and the price.                    *)
LEMMA OnlyActive ==
    ASSUME NEW rows
    PROVE  /\ NewestVersion(Active(rows)) = NewestVersion(rows)
           /\ \A row : Calculate(Active(rows), row) = Calculate(rows, row)
<1>1. Active(Active(rows)) = Active(rows)
  BY ActiveTwice
<1>2. NewestVersion(Active(rows)) = NewestVersion(rows)
  BY <1>1 DEF NewestVersion
<1>3. ASSUME NEW row PROVE Calculate(Active(rows), row) = Calculate(rows, row)
  <2>1. Fired(Active(rows), row) = Fired(rows, row)
    BY <1>1 DEF Fired
  <2> QED
    BY <2>1 DEF Calculate
<1> QED
  BY <1>2, <1>3

LEMMA NewestIs ==
    ASSUME NEW rows, Stamped(rows)
    PROVE  /\ NewestVersion(rows) \in 0..MaxNow
           /\ \A a \in Active(rows) : a.updatedAt <= NewestVersion(rows)
           /\ \A v \in Nat : (\A a \in Active(rows) : a.updatedAt < v) /\ 0 < v
                                => NewestVersion(rows) < v
<1> DEFINE T == {a.updatedAt : a \in Active(rows)} \union {0}
<1>1. T \in SUBSET (0..MaxNow) /\ T # {}
  BY DEF Stamped, Active
<1>2. NewestVersion(rows) = Max(T)
  BY DEF NewestVersion
<1>3. Max(T) \in T /\ \A y \in T : y <= Max(T)
  <2> HIDE DEF T
  <2> QED
    BY <1>1, MaxIs
<1> QED
  BY <1>1, <1>2, <1>3

Newest == NewestVersion(Rows(table))

(* A version is no later than the last stamp; the table's own, after a      *)
(* statement that keeps the order, stands for the table.                    *)
Tells(v, agrees) == v <= newest /\ (orderly /\ v = Newest => agrees)

LoadsTell ==
    \A l \in Load : Loaded(loads[l]) =>
        /\ Stamped(loads[l].rows)
        /\ Tells(NewestVersion(loads[l].rows), loads[l].rows = Active(Rows(table)))
        /\ Rules(loads[l].rows)

Price == [basePriceCents : 0..MaxCents, row : Row, pricingRulesVersion : 0..MaxNow]

StoredTells ==
    stored # None =>
        /\ stored \in Price
        /\ Tells(stored.pricingRulesVersion,
                 stored.basePriceCents = Calculate(Rows(table), stored.row))

Bounded ==
    /\ now \in 0..MaxNow
    /\ table \in Table
    /\ issued \in Nat
    /\ newest \in 0..MaxNow
    /\ \A r \in Held(table) : table[r].updatedAt <= newest
    /\ orderly \in BOOLEAN
    /\ \A l \in Load : loads[l].readAt \in 0..MaxNow
    /\ edits \in 0..MaxEdits
    /\ faults \in 0..MaxFaults

Truth == IInv /\ Bounded /\ LoadsTell /\ StoredTells

LEMMA InitTruth ==
    ASSUME Init
    PROVE  Truth
<1>1. IInv
  BY InitInv
<1>2. table \in Table /\ \A r \in Held(table) : table[r].updatedAt <= newest
  <2>1. \A r \in Rule : Seed[r] \in Body \union {None}
    BY SeedAssumption DEF SeedAssumption
  <2>2. ASSUME NEW r \in Rule
        PROVE  \/ table[r] = None
               \/ table[r] \in TableRow /\ table[r].updatedAt = 0
    BY <2>1 DEF Init, TableRow
  <2> QED
    BY <2>2 DEF Init, Table, Held
<1>3. issued \in Nat
  <2> DEFINE ids == {r \in Rule : Seed[r] # None} \union {0}
  <2>1. ids \in SUBSET Nat /\ ids # {} /\ IsFiniteSet(ids)
    <3>1. IsFiniteSet({r \in Rule : Seed[r] # None})
      BY FS_Subset, RuleAssumption DEF RuleAssumption
    <3>2. IsFiniteSet({0})
      BY FS_Singleton
    <3>3. IsFiniteSet(ids)
      BY <3>1, <3>2, FS_Union
    <3>4. ids \in SUBSET Nat
      BY RuleAssumption DEF RuleAssumption
    <3>5. ids # {}
      OBVIOUS
    <3> QED
      BY <3>3, <3>4, <3>5
  <2> HIDE DEF ids
  <2>2. Max(ids) \in ids
    BY <2>1, FiniteMax
  <2> QED
    BY <2>1, <2>2 DEF Init, ids
<1>4. Bounded
  BY <1>2, <1>3 DEF Init, Bounded, Unused
<1>5. LoadsTell /\ StoredTells
  BY DEF Init, LoadsTell, StoredTells, Unused, Loaded
<1> QED
  BY <1>1, <1>4, <1>5 DEF Truth

(* The loads that are left have the rows they had.                          *)
LEMMA LoadsLeftTell ==
    ASSUME Truth, UNCHANGED <<table, newest, orderly>>,
           \A l \in Load : Loaded(loads'[l]) =>
               Loaded(loads[l]) /\ loads'[l].rows = loads[l].rows
    PROVE  LoadsTell'
<1>1. Newest' = Newest /\ Rows(table)' = Rows(table)
  BY DEF Newest, Rows
<1> QED
  BY <1>1 DEF Truth, LoadsTell, Tells, Loaded

LEMMA SameStored ==
    ASSUME Truth, UNCHANGED <<table, newest, orderly, stored>>
    PROVE  StoredTells'
<1>1. Newest' = Newest /\ Rows(table)' = Rows(table)
  BY DEF Newest, Rows
<1> QED
  BY <1>1 DEF Truth, StoredTells, Tells

LEMMA KeptLoads ==
    ASSUME NEW ls, NEW entry, NEW held, NEW l \in Load
    PROVE  Kept(ls, entry, held)[l] = ls[l] \/ Kept(ls, entry, held)[l] = Unused
BY DEF Kept

(* A statement that keeps the order is ahead of every version there is; of  *)
(* a table after any other, a version says nothing.                         *)
LEMMA StatementTells ==
    ASSUME Truth, Statement, table' \in Table, issued' \in Nat, orderly' \in BOOLEAN,
           newest' \in 0..MaxNow, newest <= newest',
           \A r \in Held(table') : table'[r].updatedAt <= newest',
           orderly' => newest < Newest'
    PROVE  Bounded' /\ LoadsTell' /\ StoredTells'
<1> USE DEF Truth
<1>1. /\ edits < MaxEdits /\ edits' = edits + 1
      /\ loads' = loads /\ stored' = stored /\ now' = now /\ faults' = faults
  BY DEF Statement, cacheVars
<1>2. Held(table)' = Held(table')
  BY DEF Held
<1>3. Bounded'
  BY <1>1, <1>2 DEF Bounded
<1>4. Newest' \in Nat
  <2>1. Newest' = NewestVersion(Rows(table'))
    BY DEF Newest, Rows
  <2> QED
    BY <2>1, RowsAreRules, NewestIs
<1>5. ASSUME NEW v \in Nat, v <= newest
      PROVE  v <= newest' /\ (orderly' => v # Newest')
  BY <1>4, <1>5 DEF Bounded
<1>6. LoadsTell'
  <2>1. ASSUME NEW l \in Load, Loaded(loads[l])
        PROVE  /\ Stamped(loads[l].rows) /\ Rules(loads[l].rows)
               /\ NewestVersion(loads[l].rows) <= newest'
               /\ orderly' => NewestVersion(loads[l].rows) # Newest'
    <3>1. /\ Stamped(loads[l].rows) /\ Rules(loads[l].rows)
          /\ NewestVersion(loads[l].rows) <= newest
      BY <2>1 DEF LoadsTell, Tells
    <3>2. NewestVersion(loads[l].rows) \in Nat
      BY <3>1, NewestIs
    <3> QED
      BY <1>5, <3>1, <3>2
  <2> QED
    BY <1>1, <2>1 DEF LoadsTell, Tells, Loaded
<1>7. StoredTells'
  <2>1. ASSUME stored # None
        PROVE  /\ stored.pricingRulesVersion <= newest'
               /\ orderly' => stored.pricingRulesVersion # Newest'
    <3>1. stored.pricingRulesVersion \in Nat /\ stored.pricingRulesVersion <= newest
      BY <2>1 DEF StoredTells, Tells, Price
    <3> QED
      BY <1>5, <3>1
  <2> QED
    BY <1>1, <2>1 DEF StoredTells, Tells
<1> QED
  BY <1>3, <1>6, <1>7

LEMMA StampsTell ==
    ASSUME Truth, NEW r \in Rule, NEW body \in Body, NEW active \in BOOLEAN,
           Statement, Stamps(r, body, active), issued' \in Nat
    PROVE  Bounded' /\ LoadsTell' /\ StoredTells'
<1> USE DEF Truth
<1>1. PICK stamp \in 0..now :
          /\ table' = [table EXCEPT ![r] =
                          [body |-> body, active |-> active, updatedAt |-> stamp]]
          /\ orderly' = (active /\ newest < stamp)
          /\ newest' = IF newest < stamp THEN stamp ELSE newest
  BY DEF Stamps
<1>2. stamp \in 0..MaxNow /\ newest \in 0..MaxNow
  BY <1>1 DEF Bounded
<1>3. newest' \in 0..MaxNow /\ newest <= newest' /\ stamp <= newest' /\ orderly' \in BOOLEAN
  BY <1>1, <1>2
<1>4. /\ [body |-> body, active |-> active, updatedAt |-> stamp] \in TableRow
      /\ [body |-> body, active |-> active, updatedAt |-> stamp] # None
  <2>1. [body |-> body, active |-> active, updatedAt |-> stamp] \in TableRow
    BY <1>2 DEF TableRow
  <2> QED
    BY <2>1, NoneIsNoRow
<1>5. /\ table'[r] = [body |-> body, active |-> active, updatedAt |-> stamp]
      /\ \A s \in Rule : s # r => table'[s] = table[s]
      /\ table' \in Table
  BY <1>1, <1>4 DEF Bounded, Table
<1>6. ASSUME NEW s \in Held(table') PROVE table'[s].updatedAt <= newest'
  <2>1. CASE s = r
    BY <1>3, <1>5, <2>1
  <2>2. CASE s # r
    <3>1. s \in Held(table) /\ table'[s] = table[s] /\ table[s] \in TableRow
      BY <1>5, <2>2 DEF Held, Bounded, Table
    <3>2. table[s].updatedAt <= newest /\ table[s].updatedAt \in 0..MaxNow
      BY <3>1 DEF Bounded, TableRow
    <3> QED
      BY <1>2, <1>3, <3>1, <3>2
  <2> QED
    BY <2>1, <2>2
<1>7. ASSUME orderly' PROVE newest < Newest'
  <2>1. active /\ newest < stamp
    BY <1>1, <1>7
  <2>2. Stamped(Rows(table'))
    BY <1>5, RowsAreRules
  <2>3. RowOf(table', r) \in Active(Rows(table')) /\ RowOf(table', r).updatedAt = stamp
    <3>1. table'[r] # None /\ table'[r].active /\ table'[r].updatedAt = stamp
      BY <1>4, <1>5, <2>1
    <3>2. RowOf(table', r) \in Rows(table')
      BY <3>1 DEF Rows, RowOf
    <3> QED
      BY <3>1, <3>2 DEF Active, RowOf
  <2>4. stamp <= NewestVersion(Rows(table')) /\ NewestVersion(Rows(table')) \in Nat
    BY <2>2, <2>3, NewestIs
  <2>5. Newest' = NewestVersion(Rows(table'))
    BY DEF Newest, Rows
  <2> QED
    BY <1>2, <2>1, <2>4, <2>5
<1> QED
  BY <1>3, <1>5, <1>6, <1>7, StatementTells

LEMMA DeleteTells ==
    ASSUME Truth, NEW r \in Rule, Delete(r)
    PROVE  Bounded' /\ LoadsTell' /\ StoredTells'
<1> USE DEF Truth
<1>1. /\ Statement /\ table' = [table EXCEPT ![r] = None] /\ orderly' = FALSE
      /\ issued' = issued /\ newest' = newest
  BY DEF Delete
<1>2. /\ table'[r] = None
      /\ \A s \in Rule : s # r => table'[s] = table[s]
      /\ table' \in Table
  BY <1>1 DEF Bounded, Table
<1>3. \A s \in Held(table') : s \in Held(table) /\ table'[s] = table[s]
  BY <1>2 DEF Held
<1>4. issued' \in Nat /\ newest' \in 0..MaxNow /\ newest <= newest'
  BY <1>1 DEF Bounded
<1>5. \A s \in Held(table') : table'[s].updatedAt <= newest'
  BY <1>1, <1>3 DEF Bounded
<1> QED
  BY <1>1, <1>2, <1>4, <1>5, StatementTells

LEMMA LoadReadsTells ==
    ASSUME Truth, NEW l \in Load, LoadReads(l)
    PROVE  Bounded' /\ LoadsTell' /\ StoredTells'
<1> USE DEF Truth
<1> DEFINE rows == Active(Rows(table))
<1>1. /\ UNCHANGED <<now, table, issued, newest, orderly, edits, stored, faults>>
      /\ loads' = [loads EXCEPT ![l] = [state |-> "ready", rows |-> rows, readAt |-> now]]
  BY DEF LoadReads, tableVars
<1>2. /\ \A k \in Load : k # l => loads'[k] = loads[k]
      /\ loads'[l] = [state |-> "ready", rows |-> rows, readAt |-> now]
  BY <1>1 DEF IInv, Types
<1> HIDE DEF rows
<1>3. Bounded'
  <2>1. \A k \in Load : loads'[k].readAt \in 0..MaxNow
    BY <1>2 DEF Bounded
  <2> QED
    BY <1>1, <2>1 DEF Bounded
<1>4. Newest' = Newest /\ Rows(table)' = Rows(table)
  BY <1>1 DEF Newest, Rows
<1>5. /\ Stamped(rows) /\ Rules(rows)
      /\ NewestVersion(rows) = Newest /\ Newest <= newest
  <2>1. Rules(Rows(table)) /\ Stamped(Rows(table))
    BY RowsAreRules DEF Bounded
  <2>2. rows \in SUBSET Rows(table)
    BY DEF rows, Active
  <2>3. Rules(rows) /\ Stamped(rows)
    BY <2>1, <2>2, RulesSubset DEF Stamped
  <2>4. NewestVersion(rows) = Newest
    BY OnlyActive DEF Newest, rows
  <2>5. Newest <= newest
    <3>1. ASSUME NEW a \in Active(Rows(table)) PROVE a.updatedAt < newest + 1
      <4>1. PICK r \in Held(table) : a.updatedAt = table[r].updatedAt
        BY DEF Active, Rows, Held
      <4>2. table[r].updatedAt \in 0..MaxNow /\ table[r].updatedAt <= newest
        BY <4>1 DEF Bounded, Table, TableRow, Held
      <4> QED
        BY <4>1, <4>2 DEF Bounded
    <3>2. newest + 1 \in Nat /\ 0 < newest + 1
      BY DEF Bounded
    <3>3. Newest < newest + 1 /\ Newest \in Nat
      BY <2>1, <3>1, <3>2, NewestIs DEF Newest
    <3> QED
      BY <3>3 DEF Bounded
  <2> QED
    BY <2>3, <2>4, <2>5
<1>6. LoadsTell'
  <2> SUFFICES ASSUME NEW k \in Load, Loaded(loads'[k])
               PROVE  /\ Stamped(loads'[k].rows) /\ Rules(loads'[k].rows)
                      /\ NewestVersion(loads'[k].rows) <= newest
                      /\ orderly /\ NewestVersion(loads'[k].rows) = Newest =>
                            loads'[k].rows = Active(Rows(table))
    BY <1>1, <1>4 DEF LoadsTell, Tells, Loaded
  <2>1. CASE k = l
    <3>1. loads'[k].rows = rows
      BY <1>2, <2>1
    <3> QED
      BY <1>5, <3>1 DEF rows
  <2>2. CASE k # l
    <3>1. loads'[k] = loads[k]
      BY <1>2, <2>2
    <3> QED
      BY <3>1 DEF LoadsTell, Tells
  <2> QED
    BY <2>1, <2>2
<1>7. StoredTells'
  BY <1>1, SameStored
<1> QED
  BY <1>3, <1>6, <1>7

LEMMA PriceRowTells ==
    ASSUME Truth, NEW c \in Caller, NEW row \in Row, PriceRow(c, row)
    PROVE  Bounded' /\ LoadsTell' /\ StoredTells'
<1> USE DEF Truth
<1> DEFINE l == holds[c]
           rows == loads[l].rows
           cents == Calculate(rows, row)
<1>1. /\ UNCHANGED <<now, table, issued, newest, orderly, edits, cached, loads, faults>>
      /\ HasCalculator(c) /\ ~Refuses(l)
      /\ \E results \in Results(l, row) :
            stored' = IF Priced(results, row) = Rejected THEN stored
                      ELSE [basePriceCents |-> Priced(results, row), row |-> row,
                            pricingRulesVersion |-> NewestVersion(rows)]
  BY DEF PriceRow, tableVars, cacheVars
<1>2. l \in Load /\ Loaded(loads[l]) /\ loads[l].state # "spent"
  BY <1>1 DEF HasCalculator, Refuses, IInv, Types, Loaded
<1>3. stored' = IF cents = Rejected THEN stored
                ELSE [basePriceCents |-> cents, row |-> row,
                      pricingRulesVersion |-> NewestVersion(rows)]
  BY <1>1, <1>2 DEF Results, Calculate
<1>4. /\ Stamped(rows) /\ Rules(rows)
      /\ Tells(NewestVersion(rows), rows = Active(Rows(table)))
  BY <1>2 DEF LoadsTell
<1>5. Bounded'
  BY <1>1 DEF Bounded
<1>6. LoadsTell'
  BY <1>1, LoadsLeftTell DEF Loaded
<1>7. CASE cents = Rejected
  BY <1>1, <1>3, <1>5, <1>6, <1>7, SameStored
<1>8. CASE cents # Rejected
  <2> DEFINE S == Applying(rows, row)
             n == Cardinality(S)
             run == Fired(rows, row)
  <2>1. Rules(S) /\ Sorted(S, run)
    BY <1>4, FiredIs
  <2>2. n \in Nat /\ run \in [1..n -> S]
    BY <2>1, FS_CardinalityType DEF Rules, Sorted
  <2>3. row.cents \in 0..MaxCents
    BY RowAssumption DEF RowAssumption, VendorRow
  <2>4. cents \in 0..MaxCents
    <3> HIDE DEF run, S, n
    <3>1. PICK price : Prices(run, row, n, price) /\ Priced(run, row) = price[n]
      BY <2>2, PricedIs
    <3>2. cents = price[n] /\ n \in 0..n
      BY <2>2, <3>1 DEF Calculate, run
    <3> QED
      <4> HIDE DEF cents
      <4> QED
        BY <1>8, <2>2, <2>3, <3>1, <3>2, AlwaysInRange
  <2>5. NewestVersion(rows) \in 0..MaxNow
    BY <1>4, NewestIs
  <2>6. rows = Active(Rows(table)) => cents = Calculate(Rows(table), row)
    BY OnlyActive
  <2> HIDE DEF cents, rows, l
  <2>7. /\ stored'.basePriceCents = cents /\ stored'.row = row
        /\ stored'.pricingRulesVersion = NewestVersion(rows)
        /\ stored' \in Price
    BY <1>3, <1>8, <2>4, <2>5 DEF Price
  <2>8. Newest' = Newest /\ Rows(table)' = Rows(table) /\ orderly' = orderly
    BY <1>1 DEF Newest, Rows
  <2>9. StoredTells'
    <3>1. /\ NewestVersion(rows) <= newest /\ newest' = newest
          /\ orderly /\ NewestVersion(rows) = Newest => cents = Calculate(Rows(table), row)
      BY <1>1, <1>4, <2>6 DEF Tells
    <3> QED
      BY <2>7, <2>8, <3>1 DEF StoredTells, Tells
  <2> QED
    BY <1>5, <1>6, <2>9
<1> QED
  BY <1>7, <1>8

(* A step that reads no rules and stores no price.                          *)
LEMMA OtherTells ==
    ASSUME Truth, UNCHANGED <<tableVars, stored>>, now' \in 0..MaxNow, faults' \in 0..MaxFaults,
           \A l \in Load : /\ loads'[l].readAt \in 0..MaxNow
                           /\ Loaded(loads'[l]) =>
                                 Loaded(loads[l]) /\ loads'[l].rows = loads[l].rows
    PROVE  Bounded' /\ LoadsTell' /\ StoredTells'
<1>1. UNCHANGED <<table, issued, newest, orderly, edits, stored>>
  BY DEF tableVars
<1>2. Bounded'
  BY <1>1 DEF Truth, Bounded
<1> QED
  BY <1>1, <1>2, LoadsLeftTell, SameStored

(* What is left after some loads have gone.                                 *)
Fewer(ls) ==
    \A k \in Load : /\ ls[k].readAt \in 0..MaxNow
                    /\ Loaded(ls[k]) => Loaded(loads[k]) /\ ls[k].rows = loads[k].rows

LEMMA KeptAreFewer ==
    ASSUME NEW ls, Fewer(ls), loads' = Kept(ls, cached', holds'), NEW k \in Load
    PROVE  /\ loads'[k].readAt \in 0..MaxNow
           /\ Loaded(loads'[k]) => Loaded(loads[k]) /\ loads'[k].rows = loads[k].rows
<1>1. loads'[k] = ls[k] \/ loads'[k] = Unused
  BY KeptLoads
<1>2. Unused.readAt \in 0..MaxNow /\ ~Loaded(Unused)
  BY DEF Unused, Loaded
<1> QED
  BY <1>1, <1>2 DEF Fewer

LEMMA FaultCounts ==
    ASSUME Bounded, UNCHANGED faults \/ Fault
    PROVE  faults' \in 0..MaxFaults
BY DEF Bounded, Fault

LEMMA CurrentTells ==
    ASSUME Truth, NEW c \in Caller, Current(c)
    PROVE  Bounded' /\ LoadsTell' /\ StoredTells'
<1> USE DEF Truth
<1>1. UNCHANGED <<tableVars, stored>> /\ now' \in 0..MaxNow /\ faults' \in 0..MaxFaults
  BY DEF Current, Bounded
<1>2. CASE cached # None /\ ~Expired
  <2>1. loads' = loads
    BY <1>2 DEF Current, cacheVars
  <2> QED
    BY <1>1, <2>1, OtherTells DEF Bounded
<1>3. CASE ~(cached # None /\ ~Expired)
  <2>1. \E k \in Load : loads[k] = Unused \/
            (cached # None /\ cached.load = k /\ \A d \in Caller : holds[d] # k)
    BY OneIsFree DEF IInv
  <2>2. PICK m \in Load :
            loads' = Kept([loads EXCEPT ![m] = [Unused EXCEPT !.state = "pending"]],
                          cached', holds')
    BY <1>3, <2>1 DEF Current
  <2> DEFINE ls == [loads EXCEPT ![m] = [Unused EXCEPT !.state = "pending"]]
  <2>3. Fewer(ls)
    BY DEF Fewer, Bounded, Unused, Loaded, IInv, Types
  <2> HIDE DEF ls
  <2>4. loads' = Kept(ls, cached', holds')
    BY <2>2 DEF ls
  <2> QED
    BY <1>1, <2>3, <2>4, KeptAreFewer, OtherTells
<1> QED
  BY <1>2, <1>3

LEMMA LoadFailsTells ==
    ASSUME Truth, NEW l \in Load, LoadFails(l)
    PROVE  Bounded' /\ LoadsTell' /\ StoredTells'
<1> USE DEF Truth
<1>1. UNCHANGED <<tableVars, stored>> /\ now' \in 0..MaxNow /\ faults' \in 0..MaxFaults
  BY FaultCounts DEF LoadFails, Bounded
<1> DEFINE ls == [loads EXCEPT ![l].state = "failed"]
<1>2. Fewer(ls)
  BY DEF Fewer, Bounded, Loaded, IInv, Types, IsLoad
<1>3. loads' = Kept(ls, cached', holds')
  BY DEF LoadFails
<1> HIDE DEF ls
<1> QED
  BY <1>1, <1>2, <1>3, KeptAreFewer, OtherTells

LEMMA CallerTells ==
    ASSUME Truth, NEW c \in Caller, RulesFault(c) \/ Ends(c)
    PROVE  Bounded' /\ LoadsTell' /\ StoredTells'
<1> USE DEF Truth
<1>1. UNCHANGED <<tableVars, stored>> /\ now' \in 0..MaxNow /\ faults' \in 0..MaxFaults
  BY FaultCounts DEF RulesFault, Ends, Bounded
<1> DEFINE ls == [loads EXCEPT ![holds[c]].state = "spent"]
<1>2. Fewer(loads)
  BY DEF Fewer, Bounded
<1>3. Fewer(ls)
  <2>1. holds[c] \in Load /\ Loaded(loads[holds[c]])
    BY DEF RulesFault, Ends, HasCalculator, IInv, Types, Loaded
  <2> QED
    BY <1>2, <2>1 DEF Fewer, Loaded, IInv, Types, IsLoad
<1>4. loads' = Kept(ls, cached', holds') \/ loads' = Kept(loads, cached', holds')
  BY DEF RulesFault, Ends
<1> HIDE DEF ls
<1> QED
  BY <1>1, <1>2, <1>3, <1>4, KeptAreFewer, OtherTells

LEMMA RestartTells ==
    ASSUME Truth, Restart
    PROVE  Bounded' /\ LoadsTell' /\ StoredTells'
<1> USE DEF Truth
<1>1. UNCHANGED <<tableVars, stored>> /\ now' \in 0..MaxNow /\ faults' \in 0..MaxFaults
  BY FaultCounts DEF Restart, Bounded
<1>2. \A l \in Load : loads'[l].readAt \in 0..MaxNow /\ ~Loaded(loads'[l])
  BY DEF Restart, Unused, Loaded
<1> QED
  BY <1>1, <1>2, OtherTells

LEMMA NextTells ==
    ASSUME Truth, [Next]_vars
    PROVE  Truth'
<1>1. IInv'
  BY NextKeeps DEF Truth
<1>2. CASE UNCHANGED vars
  <2>1. UNCHANGED <<now, tableVars, loads, stored, faults>>
    BY <1>2 DEF vars, cacheVars
  <2>2. Bounded' /\ LoadsTell' /\ StoredTells'
    BY <2>1, OtherTells DEF Truth, Bounded
  <2> QED
    BY <1>1, <2>2 DEF Truth
<1>3. CASE Tick
  <2>1. UNCHANGED <<tableVars, loads, stored, faults>> /\ now' = now + 1 /\ now < MaxNow
    BY <1>3 DEF Tick, cacheVars
  <2>2. now' \in 0..MaxNow
    BY <2>1 DEF Truth, Bounded
  <2>3. Bounded' /\ LoadsTell' /\ StoredTells'
    BY <2>1, <2>2, OtherTells DEF Truth, Bounded
  <2> QED
    BY <1>1, <2>3 DEF Truth
<1>4. ASSUME NEW r \in Rule,
             \/ Edit(r) \/ Retire(r) \/ Restore(r) \/ Delete(r)
             \/ \E body \in Body : Insert(r, body)
      PROVE  Truth'
  <2>1. table[r] # None => table[r].body \in Body /\ table[r].active \in BOOLEAN
    BY DEF Truth, Bounded, Table, TableRow
  <2>2. CASE \E body \in Body, active \in BOOLEAN :
                Statement /\ Stamps(r, body, active) /\ issued' \in Nat
    BY <1>1, <2>2, StampsTell DEF Truth
  <2>3. CASE Delete(r)
    BY <1>1, <2>3, DeleteTells DEF Truth
  <2>4. CASE Edit(r) \/ Retire(r) \/ Restore(r)
    <3>1. PICK body \in Body, active \in BOOLEAN : Update(r, body, active)
      BY <2>1, <2>4 DEF Edit, Retire, Restore
    <3>2. Statement /\ Stamps(r, body, active) /\ issued' \in Nat
      BY <3>1 DEF Update, Truth, Bounded
    <3> QED
      BY <2>2, <3>2
  <2>5. CASE \E body \in Body : Insert(r, body)
    <3>1. PICK body \in Body : Insert(r, body)
      BY <2>5
    <3>2. Statement /\ Stamps(r, body, TRUE) /\ issued' \in Nat
      BY <3>1, RuleAssumption DEF Insert, RuleAssumption
    <3> QED
      BY <2>2, <3>2
  <2> QED
    BY <1>4, <2>3, <2>4, <2>5
<1>5. ASSUME NEW l \in Load, LoadReads(l) PROVE Truth'
  BY <1>1, <1>5, LoadReadsTells DEF Truth
<1>6. ASSUME NEW c \in Caller, NEW row \in Row, PriceRow(c, row) PROVE Truth'
  BY <1>1, <1>6, PriceRowTells DEF Truth
<1>7. ASSUME NEW l \in Load, LoadFails(l) PROVE Truth'
  <2>1. Bounded' /\ LoadsTell' /\ StoredTells'
    BY <1>7, LoadFailsTells
  <2> QED
    BY <1>1, <2>1 DEF Truth
<1>8. ASSUME NEW c \in Caller, Current(c) \/ RulesFault(c) \/ Ends(c) PROVE Truth'
  <2>1. Bounded' /\ LoadsTell' /\ StoredTells'
    BY <1>8, CurrentTells, CallerTells
  <2> QED
    BY <1>1, <2>1 DEF Truth
<1>9. CASE Restart
  <2>1. Bounded' /\ LoadsTell' /\ StoredTells'
    BY <1>9, RestartTells
  <2> QED
    BY <1>1, <2>1 DEF Truth
<1> QED
  BY <1>2, <1>3, <1>4, <1>5, <1>6, <1>7, <1>8, <1>9 DEF Next

LEMMA TruthAlways == Spec => []Truth
BY InitTruth, NextTells, PTL DEF Spec

(* Every variable has its type, and a stored price is one the products      *)
(* table can hold: the fold over the rules never leaves 0..MaxCents.        *)
THEOREM TypeCorrect == Spec => []TypeOK
<1>1. Truth => TypeOK
  <2> SUFFICES ASSUME Truth PROVE TypeOK
    OBVIOUS
  <2>1. cached \in [expiresAt : 0..(MaxNow + Ttl), load : Load] \union {None}
    <3> SUFFICES ASSUME cached # None
                 PROVE  cached \in [expiresAt : 0..(MaxNow + Ttl), load : Load]
      OBVIOUS
    <3>1. cached \in [expiresAt : Nat, load : Load]
      BY DEF Truth, IInv, Types
    <3>2. cached.expiresAt <= now + Ttl
      BY DEF Truth, IInv, InTime
    <3>3. now \in 0..MaxNow /\ Ttl \in Nat
      BY TimesAssumption DEF Truth, Bounded, TimesAssumption
    <3>4. cached.expiresAt \in 0..(MaxNow + Ttl)
      BY <3>1, <3>2, <3>3
    <3> QED
      BY <3>1, <3>4
  <2>2. asked \in [Caller -> 0..MaxNow]
    <3>1. asked \in [Caller -> Nat]
      BY DEF Truth, IInv, Types
    <3>2. \A c \in Caller : asked[c] \in 0..MaxNow
      BY <3>1 DEF Truth, IInv, InTime, Bounded
    <3> QED
      BY <3>1, <3>2
  <2>3. \A l \in Load : loads[l].state \in {"unused", "pending", "ready", "spent", "failed"}
                        /\ loads[l].readAt \in 0..MaxNow
    BY DEF Truth, IInv, Types, IsLoad, LoadState, Bounded
  <2> QED
    BY <2>1, <2>2, <2>3
       DEF Truth, IInv, Types, Bounded, Table, TableRow, StoredTells, Price, TypeOK
<1> QED
  BY <1>1, TruthAlways, PTL

(* After a statement that puts a rule in force and is stamped after all     *)
(* before it, a product with the table's own version has the table's own    *)
(* price, whatever went before: however stale the calculator, and whoever   *)
(* shared it.                                                               *)
THEOREM VersionIsThePrice == Spec => []VersionTellsThePrice
<1>1. Truth => VersionTellsThePrice
  <2> SUFFICES ASSUME Truth, stored # None, orderly, stored.pricingRulesVersion = Newest
               PROVE  IsBasePrice(stored.basePriceCents, Rows(table), stored.row)
    BY DEF VersionTellsThePrice, Newest
  <2>1. stored \in Price /\ stored.basePriceCents = Calculate(Rows(table), stored.row)
    BY DEF Truth, StoredTells, Tells
  <2>2. stored.row \in VendorRow /\ stored.basePriceCents \in 0..MaxCents
    BY <2>1, RowAssumption DEF RowAssumption, Price
  <2>3. Calculate(Rows(table), stored.row) # Rejected
    BY <2>1, <2>2
  <2>4. Rules(Rows(table))
    BY RowsAreRules DEF Truth, Bounded
  <2> QED
    BY <2>1, <2>2, <2>3, <2>4, EngineAgrees
<1> QED
  BY <1>1, TruthAlways, PTL

(* A shopper gets the lower of the prices on offer for what is stored,      *)
(* whatever has become of the rules.                                        *)
THEOREM LowestReachesTheShopper == Spec => []ShopperGetsTheLowest
<1>1. Truth => ShopperGetsTheLowest
  <2> SUFFICES ASSUME Truth, stored # None, NEW p \in Offer, NEW q \in Offer
               PROVE  IsLowest(Entry(Seeded, stored.basePriceCents, p, q), p, q)
    BY DEF ShopperGetsTheLowest
  <2>1. stored.basePriceCents \in Nat
    BY DEF Truth, StoredTells, Price
  <2>2. p \in Candidate /\ q \in Candidate
    BY OfferAssumption DEF OfferAssumption
  <2> QED
    BY <2>1, <2>2, LowestWins
<1> QED
  BY <1>1, TruthAlways, PTL
=============================================================================
