---------------------------- MODULE EffectivePrice ----------------------------
(***************************************************************************)
(* The price a shopper sees: EffectivePriceCalculator prices a product's   *)
(* two candidate promotions, PromotionResolver lets the promotion rules    *)
(* choose between them, and ProductPricer builds the read model's entry.   *)
(*                                                                         *)
(* The rules are the four of migration 0006, by name; a policy is the set  *)
(* of them that is active.                                                 *)
(***************************************************************************)
EXTENDS Integers, FiniteSets

CONSTANTS
    Promotion,  \* the ids of promotions
    Null        \* no candidate, no price, no promotion

ASSUME NullAssumption == Null \notin Int

FullDiscount == 10000

Candidate == [id : Promotion, discountType : STRING, value : Int] \union {Null}

(***************************************************************************)
(* EffectivePriceCalculator.                                               *)
(***************************************************************************)
Priceable(base, promotion) ==
    /\ promotion # Null
    /\ promotion.discountType \in {"percentage", "fixed"}
    /\ base >= 0
    /\ promotion.value > 0
    /\ promotion.discountType = "percentage" => promotion.value <= FullDiscount

DiscountCents(base, promotion) ==
    IF promotion.discountType = "percentage"
      THEN (base * promotion.value) \div FullDiscount
      ELSE promotion.value

(* A discount larger than the price is a free product.                      *)
EffectiveCents(base, promotion) ==
    IF DiscountCents(base, promotion) > base THEN 0 ELSE base - DiscountCents(base, promotion)

(* A candidate that cannot be priced is absent.                             *)
CandidateCents(base, promotion) ==
    IF Priceable(base, promotion) THEN EffectiveCents(base, promotion) ELSE Null

(***************************************************************************)
(* PromotionResolver.                                                      *)
(***************************************************************************)
Seeded ==
    {[name |-> "product-only",         priority |-> 30, level |-> "product"],
     [name |-> "category-only",        priority |-> 25, level |-> "category"],
     [name |-> "lower-price-product",  priority |-> 20, level |-> "product"],
     [name |-> "lower-price-category", priority |-> 15, level |-> "category"]}

\* Mutant: a tie is nobody's.
Matches_StrictTie(rule, product, category) ==
    /\ product # Null /\ category # Null
    /\ rule.name \in {"lower-price-product", "lower-price-category"}
    /\ IF rule.level = "product" THEN product < category ELSE category < product

(* The conditions of a rule, over the prices of the two candidates.         *)
Matches(rule, product, category) ==
    \/ rule.name = "product-only" /\ product # Null /\ category = Null
    \/ rule.name = "category-only" /\ product = Null /\ category # Null
    \/ /\ product # Null /\ category # Null
       /\ \/ rule.name = "lower-price-product" /\ product <= category
          \/ rule.name = "lower-price-category" /\ category < product

(* The level of the matching rule with the highest priority.                *)
Select(policy, product, category) ==
    LET results == {rule \in policy : Matches(rule, product, category)}
    IN  IF results = {} THEN Null
        ELSE (CHOOSE rule \in results :
                 \A other \in results : other.priority <= rule.priority).level

(***************************************************************************)
(* ProductPricer: the prices and the promotion of an entry.                *)
(***************************************************************************)
Entry(policy, base, productPromotion, categoryPromotion) ==
    LET product  == CandidateCents(base, productPromotion)
        category == CandidateCents(base, categoryPromotion)
        level    == Select(policy, product, category)
    IN  IF level = "product" /\ product # Null
          THEN [base |-> base, effective |-> product, promotion |-> productPromotion.id]
        ELSE IF level = "category" /\ category # Null
          THEN [base |-> base, effective |-> category, promotion |-> categoryPromotion.id]
        ELSE [base |-> base, effective |-> base, promotion |-> Null]

-----------------------------------------------------------------------------
(* What the rules of migration 0006 are there for: the lower of the prices  *)
(* the two candidates give, named after its promotion, or else the base     *)
(* price and no name.                                                       *)
IsLowest(entry, p, q) ==
    LET product  == CandidateCents(entry.base, p)
        category == CandidateCents(entry.base, q)
    IN  /\ entry.effective \in 0..entry.base
        /\ \A cents \in {product, category} \ {Null} : entry.effective <= cents
        /\ \/ product # Null /\ entry.effective = product /\ entry.promotion = p.id
           \/ category # Null /\ entry.effective = category /\ entry.promotion = q.id
           \/ /\ product = Null /\ category = Null
              /\ entry.effective = entry.base /\ entry.promotion = Null
=============================================================================
