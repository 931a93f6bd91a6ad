--------------------------- MODULE ReadModelProofs ---------------------------
(***************************************************************************)
(* Proofs about ReadModel, for any number of products, any categories, any *)
(* workers and drivers, any page size, lead and bounds: the sorted sets    *)
(* and the entries agree, an inversion needs overlapping reads, the        *)
(* storefront opens on a whole model, and nothing stale is forgotten.      *)
(***************************************************************************)
EXTENDS ReadModel, FiniteSetTheorems, WellFoundedInduction, TLAPS

USE SizesAssumption, ProcAssumption
    DEF SizesAssumption, ProcAssumption

-----------------------------------------------------------------------------
(* Every non-empty set of natural numbers has a least element, and every    *)
(* non-empty set of products a largest.                                     *)
Below == {p \in Nat \X Nat : p[1] < p[2]}

LEMMA LeastNat ==
    ASSUME NEW T \in SUBSET Nat, T # {}
    PROVE  \E x \in T : \A y \in T : x <= y
<1>1. OpToRel(<, Nat) = Below
  BY DEF OpToRel, Below
<1>2. IsWellFoundedOn(Below, Nat)
  BY <1>1, NatLessThanWellFounded
<1>3. PICK x \in T : \A y \in T : <<y, x>> \notin Below
  BY <1>2, WFMin
<1>4. ASSUME NEW y \in T PROVE x <= y
  <2>1. <<y, x>> \in Nat \X Nat /\ <<y, x>>[1] = y /\ <<y, x>>[2] = x
    OBVIOUS
  <2>2. ~(y < x)
    BY <1>3, <2>1 DEF Below
  <2> QED
    BY <2>2
<1> QED
  BY <1>4

LEMMA LargestOf ==
    ASSUME NEW S \in SUBSET Product, S # {}
    PROVE  Largest(S) \in S /\ \A q \in S : q <= Largest(S)
<1>1. PICK n \in {Products - p : p \in S} : \A m \in {Products - p : p \in S} : n <= m
  <2>1. ASSUME NEW p \in S PROVE Products - p \in Nat
    BY DEF Product
  <2>2. {Products - p : p \in S} \in SUBSET Nat /\ {Products - p : p \in S} # {}
    BY <2>1
  <2> QED
    BY <2>2, LeastNat
<1>2. PICK p \in S : n = Products - p
  BY <1>1
<1>3. \A q \in S : q <= p
  <2> SUFFICES ASSUME NEW q \in S PROVE q <= p
    OBVIOUS
  <2>1. Products - p <= Products - q
    BY <1>1, <1>2
  <2> QED
    BY <2>1 DEF Product
<1> QED
  BY <1>3 DEF Largest

LEMMA Counted ==
    ASSUME NEW S \in SUBSET Product
    PROVE  Cardinality(S) \in Nat
<1>1. IsFiniteSet(Product)
  BY FS_Interval DEF Product
<1> QED
  BY <1>1, FS_Subset, FS_CardinalityType

(* The types, store by store. *)
PgTypes ==
    /\ rows \in [Product -> Row]
    /\ deleted \in SUBSET Product
    /\ clock \in Nat /\ changed \in [Product -> Nat]
    /\ owed \in SUBSET Product
    /\ queue \in SUBSET (SUBSET Product)
    /\ faults \in Nat /\ flushes \in Nat

RedisTypes ==
    /\ token \in [Product -> Tokens \union {None}]
    /\ entry \in [Product -> Entries \union {None}]
    /\ scored \in [Category -> Scores]
    /\ listed \in Scores
    /\ ready \in BOOLEAN

ProcTypes ==
    /\ pc \in [Proc -> {"idle", "read", "stamp", "write"}]
    /\ ids \in [Proc -> SUBSET Product]
    /\ snap \in [Proc -> [Product -> Row]]
    /\ readAt \in [Proc -> Nat]
    /\ stamp \in [Proc -> Nat]
    /\ todo \in [Proc -> SUBSET Product]

TaskTypes ==
    /\ task \in [Driver -> Tasks]
    /\ target \in [Driver -> Category \union {NoCategory}]
    /\ after \in [Driver -> Nat]
    /\ handled \in [Driver -> SUBSET Product]
    /\ left \in [Driver -> SUBSET Product]
    /\ expected \in [Driver -> [Category -> Nat]]
    /\ unchecked \in [Driver -> SUBSET Category]
    /\ atStart \in [Driver -> SUBSET Product]

LEMMA Types == TypeOK <=> PgTypes /\ RedisTypes /\ ProcTypes /\ TaskTypes
BY DEF TypeOK, PgTypes, RedisTypes, ProcTypes, TaskTypes

LEMMA InitTypes == Init => TypeOK
<1> SUFFICES ASSUME Init PROVE TypeOK
  OBVIOUS
<1>1. PgTypes
  BY DEF Init, PgTypes, Row, NoRow
<1>2. RedisTypes
  BY DEF Init, RedisTypes, Scores
<1>3. ProcTypes
  BY DEF Init, ProcTypes, Row, NoRow
<1>4. TaskTypes
  BY DEF Init, TaskTypes, Tasks, NoCounts
<1> QED
  BY <1>1, <1>2, <1>3, <1>4, Types

-----------------------------------------------------------------------------
(* Every step keeps the types, store by store. *)
LEMMA PgKeepsTypes ==
    ASSUME TypeOK, Next
    PROVE  PgTypes'
<1> USE DEF PgTypes, pgVars, boundVars, Fault
<1>0. PgTypes
  BY Types
<1>1. CASE Tick
  BY <1>0, <1>1 DEF Tick
<1>2. ASSUME NEW p \in Product, NEW c \in Category, Commit(p, c) PROVE PgTypes'
  BY <1>0, <1>2 DEF Commit, Row
<1>3. ASSUME NEW p \in Product, Delete(p) PROVE PgTypes'
  BY <1>0, <1>3 DEF Delete, Row
<1>4. ASSUME NEW p \in Product, LoseAnnouncement(p) PROVE PgTypes'
  BY <1>0, <1>4 DEF LoseAnnouncement
<1>5. ASSUME NEW S \in SUBSET Product, Announce(S) PROVE PgTypes'
  BY <1>0, <1>5 DEF Announce
<1>6. ASSUME NEW x \in Proc, Recompute(x) PROVE PgTypes'
  BY <1>0, <1>6 DEF Recompute, ReadRows, TakeStamp, Write, Remove, Recomputed
<1>7. ASSUME NEW h \in Handler, HandlerFails(h) PROVE PgTypes'
  <2>1. ids[h] \in SUBSET Product
    BY Types DEF ProcTypes, Proc
  <2> QED
    BY <1>0, <1>7, <2>1 DEF HandlerFails
<1>8. ASSUME NEW h \in Handler, NEW S \in SUBSET Product, Take(h, S) PROVE PgTypes'
  BY <1>0, <1>8 DEF Take
<1>9. ASSUME NEW d \in Driver,
             Rebuild(d) \/ DriftCheck(d) \/ RebuildOnBoot(d) \/ RebuildAsked(d) \/ DriverFails(d)
      PROVE  PgTypes'
  <2>1. ASSUME Rebuild(d) PROVE UNCHANGED <<pgVars, owed, queue, boundVars>>
    BY <2>1
       DEF Rebuild, NextPage, DropOrphans, LeftPage, ScanBegins, Publish, LeftBegins,
           CategoryRebuilt, Compare, DriftChecked
  <2>2. ASSUME DriftCheck(d) \/ RebuildOnBoot(d)
        PROVE  UNCHANGED <<pgVars, owed, queue, boundVars>>
    BY <2>2 DEF DriftCheck, RebuildOnBoot, StartsAll
  <2>3. ASSUME RebuildAsked(d) \/ DriverFails(d)
        PROVE  UNCHANGED <<pgVars, owed, queue, flushes>> /\ faults' = faults + 1
    BY <2>3 DEF RebuildAsked, StartsAll, DriverFails
  <2> QED
    BY <1>0, <1>9, <2>1, <2>2, <2>3
<1>10. CASE Flush
  BY <1>0, <1>10 DEF Flush
<1> QED
  BY <1>1, <1>2, <1>3, <1>4, <1>5, <1>6, <1>7, <1>8, <1>9, <1>10 DEF Next, Writers

(* The sets stay sets of scores when a product moves between them. *)
LEMMA MovedTypes ==
    ASSUME RedisTypes, NEW p \in Product, NEW c, NEW score \in Nat \union {None},
           Moved(p, c, score)
    PROVE  scored' \in [Category -> Scores]
<1>1. scored \in [Category -> [Product -> Nat \union {None}]]
  BY DEF RedisTypes, Scores
<1> QED
  BY <1>1 DEF Moved, Scores

LEMMA WriteTypes ==
    ASSUME TypeOK, NEW x \in Proc, NEW p \in Product, Write(x, p)
    PROVE  RedisTypes'
<1> SUFFICES ASSUME Newer(p, stamp[x]), WriteEntry(p, snap[x][p], stamp[x], readAt[x]),
                    ready' = ready
             PROVE  RedisTypes'
  BY Types DEF RedisTypes, Write, redisVars
<1>1. /\ snap[x][p] \in Row /\ stamp[x] \in Nat /\ readAt[x] \in Nat
      /\ snap[x][p].category # NoCategory
  BY Types DEF ProcTypes, Write, Found
<1>2. snap[x][p].category \in Category /\ snap[x][p].version \in Nat
  BY <1>1 DEF Row
<1>3. scored' \in [Category -> Scores]
  BY <1>2, Types, MovedTypes DEF WriteEntry
<1>4. token' \in [Product -> Tokens \union {None}]
  BY <1>1, <1>2, Types DEF WriteEntry, RedisTypes, Tokens
<1>5. entry' \in [Product -> Entries \union {None}]
  BY <1>1, <1>2, Types DEF WriteEntry, RedisTypes, Entries
<1>6. listed' \in Scores
  BY <1>1, <1>2, Types DEF WriteEntry, RedisTypes, Scores
<1> QED
  BY <1>3, <1>4, <1>5, <1>6, Types DEF RedisTypes

LEMMA RemoveTypes ==
    ASSUME TypeOK, NEW x \in Proc, NEW p \in Product, Remove(x, p)
    PROVE  RedisTypes'
<1> SUFFICES ASSUME Newer(p, stamp[x]), RemoveEntry(p, stamp[x]), ready' = ready
             PROVE  RedisTypes'
  BY Types DEF RedisTypes, Remove, redisVars
<1>1. stamp[x] \in Nat
  BY Types DEF ProcTypes
<1>2. scored' \in [Category -> Scores]
  BY Types, MovedTypes DEF RemoveEntry
<1>3. token' \in [Product -> Tokens \union {None}]
  BY <1>1, Types DEF RemoveEntry, RedisTypes, Tokens
<1>4. entry' \in [Product -> Entries \union {None}] /\ listed' \in Scores
  BY Types DEF RemoveEntry, RedisTypes, Scores
<1> QED
  BY <1>2, <1>3, <1>4, Types DEF RedisTypes

LEMMA RedisKeepsTypes ==
    ASSUME TypeOK, Next
    PROVE  RedisTypes'
<1>0. RedisTypes
  BY Types
<1>1. ASSUME NEW x \in Proc, NEW p \in Product, Write(x, p) \/ Remove(x, p) PROVE RedisTypes'
  BY <1>1, WriteTypes, RemoveTypes
<1>2. CASE Flush
  BY <1>2 DEF Flush, RedisTypes, Scores
<1>3. ASSUME NEW d \in Driver, Publish(d) PROVE RedisTypes'
  BY <1>0, <1>3 DEF Publish, RedisTypes
<1>4. CASE UNCHANGED redisVars
  BY <1>0, <1>4 DEF redisVars, RedisTypes
<1>5. ASSUME NEW x \in Proc, Recompute(x),
             ~ \E p \in Product : Write(x, p) \/ Remove(x, p)
      PROVE  UNCHANGED redisVars
  BY <1>5 DEF Recompute, ReadRows, TakeStamp, Recomputed
<1>6. ASSUME NEW d \in Driver, ~Publish(d),
             Rebuild(d) \/ DriftCheck(d) \/ RebuildOnBoot(d) \/ RebuildAsked(d) \/ DriverFails(d)
      PROVE  UNCHANGED redisVars
  BY <1>6
     DEF Rebuild, NextPage, DropOrphans, LeftPage, ScanBegins, LeftBegins,
         CategoryRebuilt, Compare, DriftChecked, DriftCheck, RebuildOnBoot, RebuildAsked,
         StartsAll, DriverFails
<1>7. ASSUME NEW h \in Handler, HandlerFails(h) \/ \E S \in SUBSET Product : Take(h, S)
      PROVE  UNCHANGED redisVars
  BY <1>7 DEF HandlerFails, Take
<1>8. CASE Tick \/ Writers
  BY <1>4, <1>8 DEF Tick, Writers, Delete, LoseAnnouncement, Commit, Announce
<1> QED
  BY <1>1, <1>2, <1>3, <1>4, <1>5, <1>6, <1>7, <1>8 DEF Next

LEMMA ProcKeepsTypes ==
    ASSUME TypeOK, Next
    PROVE  ProcTypes'
<1> USE DEF ProcTypes, procVars
<1>0. ProcTypes
  BY Types
<1>1. CASE UNCHANGED procVars
  BY <1>0, <1>1
<1>2. ASSUME NEW x \in Proc, Ends(x) PROVE ProcTypes'
  BY <1>0, <1>2 DEF Ends, NoRow, Row
<1>3. ASSUME NEW x \in Proc, NEW S \in SUBSET Product, Begins(x, S) PROVE ProcTypes'
  BY <1>0, <1>3 DEF Begins
<1>4. ASSUME NEW x \in Proc, ReadRows(x) PROVE ProcTypes'
  <2>1. [p \in Product |-> IF p \in ids[x] THEN rows[p] ELSE NoRow] \in [Product -> Row]
    BY Types DEF PgTypes, NoRow, Row
  <2> QED
    BY <1>0, <1>4, <2>1, Types DEF ReadRows, PgTypes
<1>5. ASSUME NEW x \in Proc, TakeStamp(x) PROVE ProcTypes'
  BY <1>0, <1>5, Types DEF TakeStamp, PgTypes
<1>6. ASSUME NEW x \in Proc, NEW p \in Product, Write(x, p) \/ Remove(x, p) PROVE ProcTypes'
  BY <1>0, <1>6 DEF Write, Remove
<1>7. ASSUME NEW x \in Proc, Recompute(x) PROVE ProcTypes'
  BY <1>2, <1>4, <1>5, <1>6, <1>7 DEF Recompute, Recomputed
<1>8. ASSUME NEW h \in Handler, HandlerFails(h) \/ \E S \in SUBSET Product : Take(h, S)
      PROVE  ProcTypes'
  <2>1. h \in Proc
    BY DEF Proc
  <2> QED
    BY <1>2, <1>3, <1>8, <2>1 DEF HandlerFails, Take
<1>9. ASSUME NEW d \in Driver,
             Rebuild(d) \/ DriftCheck(d) \/ RebuildOnBoot(d) \/ RebuildAsked(d) \/ DriverFails(d)
      PROVE  ProcTypes'
  <2>1. d \in Proc
    BY DEF Proc
  <2>2. ASSUME NEW P \in SUBSET Product, NextPage(d, P) \/ DropOrphans(d, P) \/ LeftPage(d, P)
        PROVE  ProcTypes'
    <3>1. CASE NextPage(d, P) \/ LeftPage(d, P)
      BY <1>3, <2>1, <3>1 DEF NextPage, LeftPage
    <3>2. CASE DropOrphans(d, P)
      <4>1. {p \in P : ~Live(p)} \in SUBSET Product
        OBVIOUS
      <4> QED
        BY <1>1, <1>3, <2>1, <3>2, <4>1 DEF DropOrphans
    <3> QED
      BY <2>2, <3>1, <3>2
  <2>3. ASSUME \/ ScanBegins(d) \/ Publish(d) \/ LeftBegins(d) \/ CategoryRebuilt(d)
               \/ (\E c \in Category : Compare(d, c)) \/ DriftChecked(d)
        PROVE  ProcTypes'
    BY <1>1, <2>3 DEF ScanBegins, Publish, LeftBegins, CategoryRebuilt, Compare, DriftChecked
  <2>4. ASSUME DriftCheck(d) \/ RebuildOnBoot(d) \/ RebuildAsked(d) PROVE ProcTypes'
    BY <1>1, <2>4 DEF DriftCheck, RebuildOnBoot, RebuildAsked, StartsAll
  <2>5. ASSUME DriverFails(d) PROVE ProcTypes'
    BY <1>2, <2>1, <2>5 DEF DriverFails
  <2> QED
    BY <1>9, <2>2, <2>3, <2>4, <2>5 DEF Rebuild
<1>10. CASE Tick \/ Writers \/ Flush
  BY <1>1, <1>10 DEF Tick, Writers, Delete, LoseAnnouncement, Commit, Announce, Flush
<1> QED
  BY <1>7, <1>8, <1>9, <1>10 DEF Next

LEMMA TaskKeepsTypes ==
    ASSUME TypeOK, Next
    PROVE  TaskTypes'
<1> USE DEF TaskTypes, taskVars, Tasks
<1>0. TaskTypes
  BY Types
<1>1. CASE UNCHANGED taskVars
  BY <1>0, <1>1
<1>2. CASE Tick \/ Writers \/ Flush
  BY <1>1, <1>2 DEF Tick, Writers, Delete, LoseAnnouncement, Commit, Announce, Flush
<1>3. ASSUME NEW x \in Proc, Recompute(x) PROVE TaskTypes'
  BY <1>1, <1>3 DEF Recompute, ReadRows, TakeStamp, Write, Remove, Recomputed
<1>4. ASSUME NEW h \in Handler, HandlerFails(h) \/ \E S \in SUBSET Product : Take(h, S)
      PROVE  TaskTypes'
  BY <1>1, <1>4 DEF HandlerFails, Take
<1>5. ASSUME NEW d \in Driver, RebuildOnBoot(d) \/ RebuildAsked(d) PROVE TaskTypes'
  <2>1. CASE StartsAll(d)
    BY <1>0, <2>1 DEF StartsAll
  <2>2. ASSUME NEW c \in Category, StartsCategory(d, c),
               UNCHANGED <<left, expected, unchecked, atStart>>
        PROVE  TaskTypes'
    BY <1>0, <2>2 DEF StartsCategory
  <2> QED
    BY <1>5, <2>1, <2>2 DEF RebuildOnBoot, RebuildAsked
<1>6. ASSUME NEW d \in Driver, DriverFails(d) PROVE TaskTypes'
  BY <1>0, <1>6 DEF DriverFails, NoCounts
<1>7. ASSUME NEW d \in Driver, DriftCheck(d) PROVE TaskTypes'
  <2>1. \A c \in Category : Count(c) \in Nat
    BY Counted DEF Count
  <2> QED
    BY <1>0, <1>7, <2>1 DEF DriftCheck
<1>8. ASSUME NEW d \in Driver, NEW P \in SUBSET Product, NextPage(d, P) PROVE TaskTypes'
  <2>1. /\ UNCHANGED <<task, target, left, expected, unchecked, atStart>>
        /\ after' = [after EXCEPT ![d] = Largest(P)]
        /\ handled' = [handled EXCEPT ![d] = IF task[d] = "category" THEN @ \union P ELSE @]
        /\ P # {}
    BY <1>8 DEF NextPage
  <2>2. after' \in [Driver -> Nat]
    <3>1. Largest(P) \in Product
      BY <2>1, LargestOf
    <3>2. Largest(P) \in Nat
      BY <3>1 DEF Product
    <3> QED
      BY <1>0, <2>1, <3>2
  <2>3. handled' \in [Driver -> SUBSET Product]
    BY <1>0, <2>1
  <2> QED
    BY <1>0, <2>1, <2>2, <2>3
<1>9. ASSUME NEW d \in Driver, NEW P \in SUBSET Product, DropOrphans(d, P) \/ LeftPage(d, P)
      PROVE  TaskTypes'
  BY <1>0, <1>9 DEF DropOrphans, LeftPage
<1>10. ASSUME NEW d \in Driver, ScanBegins(d) \/ LeftBegins(d) PROVE TaskTypes'
  <2>1. /\ {p \in Product : entry[p] # None} \in SUBSET Product
        /\ Members(target[d]) \ handled[d] \in SUBSET Product
    BY DEF Members
  <2>2. CASE ScanBegins(d)
    BY <1>0, <2>1, <2>2 DEF ScanBegins
  <2>3. CASE LeftBegins(d)
    BY <1>0, <2>1, <2>3 DEF LeftBegins
  <2> QED
    BY <1>10, <2>2, <2>3
<1>11. ASSUME NEW d \in Driver, Publish(d) \/ CategoryRebuilt(d) \/ DriftChecked(d)
       PROVE  TaskTypes'
  <2>1. CASE Publish(d)
    BY <1>0, <2>1 DEF Publish
  <2>2. CASE CategoryRebuilt(d)
    BY <1>0, <2>2 DEF CategoryRebuilt
  <2>3. CASE DriftChecked(d)
    BY <1>0, <2>3 DEF DriftChecked, NoCounts
  <2> QED
    BY <1>11, <2>1, <2>2, <2>3
<1>12. ASSUME NEW d \in Driver, NEW c \in Category, Compare(d, c) PROVE TaskTypes'
  <2>1. /\ left' = left /\ expected' = expected /\ atStart' = atStart
        /\ unchecked' = [unchecked EXCEPT ![d] = @ \ {c}]
        /\ StartsCategory(d, c) \/ UNCHANGED <<task, target, after, handled>>
    BY <1>12 DEF Compare
  <2>2. unchecked' \in [Driver -> SUBSET Category]
    BY <1>0, <2>1
  <2>3. CASE StartsCategory(d, c)
    BY <1>0, <2>1, <2>2, <2>3 DEF StartsCategory
  <2>4. CASE UNCHANGED <<task, target, after, handled>>
    BY <1>0, <2>1, <2>2, <2>4
  <2> QED
    BY <2>1, <2>3, <2>4
<1>13. ASSUME NEW d \in Driver, Rebuild(d) PROVE TaskTypes'
  BY <1>8, <1>9, <1>10, <1>11, <1>12, <1>13 DEF Rebuild
<1> QED
  BY <1>2, <1>3, <1>4, <1>5, <1>6, <1>7, <1>13 DEF Next

(* Every step keeps the types. *)
LEMMA TypeStep == TypeOK /\ [Next]_vars => TypeOK'
<1> SUFFICES ASSUME TypeOK, [Next]_vars PROVE TypeOK'
  OBVIOUS
<1>1. CASE Next
  <2>1. PgTypes' /\ RedisTypes' /\ ProcTypes' /\ TaskTypes'
    BY <1>1, PgKeepsTypes, RedisKeepsTypes, ProcKeepsTypes, TaskKeepsTypes
  <2> QED
    BY <2>1 DEF TypeOK, PgTypes, RedisTypes, ProcTypes, TaskTypes
<1>2. CASE UNCHANGED vars
  BY <1>2 DEF vars, pgVars, redisVars, procVars, taskVars, boundVars, TypeOK
<1> QED
  BY <1>1, <1>2

(* Every variable keeps its type, whatever handlers, writers and drivers do *)
(* (ProductSourceRepository, ProductWriteRepository).                       *)
THEOREM TypeCorrect == Spec => []TypeOK
  BY InitTypes, TypeStep, PTL DEF Spec

-----------------------------------------------------------------------------
(* The sorted sets and the entries.  Only a write, a removal and a flush    *)
(* change Redis, and each of them keeps the three structures of a product   *)
(* in agreement whatever the others are doing.                              *)
RedisStands == UNCHANGED <<token, entry, scored, listed>>

LEMMA RedisStep ==
    ASSUME Next
    PROVE  \/ RedisStands
           \/ \E x \in Proc, p \in Product : Write(x, p) \/ Remove(x, p)
           \/ Flush
<1> USE DEF RedisStands, redisVars
<1>1. CASE Tick \/ Writers
  BY <1>1 DEF Tick, Writers, Delete, LoseAnnouncement, Commit, Announce
<1>2. ASSUME NEW x \in Proc, Recompute(x),
             ~ \E p \in Product : Write(x, p) \/ Remove(x, p)
      PROVE  RedisStands
  BY <1>2 DEF Recompute, ReadRows, TakeStamp, Recomputed
<1>3. ASSUME NEW h \in Handler, HandlerFails(h) \/ \E S \in SUBSET Product : Take(h, S)
      PROVE  RedisStands
  BY <1>3 DEF HandlerFails, Take
<1>4. ASSUME NEW d \in Driver, Rebuild(d) PROVE RedisStands
  BY <1>4
     DEF Rebuild, NextPage, DropOrphans, LeftPage, ScanBegins, Publish, LeftBegins,
         CategoryRebuilt, Compare, DriftChecked
<1>5. ASSUME NEW d \in Driver,
             DriftCheck(d) \/ RebuildOnBoot(d) \/ RebuildAsked(d) \/ DriverFails(d)
      PROVE  RedisStands
  BY <1>5 DEF DriftCheck, RebuildOnBoot, RebuildAsked, StartsAll, DriverFails
<1> QED
  BY <1>1, <1>2, <1>3, <1>4, <1>5 DEF Next

(* A script touches one product. *)
LEMMA OthersStand ==
    ASSUME TypeOK, NEW x \in Proc, NEW p \in Product, Write(x, p) \/ Remove(x, p),
           NEW q \in Product, q # p
    PROVE  /\ entry'[q] = entry[q] /\ token'[q] = token[q] /\ listed'[q] = listed[q]
           /\ \A c \in Category : scored'[c][q] = scored[c][q]
<1>1. RedisTypes /\ scored \in [Category -> [Product -> Nat \union {None}]]
  BY Types DEF RedisTypes, Scores
<1>2. CASE RedisStands
  BY <1>2 DEF RedisStands
<1>3. CASE Write(x, p) /\ ~RedisStands
  <2>1. WriteEntry(p, snap[x][p], stamp[x], readAt[x])
    BY <1>3 DEF Write, RedisStands
  <2>2. entry'[q] = entry[q] /\ token'[q] = token[q] /\ listed'[q] = listed[q]
    BY <1>1, <2>1 DEF WriteEntry, RedisTypes, Scores
  <2>3. \A c \in Category : scored'[c][q] = scored[c][q]
    BY <1>1, <2>1 DEF WriteEntry, Moved
  <2> QED
    BY <2>2, <2>3
<1>4. CASE Remove(x, p) /\ ~RedisStands
  <2>1. RemoveEntry(p, stamp[x])
    BY <1>4 DEF Remove, RedisStands
  <2>2. entry'[q] = entry[q] /\ token'[q] = token[q] /\ listed'[q] = listed[q]
    BY <1>1, <2>1 DEF RemoveEntry, RedisTypes, Scores
  <2>3. \A c \in Category : scored'[c][q] = scored[c][q]
    BY <1>1, <2>1 DEF RemoveEntry, Moved
  <2> QED
    BY <2>2, <2>3
<1> QED
  BY <1>2, <1>3, <1>4

(* What a write that is not refused leaves behind: the product's own entry  *)
(* and its own score in one set.                                            *)
LEMMA Written ==
    ASSUME TypeOK, NEW x \in Proc, NEW p \in Product, Write(x, p), ~RedisStands
    PROVE  /\ Newer(p, stamp[x])
           /\ snap[x][p].category \in Category
           /\ entry'[p] = [category |-> snap[x][p].category, version |-> snap[x][p].version,
                           at |-> stamp[x], readAt |-> readAt[x]]
           /\ token'[p] = [category |-> snap[x][p].category, at |-> stamp[x]]
           /\ listed'[p] = snap[x][p].version
           /\ entry'[p] # None /\ token'[p] # None
           /\ scored'[snap[x][p].category][p] = snap[x][p].version
           /\ \A c \in Category : c # snap[x][p].category =>
                 scored'[c][p] = IF c = WasCategory(p) THEN None ELSE scored[c][p]
<1>1. Newer(p, stamp[x]) /\ WriteEntry(p, snap[x][p], stamp[x], readAt[x])
  BY DEF Write, RedisStands
<1>2. /\ snap[x][p] \in Row /\ stamp[x] \in Nat /\ readAt[x] \in Nat
      /\ snap[x][p].category # NoCategory
  BY Types DEF ProcTypes, Write, Found
<1>3. snap[x][p].category \in Category /\ snap[x][p].version \in Nat
  BY <1>2 DEF Row
<1>4. RedisTypes
  BY Types
<1>5. /\ entry'[p] = [category |-> snap[x][p].category, version |-> snap[x][p].version,
                      at |-> stamp[x], readAt |-> readAt[x]]
      /\ token'[p] = [category |-> snap[x][p].category, at |-> stamp[x]]
      /\ listed'[p] = snap[x][p].version
  BY <1>1, <1>4 DEF WriteEntry, RedisTypes, Scores
<1>6. entry'[p] # None /\ token'[p] # None
  BY <1>2, <1>3, <1>5, DistinctAssumption DEF DistinctAssumption
<1>7. /\ scored'[snap[x][p].category][p] = snap[x][p].version
      /\ \A c \in Category : c # snap[x][p].category =>
            scored'[c][p] = IF c = WasCategory(p) THEN None ELSE scored[c][p]
  <2>1. scored \in [Category -> [Product -> Nat \union {None}]]
    BY <1>4 DEF RedisTypes, Scores
  <2> QED
    BY <1>1, <1>3, <2>1 DEF WriteEntry, Moved
<1> QED
  BY <1>1, <1>3, <1>5, <1>6, <1>7

(* What a removal leaves behind: a tombstone, and the product listed        *)
(* nowhere.                                                                 *)
LEMMA Removed ==
    ASSUME TypeOK, NEW x \in Proc, NEW p \in Product, Remove(x, p), ~RedisStands
    PROVE  /\ entry'[p] = None
           /\ token'[p] = [category |-> NoCategory, at |-> stamp[x]]
           /\ listed'[p] = None
           /\ token'[p] # None
           /\ \A c \in Category :
                 scored'[c][p] = IF c = WasCategory(p) THEN None ELSE scored[c][p]
<1>1. RemoveEntry(p, stamp[x])
  BY DEF Remove, RedisStands
<1>2. RedisTypes /\ stamp[x] \in Nat
  BY Types DEF ProcTypes
<1>3. /\ entry'[p] = None
      /\ token'[p] = [category |-> NoCategory, at |-> stamp[x]]
      /\ listed'[p] = None
  BY <1>1, <1>2 DEF RemoveEntry, RedisTypes, Scores
<1>4. token'[p] # None
  BY <1>2, <1>3, DistinctAssumption DEF DistinctAssumption
<1>5. \A c \in Category :
            scored'[c][p] = IF c = NoCategory THEN None
                            ELSE IF c = WasCategory(p) THEN None ELSE scored[c][p]
  <2>1. scored \in [Category -> [Product -> Nat \union {None}]]
    BY <1>2 DEF RedisTypes, Scores
  <2> QED
    BY <1>1, <2>1 DEF RemoveEntry, Moved
<1>6. \A c \in Category : c # NoCategory
  BY DistinctAssumption DEF DistinctAssumption
<1> QED
  BY <1>3, <1>4, <1>5, <1>6

(* A product listed where it belongs, on its own. *)
ListedRight(p) ==
    IF entry[p] = None
      THEN /\ WasCategory(p) = NoCategory
           /\ listed[p] = None
           /\ \A c \in Category : scored[c][p] = None
      ELSE /\ token[p] = [category |-> entry[p].category, at |-> entry[p].at]
           /\ listed[p] = entry[p].version
           /\ \A c \in Category : scored[c][p] =
                  IF c = entry[p].category THEN entry[p].version ELSE None

LEMMA ListedIsRight == ListedWhereItBelongs <=> \A p \in Product : ListedRight(p)
  BY DEF ListedWhereItBelongs, ListedRight

(* Before a write or a removal, only the set its token names has p.         *)
LEMMA OnlyInItsSet ==
    ASSUME TypeOK, NEW p \in Product, ListedRight(p), NEW c \in Category, c # WasCategory(p)
    PROVE  scored[c][p] = None
<1>1. CASE entry[p] = None
  BY <1>1 DEF ListedRight
<1>2. CASE entry[p] # None
  <2>1. entry[p] \in Entries /\ token[p] \in Tokens \union {None}
    BY <1>2, Types DEF RedisTypes
  <2>2. token[p] = [category |-> entry[p].category, at |-> entry[p].at]
    BY <1>2 DEF ListedRight
  <2>3. token[p] # None
    BY <2>1, <2>2, DistinctAssumption DEF DistinctAssumption, Entries
  <2>4. WasCategory(p) = entry[p].category
    BY <2>2, <2>3 DEF WasCategory
  <2> QED
    BY <1>2, <2>4 DEF ListedRight
<1> QED
  BY <1>1, <1>2

LEMMA ListedStep ==
    ASSUME TypeOK, ListedWhereItBelongs, [Next]_vars
    PROVE  ListedWhereItBelongs'
<1> SUFFICES ASSUME NEW q \in Product PROVE ListedRight(q)'
  BY ListedIsRight DEF ListedWhereItBelongs, ListedRight
<1>0. ListedRight(q)
  BY ListedIsRight
<1>1. ASSUME /\ entry'[q] = entry[q] /\ token'[q] = token[q] /\ listed'[q] = listed[q]
             /\ \A c \in Category : scored'[c][q] = scored[c][q]
      PROVE  ListedRight(q)'
  BY <1>0, <1>1 DEF ListedRight, WasCategory
<1>2. ASSUME NEW x \in Proc, NEW p \in Product, Write(x, p), ~RedisStands
      PROVE  ListedRight(q)'
  <2>1. CASE q # p
    <3>1. /\ entry'[q] = entry[q] /\ token'[q] = token[q] /\ listed'[q] = listed[q]
          /\ \A c \in Category : scored'[c][q] = scored[c][q]
      BY <1>2, <2>1, OthersStand
    <3> QED
      BY <1>1, <3>1
  <2>2. ListedRight(p)'
    <3>1. /\ entry'[p] # None
          /\ entry'[p] = [category |-> snap[x][p].category, version |-> snap[x][p].version,
                          at |-> stamp[x], readAt |-> readAt[x]]
          /\ token'[p] = [category |-> snap[x][p].category, at |-> stamp[x]]
          /\ listed'[p] = snap[x][p].version
      BY <1>2, Written
    <3>2. /\ scored'[snap[x][p].category][p] = snap[x][p].version
          /\ \A c \in Category : c # snap[x][p].category =>
                scored'[c][p] = IF c = WasCategory(p) THEN None ELSE scored[c][p]
      BY <1>2, Written
    <3>3. \A c \in Category : c # WasCategory(p) => scored[c][p] = None
      BY ListedIsRight, OnlyInItsSet
    <3>4. \A c \in Category :
              scored'[c][p] = IF c = snap[x][p].category THEN snap[x][p].version ELSE None
      BY <3>2, <3>3
    <3> QED
      BY <3>1, <3>4 DEF ListedRight
  <2> QED
    BY <2>1, <2>2
<1>3. ASSUME NEW x \in Proc, NEW p \in Product, Remove(x, p), ~RedisStands
      PROVE  ListedRight(q)'
  <2>1. CASE q # p
    <3>1. /\ entry'[q] = entry[q] /\ token'[q] = token[q] /\ listed'[q] = listed[q]
          /\ \A c \in Category : scored'[c][q] = scored[c][q]
      BY <1>3, <2>1, OthersStand
    <3> QED
      BY <1>1, <3>1
  <2>2. ListedRight(p)'
    <3>1. /\ entry'[p] = None /\ listed'[p] = None
          /\ token'[p] # None /\ token'[p] = [category |-> NoCategory, at |-> stamp[x]]
      BY <1>3, Removed
    <3>2. \A c \in Category :
              scored'[c][p] = IF c = WasCategory(p) THEN None ELSE scored[c][p]
      BY <1>3, Removed
    <3>3. \A c \in Category : c # WasCategory(p) => scored[c][p] = None
      BY ListedIsRight, OnlyInItsSet
    <3>4. \A c \in Category : scored'[c][p] = None
      BY <3>2, <3>3
    <3> QED
      BY <3>1, <3>4 DEF ListedRight, WasCategory
  <2> QED
    BY <2>1, <2>2
<1>4. CASE Flush
  BY <1>4 DEF Flush, ListedRight, WasCategory
<1>5. CASE RedisStands
  BY <1>1, <1>5 DEF RedisStands
<1>6. CASE UNCHANGED vars
  BY <1>5, <1>6 DEF vars, redisVars, RedisStands
<1> QED
  BY <1>2, <1>3, <1>4, <1>5, <1>6, RedisStep

LEMMA InitListed == Init => ListedWhereItBelongs
  BY DEF Init, ListedWhereItBelongs, WasCategory

(* The sets and the entries always agree: what a shopper finds in a         *)
(* category's listing is the product itself, at the same price (the Lua     *)
(* scripts of ProductWriteRepository).                                      *)
THEOREM ListingsAgree == Spec => []ListedWhereItBelongs
<1>1. TypeOK /\ ListedWhereItBelongs /\ [Next]_vars => TypeOK' /\ ListedWhereItBelongs'
  BY TypeStep, ListedStep
<1> QED
  BY <1>1, InitTypes, InitListed, PTL DEF Spec

-----------------------------------------------------------------------------
(* The inductive invariant, part by part.  Ids PostgreSQL has handed out.   *)
Inserted == {p \in Product : rows[p].version > 0}

(* A row that is gone was deleted, and stays so.                            *)
RowsInv ==
    /\ \A p \in Product : Live(p) => p \in Inserted /\ p \notin deleted
    /\ \A p \in Inserted : ~Live(p) => p \in deleted

(* No announcement, task or recompute names an id before it is inserted.    *)
KnownInv ==
    /\ owed \subseteq Inserted
    /\ \A S \in queue : S \subseteq Inserted
    /\ \A x \in Proc : ids[x] \subseteq Inserted
    /\ \A d \in Driver :
          /\ left[d] \subseteq Inserted /\ atStart[d] \subseteq Inserted
          /\ task[d] \in {"category", "left"} => target[d] \in Category

(* What a recompute has read was so: a version the row has reached, and a   *)
(* row missing only where it was deleted.                                   *)
SnapInv ==
    \A x \in Proc :
        /\ pc[x] \in {"stamp", "write"} =>
              /\ readAt[x] <= clock
              /\ \A p \in ids[x] : /\ snap[x][p].version <= rows[p].version
                                   /\ snap[x][p].category = NoCategory => p \in deleted
        /\ pc[x] = "write" => /\ readAt[x] <= stamp[x] /\ stamp[x] <= clock
                              /\ todo[x] \subseteq ids[x]

(* So was what an entry shows; and a row that was ever written and is there *)
(* still has an entry.                                                      *)
EntryInv ==
    \A p \in Product :
        /\ entry[p] # None => /\ p \in Inserted
                              /\ entry[p].version <= rows[p].version
                              /\ entry[p].readAt <= entry[p].at
                              /\ entry[p].at <= clock
        /\ token[p] # None /\ entry[p] = None => p \in deleted

(* Who reads after another one's stamp reads no older version.              *)
OrderInv ==
    \A x \in Proc : pc[x] \in {"stamp", "write"} =>
        \A p \in ids[x] :
            /\ entry[p] # None /\ entry[p].at < readAt[x] => entry[p].version <= snap[x][p].version
            /\ \A y \in Proc : pc[y] = "write" /\ p \in ids[y] /\ stamp[y] < readAt[x] =>
                  snap[y][p].version <= snap[x][p].version

(* A full rebuild has entries behind its cursor, or has them in hand.       *)
InHand(d) ==
    IF pc[d] = "write" THEN todo[d] ELSE IF pc[d] = "idle" THEN {} ELSE ids[d]

PageInv ==
    flushes = 0 =>
        \A d \in Driver : \A p \in atStart[d] : Live(p) =>
            /\ task[d] = "all" /\ p <= after[d] => entry[p] # None \/ p \in InHand(d)
            /\ task[d] = "scan" => entry[p] # None


(* All of it: no part is inductive without the others. *)
Strong ==
    /\ TypeOK /\ ListedWhereItBelongs
    /\ RowsInv /\ KnownInv /\ SnapInv /\ EntryInv /\ OrderInv /\ PageInv

-----------------------------------------------------------------------------
(* A step as the other parts see it.  PostgreSQL moves on: *)
MovesOn ==
    /\ UNCHANGED <<procVars, taskVars, flushes>> /\ RedisStands
    /\ clock <= clock' /\ clock' \in Nat
    /\ \A p \in Product :
          /\ rows'[p] \in Row
          /\ rows[p].version <= rows'[p].version
          /\ Live(p)' => rows'[p].version > 0 /\ p \notin deleted'
          /\ rows'[p].version > 0 /\ ~Live(p)' => p \in deleted'
    /\ deleted \subseteq deleted'
    /\ \A p \in owed' : p \in owed \/ rows'[p].version > 0
    /\ \A S \in queue' : S \in queue \/ S \subseteq owed

PgStands == UNCHANGED <<rows, deleted, clock, changed, owed, flushes>>

(* a process drops its recompute, which a driver at work does only when     *)
(* nothing of it is left to do;                                             *)
Stops(x) ==
    /\ PgStands /\ RedisStands /\ Ends(x)
    /\ \A S \in queue' : S \in queue \/ S = ids[x]
    /\ \A d \in Driver :
          \/ /\ d # x \/ (pc[d] = "write" /\ todo[d] = {})
             /\ task'[d] = task[d] /\ target'[d] = target[d] /\ after'[d] = after[d]
             /\ left'[d] = left[d] /\ atStart'[d] = atStart[d]
          \/ task'[d] = "idle" /\ left'[d] = {} /\ atStart'[d] = {}

(* it begins one, of products that are known, and a full rebuild one that   *)
(* leaves out none of those its cursor passes;                              *)
Starts(x, S) ==
    /\ PgStands /\ RedisStands /\ Begins(x, S)
    /\ pc[x] = "idle" /\ S \subseteq Inserted
    /\ queue' \subseteq queue /\ queue \subseteq queue' \union {S}
    /\ UNCHANGED <<task, target, atStart>>
    /\ \A d \in Driver :
          /\ left'[d] \subseteq left[d]
          /\ task[d] = "all" => \A p \in Product :
                 Live(p) /\ p <= after'[d] => p <= after[d] \/ (d = x /\ p \in S)

(* or a driver's task goes on, a scan only from a cursor that has passed    *)
(* every row.                                                               *)
GoesOn ==
    /\ PgStands /\ RedisStands /\ UNCHANGED <<queue, procVars>>
    /\ \A d \in Driver :
          /\ left'[d] \subseteq Inserted /\ atStart'[d] \subseteq Inserted
          /\ task'[d] \in {"category", "left"} => target'[d] \in Category
          /\ task'[d] = "all" =>
                \/ after'[d] = 0
                \/ task[d] = "all" /\ after'[d] = after[d] /\ atStart'[d] = atStart[d]
          /\ task'[d] = "scan" =>
                /\ atStart'[d] = atStart[d]
                /\ \/ task[d] = "scan"
                   \/ /\ task[d] = "all" /\ pc[d] = "idle"
                      /\ \A p \in Product : Live(p) => p <= after[d]

LEMMA WritersMoveOn ==
    ASSUME TypeOK, RowsInv, KnownInv, Tick \/ Writers
    PROVE  MovesOn
<1> USE DEF pgVars, redisVars, boundVars, RedisStands, Inserted, RowsInv, Live
<1>0. PgTypes
  BY Types
<1>1. CASE Tick
  BY <1>0, <1>1 DEF Tick, MovesOn, PgTypes, Row
<1>2. ASSUME NEW p \in Product, Delete(p) PROVE MovesOn
  BY <1>0, <1>2 DEF Delete, MovesOn, PgTypes, Row
<1>3. ASSUME NEW p \in Product, LoseAnnouncement(p) PROVE MovesOn
  BY <1>0, <1>3 DEF LoseAnnouncement, MovesOn, PgTypes, Row
<1>4. ASSUME NEW p \in Product, NEW c \in Category, Commit(p, c) PROVE MovesOn
  BY <1>0, <1>4, DistinctAssumption DEF Commit, MovesOn, PgTypes, Row, DistinctAssumption
<1>5. ASSUME NEW S \in SUBSET Product, Announce(S) PROVE MovesOn
  BY <1>0, <1>5 DEF Announce, MovesOn, PgTypes, Row
<1> QED
  BY <1>1, <1>2, <1>3, <1>4, <1>5 DEF Writers

LEMMA RecomputedStops ==
    ASSUME NEW x \in Proc, Recomputed(x)
    PROVE  Stops(x)
  BY DEF Recomputed, Stops, PgStands, RedisStands, pgVars, redisVars, boundVars, taskVars

LEMMA HandlerFailsStops ==
    ASSUME TypeOK, NEW h \in Handler, HandlerFails(h)
    PROVE  Stops(h)
<1>1. \A d \in Driver : d # h
  OBVIOUS
<1> QED
  BY <1>1 DEF HandlerFails, Stops, PgStands, RedisStands, pgVars, redisVars, taskVars

LEMMA DriverFailsStops ==
    ASSUME TypeOK, NEW d \in Driver, DriverFails(d)
    PROVE  Stops(d)
<1>1. TaskTypes
  BY Types
<1> QED
  BY <1>1 DEF DriverFails, Stops, PgStands, RedisStands, pgVars, redisVars, TaskTypes

LEMMA TakeStarts ==
    ASSUME TypeOK, KnownInv, NEW h \in Handler, NEW S \in SUBSET Product, Take(h, S)
    PROVE  Starts(h, S)
  BY DEF Take, Starts, PgStands, RedisStands, pgVars, redisVars, boundVars, taskVars, KnownInv

LEMMA NextPageStarts ==
    ASSUME TypeOK, RowsInv, KnownInv, NEW d \in Driver, NEW P \in SUBSET Product, NextPage(d, P)
    PROVE  Starts(d, P)
<1> DEFINE beyond == Beyond(Source(d), after[d])
<1>1. /\ P # {} /\ P \subseteq beyond
      /\ \A p \in P, q \in beyond \ P : p < q
  BY DEF NextPage, Pages
<1>2. Largest(P) \in P /\ after' = [after EXCEPT ![d] = Largest(P)]
  BY <1>1, LargestOf DEF NextPage
<1>3. P \subseteq Inserted
  <2>1. CASE task[d] = "all"
    BY <1>1, <2>1 DEF Beyond, Source, RowsInv
  <2>2. CASE task[d] = "category"
    <3>1. target[d] # NoCategory
      BY <2>2, DistinctAssumption DEF KnownInv, DistinctAssumption
    <3> QED
      BY <1>1, <2>2, <3>1 DEF Beyond, Source, RowsInv, Live
  <2> QED
    BY <2>1, <2>2 DEF NextPage
<1>4. ASSUME NEW e \in Driver, task[e] = "all", NEW p \in Product, Live(p), p <= after'[e]
      PROVE  p <= after[e] \/ (e = d /\ p \in P)
  <2>1. after \in [Driver -> Nat]
    BY Types DEF TaskTypes
  <2>2. CASE e # d
    BY <1>2, <1>4, <2>1, <2>2
  <2>3. CASE e = d /\ ~(p <= after[e])
    <3>1. Largest(P) \in Product /\ after[d] \in Nat
      BY <1>2, <2>1
    <3> HIDE DEF beyond
    <3>2. p > after[d] /\ p \in Nat /\ Largest(P) \in Nat
      BY <2>3, <3>1 DEF Product
    <3>3. p \in beyond
      BY <1>4, <2>3, <3>2 DEF beyond, Beyond, Source
    <3>4. p <= Largest(P)
      BY <1>2, <1>4, <2>1, <2>3
    <3> QED
      BY <1>1, <1>2, <2>3, <3>2, <3>3, <3>4
  <2> QED
    BY <2>2, <2>3
<1> QED
  BY <1>3, <1>4
     DEF NextPage, Starts, PgStands, RedisStands, pgVars, redisVars, boundVars

LEMMA LeftPageStarts ==
    ASSUME TypeOK, KnownInv, NEW d \in Driver, NEW P \in SUBSET Product, LeftPage(d, P)
    PROVE  Starts(d, P)
<1>1. P \subseteq Inserted
  BY DEF LeftPage, KnownInv
<1>2. \A e \in Driver : left'[e] \subseteq left[e]
  BY Types DEF LeftPage, TaskTypes
<1> QED
  BY <1>1, <1>2 DEF LeftPage, Starts, PgStands, RedisStands, pgVars, redisVars, boundVars

LEMMA DropOrphansStarts ==
    ASSUME TypeOK, KnownInv, NEW d \in Driver, NEW P \in SUBSET Product, DropOrphans(d, P)
    PROVE  GoesOn \/ \E S \in SUBSET Product : Starts(d, S)
<1>1. P \subseteq Inserted
  BY DEF DropOrphans, KnownInv
<1>2. \A e \in Driver : left'[e] \subseteq left[e]
  BY Types DEF DropOrphans, TaskTypes
<1> USE DEF PgStands, RedisStands, pgVars, redisVars, boundVars
<1>3. CASE {p \in P : ~Live(p)} = {}
  BY <1>2, <1>3 DEF DropOrphans, GoesOn, KnownInv
<1>4. CASE {p \in P : ~Live(p)} # {}
  <2>1. Begins(d, {p \in P : ~Live(p)})
    BY <1>4 DEF DropOrphans
  <2>2. Starts(d, {p \in P : ~Live(p)})
    BY <1>1, <1>2, <2>1 DEF DropOrphans, Starts
  <2> QED
    BY <2>2
<1> QED
  BY <1>3, <1>4

(* What Redis lists was inserted. *)
LEMMA ListedIsInserted ==
    ASSUME ListedWhereItBelongs, EntryInv
    PROVE  /\ \A c \in Category : Members(c) \subseteq Inserted
           /\ \A p \in Product : entry[p] # None => p \in Inserted
  BY DEF ListedWhereItBelongs, EntryInv, Members

LEMMA TasksGoOn ==
    ASSUME TypeOK, ListedWhereItBelongs, EntryInv, RowsInv, KnownInv, NEW d \in Driver,
           \/ ScanBegins(d) \/ Publish(d) \/ LeftBegins(d) \/ CategoryRebuilt(d)
           \/ \E c \in Category : Compare(d, c)
           \/ DriftChecked(d) \/ DriftCheck(d) \/ RebuildOnBoot(d) \/ RebuildAsked(d)
    PROVE  GoesOn
<1> USE DEF PgStands, RedisStands, pgVars, redisVars, boundVars
<1>0. TaskTypes
  BY Types
<1>1. CASE ScanBegins(d)
  <2>1. \A p \in Product : Live(p) => p <= after[d]
    <3>1. after[d] \in Nat
      BY <1>0 DEF TaskTypes
    <3> QED
      BY <1>1, <3>1 DEF ScanBegins, LastPage, Source, Beyond, Product
  <2> QED
    BY <1>0, <1>1, <2>1, ListedIsInserted
       DEF ScanBegins, LastPage, GoesOn, KnownInv, TaskTypes
<1>2. CASE Publish(d)
  BY <1>0, <1>2 DEF Publish, GoesOn, KnownInv, TaskTypes
<1>3. CASE LeftBegins(d)
  <2>1. target[d] \in Category
    BY <1>3 DEF LeftBegins, KnownInv
  <2>2. Members(target[d]) \subseteq Inserted
    BY <2>1, ListedIsInserted
  <2> QED
    BY <1>0, <1>3, <2>1, <2>2 DEF LeftBegins, GoesOn, KnownInv, TaskTypes
<1>4. CASE CategoryRebuilt(d)
  BY <1>0, <1>4 DEF CategoryRebuilt, GoesOn, KnownInv, TaskTypes
<1>5. ASSUME NEW c \in Category, Compare(d, c) PROVE GoesOn
  BY <1>0, <1>5 DEF Compare, StartsCategory, GoesOn, KnownInv, TaskTypes
<1>6. CASE DriftChecked(d) \/ DriftCheck(d)
  BY <1>0, <1>6 DEF DriftChecked, DriftCheck, GoesOn, KnownInv, TaskTypes
<1>7. ASSUME StartsAll(d), UNCHANGED flushes PROVE GoesOn
  <2>1. {p \in Product : Live(p)} \subseteq Inserted
    BY DEF RowsInv
  <2> QED
    BY <1>0, <1>7, <2>1 DEF StartsAll, GoesOn, KnownInv, TaskTypes
<1>8. ASSUME RebuildAsked(d), ~StartsAll(d) PROVE GoesOn
  BY <1>0, <1>8 DEF RebuildAsked, StartsCategory, GoesOn, KnownInv, TaskTypes
<1> QED
  BY <1>1, <1>2, <1>3, <1>4, <1>5, <1>6, <1>7, <1>8 DEF RebuildOnBoot, RebuildAsked

(* Every step is one of these, one of a recompute's own, or a flush. *)
LEMMA Steps ==
    ASSUME Strong, Next
    PROVE  \/ MovesOn
           \/ \E x \in Proc : ReadRows(x) \/ TakeStamp(x) \/ Stops(x)
           \/ \E x \in Proc, p \in Product : Write(x, p) \/ Remove(x, p)
           \/ \E x \in Proc, S \in SUBSET Product : Starts(x, S)
           \/ GoesOn
           \/ Flush
<1> USE DEF Strong
<1>1. CASE Tick \/ Writers
  BY <1>1, WritersMoveOn
<1>2. ASSUME NEW x \in Proc, Recompute(x)
      PROVE  \/ ReadRows(x) \/ TakeStamp(x) \/ Stops(x)
             \/ \E p \in Product : Write(x, p) \/ Remove(x, p)
  BY <1>2, RecomputedStops DEF Recompute
<1>3. Handler \subseteq Proc /\ Driver \subseteq Proc
  BY DEF Proc
<1>4. ASSUME NEW h \in Handler, HandlerFails(h) \/ \E S \in SUBSET Product : Take(h, S)
      PROVE  Stops(h) \/ \E S \in SUBSET Product : Starts(h, S)
  BY <1>4, HandlerFailsStops, TakeStarts
<1>5. ASSUME NEW d \in Driver, Rebuild(d)
      PROVE  GoesOn \/ \E S \in SUBSET Product : Starts(d, S)
  BY <1>5, NextPageStarts, LeftPageStarts, DropOrphansStarts, TasksGoOn DEF Rebuild
<1>6. ASSUME NEW d \in Driver, DriftCheck(d) \/ RebuildOnBoot(d) \/ RebuildAsked(d)
      PROVE  GoesOn
  BY <1>6, TasksGoOn
<1>7. ASSUME NEW d \in Driver, DriverFails(d) PROVE Stops(d)
  BY <1>7, DriverFailsStops
<1> QED
  BY <1>1, <1>2, <1>3, <1>4, <1>5, <1>6, <1>7 DEF Next

-----------------------------------------------------------------------------
(* Each part of the invariant, kept by each kind of step. *)

(* Where PostgreSQL stands still, nothing about its rows changes.           *)
LEMMA RowsStep ==
    ASSUME Strong, Next
    PROVE  RowsInv'
<1> USE DEF Strong
<1>1. CASE MovesOn
  BY <1>1 DEF MovesOn, RowsInv, Inserted
<1>2. ASSUME UNCHANGED <<rows, deleted>> PROVE RowsInv'
  BY <1>2 DEF RowsInv, Inserted, Live
<1> QED
  BY <1>1, <1>2, Steps
     DEF ReadRows, TakeStamp, Write, Remove, Flush, Stops, Starts, GoesOn, PgStands, pgVars

LEMMA KnownStep ==
    ASSUME Strong, Next
    PROVE  KnownInv'
<1> USE DEF Strong
<1>0. ProcTypes /\ KnownInv
  BY Types
<1>1. CASE MovesOn
  <2>1. Inserted \subseteq Inserted'
    BY <1>1, Types DEF MovesOn, Inserted, PgTypes, Row
  <2>2. owed' \subseteq Inserted'
    BY <1>1, <2>1, Types, TypeStep DEF MovesOn, KnownInv, Inserted, TypeOK
  <2>3. \A S \in queue' : S \subseteq Inserted'
    BY <1>1, <2>1 DEF MovesOn, KnownInv
  <2> QED
    BY <1>1, <2>1, <2>2, <2>3 DEF MovesOn, KnownInv, procVars, taskVars
<1>2. ASSUME NEW x \in Proc, Stops(x) PROVE KnownInv'
  <2>1. Inserted' = Inserted /\ owed' = owed
    BY <1>2 DEF Stops, PgStands, Inserted
  <2>2. \A S \in queue' : S \subseteq Inserted
    BY <1>0, <1>2 DEF Stops, KnownInv
  <2>3. \A y \in Proc : ids'[y] \subseteq Inserted
    BY <1>0, <1>2 DEF Stops, Ends, ProcTypes, KnownInv
  <2>4. \A d \in Driver :
           /\ left'[d] \subseteq Inserted /\ atStart'[d] \subseteq Inserted
           /\ task'[d] \in {"category", "left"} => target'[d] \in Category
    BY <1>0, <1>2 DEF Stops, KnownInv
  <2> QED
    BY <1>0, <2>1, <2>2, <2>3, <2>4 DEF KnownInv
<1>3. ASSUME NEW x \in Proc, NEW S \in SUBSET Product, Starts(x, S) PROVE KnownInv'
  <2>1. Inserted' = Inserted /\ owed' = owed
    BY <1>3 DEF Starts, PgStands, Inserted
  <2>2. \A y \in Proc : ids'[y] \subseteq Inserted
    BY <1>0, <1>3 DEF Starts, Begins, ProcTypes, KnownInv
  <2> QED
    BY <1>0, <1>3, <2>1, <2>2 DEF Starts, KnownInv
<1>4. CASE GoesOn
  <2>1. Inserted' = Inserted /\ owed' = owed
    BY <1>4 DEF GoesOn, PgStands, Inserted
  <2> QED
    BY <1>0, <1>4, <2>1 DEF GoesOn, procVars, KnownInv
<1>5. ASSUME UNCHANGED <<rows, owed, queue, ids, taskVars>> PROVE KnownInv'
  BY <1>0, <1>5 DEF KnownInv, Inserted, taskVars
<1> QED
  BY <1>1, <1>2, <1>3, <1>4, <1>5, Steps
     DEF ReadRows, TakeStamp, Write, Remove, Flush, pgVars, procVars

(* One process's part of SnapInv. *)
SnapOf(x) ==
    /\ pc[x] \in {"stamp", "write"} =>
          /\ readAt[x] <= clock
          /\ \A p \in ids[x] : /\ snap[x][p].version <= rows[p].version
                               /\ snap[x][p].category = NoCategory => p \in deleted
    /\ pc[x] = "write" => /\ readAt[x] <= stamp[x] /\ stamp[x] <= clock
                          /\ todo[x] \subseteq ids[x]

LEMMA SnapOfEach == SnapInv <=> \A x \in Proc : SnapOf(x)
  BY DEF SnapInv, SnapOf

LEMMA SnapStep ==
    ASSUME Strong, Next
    PROVE  SnapInv'
<1> USE DEF Strong
<1> SUFFICES ASSUME NEW y \in Proc PROVE SnapOf(y)'
  BY DEF SnapInv, SnapOf
<1>0. ProcTypes /\ PgTypes /\ SnapOf(y) /\ KnownInv /\ RowsInv
  BY Types, SnapOfEach
<1>1. CASE MovesOn
  <2>1. /\ clock <= clock' /\ clock \in Nat /\ clock' \in Nat
        /\ deleted \subseteq deleted'
        /\ \A p \in Product : /\ rows[p].version \in Nat /\ rows'[p].version \in Nat
                              /\ rows[p].version <= rows'[p].version
    BY <1>0, <1>1 DEF MovesOn, PgTypes, Row
  <2>2. /\ readAt[y] \in Nat /\ stamp[y] \in Nat /\ ids[y] \subseteq Product
        /\ \A p \in Product : snap[y][p].version \in Nat
    BY <1>0 DEF ProcTypes, Row
  <2>3. /\ pc'[y] = pc[y] /\ ids'[y] = ids[y] /\ snap'[y] = snap[y]
        /\ readAt'[y] = readAt[y] /\ stamp'[y] = stamp[y] /\ todo'[y] = todo[y]
    BY <1>1 DEF MovesOn, procVars
  <2> QED
    BY <1>0, <2>1, <2>2, <2>3 DEF SnapOf
<1>2. ASSUME NEW x \in Proc, ReadRows(x) PROVE SnapOf(y)'
  <2>1. CASE y # x
    BY <1>0, <1>2, <2>1 DEF ReadRows, SnapOf, ProcTypes, pgVars
  <2>2. CASE y = x
    <3>1. /\ pc'[x] = "stamp" /\ readAt'[x] = clock /\ ids'[x] = ids[x]
          /\ \A p \in ids[x] : snap'[x][p] = rows[p]
          /\ UNCHANGED <<rows, deleted, clock>>
      BY <1>0, <1>2 DEF ReadRows, ProcTypes, pgVars
    <3>2. ids[x] \subseteq Inserted
      BY <1>0 DEF KnownInv
    <3>3. \A p \in ids[x] : rows[p].category = NoCategory => p \in deleted
      BY <1>0, <3>2 DEF RowsInv, Live
    <3>4. clock <= clock /\ \A p \in ids[x] : rows[p].version <= rows[p].version
      BY <1>0, <3>2 DEF PgTypes, Inserted, Row
    <3> QED
      BY <2>2, <3>1, <3>3, <3>4 DEF SnapOf
  <2> QED
    BY <2>1, <2>2
<1>3. ASSUME NEW x \in Proc, TakeStamp(x) PROVE SnapOf(y)'
  <2>1. CASE y # x
    BY <1>0, <1>3, <2>1 DEF TakeStamp, SnapOf, ProcTypes, pgVars
  <2>2. CASE y = x
    <3>1. /\ pc[x] = "stamp" /\ pc'[x] = "write" /\ stamp'[x] = clock /\ todo'[x] = ids[x]
          /\ UNCHANGED <<rows, deleted, clock, ids, snap, readAt>>
      BY <1>0, <1>3 DEF TakeStamp, ProcTypes, pgVars
    <3> QED
      BY <1>0, <2>2, <3>1 DEF SnapOf, PgTypes
  <2> QED
    BY <2>1, <2>2
<1>4. ASSUME NEW x \in Proc, NEW p \in Product, Write(x, p) \/ Remove(x, p) PROVE SnapOf(y)'
  <2>1. /\ todo'[y] \subseteq todo[y]
        /\ UNCHANGED <<rows, deleted, clock, pc, ids, snap, readAt, stamp>>
    BY <1>0, <1>4 DEF Write, Remove, ProcTypes, pgVars
  <2> QED
    BY <1>0, <2>1 DEF SnapOf
<1>5. ASSUME NEW x \in Proc, Stops(x) PROVE SnapOf(y)'
  BY <1>0, <1>5 DEF Stops, Ends, PgStands, SnapOf, ProcTypes
<1>6. ASSUME NEW x \in Proc, NEW S \in SUBSET Product, Starts(x, S) PROVE SnapOf(y)'
  BY <1>0, <1>6 DEF Starts, Begins, PgStands, SnapOf, ProcTypes
<1>7. CASE GoesOn \/ Flush
  BY <1>0, <1>7 DEF GoesOn, Flush, PgStands, SnapOf, pgVars, procVars
<1> QED
  BY <1>1, <1>2, <1>3, <1>4, <1>5, <1>6, <1>7, Steps

(* One product's part of EntryInv. *)
EntryOf(p) ==
    /\ entry[p] # None => /\ p \in Inserted
                          /\ entry[p].version <= rows[p].version
                          /\ entry[p].readAt <= entry[p].at
                          /\ entry[p].at <= clock
    /\ token[p] # None /\ entry[p] = None => p \in deleted

LEMMA EntryStep ==
    ASSUME Strong, Next
    PROVE  EntryInv'
<1> USE DEF Strong
<1> SUFFICES ASSUME NEW q \in Product PROVE EntryOf(q)'
  BY DEF EntryInv, EntryOf
<1>0. ProcTypes /\ PgTypes /\ RedisTypes /\ EntryOf(q)
  BY Types DEF EntryInv, EntryOf
<1>1. CASE MovesOn
  <2>1. /\ clock <= clock' /\ clock \in Nat /\ clock' \in Nat
        /\ deleted \subseteq deleted'
        /\ rows[q].version \in Nat /\ rows'[q].version \in Nat
        /\ rows[q].version <= rows'[q].version
        /\ entry'[q] = entry[q] /\ token'[q] = token[q]
    BY <1>0, <1>1 DEF MovesOn, PgTypes, Row, RedisStands
  <2>2. entry[q] # None => entry[q].version \in Nat /\ entry[q].at \in Nat
    BY <1>0 DEF RedisTypes, Entries
  <2> QED
    BY <1>0, <2>1, <2>2 DEF EntryOf, Inserted
<1>2. ASSUME UNCHANGED <<rows, deleted, clock>>, entry'[q] = entry[q], token'[q] = token[q]
      PROVE  EntryOf(q)'
  BY <1>0, <1>2 DEF EntryOf, Inserted
<1>3. ASSUME NEW x \in Proc, NEW p \in Product, Write(x, p), ~RedisStands PROVE EntryOf(q)'
  <2>0. UNCHANGED <<rows, deleted, clock>>
    BY <1>3 DEF Write, pgVars
  <2>1. CASE q # p
    BY <1>2, <1>3, <2>0, <2>1, OthersStand
  <2>2. CASE q = p
    <3>1. /\ pc[x] = "write" /\ p \in todo[x]
      BY <1>3 DEF Write, Found
    <3>2. SnapOf(x) /\ p \in ids[x] /\ p \in Inserted
      BY <3>1, SnapOfEach DEF SnapOf, KnownInv
    <3>3. /\ entry'[p] # None
          /\ entry'[p] = [category |-> snap[x][p].category, version |-> snap[x][p].version,
                          at |-> stamp[x], readAt |-> readAt[x]]
      BY <1>3, Written
    <3> QED
      BY <2>0, <2>2, <3>1, <3>2, <3>3 DEF EntryOf, SnapOf, Inserted
  <2> QED
    BY <2>1, <2>2
<1>4. ASSUME NEW x \in Proc, NEW p \in Product, Remove(x, p), ~RedisStands PROVE EntryOf(q)'
  <2>0. UNCHANGED <<rows, deleted, clock>>
    BY <1>4 DEF Remove, pgVars
  <2>1. CASE q # p
    BY <1>2, <1>4, <2>0, <2>1, OthersStand
  <2>2. CASE q = p
    <3>1. pc[x] = "write" /\ p \in todo[x] /\ snap[x][p].category = NoCategory
      BY <1>4 DEF Remove, Found
    <3>2. p \in deleted
      BY <3>1, SnapOfEach DEF SnapOf
    <3>3. entry'[p] = None
      BY <1>4, Removed
    <3> QED
      BY <2>0, <2>2, <3>2, <3>3 DEF EntryOf
  <2> QED
    BY <2>1, <2>2
<1>5. CASE Flush
  BY <1>5 DEF Flush, EntryOf
<1>6. CASE RedisStands /\ UNCHANGED <<rows, deleted, clock>>
  BY <1>2, <1>6 DEF RedisStands
<1> QED
  BY <1>1, <1>3, <1>4, <1>5, <1>6, Steps
     DEF ReadRows, TakeStamp, Write, Remove, Stops, Starts, GoesOn, PgStands, RedisStands,
         pgVars, redisVars

(* One process's part of OrderInv: against what is written, and against     *)
(* what another recompute is about to write.                                *)
AfterEntries(x) ==
    pc[x] \in {"stamp", "write"} =>
        \A p \in ids[x] :
            entry[p] # None /\ entry[p].at < readAt[x] => entry[p].version <= snap[x][p].version

AfterRecomputes(x, y) ==
    pc[x] \in {"stamp", "write"} =>
        \A p \in ids[x] :
            pc[y] = "write" /\ p \in ids[y] /\ stamp[y] < readAt[x] =>
                snap[y][p].version <= snap[x][p].version

LEMMA OrderOfEach ==
    OrderInv <=> /\ \A x \in Proc : AfterEntries(x)
                 /\ \A x, y \in Proc : AfterRecomputes(x, y)
  BY DEF OrderInv, AfterEntries, AfterRecomputes

LEMMA OrderStep ==
    ASSUME Strong, Next
    PROVE  OrderInv'
<1> USE DEF Strong
<1> SUFFICES ASSUME NEW x \in Proc, NEW y \in Proc
             PROVE  AfterEntries(x)' /\ AfterRecomputes(x, y)'
  BY DEF OrderInv, AfterEntries, AfterRecomputes
<1>0. /\ ProcTypes /\ PgTypes /\ RedisTypes
      /\ AfterEntries(x) /\ AfterRecomputes(x, y) /\ SnapOf(x) /\ SnapOf(y)
  BY Types, OrderOfEach, SnapOfEach
<1>1. ASSUME UNCHANGED <<pc, ids, snap, readAt, stamp>>, entry' = entry
      PROVE  AfterEntries(x)' /\ AfterRecomputes(x, y)'
  BY <1>0, <1>1 DEF AfterEntries, AfterRecomputes
<1>2. ASSUME NEW z \in Proc, ReadRows(z)
      PROVE  AfterEntries(x)' /\ AfterRecomputes(x, y)'
  <2>1. /\ pc' = [pc EXCEPT ![z] = "stamp"]
        /\ snap' = [snap EXCEPT ![z] = [p \in Product |-> IF p \in ids[z] THEN rows[p] ELSE NoRow]]
        /\ readAt' = [readAt EXCEPT ![z] = clock]
        /\ UNCHANGED <<rows, ids, stamp, entry>>
    BY <1>2 DEF ReadRows, pgVars, redisVars
  <2>2. pc[z] = "read"
    BY <1>2 DEF ReadRows
  <2>3. CASE x # z
    <3>1. /\ pc'[x] = pc[x] /\ snap'[x] = snap[x] /\ readAt'[x] = readAt[x]
      BY <1>0, <2>1, <2>3 DEF ProcTypes
    <3>2. pc'[y] = "write" => y # z /\ pc[y] = "write" /\ snap'[y] = snap[y]
      BY <1>0, <2>1 DEF ProcTypes
    <3> QED
      BY <1>0, <2>1, <3>1, <3>2 DEF AfterEntries, AfterRecomputes
  <2>4. CASE x = z
    <3>1. ids[x] \subseteq Product /\ \A p \in ids[x] : snap'[x][p] = rows[p]
      BY <1>0, <2>1, <2>4 DEF ProcTypes
    <3>2. pc'[y] = "write" => y # z /\ pc[y] = "write" /\ snap'[y] = snap[y]
      BY <1>0, <2>1 DEF ProcTypes
    <3>3. AfterEntries(x)'
      BY <2>1, <3>1 DEF AfterEntries, EntryInv
    <3>4. AfterRecomputes(x, y)'
      BY <1>0, <2>1, <3>1, <3>2 DEF AfterRecomputes, SnapOf
    <3> QED
      BY <3>3, <3>4
  <2> QED
    BY <2>3, <2>4
<1>3. ASSUME NEW z \in Proc, TakeStamp(z)
      PROVE  AfterEntries(x)' /\ AfterRecomputes(x, y)'
  <2>1. /\ pc' = [pc EXCEPT ![z] = "write"] /\ pc[z] = "stamp"
        /\ stamp' = [stamp EXCEPT ![z] = clock]
        /\ UNCHANGED <<ids, snap, readAt, entry>>
    BY <1>3 DEF TakeStamp, redisVars
  <2>2. pc'[x] \in {"stamp", "write"} => pc[x] \in {"stamp", "write"}
    BY <1>0, <2>1 DEF ProcTypes
  <2>3. AfterEntries(x)'
    BY <1>0, <2>1, <2>2 DEF AfterEntries
  <2>4. CASE y = z
    <3>1. stamp'[y] = clock /\ clock \in Nat /\ readAt[x] \in Nat
      BY <1>0, <2>1, <2>4 DEF ProcTypes, PgTypes
    <3>2. pc'[x] \in {"stamp", "write"} => ~(stamp'[y] < readAt'[x])
      BY <1>0, <2>1, <2>2, <3>1 DEF SnapOf
    <3> QED
      BY <2>3, <3>2 DEF AfterRecomputes
  <2>5. CASE y # z
    <3>1. pc'[y] = pc[y] /\ stamp'[y] = stamp[y]
      BY <1>0, <2>1, <2>5 DEF ProcTypes
    <3> QED
      BY <1>0, <2>1, <2>2, <2>3, <3>1 DEF AfterRecomputes
  <2> QED
    BY <2>4, <2>5
<1>4. ASSUME NEW z \in Proc, NEW q \in Product, Write(z, q) \/ Remove(z, q)
      PROVE  AfterEntries(x)' /\ AfterRecomputes(x, y)'
  <2>1. UNCHANGED <<pc, ids, snap, readAt, stamp>>
    BY <1>4 DEF Write, Remove
  <2>2. AfterRecomputes(x, y)'
    BY <1>0, <2>1 DEF AfterRecomputes
  <2>3. ASSUME pc[x] \in {"stamp", "write"}, NEW p \in ids[x],
               entry'[p] # None, entry'[p].at < readAt[x]
        PROVE  entry'[p].version <= snap[x][p].version
    <3>0. p \in Product
      BY <1>0 DEF ProcTypes
    <3>1. CASE entry'[p] = entry[p]
      BY <1>0, <2>3, <3>1 DEF AfterEntries
    <3>2. CASE entry'[p] # entry[p]
      <4>1. p = q /\ ~RedisStands
        BY <1>4, <3>0, <3>2, OthersStand DEF RedisStands
      <4>2. CASE Write(z, q)
        <5>1. pc[z] = "write" /\ p \in ids[z]
          BY <4>1, <4>2, SnapOfEach DEF Write, Found, SnapOf
        <5>2. entry'[p] = [category |-> snap[z][p].category, version |-> snap[z][p].version,
                           at |-> stamp[z], readAt |-> readAt[z]]
          BY <4>1, <4>2, Written
        <5>3. AfterRecomputes(x, z)
          BY OrderOfEach
        <5> QED
          BY <2>3, <5>1, <5>2, <5>3 DEF AfterRecomputes
      <4>3. CASE Remove(z, q)
        BY <2>3, <4>1, <4>3, Removed
      <4> QED
        BY <1>4, <4>2, <4>3
    <3> QED
      BY <3>1, <3>2
  <2>4. AfterEntries(x)'
    BY <2>1, <2>3 DEF AfterEntries
  <2> QED
    BY <2>2, <2>4
<1>5. ASSUME NEW z \in Proc, Stops(z)
      PROVE  AfterEntries(x)' /\ AfterRecomputes(x, y)'
  BY <1>0, <1>5 DEF Stops, Ends, RedisStands, ProcTypes, AfterEntries, AfterRecomputes
<1>6. ASSUME NEW z \in Proc, NEW S \in SUBSET Product, Starts(z, S)
      PROVE  AfterEntries(x)' /\ AfterRecomputes(x, y)'
  BY <1>0, <1>6 DEF Starts, Begins, RedisStands, ProcTypes, AfterEntries, AfterRecomputes
<1>7. CASE Flush
  BY <1>0, <1>7 DEF Flush, procVars, ProcTypes, AfterEntries, AfterRecomputes
<1>8. CASE MovesOn \/ GoesOn
  BY <1>1, <1>8 DEF MovesOn, GoesOn, RedisStands, procVars
<1> QED
  BY <1>2, <1>3, <1>4, <1>5, <1>6, <1>7, <1>8, Steps

(* One driver's part of PageInv. *)
PageOf(d) ==
    \A p \in atStart[d] : Live(p) =>
        /\ task[d] = "all" /\ p <= after[d] => entry[p] # None \/ p \in InHand(d)
        /\ task[d] = "scan" => entry[p] # None

(* Only what PostgreSQL no longer has loses its entry.                      *)
LEMMA EntriesStay ==
    ASSUME Strong, NEW x \in Proc, NEW q \in Product, Write(x, q) \/ Remove(x, q),
           NEW p \in Product, Live(p), entry[p] # None
    PROVE  entry'[p] # None
<1> USE DEF Strong
<1>1. CASE entry'[p] = entry[p]
  BY <1>1
<1>2. CASE entry'[p] # entry[p]
  <2>1. p = q /\ ~RedisStands
    BY <1>2, OthersStand DEF RedisStands
  <2>2. CASE Write(x, q)
    BY <2>1, <2>2, Written
  <2>3. CASE Remove(x, q)
    <3>1. pc[x] = "write" /\ p \in todo[x] /\ snap[x][p].category = NoCategory
      BY <2>1, <2>3 DEF Remove, Found
    <3>2. p \in deleted
      BY <3>1, SnapOfEach DEF SnapOf
    <3> QED
      BY <3>2 DEF RowsInv
  <2> QED
    BY <2>2, <2>3
<1> QED
  BY <1>1, <1>2

(* A product a driver is done with has an entry, or has lost its row: what  *)
(* its script refuses to write was written before, by a later stamp.        *)
LEMMA DoneHasEntry ==
    ASSUME Strong, NEW x \in Proc, NEW p \in Product, Write(x, p) \/ Remove(x, p), Live(p)
    PROVE  entry'[p] # None
<1> USE DEF Strong
<1>0. p \notin deleted
  BY DEF RowsInv
<1>1. CASE Remove(x, p)
  <2>1. pc[x] = "write" /\ p \in todo[x] /\ snap[x][p].category = NoCategory
    BY <1>1 DEF Remove, Found
  <2> QED
    BY <1>0, <2>1, SnapOfEach DEF SnapOf
<1>2. CASE Write(x, p) /\ ~RedisStands
  BY <1>2, Written
<1>3. CASE Write(x, p) /\ RedisStands
  <2>1. CASE Newer(p, stamp[x])
    <3>1. entry' = [entry EXCEPT ![p] =
              [category |-> snap[x][p].category, version |-> snap[x][p].version,
               at |-> stamp[x], readAt |-> readAt[x]]]
      BY <1>3, <2>1 DEF Write, WriteEntry
    <3>2. /\ snap[x][p].category \in Category /\ snap[x][p].version \in Nat
          /\ stamp[x] \in Nat /\ readAt[x] \in Nat
      BY <1>3, Types DEF ProcTypes, Row, Write, Found
    <3> QED
      BY <3>1, <3>2, Types, DistinctAssumption DEF RedisTypes, DistinctAssumption
  <2>2. CASE ~Newer(p, stamp[x])
    <3>1. token[p] # None
      BY <2>2 DEF Newer
    <3>2. entry[p] # None
      BY <1>0, <3>1 DEF EntryInv
    <3> QED
      BY <1>3, <3>2 DEF RedisStands
  <2> QED
    BY <2>1, <2>2
<1> QED
  BY <1>1, <1>2, <1>3

LEMMA PageStep ==
    ASSUME Strong, Next
    PROVE  PageInv'
<1> USE DEF Strong
<1> SUFFICES ASSUME NEW d \in Driver, flushes' = 0 PROVE PageOf(d)'
  BY DEF PageInv, PageOf, InHand
<1>0. ProcTypes /\ PgTypes /\ RedisTypes /\ TaskTypes /\ d \in Proc
  BY Types DEF Proc
<1>1. atStart[d] \subseteq Inserted /\ atStart[d] \subseteq Product /\ after[d] \in Nat
  BY <1>0 DEF KnownInv, TaskTypes
<1>2. flushes = 0 => PageOf(d)
  BY DEF PageInv, PageOf, InHand
<1>3. CASE Flush
  BY <1>0, <1>3 DEF Flush, PgTypes
<1>4. CASE MovesOn
  <2>1. \A p \in atStart[d] : Live(p)' => Live(p)
    BY <1>1, <1>4 DEF MovesOn, RowsInv, Inserted
  <2>2. /\ entry' = entry /\ task' = task /\ after' = after /\ atStart' = atStart
        /\ pc' = pc /\ todo' = todo /\ ids' = ids /\ flushes' = flushes
    BY <1>4 DEF MovesOn, RedisStands, procVars, taskVars
  <2>3. InHand(d)' = InHand(d)
    BY <2>2 DEF InHand
  <2> QED
    BY <1>2, <2>1, <2>2, <2>3 DEF PageOf
<1>5. ASSUME NEW x \in Proc, ReadRows(x) \/ TakeStamp(x) PROVE PageOf(d)'
  <2>1. UNCHANGED <<rows, entry, task, after, atStart, flushes>>
    BY <1>5 DEF ReadRows, TakeStamp, pgVars, redisVars, taskVars, boundVars
  <2>2. InHand(d)' = InHand(d)
    BY <1>0, <1>5 DEF ReadRows, TakeStamp, InHand, ProcTypes
  <2> QED
    BY <1>2, <2>1, <2>2 DEF PageOf, Live
<1>6. ASSUME NEW x \in Proc, NEW q \in Product, Write(x, q) \/ Remove(x, q) PROVE PageOf(d)'
  <2>1. UNCHANGED <<rows, pc, ids, task, after, atStart, flushes>>
    BY <1>6 DEF Write, Remove, pgVars, taskVars, boundVars
  <2>2. ASSUME NEW p \in Product, Live(p), p \in InHand(d)
        PROVE  entry'[p] # None \/ p \in InHand(d)'
    <3>1. CASE x = d /\ p = q
      BY <1>6, <2>2, <3>1, DoneHasEntry
    <3>2. CASE ~(x = d /\ p = q)
      BY <1>0, <1>6, <2>1, <2>2, <3>2 DEF Write, Remove, InHand, ProcTypes
    <3> QED
      BY <3>1, <3>2
  <2>3. \A p \in Product : Live(p) /\ entry[p] # None => entry'[p] # None
    BY <1>6, EntriesStay
  <2> QED
    BY <1>1, <1>2, <2>1, <2>2, <2>3 DEF PageOf, Live
<1>7. ASSUME NEW x \in Proc, Stops(x) PROVE PageOf(d)'
  <2>1. UNCHANGED <<rows, entry, flushes>>
    BY <1>7 DEF Stops, PgStands, RedisStands
  <2>2. CASE task'[d] = "idle"
    BY <2>2 DEF PageOf
  <2>3. CASE task'[d] # "idle"
    <3>1. /\ d # x \/ (pc[d] = "write" /\ todo[d] = {})
          /\ task'[d] = task[d] /\ after'[d] = after[d] /\ atStart'[d] = atStart[d]
      BY <1>7, <2>3 DEF Stops
    <3>2. InHand(d) \subseteq InHand(d)'
      BY <1>0, <1>7, <3>1 DEF Stops, Ends, InHand, ProcTypes
    <3> QED
      BY <1>2, <2>1, <3>1, <3>2 DEF PageOf, Live
  <2> QED
    BY <2>2, <2>3
<1>8. ASSUME NEW x \in Proc, NEW S \in SUBSET Product, Starts(x, S) PROVE PageOf(d)'
  <2>1. UNCHANGED <<rows, entry, flushes, task, atStart>>
    BY <1>8 DEF Starts, PgStands, RedisStands
  <2>2. InHand(d) \subseteq InHand(d)' /\ (d = x => InHand(d)' = S)
    BY <1>0, <1>8 DEF Starts, Begins, InHand, ProcTypes
  <2>3. task[d] = "all" => \A p \in Product :
            Live(p) /\ p <= after'[d] => p <= after[d] \/ (d = x /\ p \in S)
    BY <1>8 DEF Starts
  <2> QED
    BY <1>1, <1>2, <2>1, <2>2, <2>3 DEF PageOf, Live
<1>9. CASE GoesOn
  <2>1. UNCHANGED <<rows, entry, flushes, pc, ids, todo>>
    BY <1>9 DEF GoesOn, PgStands, RedisStands, procVars
  <2>2. InHand(d)' = InHand(d)
    BY <2>1 DEF InHand
  <2>3. atStart'[d] \subseteq Product
    BY <1>9 DEF GoesOn, Inserted
  <2>4. ASSUME task'[d] = "all", NEW p \in atStart'[d], Live(p), p <= after'[d]
        PROVE  entry[p] # None \/ p \in InHand(d)
    <3>1. after'[d] # 0
      BY <2>3, <2>4 DEF Product
    <3> QED
      BY <1>2, <1>9, <2>1, <2>4, <3>1 DEF GoesOn, PageOf
  <2>5. ASSUME task'[d] = "scan", NEW p \in atStart'[d], Live(p)
        PROVE  entry[p] # None
    <3>1. p \in atStart[d] /\ p \in Product
      BY <1>9, <2>3, <2>5 DEF GoesOn
    <3>2. CASE task[d] = "scan"
      BY <1>2, <2>1, <2>5, <3>1, <3>2 DEF PageOf
    <3>3. CASE task[d] = "all" /\ pc[d] = "idle" /\ p <= after[d]
      BY <1>2, <2>1, <2>5, <3>1, <3>3 DEF PageOf, InHand
    <3> QED
      BY <1>9, <2>5, <3>1, <3>2, <3>3 DEF GoesOn
  <2> QED
    BY <2>1, <2>2, <2>4, <2>5 DEF PageOf, Live
<1> QED
  BY <1>3, <1>4, <1>5, <1>6, <1>7, <1>8, <1>9, Steps

-----------------------------------------------------------------------------
LEMMA InitStrong == Init => Strong
<1> SUFFICES ASSUME Init PROVE Strong
  OBVIOUS
<1>1. TypeOK /\ ListedWhereItBelongs
  BY InitTypes, InitListed
<1>2. RowsInv /\ KnownInv
  BY DEF Init, RowsInv, KnownInv, Inserted, Live, NoRow
<1>3. SnapInv /\ OrderInv
  BY DEF Init, SnapInv, OrderInv
<1>4. EntryInv /\ PageInv
  BY DEF Init, EntryInv, PageInv
<1> QED
  BY <1>1, <1>2, <1>3, <1>4 DEF Strong

LEMMA StrongStep == Strong /\ [Next]_vars => Strong'
<1> SUFFICES ASSUME Strong, [Next]_vars PROVE Strong'
  OBVIOUS
<1>1. TypeOK' /\ ListedWhereItBelongs'
  BY TypeStep, ListedStep DEF Strong
<1>2. CASE Next
  BY <1>1, <1>2, RowsStep, KnownStep, SnapStep, EntryStep, OrderStep, PageStep DEF Strong
<1>3. CASE UNCHANGED vars
  <2> USE <1>3 DEF vars, pgVars, redisVars, procVars, taskVars, boundVars, Strong
  <2>1. RowsInv' /\ KnownInv'
    BY DEF RowsInv, KnownInv, Inserted, Live
  <2>2. SnapInv' /\ OrderInv'
    BY DEF SnapInv, OrderInv
  <2>3. EntryInv' /\ PageInv'
    BY DEF EntryInv, PageInv, Inserted, Live, InHand
  <2> QED
    BY <1>1, <2>1, <2>2, <2>3
<1> QED
  BY <1>2, <1>3

(* The invariant holds throughout, whatever the interleaving of handlers,   *)
(* rebuilds and drift repair.                                               *)
THEOREM StrongAlways == Spec => []Strong
  BY InitStrong, StrongStep, PTL DEF Spec

(* Only a write that is not refused can bring back an older version.        *)
LEMMA InversionStep ==
    ASSUME Strong, Next, NEW p \in Product,
           entry[p] # None, entry'[p] # None, entry'[p].version < entry[p].version
    PROVE  entry'[p].readAt <= entry[p].at /\ entry[p].at < entry'[p].at
<1> USE DEF Strong
<1>1. ~RedisStands
  <2>1. entry[p].version \in Nat
    BY Types DEF RedisTypes, Entries
  <2> QED
    BY <2>1 DEF RedisStands
<1>2. PICK x \in Proc, q \in Product : Write(x, q) \/ Remove(x, q)
  BY <1>1, RedisStep DEF Flush
<1>3. p = q
  <2>1. entry[p].version \in Nat
    BY Types DEF RedisTypes, Entries
  <2> QED
    BY <1>2, <2>1, OthersStand
<1>4. Write(x, p)
  BY <1>1, <1>2, <1>3, Removed
<1>5. /\ Newer(p, stamp[x])
      /\ entry'[p] = [category |-> snap[x][p].category, version |-> snap[x][p].version,
                      at |-> stamp[x], readAt |-> readAt[x]]
  BY <1>1, <1>4, Written
<1>6. token[p] = [category |-> entry[p].category, at |-> entry[p].at] /\ token[p] # None
  <2>1. token[p] = [category |-> entry[p].category, at |-> entry[p].at]
    BY ListedIsRight DEF ListedRight
  <2>2. entry[p] \in Entries
    BY Types DEF RedisTypes
  <2> QED
    BY <2>1, <2>2, DistinctAssumption DEF Entries, DistinctAssumption
<1>7. entry[p].at < stamp[x]
  BY <1>5, <1>6 DEF Newer
<1>8. pc[x] = "write" /\ p \in ids[x]
  BY <1>4, SnapOfEach DEF Write, Found, SnapOf
<1>9. ~(entry[p].at < readAt[x])
  <2>1. snap[x][p].version \in Nat /\ entry[p].version \in Nat
    BY Types DEF ProcTypes, RedisTypes, Entries, Row
  <2> QED
    BY <1>5, <1>8, <2>1, OrderOfEach DEF AfterEntries
<1>10. entry[p].at \in Nat /\ readAt[x] \in Nat
  BY Types DEF ProcTypes, RedisTypes, Entries
<1> QED
  BY <1>5, <1>7, <1>9, <1>10

(* Whoever replaces an entry by an older version read before the stamp it   *)
(* beats was taken: reads that come one after the other are never inverted, *)
(* however late either of them writes (the stamp compared by the scripts).  *)
THEOREM InversionNeedsOverlap == Spec => OnlyOverlappingReadsInvert
<1>1. Strong /\ [Next]_vars =>
          [\A p \in Product :
              (entry[p] # None /\ entry'[p] # None) /\ entry'[p].version < entry[p].version =>
                  entry'[p].readAt <= entry[p].at /\ entry[p].at < entry'[p].at]_vars
  BY InversionStep
<1> QED
  BY <1>1, StrongAlways, PTL DEF Spec, OnlyOverlappingReadsInvert

(* When a full rebuild publishes the key, every product that was there when *)
(* it began and still is has its entry, whatever the handlers, the writers  *)
(* and the other drivers did beside it (RebuildReadModelCommand).            *)
THEOREM OpensWhole == Spec => OpensOnAWholeModel
<1>1. Strong /\ [Next]_vars =>
          [\A d \in Driver :
              ready' /\ task[d] = "scan" /\ task'[d] = "idle" /\ flushes = 0 =>
                  \A p \in atStart[d] : Live(p) => entry[p] # None]_vars
  BY DEF Strong, PageInv
<1> QED
  BY <1>1, StrongAlways, PTL DEF Spec, OpensOnAWholeModel
-----------------------------------------------------------------------------
(* Nothing stale is forgotten.  Where nothing was lost, whoever has read a  *)
(* row and not its last change read it before that change was made, and     *)
(* whoever has read the last change is stamped after it.                    *)
Since(p, row, read, at) ==
    /\ row.version < rows[p].version => read <= changed[p]
    /\ row.version = rows[p].version => row.category = rows[p].category /\ changed[p] <= at

SinceEntry(p) ==
    entry[p] # None => Since(p, entry[p], entry[p].readAt, entry[p].at)

SinceSnap(x, p) ==
    pc[x] \in {"stamp", "write"} /\ p \in ids[x] =>
        Since(p, snap[x][p], readAt[x], readAt[x])

SinceOf(p) ==
    /\ changed[p] <= clock
    /\ SinceEntry(p)
    /\ \A x \in Proc : SinceSnap(x, p)

Accounted(p) == Fresh(p) \/ ReadAcrossItsChange(p) \/ ToCome(p)

Lossless ==
    faults = 0 => deleted = {} /\ \A p \in Product : SinceOf(p) /\ Accounted(p)

(* The steps that lose nothing. *)
LEMMA LosslessSteps ==
    ASSUME Strong, Next, faults' = 0
    PROVE  /\ faults = 0
           /\ \/ Tick
              \/ \E p \in Product, c \in Category : Commit(p, c)
              \/ \E S \in SUBSET Product : Announce(S)
              \/ \E x \in Proc : ReadRows(x) \/ TakeStamp(x) \/ Recomputed(x)
              \/ \E x \in Proc, p \in Product : Write(x, p) \/ Remove(x, p)
              \/ \E x \in Proc, S \in SUBSET Product : Starts(x, S)
              \/ GoesOn
<1> USE DEF Strong, boundVars
<1>0. faults \in Nat /\ faults + 1 # 0
  BY Types DEF PgTypes
<1>1. CASE Tick
  BY <1>1 DEF Tick
<1>2. CASE Writers
  BY <1>0, <1>2 DEF Writers, Delete, LoseAnnouncement, Commit, Announce, Fault
<1>3. ASSUME NEW x \in Proc, Recompute(x)
      PROVE  /\ faults = 0
             /\ \/ ReadRows(x) \/ TakeStamp(x) \/ Recomputed(x)
                \/ \E p \in Product : Write(x, p) \/ Remove(x, p)
  BY <1>3 DEF Recompute, ReadRows, TakeStamp, Write, Remove, Recomputed
<1>4. ASSUME NEW h \in Handler, HandlerFails(h) \/ \E S \in SUBSET Product : Take(h, S)
      PROVE  faults = 0 /\ \E S \in SUBSET Product : Starts(h, S)
  <2>1. ~HandlerFails(h)
    BY <1>0 DEF HandlerFails, Fault
  <2> QED
    BY <1>4, <2>1, TakeStarts DEF Take
<1>5. ASSUME NEW d \in Driver, Rebuild(d)
      PROVE  faults = 0 /\ (GoesOn \/ \E S \in SUBSET Product : Starts(d, S))
  <2>1. faults = 0
    BY <1>5
       DEF Rebuild, NextPage, DropOrphans, LeftPage, ScanBegins, Publish, LeftBegins,
           CategoryRebuilt, Compare, DriftChecked
  <2> QED
    BY <1>5, <2>1, NextPageStarts, LeftPageStarts, DropOrphansStarts, TasksGoOn DEF Rebuild
<1>6. ASSUME NEW d \in Driver, DriftCheck(d) \/ RebuildOnBoot(d)
      PROVE  faults = 0 /\ GoesOn
  BY <1>6, TasksGoOn DEF DriftCheck, RebuildOnBoot
<1>7. ASSUME NEW d \in Driver, RebuildAsked(d) \/ DriverFails(d) PROVE FALSE
  BY <1>0, <1>7 DEF RebuildAsked, DriverFails, Fault
<1>8. ~Flush
  BY <1>0 DEF Flush, Fault
<1>9. Handler \subseteq Proc /\ Driver \subseteq Proc
  BY DEF Proc
<1> QED
  BY <1>1, <1>2, <1>3, <1>4, <1>5, <1>6, <1>7, <1>8, <1>9 DEF Next, Writers
(* A step that leaves p's row and entry alone, and reads nothing of it.     *)
LEMMA SinceStands ==
    ASSUME NEW p \in Product, SinceOf(p), clock <= clock', clock \in Nat, clock' \in Nat,
           changed[p] \in Nat, changed'[p] = changed[p], rows'[p] = rows[p],
           entry'[p] = entry[p],
           \A x \in Proc : pc'[x] \in {"stamp", "write"} /\ p \in ids'[x] =>
               /\ pc[x] \in {"stamp", "write"} /\ p \in ids[x]
               /\ snap'[x][p] = snap[x][p] /\ readAt'[x] = readAt[x]
    PROVE  SinceOf(p)'
<1>1. changed'[p] <= clock'
  BY DEF SinceOf
<1>2. SinceEntry(p)'
  BY DEF SinceOf, SinceEntry, Since
<1>3. ASSUME NEW x \in Proc PROVE SinceSnap(x, p)'
  BY DEF SinceOf, SinceSnap, Since
<1> QED
  BY <1>1, <1>2, <1>3 DEF SinceOf

(* What a script that is not refused leaves, even where it changes nothing. *)
LEMMA Applied ==
    ASSUME TypeOK, NEW x \in Proc, NEW p \in Product, Write(x, p), Newer(p, stamp[x])
    PROVE  /\ entry'[p] = [category |-> snap[x][p].category, version |-> snap[x][p].version,
                           at |-> stamp[x], readAt |-> readAt[x]]
           /\ entry'[p] # None
<1>1. WriteEntry(p, snap[x][p], stamp[x], readAt[x])
  BY DEF Write
<1>2. /\ snap[x][p] \in Row /\ stamp[x] \in Nat /\ readAt[x] \in Nat
      /\ snap[x][p].category # NoCategory
  BY Types DEF ProcTypes, Write, Found
<1>3. snap[x][p].category \in Category /\ snap[x][p].version \in Nat
  BY <1>2 DEF Row
<1>4. RedisTypes
  BY Types
<1>5. entry'[p] = [category |-> snap[x][p].category, version |-> snap[x][p].version,
                   at |-> stamp[x], readAt |-> readAt[x]]
  BY <1>1, <1>4 DEF WriteEntry, RedisTypes
<1> QED
  BY <1>2, <1>3, <1>5, DistinctAssumption DEF DistinctAssumption

(* A removal is of a product whose row was deleted. *)
LEMMA RemovesDeleted ==
    ASSUME Strong, NEW x \in Proc, NEW p \in Product, Remove(x, p)
    PROVE  p \in deleted
<1>1. pc[x] = "write" /\ p \in todo[x] /\ snap[x][p].category = NoCategory
  BY DEF Remove, Found
<1> QED
  BY <1>1, SnapOfEach DEF Strong, SnapOf

LEMMA SinceStep ==
    ASSUME Strong, Next, Lossless, faults' = 0, NEW p \in Product
    PROVE  SinceOf(p)'
<1> USE DEF Strong
<1>0. /\ PgTypes /\ RedisTypes /\ ProcTypes
      /\ clock \in Nat /\ clock <= clock /\ changed[p] \in Nat
      /\ faults = 0 /\ deleted = {} /\ SinceOf(p)
  BY Types, LosslessSteps DEF PgTypes, Lossless
<1>1. CASE Tick \/ \E S \in SUBSET Product : Announce(S)
  <2>1. /\ clock' \in Nat /\ clock <= clock'
        /\ UNCHANGED <<rows, changed, entry, procVars>>
    BY <1>0, <1>1 DEF Tick, Announce, redisVars, pgVars
  <2> QED
    BY <1>0, <2>1, SinceStands DEF procVars
<1>2. ASSUME NEW q \in Product, NEW c \in Category, Commit(q, c) PROVE SinceOf(p)'
  <2>1. /\ rows' = [rows EXCEPT ![q] = [category |-> c, version |-> @.version + 1]]
        /\ changed' = [changed EXCEPT ![q] = clock]
        /\ UNCHANGED <<clock, entry, pc, ids, snap, readAt>>
    BY <1>2 DEF Commit, redisVars, procVars
  <2>2. CASE q # p
    BY <1>0, <2>1, <2>2, SinceStands DEF PgTypes
  <2>3. CASE q = p
    <3>1. /\ rows'[p].version = rows[p].version + 1 /\ rows[p].version \in Nat
          /\ changed'[p] = clock
      BY <1>0, <2>1, <2>3 DEF PgTypes, Row
    <3>2. ASSUME entry[p] # None PROVE Since(p, entry[p], entry[p].readAt, entry[p].at)'
      <4>1. /\ entry[p].version <= rows[p].version /\ entry[p].readAt <= clock
            /\ entry[p].version \in Nat
        BY <1>0, <3>2 DEF EntryInv, RedisTypes, Entries
      <4> QED
        BY <2>1, <3>1, <4>1 DEF Since
    <3>3. ASSUME NEW x \in Proc, pc[x] \in {"stamp", "write"}, p \in ids[x]
          PROVE  Since(p, snap[x][p], readAt[x], readAt[x])'
      <4>1. /\ snap[x][p].version <= rows[p].version /\ readAt[x] <= clock
            /\ snap[x][p].version \in Nat
        BY <1>0, <3>3, SnapOfEach DEF SnapOf, ProcTypes, Row
      <4> QED
        BY <2>1, <3>1, <4>1 DEF Since
    <3> QED
      BY <1>0, <2>1, <3>1, <3>2, <3>3 DEF SinceOf, SinceEntry, SinceSnap
  <2> QED
    BY <2>2, <2>3
<1>3. ASSUME NEW z \in Proc, ReadRows(z) PROVE SinceOf(p)'
  <2>1. /\ pc' = [pc EXCEPT ![z] = "stamp"]
        /\ snap' = [snap EXCEPT ![z] = [q \in Product |-> IF q \in ids[z] THEN rows[q] ELSE NoRow]]
        /\ readAt' = [readAt EXCEPT ![z] = clock]
        /\ UNCHANGED <<rows, changed, clock, ids, entry>>
    BY <1>3 DEF ReadRows, pgVars, redisVars
  <2>2. SinceEntry(p)' /\ changed'[p] <= clock'
    BY <1>0, <2>1 DEF SinceOf, SinceEntry, Since
  <2>3. SinceSnap(z, p)'
    <3> SUFFICES ASSUME p \in ids[z] PROVE Since(p, rows[p], clock, clock)'
      BY <1>0, <2>1 DEF SinceSnap, ProcTypes, Since
    <3> QED
      BY <1>0, <2>1 DEF Since, SinceOf, PgTypes, Row
  <2>4. ASSUME NEW x \in Proc, x # z PROVE SinceSnap(x, p)'
    <3>1. pc'[x] = pc[x] /\ snap'[x] = snap[x] /\ readAt'[x] = readAt[x]
      BY <1>0, <2>1, <2>4 DEF ProcTypes
    <3> QED
      BY <1>0, <2>1, <3>1 DEF SinceOf, SinceSnap, Since
  <2> QED
    BY <2>2, <2>3, <2>4 DEF SinceOf
<1>4. ASSUME NEW z \in Proc, TakeStamp(z) \/ Recomputed(z) PROVE SinceOf(p)'
  <2>1. UNCHANGED <<rows, changed, clock, entry>>
    BY <1>4 DEF TakeStamp, Recomputed, pgVars, redisVars
  <2>2. \A x \in Proc : pc'[x] \in {"stamp", "write"} =>
            /\ pc[x] \in {"stamp", "write"} /\ ids'[x] = ids[x]
            /\ snap'[x] = snap[x] /\ readAt'[x] = readAt[x]
    BY <1>0, <1>4 DEF TakeStamp, Recomputed, Ends, ProcTypes
  <2> QED
    BY <1>0, <2>1, <2>2, SinceStands
<1>5. ASSUME NEW z \in Proc, NEW S \in SUBSET Product, Starts(z, S) PROVE SinceOf(p)'
  <2>1. UNCHANGED <<rows, changed, clock, entry>>
    BY <1>5 DEF Starts, PgStands, RedisStands
  <2>2. \A x \in Proc : pc'[x] \in {"stamp", "write"} =>
            pc'[x] = pc[x] /\ ids'[x] = ids[x] /\ snap'[x] = snap[x] /\ readAt'[x] = readAt[x]
    BY <1>0, <1>5 DEF Starts, Begins, ProcTypes
  <2> QED
    BY <1>0, <2>1, <2>2, SinceStands
<1>6. CASE GoesOn
  BY <1>0, <1>6, SinceStands DEF GoesOn, PgStands, RedisStands, procVars
<1>7. ASSUME NEW z \in Proc, NEW q \in Product, Write(z, q) \/ Remove(z, q) PROVE SinceOf(p)'
  <2>1. UNCHANGED <<rows, changed, clock, pc, ids, snap, readAt>> /\ Write(z, q)
    BY <1>0, <1>7, RemovesDeleted DEF Write, Remove, pgVars
  <2>2. CASE entry'[p] = entry[p]
    BY <1>0, <2>1, <2>2, SinceStands
  <2>3. CASE entry'[p] # entry[p]
    <3>1. p = q /\ Newer(p, stamp[z])
      BY <2>1, <2>3, OthersStand DEF Write
    <3>2. /\ entry'[p] # None
          /\ entry'[p] = [category |-> snap[z][p].category, version |-> snap[z][p].version,
                          at |-> stamp[z], readAt |-> readAt[z]]
      BY <2>1, <3>1, Applied
    <3>3. /\ pc[z] = "write" /\ p \in ids[z] /\ readAt[z] <= stamp[z]
          /\ readAt[z] \in Nat /\ stamp[z] \in Nat
      BY <1>0, <2>1, <3>1, SnapOfEach DEF Write, Found, SnapOf, ProcTypes
    <3>4. Since(p, snap[z][p], readAt[z], readAt[z])
      BY <1>0, <3>3 DEF SinceOf, SinceSnap
    <3>5. SinceEntry(p)'
      BY <1>0, <2>1, <3>2, <3>3, <3>4 DEF SinceEntry, Since
    <3> QED
      BY <1>0, <2>1, <3>5 DEF SinceOf, SinceSnap, Since
  <2> QED
    BY <2>2, <2>3
<1> QED
  BY <1>1, <1>2, <1>3, <1>4, <1>5, <1>6, <1>7, LosslessSteps
(* A step that leaves p's row and entry alone, and loses nothing of what is *)
(* on its way.                                                              *)
LEMMA AccountedStands ==
    ASSUME NEW p \in Product, Accounted(p), changed'[p] = changed[p], rows'[p] = rows[p],
           entry'[p] = entry[p], ToCome(p) => ToCome(p)'
    PROVE  Accounted(p)'
<1>1. CASE Fresh(p)
  BY <1>1 DEF Accounted, Fresh, Live
<1>2. CASE ReadAcrossItsChange(p)
  BY <1>2 DEF Accounted, ReadAcrossItsChange
<1> QED
  BY <1>1, <1>2 DEF Accounted

(* Where the row was never deleted, an entry that shows its row, or was     *)
(* read across its change, is stamped no earlier than that change.          *)
LEMMA StampedSince ==
    ASSUME Strong, Lossless, faults = 0, NEW p \in Product, Live(p),
           Fresh(p) \/ ReadAcrossItsChange(p)
    PROVE  entry[p] # None /\ changed[p] <= entry[p].at
  BY DEF Lossless, SinceOf, SinceEntry, Since, Fresh, ReadAcrossItsChange

(* A script that applies leaves the row as it is, or read across its last   *)
(* change, unless somebody else still brings it.                            *)
LEMMA AppliedIsAccounted ==
    ASSUME Strong, Lossless, faults = 0, NEW x \in Proc, NEW p \in Product,
           Write(x, p), Newer(p, stamp[x])
    PROVE  Accounted(p)'
<1> USE DEF Strong
<1>0. /\ PgTypes /\ RedisTypes /\ ProcTypes /\ deleted = {} /\ SinceOf(p) /\ Accounted(p)
      /\ UNCHANGED <<rows, changed, owed, queue, pc, ids, snap>>
  BY Types DEF Lossless, Write, pgVars
<1>1. pc[x] = "write" /\ p \in todo[x] /\ p \in ids[x] /\ snap[x][p].category # NoCategory
  BY SnapOfEach DEF Write, Found, SnapOf
<1>2. Live(p) /\ Live(p)'
  BY <1>0, <1>1 DEF KnownInv, RowsInv, Live
<1>3. /\ entry'[p] # None
      /\ entry'[p] = [category |-> snap[x][p].category, version |-> snap[x][p].version,
                      at |-> stamp[x], readAt |-> readAt[x]]
  BY Applied
<1>4. Since(p, snap[x][p], readAt[x], readAt[x]) /\ snap[x][p].version <= rows[p].version
  BY <1>0, <1>1, SnapOfEach DEF SinceOf, SinceSnap, SnapOf
<1>5. CASE snap[x][p].version = rows[p].version
  <2>1. Fresh(p)'
    BY <1>0, <1>2, <1>3, <1>4, <1>5 DEF Since, Fresh
  <2> QED
    BY <2>1 DEF Accounted
<1>6. CASE snap[x][p].version # rows[p].version
  <2>1. readAt[x] <= changed[p]
    <3>1. snap[x][p].version \in Nat /\ rows[p].version \in Nat
      BY <1>0 DEF ProcTypes, PgTypes, Row
    <3> QED
      BY <1>4, <1>6, <3>1 DEF Since
  <2>2. CASE ToCome(p)
    <3>1. \A y \in Proc : Brings(y, p) => y # x
      BY <1>1, <1>6 DEF Brings
    <3>2. \A y \in Proc : y # x => todo'[y] = todo[y]
      BY <1>0 DEF Write, ProcTypes
    <3>3. ToCome(p)'
      BY <1>0, <2>2, <3>1, <3>2 DEF ToCome, Brings
    <3> QED
      BY <3>3 DEF Accounted
  <2>3. CASE Fresh(p) \/ ReadAcrossItsChange(p)
    <3>1. entry[p] # None /\ changed[p] <= entry[p].at
      BY <1>2, <2>3, StampedSince
    <3>2. token[p] = [category |-> entry[p].category, at |-> entry[p].at] /\ token[p] # None
      <4>1. token[p] = [category |-> entry[p].category, at |-> entry[p].at]
        BY <3>1, ListedIsRight DEF ListedRight
      <4>2. entry[p] \in Entries
        BY <1>0, <3>1 DEF RedisTypes
      <4> QED
        BY <4>1, <4>2, DistinctAssumption DEF Entries, DistinctAssumption
    <3>3. entry[p].at < stamp[x]
      BY <3>2 DEF Newer
    <3>4. changed[p] \in Nat /\ stamp[x] \in Nat /\ entry[p].at \in Nat
      BY <1>0, <3>1 DEF PgTypes, ProcTypes, RedisTypes, Entries
    <3>5. ReadAcrossItsChange(p)'
      BY <1>0, <1>3, <2>1, <3>1, <3>3, <3>4 DEF ReadAcrossItsChange
    <3> QED
      BY <3>5 DEF Accounted
  <2> QED
    BY <1>0, <2>2, <2>3 DEF Accounted
<1> QED
  BY <1>5, <1>6

(* A script is refused by an entry that shows the row, or was read across   *)
(* its last change, if it carries the row itself.                           *)
LEMMA RefusedIsAccounted ==
    ASSUME Strong, Lossless, faults = 0, NEW x \in Proc, NEW p \in Product,
           Write(x, p), ~Newer(p, stamp[x])
    PROVE  Accounted(p)'
<1> USE DEF Strong
<1>0. /\ PgTypes /\ RedisTypes /\ ProcTypes /\ deleted = {} /\ SinceOf(p) /\ Accounted(p)
      /\ UNCHANGED <<rows, changed, owed, queue, pc, ids, snap, entry>>
  BY Types DEF Lossless, Write, pgVars
<1>1. /\ pc[x] = "write" /\ p \in todo[x] /\ p \in ids[x] /\ snap[x][p].category # NoCategory
      /\ readAt[x] <= stamp[x]
  BY SnapOfEach DEF Write, Found, SnapOf
<1>2. Live(p)
  BY <1>0, <1>1 DEF KnownInv, RowsInv, Live
<1>3. token[p] # None /\ entry[p] # None /\ ~(token[p].at < stamp[x])
  BY <1>0 DEF Newer, EntryInv
<1>4. entry[p].at = token[p].at /\ entry[p].version <= rows[p].version
  <2>1. token[p] = [category |-> entry[p].category, at |-> entry[p].at]
    BY <1>3, ListedIsRight DEF ListedRight
  <2>2. entry[p].version <= rows[p].version
    BY <1>3 DEF EntryInv
  <2> QED
    BY <2>1, <2>2
<1>5. CASE Brings(x, p)
  <2>1. Since(p, snap[x][p], readAt[x], readAt[x]) /\ snap[x][p] = rows[p]
    BY <1>0, <1>1, <1>5 DEF SinceOf, SinceSnap, Brings
  <2>2. /\ changed[p] \in Nat /\ stamp[x] \in Nat /\ readAt[x] \in Nat
        /\ entry[p].at \in Nat /\ entry[p].version \in Nat /\ rows[p].version \in Nat
    BY <1>0, <1>3 DEF PgTypes, ProcTypes, RedisTypes, Entries, Row
  <2>3. changed[p] <= entry[p].at
    BY <1>1, <1>3, <1>4, <2>1, <2>2 DEF Since
  <2>4. Since(p, entry[p], entry[p].readAt, entry[p].at)
    BY <1>0, <1>3 DEF SinceOf, SinceEntry
  <2>5. CASE entry[p].version = rows[p].version
    BY <1>0, <1>2, <1>3, <2>4, <2>5 DEF Since, Fresh, Live, Accounted
  <2>6. CASE entry[p].version < rows[p].version
    BY <1>0, <1>3, <2>3, <2>4, <2>6 DEF Since, ReadAcrossItsChange, Accounted
  <2> QED
    BY <1>4, <2>2, <2>5, <2>6
<1>6. CASE ~Brings(x, p)
  <2>1. \A y \in Proc : y # x => todo'[y] = todo[y]
    BY <1>0 DEF Write, ProcTypes
  <2>2. ToCome(p) => ToCome(p)'
    BY <1>0, <1>6, <2>1 DEF ToCome, Brings
  <2> QED
    BY <1>0, <2>2, AccountedStands
<1> QED
  BY <1>5, <1>6

LEMMA AccountedStep ==
    ASSUME Strong, Next, Lossless, faults' = 0, NEW p \in Product
    PROVE  Accounted(p)'
<1> USE DEF Strong
<1>0. /\ PgTypes /\ ProcTypes /\ faults = 0 /\ deleted = {} /\ Accounted(p)
  BY Types, LosslessSteps DEF Lossless
<1>1. CASE Tick
  BY <1>0, <1>1, AccountedStands DEF Tick, redisVars, procVars, ToCome, Brings
<1>2. ASSUME NEW q \in Product, NEW c \in Category, Commit(q, c) PROVE Accounted(p)'
  <2>1. CASE q = p
    BY <1>2, <2>1 DEF Commit, Accounted, ToCome
  <2>2. CASE q # p
    <3>1. /\ rows'[p] = rows[p] /\ changed'[p] = changed[p] /\ owed \subseteq owed'
          /\ UNCHANGED <<entry, queue, procVars>>
      BY <1>0, <1>2, <2>2 DEF Commit, PgTypes, redisVars
    <3>2. ToCome(p) => ToCome(p)'
      BY <3>1 DEF ToCome, Brings, procVars
    <3> QED
      BY <1>0, <3>1, <3>2, AccountedStands
  <2> QED
    BY <2>1, <2>2
<1>3. ASSUME NEW S \in SUBSET Product, Announce(S) PROVE Accounted(p)'
  <2>1. UNCHANGED <<rows, changed, entry, procVars>>
    BY <1>3 DEF Announce, pgVars, redisVars
  <2>2. ToCome(p) => ToCome(p)'
    BY <1>3, <2>1 DEF Announce, ToCome, Brings, procVars
  <2> QED
    BY <1>0, <2>1, <2>2, AccountedStands
<1>4. ASSUME NEW z \in Proc, ReadRows(z) \/ TakeStamp(z) PROVE Accounted(p)'
  <2>1. UNCHANGED <<rows, changed, entry, owed, queue, ids>>
    BY <1>4 DEF ReadRows, TakeStamp, pgVars, redisVars
  <2>2. ASSUME NEW x \in Proc, Brings(x, p) PROVE Brings(x, p)'
    BY <1>0, <1>4, <2>1, <2>2 DEF ReadRows, TakeStamp, Brings, ProcTypes
  <2>3. ToCome(p) => ToCome(p)'
    BY <2>1, <2>2 DEF ToCome
  <2> QED
    BY <1>0, <2>1, <2>3, AccountedStands
<1>5. ASSUME NEW z \in Proc, Recomputed(z) PROVE Accounted(p)'
  <2>1. UNCHANGED <<rows, changed, entry, owed, queue>>
    BY <1>5 DEF Recomputed, pgVars, redisVars
  <2>2. ASSUME NEW x \in Proc, Brings(x, p) PROVE Brings(x, p)'
    BY <1>0, <1>5, <2>1, <2>2 DEF Recomputed, Ends, Brings, ProcTypes
  <2>3. ToCome(p) => ToCome(p)'
    BY <2>1, <2>2 DEF ToCome
  <2> QED
    BY <1>0, <2>1, <2>3, AccountedStands
<1>6. ASSUME NEW z \in Proc, NEW S \in SUBSET Product, Starts(z, S) PROVE Accounted(p)'
  <2>1. UNCHANGED <<rows, changed, entry, owed>> /\ queue \subseteq queue' \union {S}
    BY <1>6 DEF Starts, PgStands, RedisStands
  <2>2. ASSUME NEW x \in Proc, Brings(x, p) PROVE Brings(x, p)'
    BY <1>0, <1>6, <2>1, <2>2 DEF Starts, Begins, Brings, ProcTypes
  <2>3. p \in S => Brings(z, p)'
    BY <1>0, <1>6 DEF Starts, Begins, Brings, ProcTypes
  <2>4. ToCome(p) => ToCome(p)'
    BY <2>1, <2>2, <2>3 DEF ToCome
  <2> QED
    BY <1>0, <2>1, <2>4, AccountedStands
<1>7. CASE GoesOn
  <2>1. UNCHANGED <<rows, changed, entry, owed, queue, procVars>>
    BY <1>7 DEF GoesOn, PgStands, RedisStands
  <2>2. ToCome(p) => ToCome(p)'
    BY <2>1 DEF ToCome, Brings, procVars
  <2> QED
    BY <1>0, <2>1, <2>2, AccountedStands
<1>8. ASSUME NEW z \in Proc, NEW q \in Product, Write(z, q) \/ Remove(z, q) PROVE Accounted(p)'
  <2>1. Write(z, q) /\ UNCHANGED <<rows, changed, owed, queue, pc, ids, snap>>
    BY <1>0, <1>8, RemovesDeleted DEF Write, Remove, pgVars
  <2>2. CASE q = p
    BY <1>0, <2>1, <2>2, AppliedIsAccounted, RefusedIsAccounted
  <2>3. CASE q # p
    <3>1. entry'[p] = entry[p]
      BY <2>1, <2>3, OthersStand
    <3>2. \A x \in Proc : p \in todo[x] => p \in todo'[x]
      BY <1>0, <2>1, <2>3 DEF Write, ProcTypes
    <3>3. ToCome(p) => ToCome(p)'
      BY <2>1, <3>2 DEF ToCome, Brings
    <3> QED
      BY <1>0, <2>1, <3>1, <3>3, AccountedStands
  <2> QED
    BY <2>2, <2>3
<1> QED
  BY <1>1, <1>2, <1>3, <1>4, <1>5, <1>6, <1>7, <1>8, LosslessSteps

LEMMA InitLossless == Init => Lossless
<1> SUFFICES ASSUME Init, NEW p \in Product PROVE deleted = {} /\ SinceOf(p) /\ Accounted(p)
  BY DEF Init, Lossless
<1>1. SinceOf(p)
  BY DEF Init, SinceOf, SinceEntry, SinceSnap
<1>2. Fresh(p)
  BY DEF Init, Fresh, Live, NoRow
<1> QED
  BY <1>1, <1>2 DEF Init, Accounted

LEMMA LosslessStep == Strong /\ Lossless /\ [Next]_vars => Lossless'
<1> SUFFICES ASSUME Strong, Lossless, [Next]_vars, faults' = 0
             PROVE  deleted' = {} /\ \A p \in Product : SinceOf(p)' /\ Accounted(p)'
  BY DEF Lossless
<1>1. CASE Next
  <2>1. faults = 0 /\ deleted = {}
    BY <1>1, LosslessSteps DEF Lossless
  <2>2. deleted' = {}
    BY <1>1, <2>1, LosslessSteps
       DEF Tick, Commit, Announce, ReadRows, TakeStamp, Recomputed, Write, Remove, Starts,
           GoesOn, PgStands, pgVars
  <2> QED
    BY <1>1, <2>2, SinceStep, AccountedStep
<1>2. CASE UNCHANGED vars
  <2> USE <1>2 DEF vars, pgVars, redisVars, procVars, taskVars, boundVars, Lossless
  <2>1. \A p \in Product : SinceOf(p)'
    BY DEF SinceOf, SinceEntry, SinceSnap, Since
  <2>2. \A p \in Product : Accounted(p)'
    BY DEF Accounted, Fresh, Live, ReadAcrossItsChange, ToCome, Brings
  <2> QED
    BY <2>1, <2>2
<1> QED
  BY <1>1, <1>2

(* While nothing is lost, an older price never stands with nobody on the    *)
(* way to replace it, unless its read spans its product's last change,      *)
(* whatever handlers and drivers, however far a stamp leads its snapshot    *)
(* (the compare of the scripts, the writers' commit before announcement).   *)
THEOREM NothingStaleIsForgotten == Spec => []StaleIsToCome
<1>1. Strong /\ Lossless => StaleIsToCome
  BY DEF Lossless, Accounted, StaleIsToCome
<1> QED
  BY <1>1, InitLossless, LosslessStep, StrongAlways, PTL DEF Spec
=============================================================================
