------------------------------ MODULE BasePrice ------------------------------
(***************************************************************************)
(* BasePriceCalculator: the rows of pricing_rules compiled into one        *)
(* ordered set of adjustments, and a vendor row taken through them.        *)
(*                                                                         *)
(* A condition is the set of categories it holds for; Broken stands for    *)
(* the conditions the compiler refuses: an empty all or any, an operator   *)
(* or a fact that does not exist.                                          *)
(***************************************************************************)
EXTENDS Integers, FiniteSets, Sequences, SequencesExt

CONSTANTS
    Category,   \* of a vendor row
    Broken,     \* conditions that cannot be compiled
    MaxCents,   \* Number.MAX_SAFE_INTEGER
    Rejected    \* the outcome of a row whose price goes out of range

ASSUME MaxCentsAssumption == MaxCents \in Nat
ASSUME RejectedAssumption == Rejected \notin Int
ASSUME BrokenAssumption == \A C \in SUBSET Category : Broken # C

Bps == 10000

Event == [type : {"adjustPercentBps", "adjustCents"}, value : Int]

VendorRow == [category : Category, cents : 0..MaxCents]

(* What fromRules does with one row: parseEvent, rejectEmptyGroup, probe.   *)
WellFormed(rule) ==
    /\ rule.conditions # Broken
    /\ rule.event.type = "adjustPercentBps" => rule.event.value >= -Bps

Active(rows) == {rule \in rows : rule.active}

Compiles(rows) ==
    /\ Active(rows) # {}
    /\ \A rule \in Active(rows) : WellFormed(rule)

\* Mutant: the version of the rule that runs first.
NewestVersion_First(rows) ==
    (CHOOSE rule \in Active(rows) :
        \A other \in Active(rows) : other.priority <= rule.priority).updatedAt

(* The version of a set of rules: the newest stamp of an active one.        *)
NewestVersion(rows) == Max({rule.updatedAt : rule \in Active(rows)} \union {0})

RanksBefore(a, b) ==
    a.priority > b.priority \/ (a.priority = b.priority /\ a.id < b.id)

(* The rules whose conditions hold for a row, in the order they run.        *)
Fired(rows, row) ==
    LET fires == {rule \in Active(rows) : row.category \in rule.conditions}
    IN  CHOOSE run \in [1..Cardinality(fires) -> fires] :
            \A i, j \in DOMAIN run : i < j => RanksBefore(run[i], run[j])

(* One adjustment; a percentage is floored to the cent.                     *)
Apply(cents, event) ==
    IF event.type = "adjustCents"
      THEN cents + event.value
      ELSE (cents * (Bps + event.value)) \div Bps

\* Mutant: only below zero is out of range.
Adjusted_NoTop(cents, rule) ==
    IF cents # Rejected /\ Apply(cents, rule.event) >= 0
      THEN Apply(cents, rule.event)
      ELSE Rejected

(* Out of range once is out of range: the row is rejected.                  *)
Adjusted(cents, rule) ==
    IF cents # Rejected /\ Apply(cents, rule.event) \in 0..MaxCents
      THEN Apply(cents, rule.event)
      ELSE Rejected

Priced(results, row) == FoldLeft(Adjusted, row.cents, results)

Calculate(rows, row) == Priced(Fired(rows, row), row)

-----------------------------------------------------------------------------
(* What a base price should be, without the engine: each rule that applies, *)
(* the highest priority first and then the lowest id, takes the price of    *)
(* the one before it to the largest whole cent within its adjustment, and   *)
(* every price on the way is one the store can hold.                        *)
IsBasePrice(cents, rows, row) ==
    LET applies == {rule \in Active(rows) : row.category \in rule.conditions}
        Rank(rule) == 1 + Cardinality({other \in applies :
                          \/ other.priority > rule.priority
                          \/ other.priority = rule.priority /\ other.id < rule.id})
        last == Cardinality(applies)
    IN  \E price \in [0..last -> 0..MaxCents] :
            /\ price[0] = row.cents
            /\ price[last] = cents
            /\ \A rule \in applies :
                  LET before == price[Rank(rule) - 1]
                      after  == price[Rank(rule)]
                      value  == rule.event.value
                  IN  IF rule.event.type = "adjustCents"
                        THEN after = before + value
                        ELSE /\ after * Bps <= before * (Bps + value)
                             /\ before * (Bps + value) < (after + 1) * Bps
=============================================================================
