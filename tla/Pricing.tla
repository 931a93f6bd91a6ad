------------------------------- MODULE Pricing -------------------------------
(***************************************************************************)
(* Prices while an operator edits the rules: the table pricing_rules, the  *)
(* BasePriceCalculatorCache of one process with the calculators it has     *)
(* loaded, the chunks that price vendor rows with them, and what becomes   *)
(* of a stored price in the read model.                                    *)
(*                                                                         *)
(* The ingestion worker runs one chunk at a time; the cache and the        *)
(* calculators are written for any number of callers in their process, and *)
(* are modelled so.                                                        *)
(***************************************************************************)
EXTENDS BasePrice, EffectivePrice

CONSTANTS
    Rule,       \* ids for the rows of pricing_rules
    Body,       \* what an operator may write into a row
    Seed,       \* what migration 0001 wrote, None for the ids it left
    Caller,     \* chunks at work in the process
    Row,        \* vendor rows of one product
    Offer,      \* promotions a product or its category may have
    None,       \* no row, no cache entry, no calculator, no product
    Ttl,        \* ttlMs, in ticks
    Skew,       \* bound: how long the operator's transaction is open, in ticks
    MaxNow,     \* bound: the clock
    MaxEdits,   \* bound: statements of the operator
    MaxFaults   \* bound: loads and engine runs that fail, and restarts

ASSUME BodyAssumption ==
    \A b \in Body : b.priority \in Int /\ b.event \in Event
ASSUME SeedAssumption == Seed \in [Rule -> Body \union {None}]
ASSUME RowAssumption == Row \subseteq VendorRow
ASSUME OfferAssumption == Offer \subseteq Candidate
ASSUME RuleAssumption == Rule \subseteq Nat /\ IsFiniteSet(Rule)
ASSUME TimesAssumption == Ttl \in Nat \ {0} /\ Skew \in Nat /\ MaxNow \in Nat
ASSUME LimitsAssumption == MaxEdits \in Nat /\ MaxFaults \in Nat
ASSUME CallerAssumption == IsFiniteSet(Caller)
ASSUME NoneAssumption ==
    /\ None \notin Nat /\ None \notin [expiresAt : Nat, load : Nat]
    /\ None \notin [body : Body, active : BOOLEAN, updatedAt : Nat]

(* Calculators that can be told apart: one a caller, and the cached one.    *)
Load == 1..(Cardinality(Caller) + 1)

VARIABLES
    now,
    table,      \* pricing_rules: body, active, updatedAt
    issued,     \* the last id its identity column has handed out
    newest,     \* history: the latest stamp ever given
    orderly,    \* history: the last statement put a rule in force, stamped after all before
    cached,     \* the entry of the cache: its expiry and its load
    loads,      \* the calculators, as promises
    holds,      \* the load each caller has been given
    asked,      \* when it asked
    stored,     \* the product: base price, version and the row they are from
    edits, faults

tableVars  == <<table, issued, newest, orderly, edits>>
cacheVars  == <<cached, loads>>
callerVars == <<holds, asked>>
vars == <<now, tableVars, cacheVars, callerVars, stored, faults>>

Rows(t) ==
    {[id |-> r, priority |-> t[r].body.priority, conditions |-> t[r].body.conditions,
      event |-> t[r].body.event, active |-> t[r].active, updatedAt |-> t[r].updatedAt] :
        r \in {s \in Rule : t[s] # None}}

Unused == [state |-> "unused", rows |-> {}, readAt |-> 0]

Init ==
    /\ now = 0
    /\ table = [r \in Rule |-> IF Seed[r] = None THEN None
                               ELSE [body |-> Seed[r], active |-> TRUE, updatedAt |-> 0]]
    /\ issued = Max({r \in Rule : Seed[r] # None} \union {0})
    /\ newest = 0
    /\ orderly = TRUE
    /\ cached = None
    /\ loads = [l \in Load |-> Unused]
    /\ holds = [c \in Caller |-> None]
    /\ asked = [c \in Caller |-> 0]
    /\ stored = None
    /\ edits = 0
    /\ faults = 0

Tick ==
    /\ now < MaxNow
    /\ now' = now + 1
    /\ UNCHANGED <<tableVars, cacheVars, callerVars, stored, faults>>

Fault == faults < MaxFaults /\ faults' = faults + 1

(***************************************************************************)
(* The operator, at a psql prompt.  The trigger stamps an updated row, and *)
(* the column's default an inserted one, with the instant the transaction  *)
(* began.                                                                  *)
(***************************************************************************)
Statement ==
    /\ edits < MaxEdits
    /\ edits' = edits + 1
    /\ UNCHANGED <<now, cacheVars, callerVars, stored, faults>>

Stamps(r, body, active) ==
    \E stamp \in 0..now :
        /\ now - Skew <= stamp
        /\ table' = [table EXCEPT ![r] = [body |-> body, active |-> active, updatedAt |-> stamp]]
        /\ orderly' = (active /\ newest < stamp)
        /\ newest' = IF newest < stamp THEN stamp ELSE newest

Update(r, body, active) ==
    /\ table[r].body # body \/ table[r].active # active
    /\ Statement
    /\ Stamps(r, body, active)
    /\ UNCHANGED issued

Edit(r) == table[r] # None /\ \E body \in Body : Update(r, body, table[r].active)

Retire(r) == table[r] # None /\ Update(r, table[r].body, FALSE)

Restore(r) == table[r] # None /\ Update(r, table[r].body, TRUE)

Insert(r, body) ==
    /\ issued < r
    /\ Statement
    /\ Stamps(r, body, TRUE)
    /\ issued' = r

(* Nothing but discipline stops it.                                         *)
Delete(r) ==
    /\ table[r] # None
    /\ Statement
    /\ table' = [table EXCEPT ![r] = None]
    /\ orderly' = FALSE
    /\ UNCHANGED <<issued, newest>>

(***************************************************************************)
(* The cache.  A load nobody holds is gone.                                *)
(***************************************************************************)
Kept(ls, entry, held) ==
    [l \in Load |->
        IF (entry # None /\ entry.load = l) \/ \E c \in Caller : held[c] = l
          THEN ls[l] ELSE Unused]

\* Mutant: an entry is still good at the instant it expires.
Expired_After == now > cached.expiresAt

Expired == now >= cached.expiresAt

(* current(): the cached load, or a new one, which it caches.               *)
Current(c) ==
    /\ holds[c] = None
    /\ asked' = [asked EXCEPT ![c] = now]
    /\ IF cached # None /\ ~Expired
         THEN /\ holds' = [holds EXCEPT ![c] = cached.load]
              /\ UNCHANGED cacheVars
         ELSE LET l == CHOOSE l \in Load : loads[l] = Unused \/
                          (/\ cached # None /\ cached.load = l
                           /\ \A d \in Caller : holds[d] # l)
              IN  /\ holds' = [holds EXCEPT ![c] = l]
                  /\ cached' = [expiresAt |-> now + Ttl, load |-> l]
                  /\ loads' = Kept([loads EXCEPT ![l] = [Unused EXCEPT !.state = "pending"]],
                                   cached', holds')
    /\ UNCHANGED <<now, tableVars, stored, faults>>

Idles(c) ==
    /\ holds' = [holds EXCEPT ![c] = None]
    /\ asked' = [asked EXCEPT ![c] = 0]

(* The select answers and the rows compile.                                 *)
LoadReads(l) ==
    /\ loads[l].state = "pending"
    /\ Compiles(Rows(table))
    /\ loads' = [loads EXCEPT ![l] =
                    [state |-> "ready", rows |-> Active(Rows(table)), readAt |-> now]]
    /\ UNCHANGED <<now, tableVars, cached, callerVars, stored, faults>>

\* Mutant: a failed load stays cached.
Cleared_Kept == UNCHANGED cached

Cleared == cached' = None

(* The select raises, or a row does not compile, or there is none: the      *)
(* entry is cleared, whichever load is in it, and every waiter gets the     *)
(* error.                                                                   *)
LoadFails(l) ==
    /\ loads[l].state = "pending"
    /\ \/ Fault
       \/ ~Compiles(Rows(table)) /\ UNCHANGED faults
    /\ Cleared
    /\ holds' = [c \in Caller |-> IF holds[c] = l THEN None ELSE holds[c]]
    /\ asked' = [c \in Caller |-> IF holds[c] = l THEN 0 ELSE asked[c]]
    /\ loads' = Kept([loads EXCEPT ![l].state = "failed"], cached', holds')
    /\ UNCHANGED <<now, tableVars, stored>>

(***************************************************************************)
(* A chunk prices a row and stores it.  An engine that has raised reports  *)
(* too few rules afterwards, and is not asked again.                       *)
(***************************************************************************)
Results(l, row) ==
    IF loads[l].state = "spent"
      THEN {SubSeq(Fired(loads[l].rows, row), 1, n) :
               n \in 0..Len(Fired(loads[l].rows, row))}
      ELSE {Fired(loads[l].rows, row)}

\* Mutant: it is asked again.
Refuses_Never(l) == FALSE

Refuses(l) == loads[l].state = "spent"

HasCalculator(c) == holds[c] # None /\ loads[holds[c]].state \in {"ready", "spent"}

PriceRow(c, row) ==
    /\ HasCalculator(c)
    /\ ~Refuses(holds[c])
    /\ \E results \in Results(holds[c], row) :
          LET cents == Priced(results, row) IN
          stored' = IF cents = Rejected THEN stored
                    ELSE [basePriceCents |-> cents, row |-> row,
                          pricingRulesVersion |-> NewestVersion(loads[holds[c]].rows)]
    /\ UNCHANGED <<now, tableVars, cacheVars, callerVars, faults>>

(* The chunk ends: done, out of time or superseded.                         *)
Ends(c) ==
    /\ HasCalculator(c)
    /\ Idles(c)
    /\ loads' = Kept(loads, cached, holds')
    /\ UNCHANGED <<now, tableVars, cached, stored, faults>>

(* The engine raises, or has raised before: the chunk fails.                *)
RulesFault(c) ==
    /\ HasCalculator(c)
    /\ Idles(c)
    /\ IF Refuses(holds[c])
         THEN loads' = Kept(loads, cached, holds') /\ UNCHANGED faults
         ELSE /\ Fault
              /\ loads' = Kept([loads EXCEPT ![holds[c]].state = "spent"], cached, holds')
    /\ UNCHANGED <<now, tableVars, cached, stored>>

Restart ==
    /\ Fault
    /\ cached' = None
    /\ loads' = [l \in Load |-> Unused]
    /\ holds' = [c \in Caller |-> None]
    /\ asked' = [c \in Caller |-> 0]
    /\ UNCHANGED <<now, tableVars, stored>>

Next ==
    \/ Tick
    \/ \E r \in Rule : Edit(r) \/ Retire(r) \/ Restore(r) \/ Delete(r)
    \/ \E r \in Rule, body \in Body : Insert(r, body)
    \/ \E l \in Load : LoadReads(l) \/ LoadFails(l)
    \/ \E c \in Caller : Current(c) \/ RulesFault(c) \/ Ends(c)
    \/ \E c \in Caller, row \in Row : PriceRow(c, row)
    \/ Restart

Spec == Init /\ [][Next]_vars

-----------------------------------------------------------------------------
(***************************************************************************)
(* Properties.                                                             *)
(***************************************************************************)

(* Every variable has its type; a price is one the products table holds.    *)
TypeOK ==
    /\ now \in 0..MaxNow
    /\ table \in [Rule -> [body : Body, active : BOOLEAN, updatedAt : 0..MaxNow] \union {None}]
    /\ issued \in Nat
    /\ newest \in 0..MaxNow
    /\ orderly \in BOOLEAN
    /\ cached \in [expiresAt : 0..(MaxNow + Ttl), load : Load] \union {None}
    /\ \A l \in Load :
          /\ loads[l].state \in {"unused", "pending", "ready", "spent", "failed"}
          /\ loads[l].readAt \in 0..MaxNow
    /\ holds \in [Caller -> Load \union {None}]
    /\ asked \in [Caller -> 0..MaxNow]
    /\ stored \in [basePriceCents : 0..MaxCents, row : Row,
                   pricingRulesVersion : 0..MaxNow] \union {None}
    /\ edits \in 0..MaxEdits
    /\ faults \in 0..MaxFaults

(* Whoever asks for the rules gets rules read less than ttlMs before, or    *)
(* after; never a load that has failed, although a failing load may find    *)
(* another one's entry in its place (BasePriceCalculatorCache.current).     *)
RulesAreFresh ==
    /\ cached # None => loads[cached.load].state # "failed"
    /\ \A c \in Caller : HasCalculator(c) => asked[c] < loads[holds[c]].readAt + Ttl

(* After a statement that puts a rule in force and is stamped after all     *)
(* before it, whatever was retired, deleted or stamped out of order         *)
(* earlier, and until the next one, a product with the table's own version  *)
(* has the price its row has under the table's rules, however stale the     *)
(* calculator, whoever shared it and whatever its engine has raised         *)
(* (newestVersion, run).                                                    *)
VersionTellsThePrice ==
    stored # None /\ orderly /\ stored.pricingRulesVersion = NewestVersion(Rows(table))
        => IsBasePrice(stored.basePriceCents, Rows(table), stored.row)

(* Whatever its product and its category have on offer, a shopper gets the  *)
(* lower price and reads the name of the promotion that gives it; an offer  *)
(* that cannot be priced does not stand in the other one's way, and none    *)
(* takes a price above its base or below nothing (ProductPricer.price).     *)
ShopperGetsTheLowest ==
    stored # None => \A p, q \in Offer :
        IsLowest(Entry(Seeded, stored.basePriceCents, p, q), p, q)
=============================================================================
