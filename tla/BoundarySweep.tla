---------------------------- MODULE BoundarySweep ----------------------------
(***************************************************************************)
(* The reconciler's boundary sweep: it re-announces every promotion whose  *)
(* window opened or closed, that was cancelled or was born since a         *)
(* persisted watermark, and moves the watermark.  Beside it, the API's     *)
(* transactions that write those timestamps, and PostgreSQL's clock.  The  *)
(* direct announcements are taken as lost: what they lose is what the      *)
(* sweep is for.                                                           *)
(***************************************************************************)
EXTENDS Integers

CONSTANTS
    Promotion,
    Reconciler,    \* nothing pins the reconciler to one replica
    Absent,        \* no row, or no cancelled_at
    Lag,           \* COMMIT_LAG_SECONDS
    TxMax,         \* what the two 10 s timeouts let a transaction last
    MaxWindow,     \* MAX_WINDOW_SECONDS
    MaxNow,
    MaxFaults      \* bounds: the clock; runs that die or raise and steps of the clock, together

ASSUME LagAssumption == Lag \in Nat /\ TxMax \in Nat /\ TxMax < Lag
ASSUME SizesAssumption ==
    MaxWindow \in Nat \ {0} /\ MaxNow \in Nat /\ MaxFaults \in Nat
ASSUME AbsentAssumption ==
    /\ Absent \notin Int
    /\ Absent \notin [status : {"active", "draft", "cancelled"}, starts : Int, ends : Int,
                      created : Int, cancelled : Int \union {Absent}]

Instant == 0..MaxNow
Windows == {win \in [starts : Instant, ends : 1..(MaxNow + 1)] : win.starts < win.ends}
Window(row) == [starts |-> row.starts, ends |-> row.ends]

VARIABLES
    now,         \* PostgreSQL's clock
    promotions,  \* the promotions table
    tx,          \* each promotion's open transaction: what it writes and its now()
    watermark,   \* reconciler_state.last_boundary_sweep_at
    held,        \* ids of sweep jobs BullMQ holds, finished ones included
    pc, since, windowEnd, todo,    \* each reconciler's run
    due,         \* history: the boundaries committed rows have, that a sweep owes
    offered,     \* history: the boundaries a sweep has published for
    announced,   \* history: when a sweep's job for the promotion last entered the queue
    faults, stepsBack

runVars   == <<pc, since, windowEnd, todo>>
history   == <<due, offered, announced>>
vars == <<now, promotions, tx, watermark, held, runVars, history, faults, stepsBack>>

Init ==
    /\ now = 0
    /\ promotions = [p \in Promotion |-> Absent]
    /\ tx = [p \in Promotion |-> Absent]
    /\ watermark = 0
    /\ held = {}
    /\ pc = [r \in Reconciler |-> "idle"]
    /\ since = [r \in Reconciler |-> 0]
    /\ windowEnd = [r \in Reconciler |-> 0]
    /\ todo = [r \in Reconciler |-> {}]
    /\ due = {}
    /\ offered = {}
    /\ announced = [p \in Promotion |-> -1]
    /\ faults = 0
    /\ stepsBack = 0

Fault == faults + stepsBack < MaxFaults /\ faults' = faults + 1

(***************************************************************************)
(* The clock.  An open transaction ends before its timeouts are over.      *)
(***************************************************************************)
Tick ==
    /\ now < MaxNow
    /\ \A p \in Promotion : tx[p] # Absent => now < tx[p].at + TxMax
    /\ now' = now + 1
    /\ UNCHANGED <<promotions, tx, watermark, held, runVars, history, faults, stepsBack>>

(* The primary's clock is stepped back, by one tick: a fault like another.  *)
StepBack ==
    /\ faults + stepsBack < MaxFaults
    /\ \A p \in Promotion : tx[p] = Absent
    /\ now > 0
    /\ now' = now - 1
    /\ stepsBack' = stepsBack + 1
    /\ UNCHANGED <<promotions, tx, watermark, held, runVars, history, faults>>

(***************************************************************************)
(* The API's transactions: now() is the instant they begin at, and what    *)
(* they write is seen when they commit.  A row's lock lets one at a time   *)
(* write a promotion; one that waits for it is taken to begin at its turn. *)
(***************************************************************************)
Begin(p, what, win) ==
    /\ tx[p] = Absent
    /\ now < MaxNow
    /\ CASE what \in {"create", "draft"} -> promotions[p] = Absent /\ win.ends > now
         [] what = "assign" -> /\ promotions[p] # Absent
                               /\ promotions[p].status = "draft"
                               /\ promotions[p].ends > now
                               /\ win = Window(promotions[p])
         [] what = "cancel" -> /\ promotions[p] # Absent
                               /\ promotions[p].status # "cancelled"
                               /\ win = Window(promotions[p])
    /\ tx' = [tx EXCEPT ![p] =
                [what |-> what, at |-> now, starts |-> win.starts, ends |-> win.ends]]
    /\ UNCHANGED <<now, promotions, watermark, held, runVars, history, faults, stepsBack>>

Written(p) ==
    LET t == tx[p] IN
    CASE t.what = "create" -> [status |-> "active", starts |-> t.starts, ends |-> t.ends,
                               created |-> t.at, cancelled |-> Absent]
      [] t.what = "draft"  -> [status |-> "draft", starts |-> t.starts, ends |-> t.ends,
                               created |-> t.at, cancelled |-> Absent]
      [] t.what = "assign" -> [promotions[p] EXCEPT !.status = "active"]
      [] t.what = "cancel" -> [promotions[p] EXCEPT !.status = "cancelled", !.cancelled = t.at]

(* The boundaries a commit makes the sweep's business.  An assign's own     *)
(* instant is in no column, so a start already past at the assign is none   *)
(* of them (ADR-0007 records it).                                           *)
Owed(p) ==
    LET t == tx[p]
        ahead == {b \in {t.starts, t.ends} : b > t.at}
    IN CASE t.what = "create" -> ahead \union {t.at}
         [] t.what = "draft"  -> {}
         [] t.what = "assign" -> ahead
         [] t.what = "cancel" -> {t.at}

Commit(p) ==
    /\ tx[p] # Absent
    /\ promotions' = [promotions EXCEPT ![p] = Written(p)]
    /\ due' = due \union ({p} \X Owed(p))
    /\ tx' = [tx EXCEPT ![p] = Absent]
    /\ UNCHANGED <<now, watermark, held, runVars, offered, announced, faults, stepsBack>>

Rollback(p) ==
    /\ tx[p] # Absent
    /\ tx' = [tx EXCEPT ![p] = Absent]
    /\ UNCHANGED <<now, promotions, watermark, held, runVars, history, faults, stepsBack>>

(***************************************************************************)
(* crossedSince: the bounds of the window in one statement, the promotions *)
(* with a boundary inside it in another.                                   *)
(***************************************************************************)
Least(a, b) == IF a < b THEN a ELSE b

\* Mutants: the window closes at now(); a window that ends before it starts is kept.
WindowEnd_NoLag(mark) ==
    LET end == Least(now, mark + MaxWindow) IN IF end <= mark THEN mark ELSE end
WindowEnd_Backwards(mark) == Least(now - Lag, mark + MaxWindow)

WindowEnd(mark) ==
    LET end == Least(now - Lag, mark + MaxWindow) IN IF end <= mark THEN mark ELSE end

ReadBounds(r) ==
    /\ pc[r] = "idle"
    /\ since' = [since EXCEPT ![r] = watermark]
    /\ windowEnd' = [windowEnd EXCEPT ![r] = WindowEnd(watermark)]
    /\ pc' = [pc EXCEPT ![r] = "read"]
    /\ UNCHANGED <<now, promotions, tx, watermark, held, todo, history, faults, stepsBack>>

Boundaries(row) == {row.starts, row.ends, row.cancelled, row.created} \ {Absent}

Crossed(low, high) ==
    {pb \in Promotion \X (0..(MaxNow + 1)) :
        /\ promotions[pb[1]] # Absent
        /\ promotions[pb[1]].status # "draft"
        /\ pb[2] \in Boundaries(promotions[pb[1]])
        /\ low < pb[2] /\ pb[2] <= high}

ReadRows(r) ==
    /\ pc[r] = "read"
    /\ todo' = [todo EXCEPT ![r] = Crossed(since[r], windowEnd[r])]
    /\ pc' = [pc EXCEPT ![r] = "publish"]
    /\ UNCHANGED <<now, promotions, tx, watermark, held, since, windowEnd, history, faults,
                   stepsBack>>

(***************************************************************************)
(* One promotion.changed per promotion, under an id made of the promotion  *)
(* and the watermark: BullMQ ignores an add for an id it still holds.      *)
(***************************************************************************)
JobId(p, mark) == <<p, mark>>

Offers(r, p) == {pb \in todo[r] : pb[1] = p}

Enters(r, p) ==
    /\ held' = held \union {JobId(p, since[r])}
    /\ announced' = IF JobId(p, since[r]) \in held
                      THEN announced
                      ELSE [announced EXCEPT ![p] = now]

Publish(r, p) ==
    /\ pc[r] = "publish"
    /\ Offers(r, p) # {}
    /\ Enters(r, p)
    /\ offered' = offered \union Offers(r, p)
    /\ todo' = [todo EXCEPT ![r] = @ \ Offers(r, p)]
    /\ UNCHANGED <<now, promotions, tx, watermark, pc, since, windowEnd, due, faults, stepsBack>>

RunEnds(r) ==
    /\ pc' = [pc EXCEPT ![r] = "idle"]
    /\ since' = [since EXCEPT ![r] = 0]
    /\ windowEnd' = [windowEnd EXCEPT ![r] = 0]
    /\ todo' = [todo EXCEPT ![r] = {}]

(* The publish is not confirmed, though it may land; the run raises, and    *)
(* the watermark stays.                                                     *)
PublishFails(r, p) ==
    /\ pc[r] = "publish"
    /\ Offers(r, p) # {}
    /\ Fault
    /\ Enters(r, p) \/ UNCHANGED <<held, announced>>
    /\ RunEnds(r)
    /\ UNCHANGED <<now, promotions, tx, watermark, due, offered, stepsBack>>

\* Mutants: no compare; its two arguments swapped.
Advance_Always(from, to) == watermark' = to
Advance_Swapped(from, to) == watermark' = IF watermark = to THEN from ELSE watermark

(* advance: a compare-and-set; the loser writes nothing.                    *)
Advance(from, to) == watermark' = IF watermark = from THEN to ELSE watermark

RunAdvances(r) ==
    /\ pc[r] = "publish"
    /\ todo[r] = {}
    /\ Advance(since[r], windowEnd[r])
    /\ RunEnds(r)
    /\ UNCHANGED <<now, promotions, tx, held, history, faults, stepsBack>>

Crash(r) ==
    /\ pc[r] # "idle"
    /\ Fault
    /\ RunEnds(r)
    /\ UNCHANGED <<now, promotions, tx, watermark, held, history, stepsBack>>

Run(r) ==
    \/ ReadBounds(r)
    \/ ReadRows(r)
    \/ \E p \in Promotion : Publish(r, p)
    \/ RunAdvances(r)

Writer(p) ==
    \/ \E what \in {"create", "draft", "assign", "cancel"}, win \in Windows : Begin(p, what, win)
    \/ Commit(p)
    \/ Rollback(p)

Next ==
    \/ Tick
    \/ StepBack
    \/ \E p \in Promotion : Writer(p)
    \/ \E r \in Reconciler : \/ Run(r) \/ Crash(r)
                             \/ \E p \in Promotion : PublishFails(r, p)

Spec == Init /\ [][Next]_vars

(***************************************************************************)
(* Fairness: time passes, an open transaction ends, and the repeatable     *)
(* reconciler.run job keeps the sweep running.                             *)
(***************************************************************************)
FairSpec ==
    /\ Spec
    /\ WF_vars(Tick)
    /\ \A p \in Promotion : WF_vars(Commit(p) \/ Rollback(p))
    /\ \A r \in Reconciler : WF_vars(Run(r))

-----------------------------------------------------------------------------
Rows == [status : {"active", "draft", "cancelled"}, starts : Instant, ends : 1..(MaxNow + 1),
         created : Instant, cancelled : Instant \union {Absent}]
Txs  == [what : {"create", "draft", "assign", "cancel"}, at : Instant,
         starts : Instant, ends : 1..(MaxNow + 1)]
Pairs == Promotion \X (0..(MaxNow + 1))

(* Every variable has its type.                                             *)
TypeOK ==
    /\ now \in Instant
    /\ promotions \in [Promotion -> Rows \union {Absent}]
    /\ tx \in [Promotion -> Txs \union {Absent}]
    /\ watermark \in Instant
    /\ held \in SUBSET (Promotion \X Instant)
    /\ pc \in [Reconciler -> {"idle", "read", "publish"}]
    /\ since \in [Reconciler -> Instant]
    /\ windowEnd \in [Reconciler -> Instant]
    /\ todo \in [Reconciler -> SUBSET Pairs]
    /\ due \in SUBSET Pairs
    /\ offered \in SUBSET Pairs
    /\ announced \in [Promotion -> Int]
    /\ faults \in Nat /\ stepsBack \in Nat

(* No boundary falls behind the watermark without a sweep having read it    *)
(* and published for it, with any number of reconcilers, runs that die      *)
(* anywhere, and writers whose commit comes later than their timestamp      *)
(* (crossedSince's lag, its half-open window and advance).  A clock that is *)
(* stepped back puts new timestamps behind the watermark, and is left out.  *)
NothingUnreadBehindTheWatermark ==
    stepsBack = 0 =>
        \A pb \in due : 0 < pb[2] /\ pb[2] <= watermark => pb \in offered

(* The watermark never moves back, whichever of two sweeps is slower and    *)
(* wherever the clock is stepped to (advance, the windowEnd <= since case). *)
WatermarkMovesForward == [][watermark' >= watermark]_vars

(* After an outage of any length the watermark catches up with the clock,   *)
(* a window at a time.                                                      *)
CatchesUp == <>(watermark >= MaxNow - Lag)

(* What crossedSince claims of its window: no boundary is missed.  Behind   *)
(* the watermark, a boundary has had a job enter the queue after it was     *)
(* crossed.                                                                 *)
NoBoundaryIsMissed ==
    \A pb \in due : 0 < pb[2] /\ pb[2] <= watermark => announced[pb[1]] >= pb[2]
=============================================================================
