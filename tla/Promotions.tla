------------------------------ MODULE Promotions ------------------------------
(***************************************************************************)
(* What a promotion's change sets going: the API's transaction, the        *)
(* announcer and its boundary jobs (one activate and one expire, delayed), *)
(* the promotion.changed handler that fans out to the products of the      *)
(* target, and the recompute that prices them.  Behind it stands the       *)
(* reconciler's boundary sweep, taken here for what module BoundarySweep   *)
(* shows of it: every boundary owed to it is announced some time after it  *)
(* is crossed.                                                             *)
(*                                                                         *)
(* One product is watched, in the target of every promotion here; what the *)
(* storefront shows of it is the set of promotions its last recompute      *)
(* found live.  A recompute is one step: module ReadModel shows what its   *)
(* stamps make of an interleaved one.  At most one failure happens in a    *)
(* behaviour, which is the promise the ADR makes.                          *)
(***************************************************************************)
EXTENDS Naturals

CONSTANTS
    Promotion,
    Absent,         \* no row
    NoJob,          \* no delayed job under the id
    Lasts,          \* bound: how long a transaction and its request may last
    Failures,       \* the kinds of failure that may happen
    MaxNow          \* bound: the clock

ASSUME SizesAssumption == Lasts \in Nat /\ MaxNow \in Nat
ASSUME DistinctAssumption ==
    /\ NoJob \notin Nat
    /\ Absent \notin [status : {"draft", "active", "cancelled"}, target : BOOLEAN,
                      starts : Nat, ends : Nat]
ASSUME FailuresAssumption == Failures \subseteq {"step", "request", "job", "early"}

Instant == 0..MaxNow
Boundary == {"activate", "expire"}

(* Bound: the clock goes on past a window's end, for its job and the sweep.  *)
Windows == {win \in [starts : Instant, ends : Instant] :
                win.starts < win.ends /\ win.ends < MaxNow /\ win.ends + Lasts <= MaxNow}

VARIABLES
    now,          \* PostgreSQL's clock
    promotions,   \* the promotions table
    toSweep,      \* boundaries the sweep has not announced yet
    announcing,   \* steps of a create's or an assign's request still to do
    asOf,         \* the now() that request works with
    cancelling,   \* steps of a cancel's request still to do
    delayed,      \* the boundary jobs, by the instant they are served at
    changed,      \* waiting promotion.changed jobs of each promotion
    upserted,     \* waiting product.upserted jobs naming the product
    shown,        \* the promotions in the product's price
    late,         \* history: assigned when their start had passed
    failure       \* the failure that has happened

requestVars == <<announcing, asOf, cancelling>>
queueVars   == <<delayed, changed, upserted>>
vars == <<now, promotions, toSweep, requestVars, queueVars, shown, late, failure>>

Init ==
    /\ now = 0
    /\ promotions = [p \in Promotion |-> Absent]
    /\ toSweep = {}
    /\ announcing = [p \in Promotion |-> {}]
    /\ asOf = [p \in Promotion |-> 0]
    /\ cancelling = [p \in Promotion |-> {}]
    /\ delayed = [p \in Promotion |-> [b \in Boundary |-> NoJob]]
    /\ changed = [p \in Promotion |-> 0]
    /\ upserted = 0
    /\ shown = {}
    /\ late = {}
    /\ failure = "none"

Fails(kind) ==
    /\ kind \in Failures
    /\ failure = "none"
    /\ failure' = kind

Tick ==
    /\ now < MaxNow
    /\ \A p \in Promotion : announcing[p] # {} => now < asOf[p] + Lasts
    /\ now' = now + 1
    /\ UNCHANGED <<promotions, toSweep, requestVars, queueVars, shown, late, failure>>

(***************************************************************************)
(* The API's transactions.  now() is the instant they begin at, up to      *)
(* Lasts before they commit.                                               *)
(***************************************************************************)
Begun == {t \in Instant : t <= now /\ now <= t + Lasts}

At(row, b) == IF b = "activate" THEN row.starts ELSE row.ends

\* Mutant: a scheduled sale gets no activate job.
Steps_NoActivate(row, t) == IF row.starts <= t THEN {"changed", "expire"} ELSE {"expire"}

(* A sale that is already running is announced at once, one still to start  *)
(* gets a job for its start, and both get one for their end.                *)
Steps(row, t) == IF row.starts <= t THEN {"changed", "expire"} ELSE {"activate", "expire"}

(* The timestamps a commit leaves for the sweep: those still ahead.         *)
Ahead(p, row, t) == {p} \X {b \in {row.starts, row.ends} : b > t}

Announces(p, row, t) ==
    /\ announcing' = [announcing EXCEPT ![p] = Steps(row, t)]
    /\ asOf' = [asOf EXCEPT ![p] = t]

Insert(p, win, t) ==
    /\ promotions[p] = Absent
    /\ now < MaxNow
    /\ win.ends > t
    /\ \/ /\ promotions' = [promotions EXCEPT ![p] =
                [status |-> "draft", target |-> FALSE, starts |-> win.starts, ends |-> win.ends]]
          /\ UNCHANGED <<toSweep, announcing, asOf>>
       \/ /\ promotions' = [promotions EXCEPT ![p] =
                [status |-> "active", target |-> TRUE, starts |-> win.starts, ends |-> win.ends]]
          /\ toSweep' = toSweep \union Ahead(p, win, t) \union {<<p, t>>}
          /\ Announces(p, win, t)
    /\ UNCHANGED <<now, cancelling, queueVars, shown, late, failure>>

Assign(p, t) ==
    /\ promotions[p] # Absent
    /\ promotions[p].status = "draft"
    /\ promotions[p].ends > t
    /\ now < MaxNow
    /\ promotions' = [promotions EXCEPT ![p].status = "active", ![p].target = TRUE]
    /\ toSweep' = toSweep \union Ahead(p, promotions[p], t)
    /\ Announces(p, promotions[p], t)
    /\ late' = IF promotions[p].starts <= t THEN late \union {p} ELSE late
    /\ UNCHANGED <<now, cancelling, queueVars, shown, failure>>

(* A repeat finds the row cancelled, and announces nothing.                 *)
Cancel(p, t) ==
    /\ promotions[p] # Absent
    /\ promotions[p].status # "cancelled"
    /\ now < MaxNow
    /\ promotions' = [promotions EXCEPT ![p].status = "cancelled"]
    /\ toSweep' = toSweep \union {<<p, t>>}
    /\ cancelling' = [cancelling EXCEPT ![p] = {"changed"} \union Boundary]
    /\ UNCHANGED <<now, announcing, asOf, queueVars, shown, late, failure>>

(***************************************************************************)
(* The announcer.  Each step settles on its own; one that times out is     *)
(* logged, and may have landed.                                            *)
(***************************************************************************)
Enqueued(p) == changed' = [changed EXCEPT ![p] = @ + 1]

Done(p, step) == announcing' = [announcing EXCEPT ![p] = @ \ {step}]

PublishChanged(p) ==
    /\ "changed" \in announcing[p]
    /\ Done(p, "changed")
    /\ Enqueued(p)
    /\ UNCHANGED <<now, promotions, toSweep, asOf, cancelling, delayed, upserted, shown, late,
                   failure>>

\* Mutant: the subtraction the wrong way round, with no floor under it.
Delay_Swapped(p, b) == asOf[p] - At(promotions[p], b)

(* The delay is reckoned from the request's now(), and begins when the job  *)
(* is added.                                                                *)
Delay(p, b) ==
    IF At(promotions[p], b) > asOf[p] THEN At(promotions[p], b) - asOf[p] ELSE 0

Scheduled(p, b) == delayed' = [delayed EXCEPT ![p][b] = now + Delay(p, b)]

Schedule(p, b) ==
    /\ b \in announcing[p]
    /\ "changed" \notin announcing[p]
    /\ Done(p, b)
    /\ Scheduled(p, b)
    /\ UNCHANGED <<now, promotions, toSweep, asOf, cancelling, changed, upserted, shown, late,
                   failure>>

AnnounceFails(p, step) ==
    /\ step \in announcing[p]
    /\ "changed" \in announcing[p] => step = "changed"
    /\ Fails("step")
    /\ Done(p, step)
    /\ \/ UNCHANGED <<delayed, changed>>
       \/ step = "changed" /\ Enqueued(p) /\ UNCHANGED delayed
       \/ step # "changed" /\ Scheduled(p, step) /\ UNCHANGED changed
    /\ UNCHANGED <<now, promotions, toSweep, asOf, cancelling, upserted, shown, late>>

PublishCancellation(p) ==
    /\ "changed" \in cancelling[p]
    /\ cancelling' = [cancelling EXCEPT ![p] = @ \ {"changed"}]
    /\ Enqueued(p)
    /\ UNCHANGED <<now, promotions, toSweep, announcing, asOf, delayed, upserted, shown, late,
                   failure>>

\* Mutant: the boundary jobs are removed whatever became of the announcement.
Fallback_Removed(steps) == steps \ {"changed"}

(* The jobs stay: one of them is what repairs a lost announcement.          *)
Fallback(steps) == {}

CancellationFails(p) ==
    /\ "changed" \in cancelling[p]
    /\ Fails("step")
    /\ cancelling' = [cancelling EXCEPT ![p] = Fallback(@)]
    /\ Enqueued(p) \/ UNCHANGED changed
    /\ UNCHANGED <<now, promotions, toSweep, announcing, asOf, delayed, upserted, shown, late>>

(* A removal that fails may have removed the job.                           *)
RemoveJob(p, b) ==
    /\ b \in cancelling[p]
    /\ "changed" \notin cancelling[p]
    /\ cancelling' = [cancelling EXCEPT ![p] = @ \ {b}]
    /\ \/ delayed' = [delayed EXCEPT ![p][b] = NoJob] /\ UNCHANGED failure
       \/ Fails("step") /\ UNCHANGED delayed
    /\ UNCHANGED <<now, promotions, toSweep, announcing, asOf, changed, upserted, shown, late>>

(* The API process dies in the middle of a request.                         *)
RequestDies(p) ==
    /\ announcing[p] \union cancelling[p] # {}
    /\ Fails("request")
    /\ \/ announcing' = [announcing EXCEPT ![p] = {}] /\ UNCHANGED cancelling
       \/ cancelling' = [cancelling EXCEPT ![p] = {}] /\ UNCHANGED announcing
    /\ UNCHANGED <<now, promotions, toSweep, asOf, queueVars, shown, late>>

(***************************************************************************)
(* The queues.  A boundary job is served once its delay is over, or, by a  *)
(* worker whose clock is ahead of the API's, a tick before.                *)
(***************************************************************************)
Served(p, b) ==
    /\ delayed' = [delayed EXCEPT ![p][b] = NoJob]
    /\ Enqueued(p)
    /\ UNCHANGED <<now, promotions, toSweep, requestVars, upserted, shown, late>>

Serve(p, b) ==
    /\ delayed[p][b] # NoJob
    /\ delayed[p][b] <= now
    /\ Served(p, b)
    /\ UNCHANGED failure

ServeEarly(p, b) ==
    /\ delayed[p][b] # NoJob
    /\ delayed[p][b] = now + 1
    /\ Fails("early")
    /\ Served(p, b)

\* Mutant: only a promotion that is still active is worth a recompute.
FansOut_Active(p) == promotions[p].status = "active"

(* The row is read again; a cancelled promotion keeps its target.           *)
FansOut(p) == promotions[p].target

HandleChanged(p) ==
    /\ changed[p] > 0
    /\ changed' = [changed EXCEPT ![p] = @ - 1]
    /\ upserted' = IF FansOut(p) THEN upserted + 1 ELSE upserted
    /\ UNCHANGED <<now, promotions, toSweep, requestVars, delayed, shown, late, failure>>

(* A promotion is in the price while it is active and its window is open.   *)
Live == {p \in Promotion : /\ promotions[p] # Absent
                           /\ promotions[p].status = "active"
                           /\ promotions[p].starts <= now /\ now < promotions[p].ends}

Recompute ==
    /\ upserted > 0
    /\ upserted' = upserted - 1
    /\ shown' = Live
    /\ UNCHANGED <<now, promotions, toSweep, requestVars, delayed, changed, late, failure>>

(* A job spends its attempts and stays in the failed set.                   *)
JobLost ==
    /\ Fails("job")
    /\ \/ \E p \in Promotion : /\ changed[p] > 0
                               /\ changed' = [changed EXCEPT ![p] = @ - 1]
                               /\ UNCHANGED upserted
       \/ upserted > 0 /\ upserted' = upserted - 1 /\ UNCHANGED changed
    /\ UNCHANGED <<now, promotions, toSweep, requestVars, delayed, shown, late>>

(* What BoundarySweep does, with any delay.                                 *)
Sweep(p, t) ==
    /\ <<p, t>> \in toSweep
    /\ t < now
    /\ toSweep' = toSweep \ {<<p, t>>}
    /\ Enqueued(p)
    /\ UNCHANGED <<now, promotions, requestVars, delayed, upserted, shown, late, failure>>

Transaction(p) ==
    \E t \in Begun : \/ \E win \in Windows : Insert(p, win, t)
                     \/ Assign(p, t)
                     \/ Cancel(p, t)

Request(p) ==
    \/ PublishChanged(p)
    \/ PublishCancellation(p)
    \/ \E b \in Boundary : Schedule(p, b) \/ RemoveJob(p, b)

Failing(p) ==
    \/ \E step \in {"changed"} \union Boundary : AnnounceFails(p, step)
    \/ CancellationFails(p)
    \/ RequestDies(p)
    \/ \E b \in Boundary : ServeEarly(p, b)

Next ==
    \/ Tick
    \/ \E p \in Promotion :
          \/ Transaction(p)
          \/ Request(p)
          \/ Failing(p)
          \/ \E b \in Boundary : Serve(p, b)
          \/ HandleChanged(p)
          \/ \E t \in Instant : Sweep(p, t)
    \/ Recompute
    \/ JobLost

Spec == Init /\ [][Next]_vars

(***************************************************************************)
(* Fairness: time passes, a request goes on, the queues are served and the *)
(* sweep runs.  Nobody has to change a promotion.                          *)
(***************************************************************************)
Fairness ==
    /\ WF_vars(Tick)
    /\ WF_vars(Recompute)
    /\ \A p \in Promotion :
          /\ WF_vars(Request(p))
          /\ WF_vars(HandleChanged(p))
          /\ WF_vars(\E b \in Boundary : Serve(p, b))
          /\ WF_vars(\E t \in Instant : Sweep(p, t))

FairSpec == Spec /\ Fairness

-----------------------------------------------------------------------------
Rows == [status : {"draft", "active", "cancelled"}, target : BOOLEAN,
         starts : Instant, ends : Instant]

(* Every variable has its type.                                             *)
TypeOK ==
    /\ now \in Instant
    /\ promotions \in [Promotion -> Rows \union {Absent}]
    /\ toSweep \in SUBSET (Promotion \X Instant)
    /\ announcing \in [Promotion -> SUBSET ({"changed"} \union Boundary)]
    /\ asOf \in [Promotion -> Instant]
    /\ cancelling \in [Promotion -> SUBSET ({"changed"} \union Boundary)]
    /\ delayed \in [Promotion -> [Boundary -> Nat \union {NoJob}]]
    /\ changed \in [Promotion -> Nat] /\ upserted \in Nat
    /\ shown \in SUBSET Promotion /\ late \in SUBSET Promotion
    /\ failure \in Failures \union {"none"}

Stale == (shown \ Live) \union (Live \ shown)

(* A recompute is on its way, or a job for a boundary that has been crossed. *)
OnItsWay(p) ==
    \/ upserted > 0 \/ changed[p] > 0
    \/ "changed" \in announcing[p] \union cancelling[p]
    \/ \E b \in Boundary : /\ At(promotions[p], b) <= now
                           /\ delayed[p][b] # NoJob \/ b \in announcing[p]

(* Without a failure the announcements are enough: whatever overlaps, a     *)
(* price that is out of date has a recompute on its way that owes nothing   *)
(* to the sweep (PromotionAnnouncer, PromotionScheduler and the handler).   *)
AnnouncementsSuffice ==
    failure = "none" => \A p \in Stale : OnItsWay(p)

(* After any one failure, a price that is out of date has a recompute on    *)
(* its way or a crossed boundary the sweep still has to announce.  An       *)
(* assign after the start is the exception the ADR records.                 *)
StaleIsNeverForgotten ==
    \A p \in Stale \ late : OnItsWay(p) \/ \E t \in 0..now : <<p, t>> \in toSweep

(* A cancellation that could not be published, or a step of its request     *)
(* lost, leaves the expire job to take the sale out of the price, without   *)
(* the sweep (announceCancellation).                                        *)
ExpireJobIsTheFallback ==
    failure = "step" =>
        \A p \in shown : promotions[p].status = "cancelled" =>
            \/ OnItsWay(p)
            \/ "expire" \in announcing[p]
            \/ delayed[p]["expire"] # NoJob

(* After any one failure the price comes to be right and stays so.          *)
OneFailureConverges == <>[](Stale \subseteq late)
=============================================================================
