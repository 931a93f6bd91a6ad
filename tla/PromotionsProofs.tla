-------------------------- MODULE PromotionsProofs --------------------------
(***************************************************************************)
(* Proofs about Promotions, for any promotions, any bounds and any of the  *)
(* failures: nothing that makes a price wrong is forgotten.                *)
(***************************************************************************)
EXTENDS Promotions, TLAPS

USE SizesAssumption, DistinctAssumption, FailuresAssumption
    DEF SizesAssumption, DistinctAssumption, FailuresAssumption

-----------------------------------------------------------------------------
(* Types. *)
LEMMA RowsAreThere == Absent \notin Rows
  BY DEF Rows, Instant

LEMMA InitTypes == Init => TypeOK
  BY DEF Init, TypeOK, Instant

(* A window in bounds gives a row. *)
LEMMA NewRows ==
    ASSUME NEW win \in Windows
    PROVE  /\ win.starts \in Instant /\ win.ends \in Instant
           /\ [status |-> "draft", target |-> FALSE, starts |-> win.starts, ends |-> win.ends]
                  \in Rows
           /\ [status |-> "active", target |-> TRUE, starts |-> win.starts, ends |-> win.ends]
                  \in Rows
  BY DEF Windows, Rows

LEMMA AheadTypes ==
    ASSUME NEW p \in Promotion, NEW row, row.starts \in Instant, row.ends \in Instant, NEW t
    PROVE  Ahead(p, row, t) \in SUBSET (Promotion \X Instant)
  BY DEF Ahead

LEMMA ScheduledTypes ==
    ASSUME TypeOK, NEW p \in Promotion, NEW b \in Boundary, promotions[p] # Absent,
           Scheduled(p, b)
    PROVE  /\ delayed' \in [Promotion -> [Boundary -> Nat \union {NoJob}]]
           /\ delayed'[p][b] = now + Delay(p, b)
           /\ Delay(p, b) \in Nat
<1>1. /\ At(promotions[p], b) \in Nat /\ asOf[p] \in Nat /\ now \in Nat
  BY DEF TypeOK, At, Rows, Instant
<1>2. Delay(p, b) \in Nat
  BY <1>1 DEF Delay
<1>3. now + Delay(p, b) \in Nat
  BY <1>1, <1>2
<1> QED
  BY <1>2, <1>3 DEF Scheduled, TypeOK

LEMMA EnqueuedTypes ==
    ASSUME TypeOK, NEW p \in Promotion, Enqueued(p)
    PROVE  changed' \in [Promotion -> Nat] /\ changed'[p] = changed[p] + 1
  BY DEF Enqueued, TypeOK

LEMMA FailsTypes ==
    ASSUME NEW kind, Fails(kind)
    PROVE  failure' \in Failures \union {"none"} /\ failure = "none" /\ failure' # "none"
  BY DEF Fails

(* Only of a row is anything announced: without this the types are not      *)
(* inductive, a delay being reckoned from a row's timestamps.               *)
OfARow == \A p \in Promotion : announcing[p] # {} => promotions[p] # Absent

LEMMA TypeStep == TypeOK /\ OfARow /\ [Next]_vars => TypeOK'
<1> SUFFICES ASSUME TypeOK, OfARow, [Next]_vars PROVE TypeOK'
  OBVIOUS
<1> USE DEF requestVars, queueVars
<1>1. CASE Tick
  BY <1>1 DEF Tick, TypeOK, Instant
<1>2. ASSUME NEW p \in Promotion, NEW t \in Begun, NEW win \in Windows, Insert(p, win, t)
      PROVE  TypeOK'
  <2>1. t \in Instant
    BY DEF Begun
  <2>2. Ahead(p, win, t) \in SUBSET (Promotion \X Instant)
    BY NewRows, AheadTypes
  <2>3. promotions' \in [Promotion -> Rows \union {Absent}]
    BY <1>2, NewRows DEF Insert, TypeOK
  <2>4. toSweep' \in SUBSET (Promotion \X Instant)
    BY <1>2, <2>1, <2>2 DEF Insert, TypeOK
  <2>5. /\ announcing' \in [Promotion -> SUBSET ({"changed"} \union Boundary)]
        /\ asOf' \in [Promotion -> Instant]
    BY <1>2, <2>1, SMTT(30) DEF Insert, Announces, Steps, TypeOK, Boundary
  <2> QED
    BY <1>2, <2>3, <2>4, <2>5 DEF Insert, TypeOK
<1>3. ASSUME NEW p \in Promotion, NEW t \in Begun, Assign(p, t) PROVE TypeOK'
  <2>1. t \in Instant /\ promotions[p] \in Rows
    BY <1>3 DEF Begun, Assign, TypeOK
  <2>2. Ahead(p, promotions[p], t) \in SUBSET (Promotion \X Instant)
    BY <2>1, AheadTypes DEF Rows
  <2>3. promotions' \in [Promotion -> Rows \union {Absent}]
    BY <1>3, <2>1 DEF Assign, TypeOK, Rows
  <2> QED
    BY <1>3, <2>1, <2>2, <2>3 DEF Assign, Announces, Steps, TypeOK, Boundary
<1>4. ASSUME NEW p \in Promotion, NEW t \in Begun, Cancel(p, t) PROVE TypeOK'
  <2>1. t \in Instant /\ promotions[p] \in Rows
    BY <1>4 DEF Begun, Cancel, TypeOK
  <2>2. promotions' \in [Promotion -> Rows \union {Absent}]
    BY <1>4, <2>1 DEF Cancel, TypeOK, Rows
  <2> QED
    BY <1>4, <2>1, <2>2 DEF Cancel, TypeOK
<1>5. ASSUME NEW p \in Promotion, PublishChanged(p) \/ PublishCancellation(p) PROVE TypeOK'
  <2>1. changed' \in [Promotion -> Nat]
    BY <1>5, EnqueuedTypes DEF PublishChanged, PublishCancellation
  <2>2. CASE PublishChanged(p)
    BY <2>1, <2>2 DEF PublishChanged, Done, TypeOK
  <2>3. CASE PublishCancellation(p)
    BY <2>1, <2>3 DEF PublishCancellation, TypeOK
  <2> QED
    BY <1>5, <2>2, <2>3
<1>6. ASSUME NEW p \in Promotion, NEW b \in Boundary, Schedule(p, b) PROVE TypeOK'
  <2>1. delayed' \in [Promotion -> [Boundary -> Nat \union {NoJob}]]
    BY <1>6, ScheduledTypes DEF Schedule, OfARow
  <2> QED
    BY <1>6, <2>1 DEF Schedule, Done, TypeOK
<1>7. ASSUME NEW p \in Promotion, NEW step \in {"changed"} \union Boundary, AnnounceFails(p, step)
      PROVE  TypeOK'
  <2>1. /\ announcing' \in [Promotion -> SUBSET ({"changed"} \union Boundary)]
        /\ failure' \in Failures \union {"none"}
        /\ UNCHANGED <<now, promotions, toSweep, asOf, cancelling, upserted, shown, late>>
    BY <1>7 DEF AnnounceFails, Done, Fails, TypeOK
  <2>2. CASE UNCHANGED <<delayed, changed>>
    BY <2>1, <2>2 DEF TypeOK
  <2>3. CASE Enqueued(p) /\ UNCHANGED delayed
    BY <2>1, <2>3 DEF Enqueued, TypeOK
  <2>4. CASE step # "changed" /\ Scheduled(p, step) /\ UNCHANGED changed
    <3>1. delayed' \in [Promotion -> [Boundary -> Nat \union {NoJob}]]
      BY <1>7, <2>4, ScheduledTypes DEF AnnounceFails, OfARow
    <3> QED
      BY <2>1, <2>4, <3>1 DEF TypeOK
  <2> QED
    BY <1>7, <2>2, <2>3, <2>4 DEF AnnounceFails
<1>8. ASSUME NEW p \in Promotion, CancellationFails(p) PROVE TypeOK'
  <2>1. changed' \in [Promotion -> Nat]
    BY <1>8, EnqueuedTypes DEF CancellationFails, TypeOK
  <2> QED
    BY <1>8, <2>1 DEF CancellationFails, Fallback, Fails, TypeOK
<1>9. ASSUME NEW p \in Promotion, RequestDies(p) PROVE TypeOK'
  BY <1>9 DEF RequestDies, Fails, TypeOK
<1>10. ASSUME NEW p \in Promotion, NEW b \in Boundary, RemoveJob(p, b) PROVE TypeOK'
  BY <1>10 DEF RemoveJob, Fails, TypeOK
<1>11. ASSUME NEW p \in Promotion, NEW b \in Boundary, Served(p, b),
              failure' \in Failures \union {"none"}
       PROVE  TypeOK'
  <2>1. changed' \in [Promotion -> Nat]
    BY <1>11, EnqueuedTypes DEF Served
  <2> QED
    BY <1>11, <2>1 DEF Served, TypeOK
<1>12. ASSUME NEW p \in Promotion, NEW b \in Boundary, Serve(p, b) \/ ServeEarly(p, b)
       PROVE  Served(p, b) /\ failure' \in Failures \union {"none"}
  BY <1>12 DEF Serve, ServeEarly, Fails, TypeOK
<1>13. ASSUME NEW p \in Promotion, HandleChanged(p) PROVE TypeOK'
  BY <1>13 DEF HandleChanged, TypeOK
<1>14. ASSUME NEW p \in Promotion, NEW t \in Instant, Sweep(p, t) PROVE TypeOK'
  <2>1. changed' \in [Promotion -> Nat]
    BY <1>14, EnqueuedTypes DEF Sweep
  <2> QED
    BY <1>14, <2>1 DEF Sweep, TypeOK
<1>15. CASE Recompute \/ JobLost
  BY <1>15 DEF Recompute, JobLost, Live, Fails, TypeOK
<1>16. CASE UNCHANGED vars
  BY <1>16 DEF vars, TypeOK
<1> QED
  BY <1>1, <1>2, <1>3, <1>4, <1>5, <1>6, <1>7, <1>8, <1>9, <1>10, <1>11, <1>12, <1>13, <1>14,
     <1>15, <1>16
     DEF Next, Transaction, Request, Failing

LEMMA OfARowStep == TypeOK /\ OfARow /\ [Next]_vars => OfARow'
<1> SUFFICES ASSUME TypeOK, OfARow, [Next]_vars PROVE OfARow'
  OBVIOUS
<1> USE DEF OfARow, requestVars
<1>1. ASSUME NEW p \in Promotion, Transaction(p) PROVE OfARow'
  <2>1. ASSUME promotions'[p] # Absent,
               \A q \in Promotion : q # p =>
                   promotions'[q] = promotions[q] /\ announcing'[q] = announcing[q]
        PROVE  OfARow'
    BY <2>1
  <2>2. ASSUME NEW win \in Windows, NEW t \in Begun, Insert(p, win, t) PROVE OfARow'
    <3>1. promotions'[p] \in Rows
      BY <2>2, NewRows DEF Insert, TypeOK
    <3>2. \A q \in Promotion : q # p =>
              promotions'[q] = promotions[q] /\ announcing'[q] = announcing[q]
      BY <2>2 DEF Insert, Announces, TypeOK
    <3> QED
      BY <2>1, <3>1, <3>2, RowsAreThere
  <2>3. ASSUME NEW t \in Begun, Assign(p, t) \/ Cancel(p, t) PROVE OfARow'
    <3>1. promotions[p] \in Rows
      BY <2>3 DEF Assign, Cancel, TypeOK
    <3>2. promotions'[p] \in Rows
      <4>1. CASE Assign(p, t)
        BY <3>1, <4>1 DEF Assign, TypeOK, Rows
      <4>2. CASE Cancel(p, t)
        BY <3>1, <4>2 DEF Cancel, TypeOK, Rows
      <4> QED
        BY <2>3, <4>1, <4>2
    <3>3. \A q \in Promotion : q # p =>
              promotions'[q] = promotions[q] /\ announcing'[q] = announcing[q]
      BY <2>3 DEF Assign, Cancel, Announces, TypeOK
    <3> QED
      BY <2>1, <3>2, <3>3, RowsAreThere
  <2> QED
    BY <1>1, <2>2, <2>3 DEF Transaction
<1>2. ASSUME promotions' = promotions,
             \A p \in Promotion : announcing'[p] \subseteq announcing[p]
      PROVE  OfARow'
  BY <1>2
<1>3. ASSUME NEW p \in Promotion, Request(p) \/ Failing(p)
      PROVE  promotions' = promotions /\ \A q \in Promotion : announcing'[q] \subseteq announcing[q]
  BY <1>3
     DEF Request, PublishChanged, PublishCancellation, Schedule, RemoveJob, Failing,
         AnnounceFails, CancellationFails, RequestDies, ServeEarly, Served, Done, TypeOK
<1>4. ASSUME NEW p \in Promotion,
             \/ \E b \in Boundary : Serve(p, b)
             \/ HandleChanged(p) \/ \E t \in Instant : Sweep(p, t)
      PROVE  UNCHANGED <<promotions, announcing>>
  BY <1>4 DEF Serve, Served, HandleChanged, Sweep
<1>5. CASE Tick \/ Recompute \/ JobLost \/ UNCHANGED vars
  BY <1>5 DEF Tick, Recompute, JobLost, vars
<1> QED
  BY <1>1, <1>2, <1>3, <1>4, <1>5 DEF Next

(* Every variable keeps its type, whatever fails (PromotionAnnouncer,       *)
(* PromotionScheduler).                                                     *)
THEOREM TypeCorrect == Spec => []TypeOK
<1>1. Init => OfARow
  BY DEF Init, OfARow
<1> QED
  BY <1>1, InitTypes, TypeStep, OfARowStep, PTL DEF Spec

-----------------------------------------------------------------------------
(* The inductive invariant, promotion by promotion. *)
Active(p) == promotions[p] # Absent /\ promotions[p].status = "active"
Cancelled(p) == promotions[p] # Absent /\ promotions[p].status = "cancelled"

(* What a promotion's row says of its requests, its jobs and the price.     *)
Booked(p) ==
    /\ promotions[p] = Absent \/ promotions[p].status = "draft" =>
          /\ announcing[p] = {} /\ p \notin shown
          /\ \A b \in Boundary : delayed[p][b] = NoJob
    /\ cancelling[p] # {} => Cancelled(p)
    /\ p \in shown => promotions[p] # Absent
    /\ p \in shown \/ Active(p) => promotions[p].target
    /\ asOf[p] <= now
    /\ \A b \in Boundary : delayed[p][b] # NoJob => At(promotions[p], b) <= delayed[p][b]

Has(p, b) == b \in announcing[p] \/ delayed[p][b] # NoJob

(* An active promotion's boundaries still ahead are left to the sweep, and  *)
(* have their jobs unless something has failed.                             *)
Covered(p) ==
    Active(p) => \A b \in Boundary : now < At(promotions[p], b) =>
        /\ <<p, At(promotions[p], b)>> \in toSweep
        /\ failure = "none" => Has(p, b)

Due(p) == \E t \in 0..now : <<p, t>> \in toSweep
Jobs(p) == upserted + changed[p]

(* An announcement still to be made, that a cancellation's own request will *)
(* not take back.                                                           *)
Pending(p) ==
    IF Cancelled(p) THEN "changed" \in cancelling[p]
    ELSE \/ "changed" \in announcing[p]
         \/ \E b \in Boundary : At(promotions[p], b) <= now /\ Has(p, b)

(* Before the failure: whatever is stale is announced without the sweep,    *)
(* it is announced twice over, and a price has the expire job behind it.    *)
Announced(p) == p \in Stale => Jobs(p) > 0 \/ Pending(p)

Twice(p) ==
    p \in Stale \ late => Due(p) \/ Jobs(p) >= 2 \/ (Jobs(p) >= 1 /\ Pending(p))

Expiring(p) == p \in shown => Has(p, "expire") \/ Jobs(p) > 0

(* Once it has happened: one announcement is left, and after a lost step of *)
(* a request one that is not the sweep's.                                   *)
Once(p) == p \in Stale \ late => Jobs(p) > 0 \/ Pending(p) \/ Due(p)

Backed(p) ==
    p \in shown /\ Cancelled(p) =>
        \/ Jobs(p) > 0
        \/ "changed" \in cancelling[p]
        \/ cancelling[p] = {} /\ Has(p, "expire")

Good(p) ==
    /\ Booked(p) /\ Covered(p) /\ Once(p)
    /\ failure = "none" => Announced(p) /\ Twice(p) /\ Expiring(p)
    /\ failure = "step" => Backed(p)

(* Types, and every promotion in order: no part is inductive alone.         *)
Strong == TypeOK /\ \A p \in Promotion : Good(p)

LEMMA StrongOfARow == Strong => OfARow
  BY DEF Strong, Good, Booked, OfARow

(* A promotion is stale when what is shown of it is not what is live.       *)
LEMMA StaleIs ==
    ASSUME NEW p \in Promotion
    PROVE  /\ p \in Stale <=> (p \in shown <=> p \notin Live)
           /\ p \in Live <=> Active(p) /\ promotions[p].starts <= now /\ now < promotions[p].ends
  BY DEF Stale, Live, Active

LEMMA TypesOf ==
    ASSUME TypeOK, NEW p \in Promotion
    PROVE  /\ now \in Nat /\ asOf[p] \in Nat /\ upserted \in Nat /\ changed[p] \in Nat
           /\ promotions[p] # Absent =>
                 /\ promotions[p].starts \in Nat /\ promotions[p].ends \in Nat
                 /\ promotions[p].target \in BOOLEAN
                 /\ promotions[p].status \in {"draft", "active", "cancelled"}
                 /\ \A b \in Boundary : At(promotions[p], b) \in Nat
           /\ \A b \in Boundary : delayed[p][b] \in Nat \union {NoJob}
  BY DEF TypeOK, Rows, Instant, At

(* A step that leaves a promotion's row and requests alone, takes none of   *)
(* its announcements away and may fail elsewhere.                           *)
LEMMA Undisturbed ==
    ASSUME TypeOK, TypeOK', NEW p \in Promotion, Good(p),
           now' = now, promotions'[p] = promotions[p], announcing'[p] = announcing[p],
           cancelling'[p] = cancelling[p], asOf'[p] = asOf[p], delayed'[p] = delayed[p],
           p \in shown' <=> p \in shown, p \in late' <=> p \in late,
           Jobs(p)' >= Jobs(p),
           \A t \in Nat : <<p, t>> \in toSweep => <<p, t>> \in toSweep',
           failure' = failure \/ (failure = "none" /\ failure' # "none")
    PROVE  Good(p)'
<1>1. /\ Active(p)' = Active(p) /\ Cancelled(p)' = Cancelled(p)
      /\ \A b \in Boundary : Has(p, b)' = Has(p, b)
      /\ Pending(p)' = Pending(p)
  BY DEF Active, Cancelled, Has, Pending
<1>2. Booked(p)'
  BY <1>1 DEF Good, Booked
<1>3. Covered(p)'
  BY <1>1, TypesOf DEF Good, Covered, Active
<1>4. (p \in Stale)' = (p \in Stale)
  BY <1>1, StaleIs DEF Stale, Live
<1>5. Due(p) => Due(p)'
  BY TypesOf DEF Due
<1>6. Jobs(p) \in Nat /\ Jobs(p)' \in Nat
  BY TypesOf DEF Jobs, TypeOK
<1>7. Once(p)'
  BY <1>1, <1>4, <1>5, <1>6 DEF Good, Once
<1>8. CASE failure' = failure
  BY <1>1, <1>2, <1>3, <1>4, <1>5, <1>6, <1>7, <1>8
     DEF Good, Announced, Twice, Expiring, Backed, Boundary
<1>9. CASE failure = "none" /\ failure' # "none"
  <2>1. p \in shown /\ Cancelled(p) => Jobs(p) > 0 \/ "changed" \in cancelling[p]
    <3>1. p \in shown /\ Cancelled(p) => p \in Stale
      BY StaleIs DEF Active, Cancelled
    <3> QED
      BY <1>9, <3>1 DEF Good, Announced, Pending
  <2>2. Backed(p)'
    BY <1>1, <1>6, <2>1 DEF Backed
  <2> QED
    BY <1>2, <1>3, <1>7, <1>9, <2>2 DEF Good
<1> QED
  BY <1>8, <1>9

-----------------------------------------------------------------------------
(* Each action, for the promotion it is about and for every other. *)
LEMMA TickKeeps ==
    ASSUME Strong, TypeOK', NEW p \in Promotion, Tick
    PROVE  Good(p)'
<1>1. /\ now' = now + 1
      /\ UNCHANGED <<promotions, toSweep, requestVars, queueVars, shown, late, failure>>
  BY DEF Tick
<1>2. Good(p) /\ TypeOK
  BY DEF Strong
<1> USE <1>1 DEF requestVars, queueVars
<1>3. /\ Active(p)' = Active(p) /\ Cancelled(p)' = Cancelled(p)
      /\ \A b \in Boundary : Has(p, b)' = Has(p, b)
      /\ Jobs(p)' = Jobs(p)
  BY DEF Active, Cancelled, Has, Jobs
<1>4. Pending(p) /\ promotions[p] # Absent => Pending(p)'
  BY <1>2, <1>3, TypesOf DEF Pending
<1>5. Booked(p)' /\ Covered(p)'
  BY <1>2, <1>3, TypesOf DEF Good, Booked, Covered, Active
<1>6. Due(p) => Due(p)'
  BY <1>2, TypesOf DEF Due
(* What the tick makes stale is a boundary it crosses. *)
<1>7. (p \in Stale)' /\ p \notin Stale =>
          /\ Active(p)
          /\ \E b \in Boundary : now < At(promotions[p], b) /\ At(promotions[p], b) <= now'
  <2>1. /\ (p \in Stale)' <=> (p \in shown <=> ~(p \in Live)')
        /\ (p \in Live)' <=> Active(p) /\ promotions[p].starts <= now' /\ now' < promotions[p].ends
    BY <1>3 DEF Stale, Live, Active
  <2>2. "activate" \in Boundary /\ "expire" \in Boundary
    BY DEF Boundary
  <2>3. /\ At(promotions[p], "activate") = promotions[p].starts
        /\ At(promotions[p], "expire") = promotions[p].ends
    BY DEF At
  <2> QED
    BY <1>2, <2>1, <2>2, <2>3, StaleIs, TypesOf DEF Active
<1>8. (p \in Stale)' /\ p \notin Stale =>
          Due(p)' /\ (failure = "none" => Pending(p)')
  <2> SUFFICES ASSUME (p \in Stale)', p \notin Stale
               PROVE  Due(p)' /\ (failure = "none" => Pending(p)')
    OBVIOUS
  <2>1. PICK b \in Boundary : now < At(promotions[p], b) /\ At(promotions[p], b) <= now'
    BY <1>7
  <2>2. /\ <<p, At(promotions[p], b)>> \in toSweep
        /\ failure = "none" => Has(p, b)
    BY <1>2, <1>7, <2>1 DEF Good, Covered
  <2>3. At(promotions[p], b) \in 0..now'
    BY <1>2, <1>7, <2>1, TypesOf DEF Active
  <2>4. ~Cancelled(p)
    BY <1>7 DEF Active, Cancelled
  <2> QED
    BY <1>3, <2>1, <2>2, <2>3, <2>4 DEF Due, Pending
<1>9. p \in Stale => promotions[p] # Absent
  BY <1>2, StaleIs DEF Good, Booked, Active
<1>10. (p \in Stale \ late)' <=> (p \in Stale)' /\ p \notin late
  OBVIOUS
<1>11. Once(p)'
  BY <1>2, <1>3, <1>4, <1>6, <1>8, <1>9, <1>10 DEF Good, Once
<1>12. failure = "none" => Announced(p)' /\ Twice(p)'
  BY <1>2, <1>3, <1>4, <1>6, <1>8, <1>9, <1>10 DEF Good, Announced, Twice
<1>13. failure = "none" => Expiring(p)'
  BY <1>2, <1>3 DEF Good, Expiring, Boundary
<1>14. failure = "step" => Backed(p)'
  BY <1>2, <1>3 DEF Good, Backed, Boundary
<1> QED
  BY <1>5, <1>11, <1>12, <1>13, <1>14 DEF Good

LEMMA RecomputeKeeps ==
    ASSUME Strong, TypeOK', NEW p \in Promotion, Recompute
    PROVE  Good(p)'
<1>1. /\ shown' = Live
      /\ UNCHANGED <<now, promotions, toSweep, requestVars, delayed, changed, late, failure>>
  BY DEF Recompute
<1>2. Good(p) /\ TypeOK
  BY DEF Strong
<1> USE <1>1 DEF requestVars
<1>3. /\ Active(p)' = Active(p) /\ Cancelled(p)' = Cancelled(p)
      /\ \A b \in Boundary : Has(p, b)' = Has(p, b)
  BY DEF Active, Cancelled, Has
<1>4. ~(p \in Stale)'
  BY DEF Stale, Live
<1>5. p \in shown' => Active(p) /\ now < promotions[p].ends
  BY StaleIs
<1>6. Booked(p)' /\ Covered(p)'
  BY <1>2, <1>3, <1>5 DEF Good, Booked, Covered, Active
<1>7. Announced(p)' /\ Twice(p)' /\ Once(p)'
  BY <1>4 DEF Announced, Twice, Once
<1>8. Backed(p)'
  BY <1>3, <1>5 DEF Backed, Active, Cancelled
<1>9. failure = "none" => Expiring(p)'
  <2>1. "expire" \in Boundary /\ At(promotions[p], "expire") = promotions[p].ends
    BY DEF Boundary, At
  <2> QED
    BY <1>2, <1>3, <1>5, <2>1 DEF Good, Covered, Expiring
<1> QED
  BY <1>6, <1>7, <1>8, <1>9 DEF Good

LEMMA JobLostKeeps ==
    ASSUME Strong, TypeOK', NEW p \in Promotion, JobLost
    PROVE  Good(p)'
<1>1. /\ UNCHANGED <<now, promotions, toSweep, requestVars, delayed, shown, late>>
      /\ failure = "none" /\ failure' = "job"
  BY DEF JobLost, Fails
<1>2. Good(p) /\ TypeOK
  BY DEF Strong
<1> USE <1>1 DEF requestVars
<1>3. /\ Active(p)' = Active(p) /\ Cancelled(p)' = Cancelled(p)
      /\ \A b \in Boundary : Has(p, b)' = Has(p, b)
      /\ Pending(p)' = Pending(p) /\ Due(p)' = Due(p)
  BY DEF Active, Cancelled, Has, Pending, Due
<1>4. (p \in Stale)' = (p \in Stale)
  BY DEF Stale, Live
<1>5. Jobs(p) \in Nat /\ Jobs(p)' \in Nat /\ Jobs(p)' >= Jobs(p) - 1
  BY <1>2, TypesOf DEF JobLost, Jobs, TypeOK
<1>6. Booked(p)' /\ Covered(p)'
  BY <1>2, <1>3 DEF Good, Booked, Covered
<1>7. Once(p)'
  BY <1>2, <1>3, <1>4, <1>5 DEF Good, Twice, Once
<1> QED
  BY <1>6, <1>7 DEF Good

(* A commit that makes a promotion active, by an insert or an assign. *)
LEMMA CommitKeeps ==
    ASSUME TypeOK, TypeOK', NEW p \in Promotion, NEW t \in Begun, now' = now,
           promotions'[p] # Absent, promotions'[p].status = "active", promotions'[p].target,
           p \notin shown', cancelling'[p] = {},
           \A b \in Boundary : delayed'[p][b] = NoJob,
           announcing'[p] = Steps(promotions'[p], t), asOf'[p] = t,
           \A b \in {promotions'[p].starts, promotions'[p].ends} : b > t => <<p, b>> \in toSweep',
           promotions'[p].starts <= t => p \in late' \/ <<p, t>> \in toSweep'
    PROVE  Good(p)'
<1> DEFINE row == promotions'[p]
<1>1. /\ row.starts \in Nat /\ row.ends \in Nat /\ now \in Nat /\ t \in Nat /\ t <= now
      /\ Active(p)' /\ ~Cancelled(p)'
      /\ \A b \in Boundary : At(row, b) \in Nat
  BY DEF TypeOK, Rows, Instant, Begun, Active, Cancelled, At
<1>2. /\ "expire" \in announcing'[p]
      /\ row.starts <= t => "changed" \in announcing'[p]
      /\ row.starts > t => "activate" \in announcing'[p]
  BY <1>1 DEF Steps
<1>3. /\ At(row, "activate") = row.starts /\ At(row, "expire") = row.ends
      /\ Boundary = {"activate", "expire"}
  BY DEF At, Boundary
<1>4. (p \in Stale)' => row.starts <= now
  BY <1>1 DEF Stale, Live
<1>5. Booked(p)'
  BY <1>1 DEF Booked, Active
<1>6. Covered(p)'
  <2> SUFFICES ASSUME NEW b \in Boundary, now < At(row, b)
               PROVE  <<p, At(row, b)>> \in toSweep' /\ Has(p, b)'
    BY DEF Covered
  <2>1. At(row, b) > t /\ At(row, b) \in {row.starts, row.ends}
    BY <1>1, <1>3
  <2>2. b \in announcing'[p]
    BY <1>2, <1>3, <2>1
  <2> QED
    BY <2>1, <2>2 DEF Has
<1>7. (p \in Stale)' => Pending(p)'
  <2>1. CASE row.starts <= t
    BY <1>1, <1>2, <2>1 DEF Pending
  <2>2. CASE row.starts > t /\ row.starts <= now
    BY <1>1, <1>2, <1>3, <2>2 DEF Pending, Has
  <2> QED
    BY <1>1, <1>4, <2>1, <2>2
<1>8. (p \in Stale \ late)' => Due(p)'
  <2>1. CASE row.starts <= t
    BY <1>1, <2>1 DEF Due
  <2>2. CASE row.starts > t /\ row.starts <= now
    BY <1>1, <2>2 DEF Due
  <2> QED
    BY <1>1, <1>4, <2>1, <2>2
<1> QED
  BY <1>5, <1>6, <1>7, <1>8 DEF Good, Announced, Twice, Once, Expiring, Backed

LEMMA InsertKeeps ==
    ASSUME Strong, TypeOK', NEW p \in Promotion, NEW win \in Windows, NEW t \in Begun,
           Insert(p, win, t)
    PROVE  Good(p)'
<1>1. Good(p) /\ TypeOK /\ promotions[p] = Absent
  BY DEF Strong, Insert
<1>2. /\ p \notin shown /\ cancelling[p] = {} /\ \A b \in Boundary : delayed[p][b] = NoJob
      /\ announcing[p] = {} /\ asOf[p] <= now
  BY <1>1 DEF Good, Booked, Cancelled
<1>3. /\ UNCHANGED <<now, cancelling, delayed, shown, failure>>
      /\ win.ends > t
  BY DEF Insert, queueVars
<1>4. CASE /\ promotions' = [promotions EXCEPT ![p] =
                [status |-> "draft", target |-> FALSE, starts |-> win.starts, ends |-> win.ends]]
           /\ UNCHANGED <<toSweep, announcing, asOf>>
  <2>1. promotions'[p] =
            [status |-> "draft", target |-> FALSE, starts |-> win.starts, ends |-> win.ends]
    BY <1>1, <1>4 DEF TypeOK
  <2>2. ~Active(p)' /\ ~Cancelled(p)' /\ ~(p \in Stale)'
    BY <1>2, <1>3, <2>1 DEF Active, Cancelled, Stale, Live
  <2>3. Booked(p)'
    BY <1>2, <1>3, <1>4, <2>2 DEF Booked
  <2> QED
    BY <1>2, <1>3, <2>2, <2>3
       DEF Good, Covered, Announced, Twice, Once, Expiring, Backed
<1>5. CASE /\ promotions' = [promotions EXCEPT ![p] =
                [status |-> "active", target |-> TRUE, starts |-> win.starts, ends |-> win.ends]]
           /\ toSweep' = toSweep \union Ahead(p, win, t) \union {<<p, t>>}
           /\ Announces(p, win, t)
  <2>1. promotions'[p] =
            [status |-> "active", target |-> TRUE, starts |-> win.starts, ends |-> win.ends]
    BY <1>1, <1>5 DEF TypeOK
  <2>2. promotions'[p] # Absent
    BY <2>1, NewRows, RowsAreThere
  <2>3. /\ announcing'[p] = Steps(promotions'[p], t) /\ asOf'[p] = t
    BY <1>1, <1>5, <2>1 DEF Announces, Steps, TypeOK
  <2>4. /\ \A b \in {win.starts, win.ends} : b > t => <<p, b>> \in toSweep'
        /\ <<p, t>> \in toSweep'
    BY <1>5 DEF Ahead
  <2> QED
    BY <1>1, <1>2, <1>3, <2>1, <2>2, <2>3, <2>4, CommitKeeps
<1> QED
  BY <1>4, <1>5 DEF Insert

LEMMA AssignKeeps ==
    ASSUME Strong, TypeOK', NEW p \in Promotion, NEW t \in Begun, Assign(p, t)
    PROVE  Good(p)'
<1>1. Good(p) /\ TypeOK /\ promotions[p] # Absent /\ promotions[p].status = "draft"
  BY DEF Strong, Assign
<1>2. /\ p \notin shown /\ cancelling[p] = {} /\ \A b \in Boundary : delayed[p][b] = NoJob
  BY <1>1 DEF Good, Booked, Cancelled
<1>3. promotions[p] \in Rows
  BY <1>1 DEF TypeOK
<1>4. /\ promotions'[p] \in Rows
      /\ promotions'[p].status = "active" /\ promotions'[p].target
      /\ promotions'[p].starts = promotions[p].starts
      /\ promotions'[p].ends = promotions[p].ends
  BY <1>1, <1>3 DEF Assign, TypeOK, Rows
<1>5. promotions'[p] # Absent
  BY <1>4, RowsAreThere
<1>6. announcing'[p] = Steps(promotions'[p], t) /\ asOf'[p] = t
  BY <1>1, <1>4 DEF Assign, Announces, Steps, TypeOK
<1>7. /\ UNCHANGED <<now, cancelling, delayed, shown>>
      /\ promotions[p].starts <= t => p \in late'
  BY DEF Assign, queueVars
<1>8. \A b \in {promotions'[p].starts, promotions'[p].ends} : b > t => <<p, b>> \in toSweep'
  BY <1>4 DEF Assign, Ahead
<1> QED
  BY <1>1, <1>2, <1>4, <1>5, <1>6, <1>7, <1>8, CommitKeeps

LEMMA CancelKeeps ==
    ASSUME Strong, TypeOK', NEW p \in Promotion, NEW t \in Begun, Cancel(p, t)
    PROVE  Good(p)'
<1>1. Good(p) /\ TypeOK /\ promotions[p] \in Rows /\ promotions[p] # Absent
  BY DEF Strong, Cancel, TypeOK
<1>2. /\ promotions'[p] \in Rows
      /\ promotions'[p].status = "cancelled" /\ promotions'[p].target = promotions[p].target
      /\ promotions'[p].starts = promotions[p].starts
      /\ promotions'[p].ends = promotions[p].ends
  BY <1>1 DEF Cancel, TypeOK, Rows
<1>3. Cancelled(p)' /\ ~Active(p)'
  BY <1>2, RowsAreThere DEF Cancelled, Active
<1>4. /\ UNCHANGED <<now, announcing, asOf, delayed, changed, upserted, shown, failure>>
      /\ cancelling'[p] = {"changed"} \union Boundary
      /\ <<p, t>> \in toSweep'
  BY <1>1 DEF Cancel, queueVars, TypeOK
<1>5. t \in 0..now
  BY DEF Begun, Instant
<1>6. Due(p)' /\ Pending(p)'
  BY <1>3, <1>4, <1>5 DEF Due, Pending
<1>7. Booked(p)'
  BY <1>1, <1>2, <1>3, <1>4 DEF Good, Booked, At, Active, Cancelled
<1>8. failure = "none" => Expiring(p)'
  BY <1>1, <1>4 DEF Good, Expiring, Has, Jobs
<1> QED
  BY <1>3, <1>4, <1>6, <1>7, <1>8
     DEF Good, Covered, Announced, Twice, Once, Backed

(* One more job makes up for one announcement: what is left of a request    *)
(* that has published, a boundary's job that was served, or an entry the    *)
(* sweep has taken.                                                         *)
LEMMA OneMoreJob ==
    ASSUME Strong, TypeOK', NEW p \in Promotion,
           now' = now, promotions'[p] = promotions[p],
           p \in shown' <=> p \in shown, p \in late' <=> p \in late, failure' = failure,
           Jobs(p)' = Jobs(p) + 1,
           Booked(p)', Covered(p)',
           (Due(p) => Due(p)') \/ (Pending(p) => Pending(p)')
    PROVE  Good(p)'
<1>1. Good(p) /\ TypeOK /\ Jobs(p) \in Nat
  BY TypesOf DEF Strong, Jobs
<1>2. (p \in Stale)' <=> p \in Stale
  BY DEF Stale, Live
<1>3. failure = "none" => Twice(p)'
  BY <1>1, <1>2 DEF Good, Announced, Twice
<1>4. Announced(p)' /\ Expiring(p)' /\ Once(p)' /\ Backed(p)'
  BY <1>1 DEF Announced, Expiring, Once, Backed
<1> QED
  BY <1>1, <1>3, <1>4 DEF Good

(* The failure takes at most one of the two announcements. *)
LEMMA FailureKeeps ==
    ASSUME Strong, TypeOK', NEW p \in Promotion,
           now' = now, promotions'[p] = promotions[p],
           p \in shown' <=> p \in shown, p \in late' <=> p \in late,
           failure = "none", failure' # "none",
           Jobs(p)' >= Jobs(p), toSweep' = toSweep,
           Booked(p)', failure' = "step" => Backed(p)'
    PROVE  Good(p)'
<1>1. Good(p) /\ TypeOK /\ Jobs(p) \in Nat /\ Jobs(p)' \in Nat
  BY TypesOf DEF Strong, Jobs, TypeOK
<1>2. ((p \in Stale)' <=> p \in Stale) /\ Due(p)' = Due(p) /\ Active(p)' = Active(p)
  BY DEF Stale, Live, Due, Active
<1>3. Covered(p)'
  BY <1>1, <1>2 DEF Good, Covered
<1>4. Once(p)'
  BY <1>1, <1>2 DEF Good, Twice, Once
<1> QED
  BY <1>3, <1>4 DEF Good

LEMMA PublishChangedKeeps ==
    ASSUME Strong, TypeOK', NEW p \in Promotion, PublishChanged(p)
    PROVE  Good(p)'
<1>1. Good(p) /\ TypeOK
  BY DEF Strong
<1>2. /\ UNCHANGED <<now, promotions, toSweep, asOf, cancelling, delayed, upserted, shown, late,
                     failure>>
      /\ announcing'[p] = announcing[p] \ {"changed"} /\ "changed" \in announcing[p]
      /\ changed'[p] = changed[p] + 1
  BY <1>1 DEF PublishChanged, Done, Enqueued, TypeOK
<1>3. Jobs(p)' = Jobs(p) + 1 /\ Due(p)' = Due(p)
  BY <1>1, <1>2, TypesOf DEF Jobs, Due
<1>4. Active(p)' = Active(p) /\ Cancelled(p)' = Cancelled(p)
  BY <1>2 DEF Active, Cancelled
<1>5. Booked(p)'
  BY <1>1, <1>2, <1>4 DEF Good, Booked
<1>6. Covered(p)'
  BY <1>1, <1>2, <1>4 DEF Good, Covered, Has, Boundary
<1> QED
  BY <1>2, <1>3, <1>5, <1>6, OneMoreJob

LEMMA PublishCancellationKeeps ==
    ASSUME Strong, TypeOK', NEW p \in Promotion, PublishCancellation(p)
    PROVE  Good(p)'
<1>1. Good(p) /\ TypeOK
  BY DEF Strong
<1>2. /\ UNCHANGED <<now, promotions, toSweep, announcing, asOf, delayed, upserted, shown, late,
                     failure>>
      /\ cancelling'[p] \subseteq cancelling[p]
      /\ changed'[p] = changed[p] + 1
  BY <1>1 DEF PublishCancellation, Enqueued, TypeOK
<1>3. Jobs(p)' = Jobs(p) + 1 /\ Due(p)' = Due(p)
  BY <1>1, <1>2, TypesOf DEF Jobs, Due
<1>4. Active(p)' = Active(p) /\ Cancelled(p)' = Cancelled(p)
  BY <1>2 DEF Active, Cancelled
<1>5. Booked(p)' /\ Covered(p)'
  BY <1>1, <1>2, <1>4 DEF Good, Booked, Covered, Has
<1> QED
  BY <1>2, <1>3, <1>5, OneMoreJob

(* The delay is reckoned from the request's now(), which is not after the   *)
(* instant it is added at: no job is served before its boundary.            *)
LEMMA ScheduledKeepsBooked ==
    ASSUME Strong, NEW p \in Promotion, NEW b \in Boundary, b \in announcing[p],
           announcing'[p] = announcing[p] \ {b}, Scheduled(p, b),
           UNCHANGED <<now, promotions, asOf, cancelling, shown>>
    PROVE  Booked(p)' /\ \A c \in Boundary : Has(p, c)' = Has(p, c)
<1>1. Good(p) /\ TypeOK
  BY DEF Strong
<1>2. promotions[p] # Absent /\ promotions[p].status # "draft"
  BY <1>1 DEF Good, Booked
<1>3. /\ delayed'[p][b] = now + Delay(p, b) /\ Delay(p, b) \in Nat
      /\ \A c \in Boundary : c # b => delayed'[p][c] = delayed[p][c]
  BY <1>1, <1>2, ScheduledTypes DEF Scheduled, TypeOK
<1>4. At(promotions[p], b) <= now + Delay(p, b)
  <2>1. asOf[p] <= now
    BY <1>1 DEF Good, Booked
  <2> QED
    BY <1>1, <1>2, <2>1, TypesOf DEF Delay
<1>5. delayed'[p][b] # NoJob
  BY <1>1, <1>3, TypesOf
<1>6. Booked(p)'
  BY <1>1, <1>2, <1>3, <1>4 DEF Good, Booked, Active, Cancelled
<1>7. \A c \in Boundary : Has(p, c)' = Has(p, c)
  BY <1>3, <1>5 DEF Has
<1> QED
  BY <1>6, <1>7

LEMMA ScheduleKeeps ==
    ASSUME Strong, TypeOK', NEW p \in Promotion, NEW b \in Boundary, Schedule(p, b)
    PROVE  Good(p)'
<1>1. Good(p) /\ TypeOK
  BY DEF Strong
<1>2. /\ UNCHANGED <<now, promotions, toSweep, asOf, cancelling, changed, upserted, shown, late,
                     failure>>
      /\ announcing'[p] = announcing[p] \ {b} /\ b \in announcing[p]
      /\ Scheduled(p, b) /\ "changed" \notin announcing[p]
  BY <1>1 DEF Schedule, Done, TypeOK
<1>3. Booked(p)' /\ \A c \in Boundary : Has(p, c)' = Has(p, c)
  BY <1>2, ScheduledKeepsBooked
<1>4. /\ Active(p)' = Active(p) /\ Cancelled(p)' = Cancelled(p)
      /\ Jobs(p)' = Jobs(p) /\ Due(p)' = Due(p) /\ ((p \in Stale)' <=> p \in Stale)
  BY <1>2 DEF Active, Cancelled, Jobs, Due, Stale, Live
<1>5. Pending(p)' = Pending(p)
  BY <1>2, <1>3, <1>4 DEF Pending
<1>6. Has(p, "expire")' = Has(p, "expire")
  BY <1>3 DEF Boundary
<1> QED
  BY <1>1, <1>2, <1>3, <1>4, <1>5, <1>6
     DEF Good, Covered, Announced, Twice, Once, Expiring, Backed

(* Before the failure a cancelled promotion that is still in the price is   *)
(* announced by its request or by a job.                                    *)
LEMMA CancelledIsAnnounced ==
    ASSUME Strong, NEW p \in Promotion, failure = "none", p \in shown, Cancelled(p)
    PROVE  Jobs(p) > 0 \/ "changed" \in cancelling[p]
<1>1. p \in Stale
  BY StaleIs DEF Active, Cancelled
<1> QED
  BY <1>1 DEF Strong, Good, Announced, Pending

LEMMA AnnounceFailsKeeps ==
    ASSUME Strong, TypeOK', NEW p \in Promotion, NEW step \in {"changed"} \union Boundary,
           AnnounceFails(p, step)
    PROVE  Good(p)'
<1>1. Good(p) /\ TypeOK /\ Jobs(p) \in Nat
  BY TypesOf DEF Strong, Jobs
<1>2. /\ UNCHANGED <<now, promotions, toSweep, asOf, cancelling, upserted, shown, late>>
      /\ step \in announcing[p] /\ announcing'[p] = announcing[p] \ {step}
      /\ failure = "none" /\ failure' = "step"
  BY <1>1 DEF AnnounceFails, Done, Fails, TypeOK
<1>3. changed'[p] = changed[p] \/ changed'[p] = changed[p] + 1
  BY <1>1, EnqueuedTypes DEF AnnounceFails
<1>4. Jobs(p)' >= Jobs(p) /\ Jobs(p)' \in Nat
  BY <1>1, <1>2, <1>3, TypesOf DEF Jobs
<1>5. Active(p)' = Active(p) /\ Cancelled(p)' = Cancelled(p)
  BY <1>2 DEF Active, Cancelled
<1>6. Booked(p)'
  <2>1. CASE delayed' = delayed
    BY <1>1, <1>2, <1>5, <2>1 DEF Good, Booked
  <2>2. CASE step # "changed" /\ Scheduled(p, step)
    BY <1>2, <2>2, ScheduledKeepsBooked
  <2> QED
    BY <2>1, <2>2 DEF AnnounceFails
<1>7. Backed(p)'
  <2>1. p \in shown /\ Cancelled(p) => Jobs(p) > 0 \/ "changed" \in cancelling[p]
    BY <1>2, CancelledIsAnnounced
  <2> QED
    BY <1>1, <1>2, <1>4, <1>5, <2>1 DEF Backed
<1> QED
  BY <1>2, <1>4, <1>6, <1>7, FailureKeeps

LEMMA CancellationFailsKeeps ==
    ASSUME Strong, TypeOK', NEW p \in Promotion, CancellationFails(p)
    PROVE  Good(p)'
<1>1. Good(p) /\ TypeOK /\ Jobs(p) \in Nat
  BY TypesOf DEF Strong, Jobs
<1>2. /\ UNCHANGED <<now, promotions, toSweep, announcing, asOf, delayed, upserted, shown, late>>
      /\ cancelling'[p] = {}
      /\ failure = "none" /\ failure' = "step"
  BY <1>1 DEF CancellationFails, Fallback, Fails, TypeOK
<1>3. changed'[p] = changed[p] \/ changed'[p] = changed[p] + 1
  BY <1>1, EnqueuedTypes DEF CancellationFails
<1>4. Jobs(p)' >= Jobs(p) /\ Jobs(p)' \in Nat
  BY <1>1, <1>2, <1>3, TypesOf DEF Jobs
<1>5. Active(p)' = Active(p) /\ Cancelled(p)' = Cancelled(p)
  BY <1>2 DEF Active, Cancelled
<1>6. Booked(p)'
  BY <1>1, <1>2, <1>5 DEF Good, Booked
<1>7. Backed(p)'
  BY <1>1, <1>2, <1>4 DEF Good, Expiring, Backed, Has
<1> QED
  BY <1>2, <1>4, <1>6, <1>7, FailureKeeps

LEMMA RemoveJobKeeps ==
    ASSUME Strong, TypeOK', NEW p \in Promotion, NEW b \in Boundary, RemoveJob(p, b)
    PROVE  Good(p)'
<1>1. Good(p) /\ TypeOK /\ Jobs(p) \in Nat
  BY TypesOf DEF Strong, Jobs
<1>2. /\ UNCHANGED <<now, promotions, toSweep, announcing, asOf, changed, upserted, shown, late>>
      /\ cancelling[p] # {} /\ "changed" \notin cancelling[p]
      /\ cancelling'[p] \subseteq cancelling[p]
  BY <1>1 DEF RemoveJob, TypeOK
<1>3. Cancelled(p) /\ Cancelled(p)' /\ ~Active(p)'
  BY <1>1, <1>2 DEF Good, Booked, Cancelled, Active
<1>4. /\ Jobs(p)' = Jobs(p) /\ Due(p)' = Due(p) /\ Pending(p)' = Pending(p)
      /\ (p \in Stale)' <=> p \in Stale
  BY <1>2, <1>3 DEF Jobs, Due, Pending, Stale, Live
<1>5. \A c \in Boundary : delayed'[p][c] = delayed[p][c] \/ delayed'[p][c] = NoJob
  BY <1>1 DEF RemoveJob, TypeOK
<1>6. Booked(p)' /\ Covered(p)'
  BY <1>1, <1>2, <1>3, <1>5 DEF Good, Booked, Covered
<1>7. p \in shown /\ failure \in {"none", "step"} => Jobs(p) > 0
  BY <1>1, <1>2, <1>3, CancelledIsAnnounced DEF Good, Backed
<1>8. failure' = failure \/ (failure = "none" /\ failure' = "step")
  BY DEF RemoveJob, Fails
<1> QED
  BY <1>1, <1>2, <1>4, <1>6, <1>7, <1>8
     DEF Good, Announced, Twice, Once, Expiring, Backed

LEMMA RequestDiesKeeps ==
    ASSUME Strong, TypeOK', NEW p \in Promotion, RequestDies(p)
    PROVE  Good(p)'
<1>1. Good(p) /\ TypeOK /\ Jobs(p) \in Nat
  BY TypesOf DEF Strong, Jobs
<1>2. /\ UNCHANGED <<now, promotions, toSweep, asOf, delayed, changed, upserted, shown, late>>
      /\ announcing'[p] \subseteq announcing[p] /\ cancelling'[p] \subseteq cancelling[p]
      /\ failure = "none" /\ failure' = "request"
  BY <1>1 DEF RequestDies, Fails, queueVars, TypeOK
<1>3. Jobs(p)' >= Jobs(p)
  BY <1>1, <1>2 DEF Jobs
<1>4. Booked(p)'
  BY <1>1, <1>2 DEF Good, Booked, Active, Cancelled
<1> QED
  BY <1>2, <1>3, <1>4, FailureKeeps

LEMMA ServedKeeps ==
    ASSUME Strong, TypeOK', NEW p \in Promotion, NEW b \in Boundary,
           Serve(p, b) \/ ServeEarly(p, b)
    PROVE  Good(p)'
<1>1. Good(p) /\ TypeOK
  BY DEF Strong
<1>2. /\ UNCHANGED <<now, promotions, toSweep, announcing, asOf, cancelling, upserted, shown, late>>
      /\ changed'[p] = changed[p] + 1
      /\ \A c \in Boundary : delayed'[p][c] = IF c = b THEN NoJob ELSE delayed[p][c]
      /\ delayed[p][b] # NoJob
  BY <1>1 DEF Serve, ServeEarly, Served, Enqueued, requestVars, TypeOK
<1>3. Jobs(p)' = Jobs(p) + 1 /\ Due(p)' = Due(p) /\ Jobs(p) \in Nat
  BY <1>1, <1>2, TypesOf DEF Jobs, Due
<1>4. Active(p)' = Active(p) /\ Cancelled(p)' = Cancelled(p)
  BY <1>2 DEF Active, Cancelled
<1>5. Booked(p)'
  BY <1>1, <1>2, <1>4 DEF Good, Booked
<1>6. CASE Serve(p, b)
  <2>1. failure' = failure /\ delayed[p][b] <= now
    BY <1>6 DEF Serve
  <2>2. promotions[p] # Absent /\ At(promotions[p], b) <= delayed[p][b]
    BY <1>1, <1>2 DEF Good, Booked
  <2>3. ~(now < At(promotions[p], b))
    BY <1>1, <1>2, <2>1, <2>2, TypesOf
  <2>4. Covered(p)'
    BY <1>1, <1>2, <1>4, <2>1, <2>3 DEF Good, Covered, Has
  <2> QED
    BY <1>2, <1>3, <1>5, <2>1, <2>4, OneMoreJob
<1>7. CASE ServeEarly(p, b)
  <2>1. failure = "none" /\ failure' = "early"
    BY <1>7 DEF ServeEarly, Fails
  <2>2. Jobs(p)' >= Jobs(p)
    BY <1>3
  <2> QED
    BY <1>2, <1>5, <2>1, <2>2, FailureKeeps
<1> QED
  BY <1>6, <1>7

LEMMA SweepKeeps ==
    ASSUME Strong, TypeOK', NEW p \in Promotion, NEW t \in Instant, Sweep(p, t)
    PROVE  Good(p)'
<1>1. Good(p) /\ TypeOK
  BY DEF Strong
<1>2. /\ UNCHANGED <<now, promotions, announcing, asOf, cancelling, delayed, upserted, shown, late,
                     failure>>
      /\ changed'[p] = changed[p] + 1
      /\ t < now /\ toSweep' = toSweep \ {<<p, t>>}
  BY <1>1 DEF Sweep, Enqueued, requestVars, TypeOK
<1>3. /\ Jobs(p)' = Jobs(p) + 1
      /\ Active(p)' = Active(p) /\ Pending(p)' = Pending(p)
  BY <1>1, <1>2, TypesOf DEF Jobs, Active, Pending, Cancelled, Has
<1>4. Booked(p)'
  BY <1>1, <1>2 DEF Good, Booked, Active, Cancelled
<1>5. Covered(p)'
  <2>1. now \in Nat /\ t \in Nat
    BY <1>1, TypesOf DEF Instant
  <2>2. \A b \in Boundary : Active(p) /\ now < At(promotions[p], b) => At(promotions[p], b) # t
    BY <1>1, <1>2, <2>1, TypesOf DEF Active
  <2> QED
    BY <1>1, <1>2, <1>3, <2>2 DEF Good, Covered, Has
<1> QED
  BY <1>2, <1>3, <1>4, <1>5, OneMoreJob

LEMMA HandleChangedKeeps ==
    ASSUME Strong, TypeOK', NEW p \in Promotion, HandleChanged(p)
    PROVE  Good(p)'
<1>1. Good(p) /\ TypeOK
  BY DEF Strong
<1>2. /\ UNCHANGED <<now, promotions, toSweep, announcing, asOf, cancelling, delayed, shown, late,
                     failure>>
      /\ changed[p] > 0 /\ changed'[p] = changed[p] - 1
      /\ upserted' = IF promotions[p].target THEN upserted + 1 ELSE upserted
  BY <1>1 DEF HandleChanged, FansOut, requestVars, TypeOK
<1>3. CASE p \in shown \/ Active(p)
  <2>1. promotions[p].target
    BY <1>1, <1>3 DEF Good, Booked
  <2>2. Jobs(p)' >= Jobs(p)
    BY <1>1, <1>2, <2>1, TypesOf DEF Jobs
  <2> QED
    BY <1>1, <1>2, <2>2, Undisturbed
<1>4. CASE ~(p \in shown \/ Active(p))
  <2>1. ~(p \in Stale)' /\ ~Active(p)'
    BY <1>2, <1>4 DEF Stale, Live, Active
  <2>2. Booked(p)'
    BY <1>1, <1>2, <2>1 DEF Good, Booked, Cancelled
  <2> QED
    BY <1>2, <1>4, <2>1, <2>2
       DEF Good, Covered, Announced, Twice, Once, Expiring, Backed
<1> QED
  BY <1>3, <1>4

(* What happens to one promotion leaves the others as they were, except     *)
(* that it may add a recompute or be the one failure.                       *)
LEMMA OthersKeep ==
    ASSUME Strong, TypeOK', NEW p \in Promotion, NEW q \in Promotion, q # p,
           \/ Transaction(q) \/ Request(q) \/ Failing(q)
           \/ \E b \in Boundary : Serve(q, b)
           \/ HandleChanged(q) \/ \E t \in Instant : Sweep(q, t)
    PROVE  Good(p)'
<1>0. TypeOK /\ Good(p)
  BY DEF Strong
<1> DEFINE Rest == /\ now' = now /\ promotions'[p] = promotions[p]
                   /\ announcing'[p] = announcing[p] /\ cancelling'[p] = cancelling[p]
                   /\ asOf'[p] = asOf[p] /\ delayed'[p] = delayed[p]
                   /\ changed'[p] = changed[p] /\ upserted' \in {upserted, upserted + 1}
                   /\ shown' = shown /\ (p \in late' <=> p \in late)
                   /\ \A t \in Nat : <<p, t>> \in toSweep => <<p, t>> \in toSweep'
                   /\ failure' = failure \/ (failure = "none" /\ failure' # "none")
<1> USE DEF requestVars, queueVars, TypeOK
<1>1. ASSUME NEW t \in Begun, NEW win \in Windows, Insert(q, win, t) PROVE Rest
  BY <1>0, <1>1 DEF Insert, Announces
<1>2. ASSUME NEW t \in Begun, Assign(q, t) \/ Cancel(q, t) PROVE Rest
  BY <1>0, <1>2 DEF Assign, Cancel, Announces
<1>3. ASSUME PublishChanged(q) \/ PublishCancellation(q) PROVE Rest
  BY <1>0, <1>3 DEF PublishChanged, PublishCancellation, Done, Enqueued
<1>4. ASSUME NEW b \in Boundary, Schedule(q, b) \/ RemoveJob(q, b) PROVE Rest
  BY <1>0, <1>4 DEF Schedule, RemoveJob, Done, Scheduled, Fails
<1>5. ASSUME NEW step \in {"changed"} \union Boundary, AnnounceFails(q, step) PROVE Rest
  BY <1>0, <1>5 DEF AnnounceFails, Done, Scheduled, Enqueued, Fails
<1>6. ASSUME CancellationFails(q) \/ RequestDies(q) PROVE Rest
  BY <1>0, <1>6 DEF CancellationFails, RequestDies, Enqueued, Fails
<1>7. ASSUME NEW b \in Boundary, Serve(q, b) \/ ServeEarly(q, b) PROVE Rest
  BY <1>0, <1>7 DEF Serve, ServeEarly, Served, Enqueued, Fails
<1>8. ASSUME HandleChanged(q) PROVE Rest
  BY <1>0, <1>8 DEF HandleChanged
<1>9. ASSUME NEW t \in Instant, Sweep(q, t) PROVE Rest
  BY <1>0, <1>9 DEF Sweep, Enqueued
<1>10. Rest
  BY <1>1, <1>2, <1>3, <1>4, <1>5, <1>6, <1>7, <1>8, <1>9 DEF Transaction, Request, Failing
<1>11. Jobs(p)' >= Jobs(p)
  BY <1>0, <1>10, TypesOf DEF Jobs
<1> QED
  BY <1>0, <1>10, <1>11, Undisturbed

LEMMA StrongStep == Strong /\ [Next]_vars => Strong'
<1> SUFFICES ASSUME Strong, [Next]_vars PROVE Strong'
  OBVIOUS
<1>1. TypeOK'
  BY StrongOfARow, TypeStep DEF Strong
<1> SUFFICES ASSUME NEW p \in Promotion PROVE Good(p)'
  BY <1>1 DEF Strong
<1>2. ASSUME Transaction(p) PROVE Good(p)'
  BY <1>1, <1>2, InsertKeeps, AssignKeeps, CancelKeeps DEF Transaction
<1>3. ASSUME Request(p) PROVE Good(p)'
  BY <1>1, <1>3, PublishChangedKeeps, PublishCancellationKeeps, ScheduleKeeps, RemoveJobKeeps
     DEF Request
<1>4. ASSUME Failing(p) PROVE Good(p)'
  BY <1>1, <1>4, AnnounceFailsKeeps, CancellationFailsKeeps, RequestDiesKeeps, ServedKeeps
     DEF Failing
<1>5. ASSUME \/ \E b \in Boundary : Serve(p, b)
             \/ HandleChanged(p) \/ \E t \in Instant : Sweep(p, t)
      PROVE  Good(p)'
  BY <1>1, <1>5, ServedKeeps, HandleChangedKeeps, SweepKeeps
<1>6. CASE Tick \/ Recompute \/ JobLost
  BY <1>1, <1>6, TickKeeps, RecomputeKeeps, JobLostKeeps
<1>7. CASE UNCHANGED vars
  BY <1>7
     DEF vars, requestVars, queueVars, Strong, Good, Booked, Covered, Once, Announced, Twice,
         Expiring, Backed, Active, Cancelled, Has, Due, Jobs, Pending, Stale, Live
<1> QED
  BY <1>1, <1>2, <1>3, <1>4, <1>5, <1>6, <1>7, OthersKeep DEF Next

LEMMA InitStrong == Init => Strong
<1> SUFFICES ASSUME Init, NEW p \in Promotion PROVE TypeOK /\ Good(p)
  BY InitTypes DEF Strong
<1>1. ~Active(p) /\ ~Cancelled(p) /\ p \notin shown
  BY DEF Init, Active, Cancelled
<1>2. p \notin Stale /\ Booked(p)
  BY <1>1, StaleIs DEF Init, Booked, Instant
<1> QED
  BY <1>1, <1>2, InitTypes
     DEF Init, Good, Covered, Once, Announced, Twice, Expiring, Backed

(* The invariant holds throughout: of every promotion, whatever the other   *)
(* requests, jobs and sweeps do (PromotionAnnouncer).                       *)
THEOREM StrongAlways == Spec => []Strong
  BY InitStrong, StrongStep, PTL DEF Spec

(* Without a failure the announcements alone bring every stale price back,  *)
(* the sweep apart (announce of PromotionAnnouncer).                        *)
THEOREM AnnouncementsAreEnough == Spec => []AnnouncementsSuffice
<1>1. Strong => AnnouncementsSuffice
  <2> SUFFICES ASSUME Strong, failure = "none", NEW p \in Stale PROVE OnItsWay(p)
    BY DEF AnnouncementsSuffice
  <2>1. p \in Promotion
    BY DEF Stale, Live, Strong, TypeOK
  <2>2. Jobs(p) > 0 \/ Pending(p)
    BY <2>1 DEF Strong, Good, Announced
  <2> QED
    BY <2>1, <2>2, TypesOf DEF OnItsWay, Pending, Has, Jobs, Strong
<1> QED
  BY <1>1, StrongAlways, PTL

(* After any one failure, whatever is stale is announced still, or will be  *)
(* by the sweep (PromotionAnnouncer, SweepBoundariesCommand).               *)
THEOREM NothingIsForgotten == Spec => []StaleIsNeverForgotten
<1>1. Strong => StaleIsNeverForgotten
  <2> SUFFICES ASSUME Strong, NEW p \in Stale \ late PROVE OnItsWay(p) \/ Due(p)
    BY DEF StaleIsNeverForgotten, Due
  <2>1. p \in Promotion
    BY DEF Stale, Live, Strong, TypeOK
  <2>2. Jobs(p) > 0 \/ Pending(p) \/ Due(p)
    BY <2>1 DEF Strong, Good, Once
  <2> QED
    BY <2>1, <2>2, TypesOf DEF OnItsWay, Pending, Has, Jobs, Strong
<1> QED
  BY <1>1, StrongAlways, PTL

(* After a lost step of a request, the expire job is there to take a        *)
(* cancelled sale out of the price if nothing sooner does                   *)
(* (announceCancellation, which removes the job only once it has published). *)
THEOREM ExpireJobFallsBack == Spec => []ExpireJobIsTheFallback
<1>1. Strong => ExpireJobIsTheFallback
  <2> SUFFICES ASSUME Strong, failure = "step", NEW p \in shown,
                      promotions[p].status = "cancelled"
               PROVE  OnItsWay(p) \/ Has(p, "expire")
    BY DEF ExpireJobIsTheFallback, Has
  <2>1. p \in Promotion
    BY DEF Strong, TypeOK
  <2>2. Cancelled(p)
    BY <2>1 DEF Cancelled, Strong, Good, Booked
  <2>3. Jobs(p) > 0 \/ "changed" \in cancelling[p] \/ Has(p, "expire")
    BY <2>1, <2>2 DEF Strong, Good, Backed
  <2> QED
    BY <2>1, <2>3, TypesOf DEF OnItsWay, Jobs, Strong
<1> QED
  BY <1>1, StrongAlways, PTL
=============================================================================
