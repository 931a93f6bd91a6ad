------------------------- MODULE BoundarySweepProofs -------------------------
(***************************************************************************)
(* Proofs about BoundarySweep, for any promotions, any number of           *)
(* reconcilers, any window and any commit lag longer than a transaction    *)
(* may last: no boundary falls behind the watermark unread, and the        *)
(* watermark never moves back.                                             *)
(***************************************************************************)
EXTENDS BoundarySweep, TLAPS

USE LagAssumption, SizesAssumption, AbsentAssumption
    DEF LagAssumption, SizesAssumption, AbsentAssumption

-----------------------------------------------------------------------------
(* Nothing at i can still be written: i is behind the clock by the lag.     *)
Behind(i) == i = 0 \/ i <= now - Lag

(* Without a step back of the clock, the watermark and every run's window   *)
(* end behind the lag, and an open transaction began within its timeouts.   *)
ClockInv ==
    stepsBack = 0 =>
        /\ Behind(watermark)
        /\ \A r \in Reconciler : Behind(windowEnd[r])
        /\ \A p \in Promotion : tx[p] # Absent => tx[p].at <= now /\ now <= tx[p].at + TxMax

(* A run's window does not end before it starts. *)
WindowInv == \A r \in Reconciler : since[r] <= windowEnd[r]

(* What an open transaction found still holds: it has the row's lock.       *)
TxInv ==
    \A p \in Promotion : tx[p] # Absent =>
        /\ tx[p].what \in {"create", "draft"} => promotions[p] = Absent
        /\ tx[p].what \in {"assign", "cancel"} => promotions[p] # Absent
        /\ tx[p].what = "assign" => /\ promotions[p].status = "draft"
                                    /\ promotions[p].starts = tx[p].starts
                                    /\ promotions[p].ends = tx[p].ends
        /\ tx[p].what = "cancel" => promotions[p].status # "cancelled"

(* Only a cancelled row has a cancelled_at. *)
RowInv ==
    \A p \in Promotion :
        promotions[p] # Absent /\ promotions[p].status # "cancelled" =>
            promotions[p].cancelled = Absent

(* A boundary that is owed stands in a column the sweep reads. *)
DueInv ==
    \A pb \in due : /\ promotions[pb[1]] # Absent
                    /\ promotions[pb[1]].status # "draft"
                    /\ pb[2] \in Boundaries(promotions[pb[1]])

(* A run has, or has published, every boundary owed in its window. *)
ReadInv ==
    stepsBack = 0 =>
        \A r \in Reconciler : pc[r] = "publish" =>
            \A pb \in due : since[r] < pb[2] /\ pb[2] <= windowEnd[r] =>
                pb \in offered \union todo[r]

IInv ==
    /\ TypeOK /\ ClockInv /\ WindowInv /\ TxInv /\ RowInv /\ DueInv /\ ReadInv
    /\ NothingUnreadBehindTheWatermark

-----------------------------------------------------------------------------
(* A step is one of the actions. *)
LEMMA NextSplit ==
    ASSUME Next
    PROVE  \/ Tick \/ StepBack
           \/ \E p \in Promotion, what \in {"create", "draft", "assign", "cancel"},
                win \in Windows :
                 Begin(p, what, win)
           \/ \E p \in Promotion : Commit(p) \/ Rollback(p)
           \/ \E r \in Reconciler : ReadBounds(r) \/ ReadRows(r) \/ RunAdvances(r) \/ Crash(r)
           \/ \E r \in Reconciler, p \in Promotion : Publish(r, p) \/ PublishFails(r, p)
  BY DEF Next, Run, Writer

(* What is numeric in a well-typed state. *)
LEMMA Numbers ==
    ASSUME TypeOK
    PROVE  /\ now \in Nat /\ watermark \in Nat /\ now <= MaxNow /\ watermark <= MaxNow
           /\ \A r \in Reconciler : since[r] \in Nat /\ windowEnd[r] \in Nat
           /\ stepsBack \in Nat /\ faults \in Nat
  BY DEF TypeOK, Instant

(* The end of a window: behind the lag, and not before the window's start.  *)
LEMMA WindowEnds ==
    ASSUME TypeOK
    PROVE  /\ WindowEnd(watermark) \in Instant
           /\ watermark <= WindowEnd(watermark)
           /\ WindowEnd(watermark) = watermark \/ WindowEnd(watermark) <= now - Lag
<1>1. now \in 0..MaxNow /\ watermark \in 0..MaxNow
  BY DEF TypeOK, Instant
<1>2. Least(now - Lag, watermark + MaxWindow) \in Int
      /\ Least(now - Lag, watermark + MaxWindow) <= now - Lag
  BY <1>1 DEF Least
<1> QED
  BY <1>1, <1>2 DEF WindowEnd, Instant

(* A row that a commit writes is a row. *)
LEMMA WrittenType ==
    ASSUME TypeOK, TxInv, NEW p \in Promotion, tx[p] # Absent
    PROVE  Written(p) \in Rows /\ Owed(p) \subseteq 0..(MaxNow + 1)
<1>1. tx[p] \in Txs
  BY DEF TypeOK
<1>2. tx[p].what \in {"assign", "cancel"} => promotions[p] \in Rows
  BY DEF TypeOK, TxInv
<1>3. Instant \subseteq 0..(MaxNow + 1) /\ 1..(MaxNow + 1) \subseteq 0..(MaxNow + 1)
  BY DEF Instant
<1>4. Written(p) \in Rows
  BY <1>1, <1>2 DEF Written, Txs, Rows
<1>5. Owed(p) \subseteq 0..(MaxNow + 1)
  BY <1>1, <1>3 DEF Owed, Txs
<1> QED
  BY <1>4, <1>5

(* A row is not Absent. *)
LEMMA RowsAreRows == Absent \notin Rows
  BY DEF Rows, Instant

-----------------------------------------------------------------------------
(* Types. *)
LEMMA TypeStep == TypeOK /\ TxInv /\ [Next]_vars => TypeOK'
<1> SUFFICES ASSUME TypeOK, TxInv, [Next]_vars PROVE TypeOK'
  OBVIOUS
<1> USE DEF TypeOK
<1>1. CASE Tick
  BY <1>1 DEF Tick, runVars, history, Instant
<1>2. CASE StepBack
  BY <1>2 DEF StepBack, runVars, history, Instant
<1>3. ASSUME NEW p \in Promotion, NEW what \in {"create", "draft", "assign", "cancel"},
             NEW win \in Windows, Begin(p, what, win)
      PROVE  TypeOK'
  <2>1. [what |-> what, at |-> now, starts |-> win.starts, ends |-> win.ends] \in Txs
    BY DEF Txs, Windows
  <2>2. tx' \in [Promotion -> Txs \union {Absent}]
    BY <1>3, <2>1 DEF Begin
  <2> QED
    BY <1>3, <2>2 DEF Begin, runVars, history
<1>4. ASSUME NEW p \in Promotion, Commit(p) PROVE TypeOK'
  <2>1. Written(p) \in Rows /\ Owed(p) \subseteq 0..(MaxNow + 1)
    BY <1>4, WrittenType DEF Commit
  <2>2. promotions' \in [Promotion -> Rows \union {Absent}]
    BY <1>4, <2>1 DEF Commit
  <2>3. due' \in SUBSET Pairs
    BY <1>4, <2>1 DEF Commit, Pairs
  <2>4. tx' \in [Promotion -> Txs \union {Absent}]
    BY <1>4 DEF Commit
  <2> QED
    BY <1>4, <2>2, <2>3, <2>4 DEF Commit, runVars
<1>5. ASSUME NEW p \in Promotion, Rollback(p) PROVE TypeOK'
  BY <1>5 DEF Rollback, runVars, history
<1>6. ASSUME NEW r \in Reconciler, ReadBounds(r) PROVE TypeOK'
  <2>1. windowEnd' \in [Reconciler -> Instant] /\ since' \in [Reconciler -> Instant]
    BY <1>6, WindowEnds DEF ReadBounds
  <2> QED
    BY <1>6, <2>1 DEF ReadBounds, history
<1>7. ASSUME NEW r \in Reconciler, ReadRows(r) PROVE TypeOK'
  <2>1. Crossed(since[r], windowEnd[r]) \subseteq Pairs
    BY DEF Crossed, Pairs
  <2> QED
    BY <1>7, <2>1 DEF ReadRows, history
<1>8. ASSUME NEW r \in Reconciler, NEW p \in Promotion, Publish(r, p) PROVE TypeOK'
  <2>1. Offers(r, p) \subseteq Pairs /\ JobId(p, since[r]) \in Promotion \X Instant
    BY DEF Offers, JobId
  <2>2. announced' \in [Promotion -> Int] /\ held' \in SUBSET (Promotion \X Instant)
    BY <1>8, <2>1 DEF Publish, Enters, Instant
  <2>3. todo' \in [Reconciler -> SUBSET Pairs] /\ offered' \in SUBSET Pairs
    BY <1>8, <2>1 DEF Publish
  <2> QED
    BY <1>8, <2>2, <2>3 DEF Publish
<1>9. ASSUME NEW r \in Reconciler, RunEnds(r)
      PROVE  /\ pc' \in [Reconciler -> {"idle", "read", "publish"}]
             /\ since' \in [Reconciler -> Instant] /\ windowEnd' \in [Reconciler -> Instant]
             /\ todo' \in [Reconciler -> SUBSET Pairs]
  BY <1>9 DEF RunEnds, Instant
<1>10. ASSUME NEW r \in Reconciler, NEW p \in Promotion, PublishFails(r, p) PROVE TypeOK'
  <2>1. JobId(p, since[r]) \in Promotion \X Instant
    BY DEF JobId
  <2>2. announced' \in [Promotion -> Int] /\ held' \in SUBSET (Promotion \X Instant)
    BY <1>10, <2>1 DEF PublishFails, Enters, Instant
  <2>3. faults' \in Nat
    BY <1>10 DEF PublishFails, Fault
  <2> QED
    BY <1>9, <1>10, <2>2, <2>3 DEF PublishFails
<1>11. ASSUME NEW r \in Reconciler, RunAdvances(r) PROVE TypeOK'
  BY <1>9, <1>11 DEF RunAdvances, Advance, history
<1>12. ASSUME NEW r \in Reconciler, Crash(r) PROVE TypeOK'
  BY <1>9, <1>12 DEF Crash, Fault, history
<1>13. CASE UNCHANGED vars
  BY <1>13 DEF vars, runVars, history
<1> QED
  BY <1>1, <1>2, <1>3, <1>4, <1>5, <1>6, <1>7, <1>8, <1>10, <1>11, <1>12, <1>13, NextSplit

-----------------------------------------------------------------------------
(* The runs' variables, and the clock's, where an action leaves them alone. *)
LEMMA WindowStep == TypeOK /\ WindowInv /\ [Next]_vars => WindowInv'
<1> SUFFICES ASSUME TypeOK, WindowInv, [Next]_vars PROVE WindowInv'
  OBVIOUS
<1> USE DEF WindowInv
<1>1. CASE UNCHANGED <<since, windowEnd>>
  BY <1>1
<1>2. ASSUME NEW r \in Reconciler, ReadBounds(r) PROVE WindowInv'
  BY <1>2, WindowEnds DEF ReadBounds, TypeOK
<1>3. ASSUME NEW r \in Reconciler, RunEnds(r) PROVE WindowInv'
  BY <1>3 DEF RunEnds, TypeOK
<1> QED
  BY <1>1, <1>2, <1>3, NextSplit
     DEF Tick, StepBack, Begin, Commit, Rollback, ReadRows, RunAdvances, Crash, Publish,
         PublishFails, runVars, vars

(* Between two steps back the clock only leaves more behind it, and an open *)
(* transaction holds it.                                                    *)
LEMMA ClockStep == TypeOK /\ ClockInv /\ [Next]_vars => ClockInv'
<1> SUFFICES ASSUME TypeOK, ClockInv, [Next]_vars, stepsBack' = 0 PROVE ClockInv'
  BY DEF ClockInv
<1> DEFINE Txn == \A p \in Promotion :
                      tx[p] # Absent => tx[p].at <= now /\ now <= tx[p].at + TxMax
           Ends == \A r \in Reconciler : Behind(windowEnd[r])
<1>1. stepsBack \in Nat /\ now \in Nat /\ watermark \in Nat
  BY Numbers
<1>2. stepsBack = 0
  BY <1>1, NextSplit
     DEF Tick, StepBack, Begin, Commit, Rollback, ReadBounds, ReadRows, RunAdvances, Crash,
         Publish, PublishFails, runVars, vars
<1>3. Behind(watermark) /\ Ends /\ Txn
  BY <1>2 DEF ClockInv
<1>4. \A r \in Reconciler : windowEnd[r] \in Nat
  BY Numbers
<1>5. CASE Tick
  <2>1. \A i \in Nat : Behind(i) => Behind(i)'
    BY <1>1, <1>5 DEF Behind, Tick
  <2>2. \A p \in Promotion : tx[p] # Absent => tx[p].at \in Nat
    BY DEF TypeOK, Txs, Instant
  <2>3. Txn'
    BY <1>1, <1>3, <1>5, <2>2 DEF Tick
  <2>4. watermark' = watermark /\ windowEnd' = windowEnd
    BY <1>5 DEF Tick, runVars
  <2> QED
    BY <1>1, <1>3, <1>4, <2>1, <2>3, <2>4 DEF ClockInv, Behind
<1>6. CASE StepBack
  BY <1>1, <1>6 DEF StepBack
<1>7. ASSUME now' = now, UNCHANGED <<watermark, windowEnd>>, Txn' PROVE ClockInv'
  BY <1>3, <1>7 DEF ClockInv, Behind
<1>8. ASSUME NEW p \in Promotion, NEW what \in {"create", "draft", "assign", "cancel"},
             NEW win \in Windows, Begin(p, what, win)
      PROVE  ClockInv'
  <2>1. Txn'
    BY <1>1, <1>3, <1>8 DEF Begin, TypeOK
  <2> QED
    BY <1>7, <1>8, <2>1 DEF Begin, runVars
<1>9. ASSUME NEW p \in Promotion, Commit(p) \/ Rollback(p) PROVE ClockInv'
  <2>1. Txn'
    BY <1>3, <1>9 DEF Commit, Rollback, TypeOK
  <2> QED
    BY <1>7, <1>9, <2>1 DEF Commit, Rollback, runVars
<1>10. ASSUME now' = now, tx' = tx, Behind(watermark'), \A r \in Reconciler : Behind(windowEnd'[r])
       PROVE  ClockInv'
  BY <1>3, <1>10 DEF ClockInv, Behind
<1>11. ASSUME NEW r \in Reconciler, ReadBounds(r) PROVE ClockInv'
  <2>1. Behind(WindowEnd(watermark))
    BY <1>3, WindowEnds DEF Behind
  <2> QED
    BY <1>3, <1>10, <1>11, <2>1 DEF ReadBounds, TypeOK
<1>12. ASSUME NEW r \in Reconciler, RunEnds(r) PROVE \A i \in Reconciler : Behind(windowEnd'[i])
  BY <1>3, <1>12 DEF RunEnds, TypeOK, Behind
<1>13. ASSUME NEW r \in Reconciler, RunAdvances(r) PROVE ClockInv'
  <2>1. Behind(watermark')
    BY <1>3, <1>13 DEF RunAdvances, Advance
  <2> QED
    BY <1>10, <1>12, <1>13, <2>1 DEF RunAdvances
<1>14. ASSUME NEW r \in Reconciler, Crash(r) \/ \E p \in Promotion : PublishFails(r, p)
       PROVE  ClockInv'
  BY <1>3, <1>10, <1>12, <1>14 DEF Crash, PublishFails
<1>15. ASSUME NEW r \in Reconciler, ReadRows(r) \/ \E p \in Promotion : Publish(r, p)
       PROVE  ClockInv'
  BY <1>3, <1>7, <1>15 DEF ReadRows, Publish
<1>16. CASE UNCHANGED vars
  BY <1>3, <1>7, <1>16 DEF vars, runVars
<1> QED
  BY <1>5, <1>6, <1>8, <1>9, <1>11, <1>13, <1>14, <1>15, <1>16, NextSplit

-----------------------------------------------------------------------------
(* The rows and the transactions on them. *)
LEMMA RowsStep ==
    TypeOK /\ TxInv /\ RowInv /\ DueInv /\ [Next]_vars => TxInv' /\ RowInv' /\ DueInv'
<1> SUFFICES ASSUME TypeOK, TxInv, RowInv, DueInv, [Next]_vars PROVE TxInv' /\ RowInv' /\ DueInv'
  OBVIOUS
<1>1. ASSUME UNCHANGED <<promotions, tx, due>> PROVE TxInv' /\ RowInv' /\ DueInv'
  BY <1>1 DEF TxInv, RowInv, DueInv, Boundaries
<1>2. ASSUME NEW p \in Promotion, NEW what \in {"create", "draft", "assign", "cancel"},
             NEW win \in Windows, Begin(p, what, win)
      PROVE  TxInv' /\ RowInv' /\ DueInv'
  <2>1. RowInv' /\ DueInv'
    BY <1>2 DEF Begin, RowInv, DueInv, Boundaries, history
  <2>2. /\ promotions' = promotions /\ tx' = [tx EXCEPT ![p] = tx'[p]]
        /\ tx'[p].what = what /\ tx'[p].starts = win.starts /\ tx'[p].ends = win.ends
    BY <1>2 DEF Begin, TypeOK
  <2>3. /\ what \in {"create", "draft"} => promotions[p] = Absent
        /\ what \in {"assign", "cancel"} => promotions[p] # Absent
        /\ what = "assign" => promotions[p].status = "draft" /\ win = Window(promotions[p])
        /\ what = "cancel" => promotions[p].status # "cancelled"
    <3>1. CASE what \in {"create", "draft"}
      BY <1>2, <3>1 DEF Begin
    <3>2. CASE what = "assign"
      BY <1>2, <3>2 DEF Begin
    <3>3. CASE what = "cancel"
      BY <1>2, <3>3 DEF Begin
    <3> QED
      BY <3>1, <3>2, <3>3
  <2>4. what = "assign" => promotions[p].starts = win.starts /\ promotions[p].ends = win.ends
    BY <2>3 DEF Window
  <2>5. \A q \in Promotion : q # p => tx'[q] = tx[q]
    BY <2>2 DEF TypeOK
  <2>6. TxInv'
    BY <2>2, <2>3, <2>4, <2>5 DEF TxInv
  <2> QED
    BY <2>1, <2>6
<1>3. ASSUME NEW p \in Promotion, Rollback(p) PROVE TxInv' /\ RowInv' /\ DueInv'
  <2>1. RowInv' /\ DueInv'
    BY <1>3 DEF Rollback, RowInv, DueInv, Boundaries, history
  <2>2. TxInv'
    BY <1>3 DEF Rollback, TxInv, TypeOK
  <2> QED
    BY <2>1, <2>2
<1>4. ASSUME NEW p \in Promotion, Commit(p) PROVE TxInv' /\ RowInv' /\ DueInv'
  <2>1. /\ promotions' = [promotions EXCEPT ![p] = Written(p)]
        /\ tx' = [tx EXCEPT ![p] = Absent] /\ tx[p] # Absent
        /\ due' = due \union ({p} \X Owed(p))
        /\ tx \in [Promotion -> Txs \union {Absent}]
        /\ promotions \in [Promotion -> Rows \union {Absent}]
    BY <1>4 DEF Commit, TypeOK
  <2>2. Written(p) \in Rows /\ Written(p) # Absent
    BY <2>1, WrittenType, RowsAreRows
  <2>3. tx[p] \in Txs
    BY <2>1
  <2>4. TxInv'
    BY <2>1 DEF TxInv
  <2>5. Written(p).status # "cancelled" => Written(p).cancelled = Absent
    BY <2>1, <2>3 DEF Written, TxInv, RowInv, Txs, Rows
  <2>6. RowInv'
    BY <2>1, <2>2, <2>5 DEF RowInv
  <2>7. ASSUME NEW b \in Owed(p)
        PROVE  Written(p).status # "draft" /\ b \in Boundaries(Written(p))
    <3>1. b # Absent
      BY <2>1, WrittenType
    <3> QED
      BY <2>1, <2>3, <3>1 DEF Owed, Written, Boundaries, TxInv, Txs, Rows
  <2>8. ASSUME promotions[p] # Absent, promotions[p].status # "draft",
               NEW b \in Boundaries(promotions[p])
        PROVE  Written(p).status # "draft" /\ b \in Boundaries(Written(p))
    BY <2>1, <2>3, <2>8 DEF Written, Boundaries, TxInv, RowInv, Txs, Rows
  <2>9. ASSUME NEW pb \in due'
        PROVE  /\ promotions'[pb[1]] # Absent
               /\ promotions'[pb[1]].status # "draft"
               /\ pb[2] \in Boundaries(promotions'[pb[1]])
    <3>1. CASE pb \in {p} \X Owed(p)
      BY <2>1, <2>2, <2>7, <3>1
    <3>2. CASE pb \in due /\ pb[1] = p
      BY <2>1, <2>2, <2>8, <3>2 DEF DueInv
    <3>3. CASE pb \in due /\ pb[1] # p
      <4>1. pb[1] \in Promotion
        BY <3>3 DEF TypeOK, Pairs
      <4> QED
        BY <2>1, <3>3, <4>1 DEF DueInv
    <3> QED
      BY <2>1, <3>1, <3>2, <3>3
  <2>10. DueInv'
    BY <2>9 DEF DueInv, Boundaries
  <2> QED
    BY <2>4, <2>6, <2>10
<1> QED
  BY <1>1, <1>2, <1>3, <1>4, NextSplit
     DEF Tick, StepBack, ReadBounds, ReadRows, RunAdvances, Crash, Publish, PublishFails,
         history, vars
-----------------------------------------------------------------------------
(* What a commit newly owes lies ahead of everything the lag left behind.   *)
LEMMA OwedAhead ==
    ASSUME TypeOK, ClockInv, stepsBack = 0, NEW p \in Promotion, tx[p] # Absent,
           NEW b \in Owed(p), NEW i \in Nat, Behind(i), i # 0
    PROVE  i < b
<1>1. tx[p] \in Txs /\ now \in Nat
  BY Numbers DEF TypeOK
<1>2. tx[p].at \in Nat /\ now <= tx[p].at + TxMax
  BY <1>1 DEF ClockInv, Txs, Instant
<1>3. i < tx[p].at
  BY <1>1, <1>2 DEF Behind
<1>4. b \in Int /\ tx[p].at <= b
  BY <1>1, <1>2 DEF Owed, Txs, Instant
<1> QED
  BY <1>2, <1>3, <1>4

(* The commit that is too late for a run is of no boundary in its window.   *)
LEMMA ReadStep ==
    TypeOK /\ TxInv /\ ClockInv /\ DueInv /\ ReadInv /\ [Next]_vars => ReadInv'
<1> SUFFICES ASSUME TypeOK, TxInv, ClockInv, DueInv, ReadInv, [Next]_vars, stepsBack' = 0
             PROVE  ReadInv'
  BY DEF ReadInv
<1> DEFINE Has(r) == pc[r] = "publish" =>
                       \A pb \in due : since[r] < pb[2] /\ pb[2] <= windowEnd[r] =>
                           pb \in offered \union todo[r]
<1>1. stepsBack = 0
  BY Numbers, NextSplit
     DEF Tick, StepBack, Begin, Commit, Rollback, ReadBounds, ReadRows, RunAdvances, Crash,
         Publish, PublishFails, runVars, vars
<1>2. \A r \in Reconciler : Has(r)
  BY <1>1 DEF ReadInv
<1>3. CASE UNCHANGED <<runVars, due, offered>>
  BY <1>2, <1>3 DEF ReadInv, runVars
<1>4. ASSUME NEW p \in Promotion, Commit(p) PROVE ReadInv'
  <2>1. /\ tx[p] # Absent /\ due' = due \union ({p} \X Owed(p))
        /\ UNCHANGED <<pc, since, windowEnd, todo, offered>>
    BY <1>4 DEF Commit, runVars
  <2>2. ASSUME NEW r \in Reconciler, pc[r] = "publish", NEW pb \in due',
               since[r] < pb[2], pb[2] <= windowEnd[r]
        PROVE  pb \in offered \union todo[r]
    <3>1. since[r] \in Nat /\ windowEnd[r] \in Nat /\ Behind(windowEnd[r])
      BY <1>1, Numbers DEF ClockInv
    <3>2. CASE pb \in due
      BY <1>2, <2>2, <3>2
    <3>3. CASE pb \in {p} \X Owed(p)
      <4>1. pb[2] \in Owed(p) /\ pb[2] \in Nat
        BY <2>1, <3>3, WrittenType
      <4>2. windowEnd[r] # 0
        BY <2>2, <3>1, <4>1
      <4>3. windowEnd[r] < pb[2]
        BY <1>1, <2>1, <3>1, <4>1, <4>2, OwedAhead
      <4> QED
        BY <2>2, <3>1, <4>1, <4>3
    <3> QED
      BY <2>1, <3>2, <3>3
  <2> QED
    BY <2>1, <2>2 DEF ReadInv
<1>5. ASSUME NEW r \in Reconciler, ReadBounds(r) PROVE ReadInv'
  <2>1. /\ pc'[r] = "read" /\ UNCHANGED <<todo, due, offered>>
        /\ \A i \in Reconciler : i # r =>
             pc'[i] = pc[i] /\ since'[i] = since[i] /\ windowEnd'[i] = windowEnd[i]
    BY <1>5 DEF ReadBounds, TypeOK, history
  <2> QED
    BY <1>2, <2>1 DEF ReadInv
<1>6. ASSUME NEW r \in Reconciler, ReadRows(r) PROVE ReadInv'
  <2>1. /\ UNCHANGED <<since, windowEnd, due, offered>>
        /\ todo'[r] = Crossed(since[r], windowEnd[r])
        /\ \A i \in Reconciler : i # r => pc'[i] = pc[i] /\ todo'[i] = todo[i]
    BY <1>6 DEF ReadRows, TypeOK, history
  <2>2. ASSUME NEW pb \in due, since[r] < pb[2], pb[2] <= windowEnd[r] PROVE pb \in todo'[r]
    <3>1. pb \in Promotion \X (0..(MaxNow + 1))
      BY DEF TypeOK, Pairs
    <3> QED
      BY <2>1, <2>2, <3>1 DEF Crossed, DueInv
  <2> QED
    BY <1>2, <2>1, <2>2 DEF ReadInv
<1>7. ASSUME NEW r \in Reconciler, NEW p \in Promotion, Publish(r, p) PROVE ReadInv'
  <2>1. /\ UNCHANGED <<pc, since, windowEnd, due>>
        /\ offered' = offered \union Offers(r, p)
        /\ todo'[r] = todo[r] \ Offers(r, p)
        /\ \A i \in Reconciler : i # r => todo'[i] = todo[i]
    BY <1>7 DEF Publish, TypeOK
  <2> QED
    BY <1>2, <2>1 DEF ReadInv
<1>8. ASSUME NEW r \in Reconciler, RunEnds(r), UNCHANGED <<due, offered>> PROVE ReadInv'
  <2>1. /\ pc'[r] = "idle"
        /\ \A i \in Reconciler : i # r =>
             /\ pc'[i] = pc[i] /\ since'[i] = since[i]
             /\ windowEnd'[i] = windowEnd[i] /\ todo'[i] = todo[i]
    BY <1>8 DEF RunEnds, TypeOK
  <2> QED
    BY <1>2, <1>8, <2>1 DEF ReadInv
<1> QED
  BY <1>3, <1>4, <1>5, <1>6, <1>7, <1>8, NextSplit
     DEF Tick, StepBack, Begin, Rollback, RunAdvances, Crash, PublishFails, runVars, history,
         vars

(* The watermark passes only what was published for, and a commit owes      *)
(* nothing behind it.                                                       *)
LEMMA UnreadStep ==
    /\ TypeOK /\ TxInv /\ ClockInv /\ ReadInv /\ NothingUnreadBehindTheWatermark
    /\ [Next]_vars
    => NothingUnreadBehindTheWatermark'
<1> SUFFICES ASSUME TypeOK, TxInv, ClockInv, ReadInv, NothingUnreadBehindTheWatermark,
                    [Next]_vars, stepsBack' = 0
             PROVE  NothingUnreadBehindTheWatermark'
  BY DEF NothingUnreadBehindTheWatermark
<1>1. stepsBack = 0
  BY Numbers, NextSplit
     DEF Tick, StepBack, Begin, Commit, Rollback, ReadBounds, ReadRows, RunAdvances, Crash,
         Publish, PublishFails, runVars, vars
<1>2. \A pb \in due : 0 < pb[2] /\ pb[2] <= watermark => pb \in offered
  BY <1>1 DEF NothingUnreadBehindTheWatermark
<1>3. CASE UNCHANGED <<watermark, due>> /\ offered \subseteq offered'
  BY <1>2, <1>3 DEF NothingUnreadBehindTheWatermark
<1>4. ASSUME NEW p \in Promotion, Commit(p) PROVE NothingUnreadBehindTheWatermark'
  <2>1. /\ tx[p] # Absent /\ due' = due \union ({p} \X Owed(p))
        /\ UNCHANGED <<watermark, offered>>
    BY <1>4 DEF Commit
  <2>2. watermark \in Nat /\ Behind(watermark)
    BY <1>1, Numbers DEF ClockInv
  <2>3. ASSUME NEW b \in Owed(p), 0 < b PROVE ~(b <= watermark)
    <3>1. b \in Nat
      BY <2>1, WrittenType
    <3>2. CASE watermark = 0
      BY <2>3, <3>1, <3>2
    <3>3. CASE watermark # 0
      <4>1. watermark < b
        BY <1>1, <2>1, <2>2, <3>3, OwedAhead
      <4> QED
        BY <2>2, <3>1, <4>1
    <3> QED
      BY <3>2, <3>3
  <2> QED
    BY <1>2, <2>1, <2>3 DEF NothingUnreadBehindTheWatermark
<1>5. ASSUME NEW r \in Reconciler, RunAdvances(r) PROVE NothingUnreadBehindTheWatermark'
  <2>1. /\ pc[r] = "publish" /\ todo[r] = {} /\ UNCHANGED <<due, offered>>
        /\ watermark' = IF watermark = since[r] THEN windowEnd[r] ELSE watermark
    BY <1>5 DEF RunAdvances, Advance, history
  <2>2. \A pb \in due : since[r] < pb[2] /\ pb[2] <= windowEnd[r] => pb \in offered
    BY <1>1, <2>1 DEF ReadInv
  <2>3. since[r] \in Nat /\ \A pb \in due : pb[2] \in Nat
    BY Numbers DEF TypeOK, Pairs
  <2>4. CASE watermark = since[r]
    BY <1>2, <2>1, <2>2, <2>3, <2>4 DEF NothingUnreadBehindTheWatermark
  <2>5. CASE watermark # since[r]
    BY <1>2, <2>1, <2>5 DEF NothingUnreadBehindTheWatermark
  <2> QED
    BY <2>4, <2>5
<1> QED
  BY <1>3, <1>4, <1>5, NextSplit
     DEF Tick, StepBack, Begin, Rollback, ReadBounds, ReadRows, Publish, Crash, PublishFails,
         history, vars

-----------------------------------------------------------------------------
LEMMA InitIInv == Init => IInv
<1> SUFFICES ASSUME Init PROVE IInv
  OBVIOUS
<1>1. 0 \in Instant /\ -1 \in Int
  BY DEF Instant
<1>2. TypeOK
  BY <1>1 DEF Init, TypeOK
<1>3. ClockInv /\ WindowInv /\ TxInv /\ RowInv
  BY DEF Init, ClockInv, WindowInv, TxInv, RowInv, Behind
<1>4. DueInv /\ ReadInv /\ NothingUnreadBehindTheWatermark
  BY DEF Init, DueInv, ReadInv, NothingUnreadBehindTheWatermark
<1> QED
  BY <1>2, <1>3, <1>4 DEF IInv

LEMMA IInvStep == IInv /\ [Next]_vars => IInv'
  BY TypeStep, ClockStep, WindowStep, RowsStep, ReadStep, UnreadStep DEF IInv

LEMMA Inductive == Spec => []IInv
<1>1. Init => IInv
  BY InitIInv
<1>2. IInv /\ [Next]_vars => IInv'
  BY IInvStep
<1> QED
  BY <1>1, <1>2, PTL DEF Spec

(* Every variable of the sweep, of its writers and of the clock has its     *)
(* type, whatever the interleaving.                                         *)
THEOREM TypeCorrect == Spec => []TypeOK
<1>1. IInv => TypeOK
  BY DEF IInv
<1> QED
  BY <1>1, Inductive, PTL

(* No boundary falls behind the watermark unpublished (crossedSince,        *)
(* COMMIT_LAG_SECONDS, advance), while the database's clock is not stepped  *)
(* back.                                                                    *)
THEOREM NothingUnread == Spec => []NothingUnreadBehindTheWatermark
<1>1. IInv => NothingUnreadBehindTheWatermark
  BY DEF IInv
<1> QED
  BY <1>1, Inductive, PTL

(* The watermark never moves back, whichever of several sweeps is slower    *)
(* and wherever the clock is stepped to (advance, crossedSince).            *)
THEOREM WatermarkForward == Spec => WatermarkMovesForward
<1>1. IInv /\ [Next]_vars => [watermark' >= watermark]_vars
  <2> SUFFICES ASSUME IInv, Next PROVE watermark' >= watermark
    BY DEF vars
  <2>1. watermark \in Nat /\ \A r \in Reconciler : windowEnd[r] \in Nat /\ since[r] \in Nat
    BY Numbers DEF IInv
  <2>2. ASSUME NEW r \in Reconciler, RunAdvances(r) PROVE watermark' >= watermark
    BY <2>1, <2>2 DEF RunAdvances, Advance, IInv, WindowInv
  <2>3. CASE watermark' = watermark
    BY <2>1, <2>3
  <2> QED
    BY <2>2, <2>3, NextSplit
       DEF Tick, StepBack, Begin, Commit, Rollback, ReadBounds, ReadRows, Publish, Crash,
           PublishFails
<1> QED
  BY <1>1, Inductive, PTL DEF Spec, WatermarkMovesForward
=============================================================================
