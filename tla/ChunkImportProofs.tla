-------------------------- MODULE ChunkImportProofs --------------------------
(***************************************************************************)
(* Proofs about ChunkImport, for any chunks, any workers, any number of    *)
(* batches and of faults.  The inductive invariant IInv says what a chunk's *)
(* status, its checkpoint and the invocations working on it know of each   *)
(* other; the safety properties the runs check follow from it.             *)
(***************************************************************************)
EXTENDS ChunkImport, TLAPS

USE BatchesAssumption, MaxFailuresAssumption, BoundsAssumption,
    NoLeaseAssumption, NoChunkAssumption
    DEF BatchesAssumption, MaxFailuresAssumption, BoundsAssumption,
        NoLeaseAssumption, NoChunkAssumption

(* A step of the system is one of its actions: the case split every proof   *)
(* below starts from.                                                       *)
LEMMA NextSplit ==
    ASSUME Next
    PROVE  \/ Register \/ JobAges
           \/ SweepSettle \/ SweepRead \/ SweepEnds
           \/ \E c \in Chunk : \/ EnqueueChunk(c) \/ EnqueueFails(c) \/ LeaseAges(c)
                               \/ SweepPublish(c) \/ SweepPublishFails(c)
           \/ \E w \in Worker, c \in Chunk :
                 ClaimChunk(w, c) \/ RefuseChunk(w, c) \/ ClaimRaises(w, c)
           \/ \E w \in Worker :
                 \/ CommitBatch(w) \/ Superseded(w) \/ ReleaseChunk(w) \/ Reenqueue(w)
                 \/ RefreshRead(w) \/ RefreshWrite(w) \/ Complete(w)
                 \/ RecordFailure(w) \/ GiveUp(w)
                 \/ ReenqueueFails(w) \/ Raises(w) \/ Crash(w) \/ LockLost(w)
  BY DEF Next, Sweep, Invocation, WorkerFault, Deliver

-----------------------------------------------------------------------------
(* What an invocation knows: the chunk it runs, and, while it stores        *)
(* batches, that there is one left from where it stands.                    *)
InvocationInv ==
    \A w \in Worker :
        /\ pc[w] # "idle" => at[w] \in Chunk
        /\ pc[w] = "batch" => off[w] < Batches

(* What a chunk's status says of its checkpoint and of its failures.        *)
StatusInv ==
    \A c \in Chunk :
        /\ status[c] \in {"pending", "running"} => next[c] < Batches
        /\ status[c] = "done" => next[c] = Batches
        /\ status[c] = "failed" => failures[c] >= MaxFailures

IInv ==
    /\ TypeOK
    /\ InvocationInv
    /\ StatusInv
    /\ EachBatchStoredOnce
    /\ CompletedImportIsWhole
    /\ GivenUpForCause

-----------------------------------------------------------------------------
(* The initial state is well typed. *)
LEMMA InitTypeOK == Init => TypeOK
<1> SUFFICES ASSUME Init PROVE TypeOK
  OBVIOUS
<1>1. snap \in [Worker -> Progress] /\ stored \in [Chunk -> [0..(Batches - 1) -> Nat]]
  BY DEF Init, Progress, NoProgress
<1>2. queue \in [Chunk -> 0..MaxQueued] /\ faults \in 0..MaxFaults
  BY DEF Init
<1>3. next \in [Chunk -> 0..Batches] /\ off \in [Worker -> 0..Batches]
  BY DEF Init
<1> QED
  BY <1>1, <1>2, <1>3 DEF Init, TypeOK, ChunkStatus, JobStatus, Steps

(* Where an enqueue may leave the queue. *)
LEMMA QueueType ==
    ASSUME queue \in [Chunk -> 0..MaxQueued], NEW c
    PROVE  /\ Published(c) => queue' \in [Chunk -> 0..MaxQueued]
           /\ Unconfirmed(c) => queue' \in [Chunk -> 0..MaxQueued]
           /\ RetriedOrDead(c) => queue' \in [Chunk -> 0..MaxQueued]
  BY DEF Published, Unconfirmed, RetriedOrDead, Enqueue

(* What ending an invocation, or moving it on, leaves in its locals. *)
LocalsOK ==
    /\ pc \in [Worker -> Steps]
    /\ at \in [Worker -> Chunk \union {NoChunk}]
    /\ off \in [Worker -> 0..Batches]
    /\ snap \in [Worker -> Progress]

(* A step of one worker keeps its locals well typed. *)
LEMMA LocalsType ==
    ASSUME LocalsOK, NEW w \in Worker
    PROVE  /\ Ends(w) => LocalsOK'
           /\ \A s \in Steps : Goes(w, s) => LocalsOK'
<1>1. NoProgress \in Progress
  BY DEF NoProgress, Progress
<1>2. Ends(w) => LocalsOK'
  BY <1>1 DEF LocalsOK, Ends, Steps
<1>3. ASSUME NEW s \in Steps, Goes(w, s) PROVE LocalsOK'
  BY <1>3 DEF LocalsOK, Goes
<1> QED
  BY <1>2, <1>3

(* A settling statement writes a job row of the right type. *)
LEMMA SettleType ==
    ASSUME TypeOK
    PROVE  /\ CompleteJobIfDone => /\ jobStatus' \in JobStatus /\ jobDone' \in SUBSET Chunk
                                   /\ jobRows' \in [Chunk -> Nat] /\ jobIdle' \in BOOLEAN
           /\ FailJobIfExhausted => /\ jobStatus' \in JobStatus /\ jobDone' \in SUBSET Chunk
                                    /\ jobRows' \in [Chunk -> Nat] /\ jobIdle' \in BOOLEAN
  BY DEF TypeOK, CompleteJobIfDone, FailJobIfExhausted, CompleteJob, FailJob,
         DoneChunks, JobStatus, jobVars

(* A step from a state of the inductive invariant keeps every type: the     *)
(* batch an invocation stores, above all, is one the chunk has.             *)
LEMMA TypeStep ==
    ASSUME TypeOK, InvocationInv, StatusInv, Next
    PROVE  TypeOK'
<1> USE DEF vars, chunkVars, progressVars, claimVars, jobVars, workerVars, sweepVars
<1>0. LocalsOK /\ queue \in [Chunk -> 0..MaxQueued]
  BY DEF TypeOK, LocalsOK
<1>1. CASE Register
  BY <1>1 DEF Register, TypeOK, JobStatus
<1>2. CASE JobAges
  BY <1>2 DEF JobAges, TypeOK
<1>3. CASE SweepSettle
  BY <1>3, SettleType DEF SweepSettle, SettleJob, TypeOK, CompleteJobIfDone
<1>4. CASE SweepRead
  BY <1>4 DEF SweepRead, TypeOK
<1>5. CASE SweepEnds
  BY <1>5 DEF SweepEnds, TypeOK
<1>6. ASSUME NEW c \in Chunk, EnqueueChunk(c) \/ EnqueueFails(c) PROVE TypeOK'
  <2>1. queue' \in [Chunk -> 0..MaxQueued]
    BY <1>6, <1>0, QueueType DEF EnqueueChunk, EnqueueFails
  <2>2. toEnqueue' \in SUBSET Chunk /\ faults' \in 0..MaxFaults
    BY <1>6 DEF EnqueueChunk, EnqueueFails, Fault, TypeOK
  <2> QED
    BY <1>6, <2>1, <2>2 DEF EnqueueChunk, EnqueueFails, TypeOK
<1>7. ASSUME NEW c \in Chunk, LeaseAges(c) PROVE TypeOK'
  BY <1>7 DEF LeaseAges, TypeOK
<1>8. ASSUME NEW c \in Chunk, SweepPublish(c) \/ SweepPublishFails(c) PROVE TypeOK'
  <2>1. queue' \in [Chunk -> 0..MaxQueued]
    BY <1>8, <1>0, QueueType DEF SweepPublish, SweepPublishFails
  <2>2. orphans' \in SUBSET Chunk /\ faults' \in 0..MaxFaults
    BY <1>8 DEF SweepPublish, SweepPublishFails, Fault, TypeOK
  <2> QED
    BY <1>8, <2>1, <2>2 DEF SweepPublish, SweepPublishFails, TypeOK
<1>9. ASSUME NEW w \in Worker, NEW c \in Chunk, ClaimChunk(w, c) PROVE TypeOK'
  <2>1. queue' \in [Chunk -> 0..MaxQueued]
    BY <1>9, <1>0 DEF ClaimChunk, Dequeue
  <2>2. LocalsOK'
    BY <1>9, <1>0 DEF ClaimChunk, LocalsOK, TypeOK, Steps
  <2> QED
    BY <1>9, <2>1, <2>2 DEF ClaimChunk, TypeOK, LocalsOK, ChunkStatus
<1>10. ASSUME NEW w \in Worker, NEW c \in Chunk, RefuseChunk(w, c) PROVE TypeOK'
  <2>1. queue' \in [Chunk -> 0..MaxQueued]
    BY <1>10, <1>0 DEF RefuseChunk, Dequeue
  <2> QED
    BY <1>10, <2>1 DEF RefuseChunk, TypeOK
<1>11. ASSUME NEW w \in Worker, NEW c \in Chunk, ClaimRaises(w, c) PROVE TypeOK'
  <2>1. queue' \in [Chunk -> 0..MaxQueued]
    BY <1>11, <1>0 DEF ClaimRaises, Dequeue
  <2>2. LocalsOK' /\ faults' \in 0..MaxFaults
    BY <1>11, <1>0 DEF ClaimRaises, Fault, LocalsOK, TypeOK, Steps
  <2> QED
    BY <1>11, <2>1, <2>2 DEF ClaimRaises, TypeOK, LocalsOK
<1>12. ASSUME NEW w \in Worker, CommitBatch(w) PROVE TypeOK'
  <2>1. at[w] \in Chunk /\ off[w] \in 0..(Batches - 1)
    BY <1>12 DEF CommitBatch, InvocationInv, TypeOK
  <2>2. LocalsOK'
    BY <1>12, <1>0, <2>1 DEF CommitBatch, LocalsOK, Steps
  <2>3. stored' \in [Chunk -> [0..(Batches - 1) -> Nat]]
    <3>1. stored[at[w]] \in [0..(Batches - 1) -> Nat]
      BY <2>1 DEF TypeOK
    <3>2. [stored[at[w]] EXCEPT ![off[w]] = @ + 1] \in [0..(Batches - 1) -> Nat]
      BY <2>1, <3>1
    <3>3. stored' = [stored EXCEPT ![at[w]] = [stored[at[w]] EXCEPT ![off[w]] = @ + 1]]
      BY <1>12 DEF CommitBatch, UpsertMany
    <3> QED
      BY <2>1, <3>2, <3>3 DEF TypeOK
  <2>4. next' \in [Chunk -> 0..Batches]
    BY <1>12, <2>1 DEF CommitBatch, CheckpointBatch, MoveCheckpoint, TypeOK
  <2>5. rows' \in [Chunk -> Nat]
    BY <1>12, <2>1 DEF CommitBatch, CheckpointBatch, MoveCheckpoint, TypeOK
  <2>6. status' \in [Chunk -> ChunkStatus]
    BY <1>12, <2>1 DEF CommitBatch, CheckpointBatch, MoveCheckpoint, TypeOK, ChunkStatus
  <2> QED
    BY <1>12, <2>2, <2>3, <2>4, <2>5, <2>6 DEF CommitBatch, TypeOK, LocalsOK
<1>13. ASSUME NEW w \in Worker, Superseded(w) PROVE TypeOK'
  <2>1. LocalsOK'
    BY <1>13, <1>0, LocalsType DEF Superseded
  <2> QED
    BY <1>13, <2>1 DEF Superseded, TypeOK, LocalsOK
<1>14. ASSUME NEW w \in Worker, ReleaseChunk(w) PROVE TypeOK'
  <2>1. LocalsOK'
    BY <1>14, <1>0, LocalsType DEF ReleaseChunk, Steps
  <2>2. /\ status' \in [Chunk -> ChunkStatus]
        /\ lease' \in [Chunk -> Worker \union {NoLease}]
        /\ leaseAge' \in [Chunk -> {"live", "expired", "stale"}]
    BY <1>14 DEF ReleaseChunk, TypeOK, ChunkStatus
  <2> QED
    BY <1>14, <2>1, <2>2 DEF ReleaseChunk, TypeOK, LocalsOK
<1>15. ASSUME NEW w \in Worker, Reenqueue(w) \/ ReenqueueFails(w) PROVE TypeOK'
  <2>1. LocalsOK'
    BY <1>15, <1>0, LocalsType DEF Reenqueue, ReenqueueFails, Steps
  <2>2. queue' \in [Chunk -> 0..MaxQueued]
    BY <1>15, <1>0, QueueType DEF Reenqueue, ReenqueueFails
  <2>3. faults' \in 0..MaxFaults
    BY <1>15 DEF Reenqueue, ReenqueueFails, Fault, TypeOK
  <2> QED
    BY <1>15, <2>1, <2>2, <2>3 DEF Reenqueue, ReenqueueFails, TypeOK, LocalsOK
<1>16. ASSUME NEW w \in Worker, RefreshRead(w) PROVE TypeOK'
  <2>1. [done |-> DoneChunks, rows |-> rows] \in Progress
    BY DEF DoneChunks, Progress, TypeOK
  <2>2. LocalsOK'
    BY <1>16, <1>0, <2>1 DEF RefreshRead, LocalsOK, Steps
  <2> QED
    BY <1>16, <2>2 DEF RefreshRead, TypeOK, LocalsOK
<1>17. ASSUME NEW w \in Worker, RefreshWrite(w) PROVE TypeOK'
  <2>1. NoProgress \in Progress
    BY DEF NoProgress, Progress
  <2>2. LocalsOK'
    BY <1>17, <1>0, <2>1 DEF RefreshWrite, LocalsOK, Steps
  <2>3. jobDone' \in SUBSET Chunk /\ jobRows' \in [Chunk -> Nat] /\ jobIdle' \in BOOLEAN
    <3>1. snap[w].done \in SUBSET Chunk /\ snap[w].rows \in [Chunk -> Nat]
      BY DEF TypeOK, Progress
    <3> QED
      BY <1>17, <3>1 DEF RefreshWrite, RefreshJobProgress, TypeOK
  <2> QED
    BY <1>17, <2>2, <2>3 DEF RefreshWrite, TypeOK, LocalsOK
<1>18. ASSUME NEW w \in Worker, Complete(w) PROVE TypeOK'
  <2>1. LocalsOK'
    BY <1>18, <1>0, LocalsType DEF Complete
  <2> QED
    BY <1>18, <2>1, SettleType DEF Complete, TypeOK, LocalsOK
<1>19. ASSUME NEW w \in Worker, RecordFailure(w) PROVE TypeOK'
  <2>1. at[w] \in Chunk
    BY <1>19 DEF RecordFailure, InvocationInv
  <2>2. LocalsOK'
    BY <1>19, <1>0, LocalsType DEF RecordFailure, Steps
  <2>3. queue' \in [Chunk -> 0..MaxQueued]
    BY <1>19, <1>0, QueueType DEF RecordFailure
  <2>4. failures' \in [Chunk -> Nat]
    BY <1>19, <2>1 DEF RecordFailure, RecordChunkFailure, TypeOK
  <2>5. status' \in [Chunk -> ChunkStatus]
    BY <1>19, <2>1 DEF RecordFailure, RecordChunkFailure, TypeOK, ChunkStatus
  <2> QED
    BY <1>19, <2>2, <2>3, <2>4, <2>5 DEF RecordFailure, RecordChunkFailure, TypeOK, LocalsOK
<1>20. ASSUME NEW w \in Worker, GiveUp(w) PROVE TypeOK'
  <2>1. LocalsOK'
    BY <1>20, <1>0, LocalsType DEF GiveUp
  <2>2. queue' \in [Chunk -> 0..MaxQueued]
    BY <1>20, <1>0, QueueType DEF GiveUp
  <2> QED
    BY <1>20, <2>1, <2>2, SettleType DEF GiveUp, TypeOK, LocalsOK
<1>21. ASSUME NEW w \in Worker, Raises(w) PROVE TypeOK'
  <2>1. NoProgress \in Progress
    BY DEF NoProgress, Progress
  <2>2. LocalsOK' /\ faults' \in 0..MaxFaults
    BY <1>21, <1>0, <2>1 DEF Raises, Fault, LocalsOK, TypeOK, Steps
  <2> QED
    BY <1>21, <2>2 DEF Raises, TypeOK, LocalsOK
<1>22. ASSUME NEW w \in Worker, Crash(w) PROVE TypeOK'
  <2>1. LocalsOK'
    BY <1>22, <1>0, LocalsType DEF Crash
  <2>2. queue' \in [Chunk -> 0..MaxQueued] /\ faults' \in 0..MaxFaults
    BY <1>22, <1>0, QueueType DEF Crash, Fault, TypeOK
  <2> QED
    BY <1>22, <2>1, <2>2 DEF Crash, TypeOK, LocalsOK
<1>23. ASSUME NEW w \in Worker, LockLost(w) PROVE TypeOK'
  <2>1. queue' \in [Chunk -> 0..MaxQueued] /\ faults' \in 0..MaxFaults
    BY <1>23, <1>0, QueueType DEF LockLost, Fault, TypeOK
  <2> QED
    BY <1>23, <2>1 DEF LockLost, TypeOK
<1> QED
  BY NextSplit, <1>1, <1>2, <1>3, <1>4, <1>5, <1>6, <1>7, <1>8, <1>9, <1>10, <1>11, <1>12,
     <1>13, <1>14, <1>15, <1>16, <1>17, <1>18, <1>19, <1>20, <1>21, <1>22, <1>23

-----------------------------------------------------------------------------
(* Which actions reach which state: the frame of the steps below.           *)
LEMMA InvocationFrame ==
    ASSUME Next
    PROVE  \/ UNCHANGED <<pc, at, off>>
           \/ \E w \in Worker, c \in Chunk : ClaimChunk(w, c) \/ ClaimRaises(w, c)
           \/ \E w \in Worker : \/ CommitBatch(w) \/ Ends(w)
                                 \/ RefreshRead(w) \/ RefreshWrite(w) \/ Raises(w)
                                 \/ /\ pc[w] # "idle"
                                    /\ \E s \in Steps \ {"batch"} : Goes(w, s)
<1>1. ASSUME NEW w \in Worker, ReleaseChunk(w) \/ RecordFailure(w) \/ ReenqueueFails(w)
      PROVE  \/ Ends(w)
             \/ pc[w] # "idle" /\ \E s \in Steps \ {"batch"} : Goes(w, s)
  BY <1>1 DEF ReleaseChunk, RecordFailure, ReenqueueFails, Steps
<1> QED
  BY NextSplit, <1>1
     DEF Register, JobAges, SweepSettle, SweepRead, SweepEnds, EnqueueChunk, EnqueueFails,
         LeaseAges, SweepPublish, SweepPublishFails, RefuseChunk, Superseded, Reenqueue,
         Complete, GiveUp, Crash, LockLost, workerVars

(* Which steps may write a chunk row's columns. *)
LEMMA ChunkFrame ==
    ASSUME Next
    PROVE  \/ UNCHANGED <<status, next, rows, stored, failures>>
           \/ \E w \in Worker, c \in Chunk : ClaimChunk(w, c)
           \/ \E w \in Worker : CommitBatch(w) \/ ReleaseChunk(w) \/ RecordFailure(w)
  BY NextSplit
     DEF Register, JobAges, SweepSettle, SweepRead, SweepEnds, EnqueueChunk, EnqueueFails,
         LeaseAges, SweepPublish, SweepPublishFails, RefuseChunk, ClaimRaises, Superseded,
         Reenqueue, ReenqueueFails, RefreshRead, RefreshWrite, Complete, GiveUp, Raises, Crash,
         LockLost, chunkVars, progressVars

(* Which steps may write the job row. *)
LEMMA JobFrame ==
    ASSUME Next
    PROVE  \/ UNCHANGED <<jobStatus, jobDone, jobRows>>
           \/ jobStatus = "none" /\ jobStatus' = "running" /\ UNCHANGED chunkVars
           \/ /\ jobStatus = "running"
              /\ UNCHANGED chunkVars
              /\ CompleteJobIfDone \/ FailJobIfExhausted \/ jobStatus' = jobStatus
<1>1. ASSUME NEW w \in Worker, Complete(w) \/ GiveUp(w) \/ RefreshWrite(w)
      PROVE  \/ UNCHANGED <<jobStatus, jobDone, jobRows>>
             \/ /\ jobStatus = "running"
                /\ UNCHANGED chunkVars
                /\ CompleteJobIfDone \/ FailJobIfExhausted \/ jobStatus' = jobStatus
  BY <1>1 DEF Complete, GiveUp, RefreshWrite, RefreshJobProgress, CompleteJobIfDone,
              FailJobIfExhausted, jobVars
<1>2. CASE SweepSettle
  BY <1>2 DEF SweepSettle, SettleJob, CompleteJobIfDone, FailJobIfExhausted, jobVars
<1> QED
  BY NextSplit, <1>1, <1>2, ZenonT(30)
     DEF Register, JobAges, SweepRead, SweepEnds, EnqueueChunk, EnqueueFails, LeaseAges,
         SweepPublish, SweepPublishFails, ClaimChunk, RefuseChunk, ClaimRaises, CommitBatch,
         Superseded, ReleaseChunk, Reenqueue, ReenqueueFails, RefreshRead, RecordFailure,
         RecordChunkFailure, Raises, Crash, LockLost, jobVars

-----------------------------------------------------------------------------
(* An invocation that may store a batch has one left: it starts below the   *)
(* end because a chunk that can be claimed is not finished.                 *)
LEMMA InvocationStep ==
    ASSUME TypeOK, InvocationInv, StatusInv, Next
    PROVE  InvocationInv'
<1>1. CASE UNCHANGED <<pc, at, off>>
  BY <1>1 DEF InvocationInv
<1>2. ASSUME NEW w \in Worker, NEW c \in Chunk, ClaimChunk(w, c)
      PROVE  InvocationInv'
  <2>1. next[c] < Batches
    BY <1>2 DEF ClaimChunk, Claimable, StatusInv
  <2> QED
    BY <1>2, <2>1 DEF ClaimChunk, InvocationInv, TypeOK
<1>3. ASSUME NEW w \in Worker, NEW c \in Chunk, ClaimRaises(w, c)
      PROVE  InvocationInv'
  BY <1>3 DEF ClaimRaises, InvocationInv, TypeOK
<1>4. ASSUME NEW w \in Worker, CommitBatch(w)
      PROVE  InvocationInv'
  BY <1>4 DEF CommitBatch, InvocationInv, TypeOK
<1>5. ASSUME NEW w \in Worker, Ends(w)
      PROVE  InvocationInv'
  BY <1>5 DEF Ends, InvocationInv, TypeOK
<1>6. ASSUME NEW w \in Worker, RefreshRead(w) \/ RefreshWrite(w) \/ Raises(w)
      PROVE  InvocationInv'
  BY <1>6 DEF RefreshRead, RefreshWrite, Raises, InvocationInv, TypeOK
<1>7. ASSUME NEW w \in Worker, pc[w] # "idle", NEW s \in Steps \ {"batch"}, Goes(w, s)
      PROVE  InvocationInv'
  BY <1>7 DEF Goes, InvocationInv, TypeOK
<1> QED
  BY InvocationFrame, <1>1, <1>2, <1>3, <1>4, <1>5, <1>6, <1>7

(* A chunk that may still be run is not at its end, a done one is, and a    *)
(* failed one has spent its failures: each step that sets the status keeps  *)
(* these together with the checkpoint and the count.                        *)
LEMMA StatusStep ==
    ASSUME TypeOK, InvocationInv, StatusInv, Next
    PROVE  StatusInv'
<1>1. CASE UNCHANGED <<status, next, rows, stored, failures>>
  BY <1>1 DEF StatusInv
<1>2. ASSUME NEW w \in Worker, NEW c \in Chunk, ClaimChunk(w, c)
      PROVE  StatusInv'
  BY <1>2 DEF ClaimChunk, Claimable, StatusInv, TypeOK, progressVars
<1>3. ASSUME NEW w \in Worker, CommitBatch(w)
      PROVE  StatusInv'
  <2>1. at[w] \in Chunk /\ off[w] \in 0..(Batches - 1) /\ next[at[w]] = off[w]
    BY <1>3 DEF CommitBatch, CheckpointBatch, InvocationInv, TypeOK
  <2>2. next' = [next EXCEPT ![at[w]] = off[w] + 1]
    BY <1>3 DEF CommitBatch, CheckpointBatch, MoveCheckpoint
  <2>3. status' = [status EXCEPT ![at[w]] = IF off[w] + 1 >= Batches THEN "done" ELSE @]
    BY <1>3 DEF CommitBatch, CheckpointBatch, MoveCheckpoint
  <2>4. failures' = failures
    BY <1>3 DEF CommitBatch
  <2>5. ASSUME NEW c \in Chunk, c # at[w]
        PROVE  status'[c] = status[c] /\ next'[c] = next[c]
    BY <2>2, <2>3, <2>5 DEF TypeOK
  <2>6. next'[at[w]] = off[w] + 1
    BY <2>1, <2>2 DEF TypeOK
  <2>7. status'[at[w]] = IF off[w] + 1 >= Batches THEN "done" ELSE status[at[w]]
    BY <2>1, <2>3 DEF TypeOK
  <2>8. status[at[w]] # "done"
    BY <2>1 DEF StatusInv
  <2> QED
    BY <2>1, <2>4, <2>5, <2>6, <2>7, <2>8 DEF StatusInv
<1>4. ASSUME NEW w \in Worker, ReleaseChunk(w)
      PROVE  StatusInv'
  BY <1>4, ZenonT(30) DEF ReleaseChunk, Holds, StatusInv, TypeOK, progressVars
<1>5. ASSUME NEW w \in Worker, RecordFailure(w)
      PROVE  StatusInv'
  BY <1>5 DEF RecordFailure, RecordChunkFailure, StatusInv, TypeOK, progressVars
<1> QED
  BY ChunkFrame, <1>1, <1>2, <1>3, <1>4, <1>5

(* The compare-and-set lets through only the batch at the checkpoint.       *)
LEMMA StoredStep ==
    ASSUME TypeOK, InvocationInv, EachBatchStoredOnce, Next
    PROVE  EachBatchStoredOnce'
<1>1. CASE UNCHANGED <<next, rows, stored>>
  BY <1>1 DEF EachBatchStoredOnce
<1>2. ASSUME NEW w \in Worker, CommitBatch(w)
      PROVE  EachBatchStoredOnce'
  <2> DEFINE c == at[w]
             b == off[w]
  <2>1. c \in Chunk /\ b \in 0..(Batches - 1) /\ next[c] = b
    BY <1>2 DEF CommitBatch, CheckpointBatch, InvocationInv, TypeOK
  <2>2. next' = [next EXCEPT ![c] = b + 1] /\ rows' = [rows EXCEPT ![c] = @ + 1]
    BY <1>2 DEF CommitBatch, CheckpointBatch, MoveCheckpoint
  <2>3. stored' = [stored EXCEPT ![c] = [stored[c] EXCEPT ![b] = @ + 1]]
    BY <1>2 DEF CommitBatch, UpsertMany
  <2> HIDE DEF c, b
  <2>4. next'[c] = b + 1 /\ rows'[c] = rows[c] + 1
    BY <2>1, <2>2 DEF TypeOK
  <2>5. stored'[c] = [stored[c] EXCEPT ![b] = @ + 1]
    BY <2>1, <2>3 DEF TypeOK
  <2>6. ASSUME NEW d \in Chunk, d # c
        PROVE  next'[d] = next[d] /\ rows'[d] = rows[d] /\ stored'[d] = stored[d]
    BY <2>2, <2>3, <2>6 DEF TypeOK
  <2>7. ASSUME NEW n \in 0..(Batches - 1)
        PROVE  stored'[c][n] = IF n < b + 1 THEN 1 ELSE 0
    <3>1. stored[c] \in [0..(Batches - 1) -> Nat]
      BY <2>1 DEF TypeOK
    <3>2. stored[c][n] = IF n < b THEN 1 ELSE 0
      BY <2>1 DEF EachBatchStoredOnce
    <3>3. stored'[c][n] = IF n = b THEN stored[c][n] + 1 ELSE stored[c][n]
      BY <2>1, <2>5, <3>1
    <3> QED
      BY <2>1, <3>2, <3>3
  <2> QED
    BY <2>1, <2>4, <2>6, <2>7 DEF EachBatchStoredOnce
<1>3. ASSUME NEW w \in Worker, NEW c \in Chunk, ClaimChunk(w, c)
      PROVE  EachBatchStoredOnce'
  BY <1>1, <1>3 DEF ClaimChunk, progressVars
<1>4. ASSUME NEW w \in Worker, ReleaseChunk(w) \/ RecordFailure(w)
      PROVE  EachBatchStoredOnce'
  BY <1>1, <1>4 DEF ReleaseChunk, RecordFailure, progressVars
<1> QED
  BY ChunkFrame, <1>1, <1>2, <1>3, <1>4

(* No step takes a checkpoint back. *)
LEMMA CheckpointStep ==
    ASSUME TypeOK, InvocationInv, Next, NEW c \in Chunk
    PROVE  next'[c] >= next[c]
<1>1. next[c] \in Nat
  BY DEF TypeOK
<1>2. ASSUME NEW w \in Worker, CommitBatch(w)
      PROVE  next'[c] >= next[c]
  <2>1. at[w] \in Chunk /\ off[w] = next[at[w]]
    BY <1>2 DEF CommitBatch, CheckpointBatch, InvocationInv
  <2>2. next' = [next EXCEPT ![at[w]] = off[w] + 1]
    BY <1>2 DEF CommitBatch, CheckpointBatch, MoveCheckpoint
  <2>3. next'[c] = IF c = at[w] THEN next[c] + 1 ELSE next[c]
    BY <2>1, <2>2 DEF TypeOK
  <2> QED
    BY <1>1, <2>3
<1>3. CASE next' = next
  BY <1>1, <1>3
<1> QED
  BY ChunkFrame, <1>2, <1>3 DEF ClaimChunk, ReleaseChunk, RecordFailure, progressVars

(* A failure is never taken off a chunk's count. *)
LEMMA FailuresStep ==
    ASSUME TypeOK, InvocationInv, Next, NEW c \in Chunk
    PROVE  failures'[c] >= failures[c]
<1>1. failures[c] \in Nat
  BY DEF TypeOK
<1>2. ASSUME NEW w \in Worker, RecordFailure(w)
      PROVE  failures'[c] >= failures[c]
  <2>1. at[w] \in Chunk
    BY <1>2 DEF RecordFailure, InvocationInv
  <2>2. failures'[c] = IF c = at[w] THEN failures[c] + 1 ELSE failures[c]
    BY <1>2, <2>1 DEF RecordFailure, RecordChunkFailure, TypeOK
  <2> QED
    BY <1>1, <2>2
<1>3. CASE failures' = failures
  BY <1>1, <1>3
<1> QED
  BY ChunkFrame, <1>2, <1>3 DEF ClaimChunk, CommitBatch, ReleaseChunk

(* A job completes from the chunks themselves, and a whole import does not  *)
(* change any more: its checkpoints are at their ends.                      *)
LEMMA CompletedStep ==
    ASSUME IInv, Next, TypeOK', EachBatchStoredOnce'
    PROVE  CompletedImportIsWhole'
<1> USE DEF IInv
<1>1. CASE UNCHANGED <<jobStatus, jobDone, jobRows>>
  <2> SUFFICES ASSUME jobStatus = "completed"
               PROVE  (\A c \in Chunk : next'[c] = Batches) /\ jobDone = Chunk /\ jobRows = rows'
    BY <1>1 DEF CompletedImportIsWhole
  <2>1. \A c \in Chunk : next[c] = Batches /\ next'[c] = Batches
    <3> TAKE c \in Chunk
    <3>1. next[c] = Batches
      BY DEF CompletedImportIsWhole
    <3>2. next'[c] \in 0..Batches
      BY DEF TypeOK
    <3>3. next'[c] >= next[c]
      BY CheckpointStep
    <3> QED
      BY <3>1, <3>2, <3>3
  <2>2. \A c \in Chunk : rows'[c] = rows[c]
    BY <2>1 DEF EachBatchStoredOnce
  <2>3. rows' = rows
    BY <2>2 DEF TypeOK
  <2> QED
    BY <2>1, <2>3 DEF CompletedImportIsWhole
<1>2. CASE jobStatus' = "running"
  BY <1>2 DEF CompletedImportIsWhole
<1>3. CASE jobStatus = "running" /\ UNCHANGED chunkVars /\ CompleteJobIfDone
  <2>1. CASE AllDone
    <3>1. \A c \in Chunk : next[c] = Batches
      BY <2>1 DEF AllDone, StatusInv
    <3>2. DoneChunks = Chunk
      BY <2>1 DEF AllDone, DoneChunks
    <3> QED
      BY <1>3, <2>1, <3>1, <3>2
         DEF CompleteJobIfDone, CompleteJob, CompletedImportIsWhole, chunkVars
  <2>2. CASE ~AllDone
    BY <1>2, <1>3, <2>2 DEF CompleteJobIfDone, jobVars
  <2> QED
    BY <2>1, <2>2
<1>4. CASE jobStatus = "running" /\ FailJobIfExhausted
  BY <1>4 DEF FailJobIfExhausted, FailJob, CompletedImportIsWhole, jobVars
<1> QED
  BY JobFrame, <1>1, <1>2, <1>3, <1>4

(* A job is given up by a statement that found a failed chunk. *)
LEMMA GivenUpStep ==
    ASSUME IInv, Next
    PROVE  GivenUpForCause'
<1> USE DEF IInv
<1>1. CASE UNCHANGED <<jobStatus, jobDone, jobRows>>
  <2> SUFFICES ASSUME jobStatus = "failed"
               PROVE  \E c \in Chunk : failures'[c] >= MaxFailures
    BY <1>1 DEF GivenUpForCause
  <2>1. PICK c \in Chunk : failures[c] >= MaxFailures
    BY DEF GivenUpForCause
  <2>2. failures[c] \in Nat /\ failures'[c] >= failures[c]
    BY FailuresStep DEF TypeOK
  <2>3. failures'[c] \in Nat
    BY TypeStep DEF TypeOK
  <2> QED
    BY <2>1, <2>2, <2>3
<1>2. CASE jobStatus' = "running"
  BY <1>2 DEF GivenUpForCause
<1>3. CASE jobStatus = "running" /\ CompleteJobIfDone
  BY <1>3 DEF CompleteJobIfDone, CompleteJob, GivenUpForCause, jobVars
<1>4. CASE jobStatus = "running" /\ UNCHANGED chunkVars /\ FailJobIfExhausted
  BY <1>4 DEF FailJobIfExhausted, FailJob, Exhausted, StatusInv, GivenUpForCause, jobVars, chunkVars
<1> QED
  BY JobFrame, <1>1, <1>2, <1>3, <1>4

-----------------------------------------------------------------------------
(* The invariant holds before the import is registered. *)
LEMMA InitIInv == Init => IInv
<1> SUFFICES ASSUME Init PROVE IInv
  OBVIOUS
<1>1. TypeOK
  BY InitTypeOK
<1>2. InvocationInv /\ StatusInv
  BY DEF Init, InvocationInv, StatusInv
<1>3. EachBatchStoredOnce
  <2> SUFFICES ASSUME NEW c \in Chunk
               PROVE  /\ rows[c] = next[c]
                      /\ \A b \in 0..(Batches - 1) :
                             stored[c][b] = IF b < next[c] THEN 1 ELSE 0
    BY DEF EachBatchStoredOnce
  <2>1. rows[c] = 0 /\ next[c] = 0 /\ stored[c] = [b \in 0..(Batches - 1) |-> 0]
    BY DEF Init
  <2> QED
    BY <2>1
<1>4. CompletedImportIsWhole /\ GivenUpForCause
  BY DEF Init, CompletedImportIsWhole, GivenUpForCause
<1> QED
  BY <1>1, <1>2, <1>3, <1>4 DEF IInv

(* A step that changes nothing keeps the invariant. *)
LEMMA IInvStutters ==
    ASSUME IInv, UNCHANGED vars
    PROVE  IInv'
<1> USE DEF vars, chunkVars, jobVars, workerVars, sweepVars
<1>1. TypeOK'
  BY DEF IInv, TypeOK
<1>2. InvocationInv' /\ StatusInv'
  BY DEF IInv, InvocationInv, StatusInv
<1>3. EachBatchStoredOnce' /\ CompletedImportIsWhole' /\ GivenUpForCause'
  BY DEF IInv, EachBatchStoredOnce, CompletedImportIsWhole, GivenUpForCause
<1> QED
  BY <1>1, <1>2, <1>3 DEF IInv

(* IInv holds in every state the import can reach. *)
THEOREM ImportInvariant == Spec => []IInv
<1>1. IInv /\ [Next]_vars => IInv'
  <2>1. ASSUME IInv, Next PROVE IInv'
    <3>1. TypeOK' /\ InvocationInv' /\ StatusInv'
      BY <2>1, TypeStep, InvocationStep, StatusStep DEF IInv
    <3>2. EachBatchStoredOnce'
      BY <2>1, StoredStep DEF IInv
    <3>3. CompletedImportIsWhole' /\ GivenUpForCause'
      BY <2>1, <3>1, <3>2, CompletedStep, GivenUpStep
    <3> QED
      BY <3>1, <3>2, <3>3 DEF IInv
  <2> QED
    BY <2>1, IInvStutters
<1> QED
  BY InitIInv, <1>1, PTL DEF Spec

(* Every variable always has its type: above all, no invocation ever runs   *)
(* past the end of its chunk.                                               *)
THEOREM TypeCorrect == Spec => []TypeOK
<1>1. IInv => TypeOK
  BY DEF IInv
<1> QED
  BY <1>1, ImportInvariant, PTL

(* Whatever invocations run a chunk and wherever they fail, what lies below *)
(* the checkpoint is stored and counted exactly once, and nothing above it. *)
THEOREM BatchesStoredOnce == Spec => []EachBatchStoredOnce
<1>1. IInv => EachBatchStoredOnce
  BY DEF IInv
<1> QED
  BY <1>1, ImportInvariant, PTL

(* An import that reads completed is whole, and its counters are final.     *)
THEOREM CompletedIsWhole == Spec => []CompletedImportIsWhole
<1>1. IInv => CompletedImportIsWhole
  BY DEF IInv
<1> QED
  BY <1>1, ImportInvariant, PTL

(* An import is given up only when a chunk has spent its failures.          *)
THEOREM FailedForCause == Spec => []GivenUpForCause
<1>1. IInv => GivenUpForCause
  BY DEF IInv
<1> QED
  BY <1>1, ImportInvariant, PTL

(* No step of the import takes a checkpoint back. *)
THEOREM CheckpointsAdvance == Spec => CheckpointNeverMovesBack
<1>1. IInv /\ [Next]_vars => [\A c \in Chunk : next'[c] >= next[c]]_vars
  BY CheckpointStep DEF IInv
<1> QED
  BY <1>1, ImportInvariant, PTL DEF Spec, CheckpointNeverMovesBack

(* Only the invocation whose lease a running chunk carries gives it back.   *)
THEOREM HolderReleases == Spec => OnlyTheHolderReleases
<1> DEFINE Released == \A c \in Chunk :
              status[c] = "running" /\ status'[c] = "pending" =>
                  \E w \in Worker : lease[c] = w /\ at[w] = c /\ pc[w] = "release"
<1>1. ASSUME IInv, Next PROVE Released
  <2> SUFFICES ASSUME NEW c \in Chunk, status[c] = "running", status'[c] = "pending"
               PROVE  \E w \in Worker : lease[c] = w /\ at[w] = c /\ pc[w] = "release"
    OBVIOUS
  <2>0. status \in [Chunk -> ChunkStatus] /\ status[c] # status'[c]
    BY <1>1 DEF IInv, TypeOK
  <2>1. CASE UNCHANGED <<status, next, rows, stored, failures>>
    BY <2>0, <2>1
  <2>2. ASSUME NEW w \in Worker, NEW d \in Chunk, ClaimChunk(w, d) PROVE FALSE
    BY <2>0, <2>2 DEF ClaimChunk
  <2>3. ASSUME NEW w \in Worker, CommitBatch(w) PROVE FALSE
    BY <2>0, <2>3 DEF CommitBatch, CheckpointBatch, MoveCheckpoint
  <2>4. ASSUME NEW w \in Worker, RecordFailure(w) PROVE FALSE
    BY <2>0, <2>4 DEF RecordFailure, RecordChunkFailure
  <2>5. ASSUME NEW w \in Worker, ReleaseChunk(w)
        PROVE  lease[c] = w /\ at[w] = c /\ pc[w] = "release"
    BY <2>0, <2>5 DEF ReleaseChunk, Holds
  <2> QED
    BY <1>1, <2>1, <2>2, <2>3, <2>4, <2>5, ChunkFrame
<1>2. IInv /\ [Next]_vars => [Released]_vars
  BY <1>1
<1> QED
  BY <1>2, ImportInvariant, PTL DEF Spec, OnlyTheHolderReleases

(* A settled job is never reopened and its counters stay.                   *)
THEOREM SettledStays == Spec => SettledJobIsFrozen
<1>1. ASSUME IInv, Next, JobSettled PROVE UNCHANGED <<jobStatus, jobDone, jobRows>>
  BY <1>1, JobFrame DEF JobSettled
<1>2. IInv /\ [Next]_vars =>
          [JobSettled => UNCHANGED <<jobStatus, jobDone, jobRows>>]_vars
  BY <1>1
<1> QED
  BY <1>2, ImportInvariant, PTL DEF Spec, SettledJobIsFrozen

-----------------------------------------------------------------------------
(* The refinement: what ChunkImport does to the products table and to the   *)
(* job row is what Import does.                                             *)

(* Before the registration nobody is at work.                               *)
NobodyYet ==
    jobStatus = "none" =>
        /\ \A c \in Chunk : queue[c] = 0
        /\ toEnqueue = {} /\ orphans = {}
        /\ \A w \in Worker : pc[w] = "idle"

(* Nobody's count of the rows is ahead of the checkpoints.                  *)
Behind(done, counted) ==
    /\ \A c \in done : next[c] = Batches
    /\ \A c \in Chunk : counted[c] <= next[c]

CountsInv ==
    /\ \A w \in Worker : Behind(snap[w].done, snap[w].rows)
    /\ \A c \in Chunk : jobRows[c] <= next[c]

RInv == IInv /\ NobodyYet /\ CountsInv

(* What a step may do to the state that Import has.                         *)
LEMMA AbstractFrame ==
    ASSUME Next
    PROVE  \/ UNCHANGED <<stored, jobStatus, jobDone, jobRows>>
           \/ Register
           \/ \E w \in Worker : CommitBatch(w)
           \/ \E w \in Worker : RefreshWrite(w)
           \/ UNCHANGED chunkVars /\ (CompleteJobIfDone \/ FailJobIfExhausted)
<1>1. ASSUME NEW w \in Worker, Complete(w) \/ GiveUp(w)
      PROVE  UNCHANGED chunkVars /\ (CompleteJobIfDone \/ FailJobIfExhausted)
  BY <1>1 DEF Complete, GiveUp
<1>2. CASE SweepSettle
  BY <1>2 DEF SweepSettle, SettleJob, CompleteJobIfDone
<1> QED
  BY NextSplit, <1>1, <1>2, ZenonT(30)
     DEF JobAges, SweepRead, SweepEnds, EnqueueChunk, EnqueueFails, LeaseAges,
         SweepPublish, SweepPublishFails, ClaimChunk, RefuseChunk, ClaimRaises,
         Superseded, ReleaseChunk, Reenqueue, ReenqueueFails, RefreshRead, RecordFailure,
         RecordChunkFailure, Raises, Crash, LockLost, jobVars, chunkVars, progressVars

(* Nothing can happen before the registration but the registration.         *)
LEMMA NobodyYetStep ==
    ASSUME TypeOK, NobodyYet, Next
    PROVE  NobodyYet'
<1> SUFFICES ASSUME jobStatus' = "none"
             PROVE  /\ \A c \in Chunk : queue'[c] = 0
                    /\ toEnqueue' = {} /\ orphans' = {}
                    /\ \A w \in Worker : pc'[w] = "idle"
  BY DEF NobodyYet
<1>1. /\ jobStatus = "none"
      /\ \A c \in Chunk : queue[c] = 0
      /\ toEnqueue = {} /\ orphans = {}
      /\ \A w \in Worker : pc[w] = "idle"
  BY JobFrame DEF NobodyYet, CompleteJobIfDone, FailJobIfExhausted, CompleteJob, FailJob, jobVars
<1>2. CASE SweepRead
  BY <1>1, <1>2 DEF SweepRead, Orphaned, workerVars
<1>3. CASE SweepSettle \/ SweepEnds \/ JobAges
  BY <1>1, <1>3 DEF SweepSettle, SweepEnds, JobAges, workerVars, sweepVars
<1>4. ~Register
  BY <1>1 DEF Register
<1>5. ASSUME NEW c \in Chunk, LeaseAges(c)
      PROVE  /\ \A d \in Chunk : queue'[d] = 0
             /\ toEnqueue' = {} /\ orphans' = {}
             /\ \A w \in Worker : pc'[w] = "idle"
  BY <1>1, <1>5 DEF LeaseAges, workerVars, sweepVars
<1>6. ASSUME NEW c \in Chunk
      PROVE  /\ ~EnqueueChunk(c) /\ ~EnqueueFails(c)
             /\ ~SweepPublish(c) /\ ~SweepPublishFails(c)
  BY <1>1 DEF EnqueueChunk, EnqueueFails, SweepPublish, SweepPublishFails
<1>7. ASSUME NEW w \in Worker, NEW c \in Chunk
      PROVE  ~ClaimChunk(w, c) /\ ~RefuseChunk(w, c) /\ ~ClaimRaises(w, c)
  BY <1>1 DEF ClaimChunk, RefuseChunk, ClaimRaises, Dequeue
<1>8. ASSUME NEW w \in Worker
      PROVE  /\ ~CommitBatch(w) /\ ~Superseded(w) /\ ~ReleaseChunk(w) /\ ~Reenqueue(w)
             /\ ~RefreshRead(w) /\ ~RefreshWrite(w) /\ ~Complete(w) /\ ~RecordFailure(w)
             /\ ~GiveUp(w) /\ ~ReenqueueFails(w) /\ ~Raises(w) /\ ~Crash(w) /\ ~LockLost(w)
  BY <1>1 DEF CommitBatch, Superseded, ReleaseChunk, Reenqueue, RefreshRead, RefreshWrite,
              Complete, RecordFailure, GiveUp, ReenqueueFails, Raises, Crash, LockLost
<1> QED
  BY NextSplit, <1>2, <1>3, <1>4, <1>5, <1>6, <1>7, <1>8

(* The chunks' own counts, read at one instant, are behind none of them.    *)
LEMMA ReadIsBehind ==
    ASSUME TypeOK, StatusInv, EachBatchStoredOnce
    PROVE  Behind(DoneChunks, rows)
<1>1. \A c \in DoneChunks : next[c] = Batches
  BY DEF DoneChunks, StatusInv
<1>2. \A c \in Chunk : rows[c] = next[c] /\ next[c] \in Nat
  BY DEF EachBatchStoredOnce, TypeOK
<1> QED
  BY <1>1, <1>2 DEF Behind

(* Checkpoints only advance: a count that was behind them stays behind.     *)
LEMMA BehindStays ==
    ASSUME TypeOK, TypeOK', InvocationInv, Next,
           NEW done \in SUBSET Chunk, NEW counted \in [Chunk -> Nat], Behind(done, counted)
    PROVE  /\ \A c \in done : next'[c] = Batches
           /\ \A c \in Chunk : counted[c] <= next'[c]
<1>1. \A c \in Chunk : next[c] \in 0..Batches /\ next'[c] \in 0..Batches /\ next'[c] >= next[c]
  BY CheckpointStep DEF TypeOK
<1>2. ASSUME NEW c \in done PROVE next'[c] = Batches
  BY <1>1, <1>2 DEF Behind
<1>3. ASSUME NEW c \in Chunk PROVE counted[c] <= next'[c]
  <2>1. counted[c] \in Nat /\ counted[c] <= next[c]
    BY DEF Behind
  <2> QED
    BY <1>1, <2>1
<1> QED
  BY <1>2, <1>3

(* Where a snapshot may come from.                                          *)
LEMMA SnapshotFrame ==
    ASSUME TypeOK, Next, NEW w \in Worker
    PROVE  \/ snap'[w] = snap[w]
           \/ snap'[w] = NoProgress
           \/ snap'[w] = [done |-> DoneChunks, rows |-> rows]
<1>1. CASE snap' = snap
  BY <1>1
<1>2. ASSUME NEW v \in Worker, Ends(v) \/ Raises(v) \/ RefreshWrite(v)
      PROVE  snap'[w] = snap[w] \/ snap'[w] = NoProgress
  BY <1>2 DEF Ends, Raises, RefreshWrite, TypeOK
<1>3. ASSUME NEW v \in Worker, RefreshRead(v)
      PROVE  snap'[w] = snap[w] \/ snap'[w] = [done |-> DoneChunks, rows |-> rows]
  BY <1>3 DEF RefreshRead, TypeOK
<1>4. ASSUME NEW v \in Worker, ReleaseChunk(v) \/ RecordFailure(v) \/ ReenqueueFails(v)
      PROVE  Ends(v) \/ snap' = snap
  BY <1>4 DEF ReleaseChunk, RecordFailure, ReenqueueFails, Goes
<1> QED
  BY NextSplit, <1>1, <1>2, <1>3, <1>4
     DEF Register, JobAges, SweepSettle, SweepRead, SweepEnds, EnqueueChunk, EnqueueFails,
         LeaseAges, SweepPublish, SweepPublishFails, ClaimChunk, RefuseChunk, ClaimRaises,
         CommitBatch, Superseded, Reenqueue, Complete, GiveUp, Crash, LockLost, workerVars

(* Snapshots are taken behind the checkpoints and stay there, and the job's *)
(* counters are set from a snapshot or from the chunks.                     *)
LEMMA CountsStep ==
    ASSUME RInv, IInv', Next
    PROVE  CountsInv'
<1> USE DEF RInv, IInv
<1>1. ASSUME NEW w \in Worker PROVE Behind(snap[w].done, snap[w].rows)'
  <2>1. snap[w].done \in SUBSET Chunk /\ snap[w].rows \in [Chunk -> Nat]
    BY DEF TypeOK, Progress
  <2>2. CASE snap'[w] = snap[w]
    BY <2>1, <2>2, BehindStays DEF CountsInv, Behind
  <2>3. CASE snap'[w] = NoProgress
    <3>1. \A c \in Chunk : next'[c] \in Nat
      BY DEF TypeOK
    <3> QED
      BY <2>3, <3>1 DEF NoProgress, Behind
  <2>4. CASE snap'[w] = [done |-> DoneChunks, rows |-> rows]
    <3>1. Behind(DoneChunks, rows)
      BY ReadIsBehind
    <3>2. DoneChunks \in SUBSET Chunk /\ rows \in [Chunk -> Nat]
      BY DEF DoneChunks, TypeOK
    <3>3. /\ \A c \in DoneChunks : next'[c] = Batches
          /\ \A c \in Chunk : rows[c] <= next'[c]
      BY <3>1, <3>2, BehindStays
    <3> QED
      BY <2>4, <3>3 DEF Behind
  <2> QED
    BY <2>2, <2>3, <2>4, SnapshotFrame
<1>2. \A c \in Chunk : jobRows'[c] <= next'[c]
  <2>1. CASE jobRows' = jobRows
    <3>1. Behind({}, jobRows)
      BY DEF CountsInv, Behind
    <3>2. jobRows \in [Chunk -> Nat]
      BY DEF TypeOK
    <3> QED
      BY <2>1, <3>1, <3>2, BehindStays
  <2>2. CASE jobRows' = rows
    <3>1. Behind({}, rows)
      BY ReadIsBehind DEF Behind
    <3>2. rows \in [Chunk -> Nat]
      BY DEF TypeOK
    <3> QED
      BY <2>2, <3>1, <3>2, BehindStays
  <2>3. ASSUME NEW w \in Worker, jobRows' = snap[w].rows
        PROVE  \A c \in Chunk : jobRows'[c] <= next'[c]
    <3>1. snap[w].done \in SUBSET Chunk /\ snap[w].rows \in [Chunk -> Nat]
      BY DEF TypeOK, Progress
    <3>2. Behind(snap[w].done, snap[w].rows)
      BY DEF CountsInv
    <3> QED
      BY <2>3, <3>1, <3>2, BehindStays
  <2> QED
    BY AbstractFrame, <2>1, <2>2, <2>3
       DEF Register, CommitBatch, RefreshWrite, RefreshJobProgress, CompleteJobIfDone,
           CompleteJob, FailJobIfExhausted, FailJob, jobVars
<1> QED
  BY <1>1, <1>2 DEF CountsInv

(* The batches in the table are the ones below the checkpoint.              *)
LEMMA StoredIsBelow ==
    ASSUME TypeOK, EachBatchStoredOnce, NEW c \in Chunk
    PROVE  /\ Abstract!StoredOf(c) = 0..(next[c] - 1)
           /\ Abstract!Whole(c) <=> next[c] = Batches
<1>1. next[c] \in 0..Batches
  BY DEF TypeOK
<1>2. Abstract!StoredOf(c) = {b \in 0..(Batches - 1) : b < next[c]}
  BY DEF EachBatchStoredOnce, Abstract!StoredOf, Abstract!Batch
<1>3. Abstract!StoredOf(c) = 0..(next[c] - 1)
  BY <1>1, <1>2
<1>4. Abstract!Whole(c) <=> 0..(next[c] - 1) = 0..(Batches - 1)
  BY <1>3 DEF Abstract!Whole, Abstract!Batch
<1>5. next[c] # Batches => (Batches - 1) \notin 0..(next[c] - 1)
  BY <1>1
<1>6. (Batches - 1) \in 0..(Batches - 1)
  OBVIOUS
<1> QED
  BY <1>3, <1>4, <1>5, <1>6

(* A count behind the checkpoints is an honest report.                      *)
LEMMA BehindIsHonest ==
    ASSUME TypeOK, EachBatchStoredOnce,
           NEW done \in SUBSET Chunk, NEW counted \in [Chunk -> Nat], Behind(done, counted)
    PROVE  Abstract!Honest([done |-> done, rows |-> counted])
<1>1. done \subseteq {c \in Chunk : Abstract!Whole(c)}
  BY StoredIsBelow DEF Behind
<1>2. ASSUME NEW c \in Chunk
      PROVE  \E n \in 0..Batches : counted[c] = n /\ 0..(n - 1) \subseteq Abstract!StoredOf(c)
  <2>1. counted[c] \in Nat /\ next[c] \in 0..Batches /\ counted[c] <= next[c]
    BY DEF Behind, TypeOK
  <2>2. counted[c] \in 0..Batches /\ 0..(counted[c] - 1) \subseteq 0..(next[c] - 1)
    BY <2>1
  <2> QED
    BY <2>2, StoredIsBelow
<1> QED
  BY <1>1, <1>2 DEF Abstract!Honest

(* One step of ChunkImport is one step of Import, or none.                  *)
LEMMA RefinementStep ==
    ASSUME RInv, Next
    PROVE  [Abstract!Next]_(Abstract!vars)
<1> USE DEF RInv, IInv
<1>1. CASE UNCHANGED <<stored, jobStatus, jobDone, jobRows>>
  BY <1>1 DEF Abstract!vars
<1>2. CASE Register
  <2>1. Abstract!Register
    BY <1>2 DEF Register, Abstract!Register, chunkVars
  <2> QED
    BY <2>1 DEF Abstract!Next
<1>3. ASSUME NEW w \in Worker, CommitBatch(w) PROVE Abstract!Next
  <2> DEFINE c == at[w]
             b == off[w]
  <2>1. c \in Chunk /\ b \in 0..(Batches - 1) /\ next[c] = b
    BY <1>3 DEF CommitBatch, CheckpointBatch, InvocationInv, TypeOK
  <2>2. jobStatus # "none" /\ UNCHANGED <<jobStatus, jobDone, jobRows>>
    BY <1>3 DEF CommitBatch, NobodyYet, jobVars
  <2>3. stored' = [stored EXCEPT ![c] = [stored[c] EXCEPT ![b] = @ + 1]]
    BY <1>3 DEF CommitBatch, UpsertMany
  <2> HIDE DEF c, b
  <2>4. stored[c] \in [0..(Batches - 1) -> Nat] /\ stored[c][b] = 0
    BY <2>1 DEF EachBatchStoredOnce, TypeOK
  <2>5. [stored[c] EXCEPT ![b] = @ + 1] = [stored[c] EXCEPT ![b] = 1]
    BY <2>1, <2>4
  <2>6. stored' = [stored EXCEPT ![c][b] = 1]
    BY <2>3, <2>5
  <2>7. Abstract!StoredOf(c) = 0..(b - 1)
    BY <2>1, StoredIsBelow
  <2>8. Abstract!Store(c)
    BY <2>1, <2>2, <2>6, <2>7 DEF Abstract!Store, Abstract!Batch
  <2> QED
    BY <2>1, <2>8 DEF Abstract!Next
<1>4. ASSUME NEW w \in Worker, RefreshWrite(w), jobStatus = "running" PROVE Abstract!Next
  <2>1. snap[w].done \in SUBSET Chunk /\ snap[w].rows \in [Chunk -> Nat]
    BY DEF TypeOK, Progress
  <2>2. Abstract!Honest([done |-> snap[w].done, rows |-> snap[w].rows])
    BY <2>1, BehindIsHonest DEF CountsInv
  <2>3. /\ jobDone' = snap[w].done /\ jobRows' = snap[w].rows
        /\ jobStatus' = jobStatus /\ stored' = stored
    BY <1>4 DEF RefreshWrite, RefreshJobProgress, chunkVars
  <2>4. Abstract!Honest([done |-> jobDone', rows |-> jobRows'])
    BY <2>2, <2>3
  <2>5. Abstract!Report
    BY <1>4, <2>3, <2>4 DEF Abstract!Report
  <2> QED
    BY <2>5 DEF Abstract!Next
<1>5. ASSUME UNCHANGED chunkVars, jobStatus = "running", AllDone, CompleteJob
      PROVE  Abstract!Next
  <2>1. \A c \in Chunk : next[c] = Batches
    BY <1>5 DEF AllDone, StatusInv
  <2>2. \A c \in Chunk : Abstract!Whole(c)
    BY <2>1, StoredIsBelow
  <2>3. rows = [c \in Chunk |-> Batches]
    BY <2>1 DEF EachBatchStoredOnce, TypeOK
  <2>4. DoneChunks = Chunk
    BY <1>5 DEF AllDone, DoneChunks
  <2>5. Abstract!Complete
    BY <1>5, <2>2, <2>3, <2>4 DEF CompleteJob, Abstract!Complete, chunkVars
  <2> QED
    BY <2>5 DEF Abstract!Next
<1>6. ASSUME UNCHANGED chunkVars, jobStatus = "running", FailJob PROVE Abstract!Next
  <2>1. Behind(DoneChunks, jobRows)
    BY ReadIsBehind DEF Behind, CountsInv
  <2>2. DoneChunks \in SUBSET Chunk /\ jobRows \in [Chunk -> Nat]
    BY DEF DoneChunks, TypeOK
  <2>3. Abstract!Honest([done |-> DoneChunks, rows |-> jobRows])
    BY <2>1, <2>2, BehindIsHonest
  <2>4. /\ jobDone' = DoneChunks /\ jobRows' = jobRows
        /\ jobStatus' = "failed" /\ stored' = stored
    BY <1>6 DEF FailJob, chunkVars
  <2>5. Abstract!Honest([done |-> jobDone', rows |-> jobRows'])
    BY <2>3, <2>4
  <2>6. Abstract!GiveUp
    BY <1>6, <2>4, <2>5 DEF Abstract!GiveUp
  <2> QED
    BY <2>6 DEF Abstract!Next
<1>7. ASSUME NEW w \in Worker, RefreshWrite(w), jobStatus # "running"
      PROVE  UNCHANGED <<stored, jobStatus, jobDone, jobRows>>
  BY <1>7 DEF RefreshWrite, RefreshJobProgress, chunkVars
<1>8. ASSUME UNCHANGED chunkVars, CompleteJobIfDone \/ FailJobIfExhausted
      PROVE  \/ UNCHANGED <<stored, jobStatus, jobDone, jobRows>>
             \/ jobStatus = "running" /\ AllDone /\ CompleteJob
             \/ jobStatus = "running" /\ FailJob
  BY <1>8 DEF CompleteJobIfDone, FailJobIfExhausted, jobVars, chunkVars
<1> QED
  BY AbstractFrame, <1>1, <1>2, <1>3, <1>4, <1>5, <1>6, <1>7, <1>8

(* With its crashes, retries, lost leases and duplicates, ChunkImport is an *)
(* Import: for any chunks, workers, batches and faults.                     *)
THEOREM ImportImplemented == Spec => ImplementsImport
<1>1. Init => Abstract!Init
  BY DEF Init, Abstract!Init, Abstract!Batch
<1>2. Init => NobodyYet /\ CountsInv
  <2> SUFFICES ASSUME Init PROVE NobodyYet /\ CountsInv
    OBVIOUS
  <2>1. NobodyYet
    BY DEF Init, NobodyYet
  <2>2. CountsInv
    BY DEF Init, CountsInv, Behind, NoProgress
  <2> QED
    BY <2>1, <2>2
<1>3. IInv /\ IInv' /\ NobodyYet /\ CountsInv /\ [Next]_vars => NobodyYet' /\ CountsInv'
  <2>1. CASE UNCHANGED vars
    BY <2>1 DEF vars, chunkVars, progressVars, jobVars, workerVars, sweepVars, NobodyYet,
                CountsInv, Behind
  <2> QED
    BY <2>1, NobodyYetStep, CountsStep DEF RInv, IInv
<1>4. IInv /\ NobodyYet /\ CountsInv /\ [Next]_vars => [Abstract!Next]_(Abstract!vars)
  <2>1. CASE UNCHANGED vars
    BY <2>1 DEF vars, chunkVars, jobVars, Abstract!vars
  <2> QED
    BY <2>1, RefinementStep DEF RInv
<1> QED
  BY <1>1, <1>2, <1>3, <1>4, ImportInvariant, PTL DEF Spec, ImplementsImport, Abstract!Spec
=============================================================================
