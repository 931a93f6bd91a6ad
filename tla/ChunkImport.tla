----------------------------- MODULE ChunkImport -----------------------------
(***************************************************************************)
(* One vendor import: the job row, its chunk rows, the chunk.process jobs  *)
(* of the ingestion queue, the workers that run them and the reconciler's  *)
(* sweep for abandoned imports.                                            *)
(*                                                                         *)
(* A chunk is a byte range that a worker stores a batch at a time.  Since  *)
(* every invocation resumes at the checkpoint and cuts batches of a fixed  *)
(* number of rows from there, an offset is counted in batches: 0 is the    *)
(* chunk's start_offset, Batches its end_offset.  The row counters count   *)
(* batches for the same reason, and the sums the job row stores are kept   *)
(* as the vectors they add up.                                             *)
(*                                                                         *)
(* Time is what the guards ask about it: a lease is live, expired, or      *)
(* stale (expired for longer than the sweep's grace window); the job is    *)
(* idle when updated_at is older than that window.  How long an invocation *)
(* takes is left open, so a lease may expire under a holder that is still  *)
(* working.  A lease is named by the worker that took it: a worker runs    *)
(* one invocation at a time, so equal lease_until means equal holder.      *)
(***************************************************************************)
EXTENDS Naturals

CONSTANTS
    Chunk,          \* the chunks of the import
    Worker,         \* the ingestion workers, one invocation at a time each
    NoLease,        \* lease_until is null
    NoChunk,        \* an idle worker runs no chunk
    Batches,        \* batches in a chunk
    MaxFailures,    \* INGESTION_MAX_FAILURES
    MaxQueued,      \* bound: waiting copies of one chunk's job kept apart
    MaxFaults       \* bound: faults of the environment in one behaviour

ASSUME BatchesAssumption == Batches \in Nat \ {0}
ASSUME MaxFailuresAssumption == MaxFailures \in Nat \ {0}
ASSUME BoundsAssumption == MaxQueued \in Nat \ {0} /\ MaxFaults \in Nat
ASSUME NoLeaseAssumption == NoLease \notin Worker
ASSUME NoChunkAssumption == NoChunk \notin Chunk

VARIABLES
    \* ingestion_chunks
    status,      \* status of each chunk
    next,        \* next_offset, the checkpoint
    rows,        \* rows_processed and rows_rejected
    lease,       \* lease_until: who took it
    leaseAge,    \* lease_until against now()
    failures,    \* failures
    \* products: how often each batch of each chunk has been stored
    stored,
    \* ingestion_jobs
    jobStatus,   \* status; "none" until the import is registered
    jobDone,     \* chunks_done, as the chunks counted
    jobRows,     \* rows_processed and rows_rejected, as the vector added up
    jobIdle,     \* updated_at is older than the grace window
    \* the ingestion queue: waiting chunk.process jobs
    queue,
    \* the API request that registers the import: chunks still to enqueue
    toEnqueue,
    \* each worker's invocation
    pc, at, off, snap,
    \* the reconciler's import sweep
    sweepPc, orphans,
    \* faults so far
    faults

progressVars == <<next, rows, stored>>
claimVars    == <<lease, leaseAge>>
chunkVars    == <<status, next, rows, lease, leaseAge, failures, stored>>
jobVars      == <<jobStatus, jobDone, jobRows, jobIdle>>
workerVars   == <<pc, at, off, snap>>
sweepVars    == <<sweepPc, orphans>>
vars == <<chunkVars, jobVars, queue, toEnqueue, workerVars, sweepVars, faults>>

ChunkStatus == {"pending", "running", "done", "failed"}
JobStatus   == {"none", "running", "completed", "failed"}
Steps       == {"idle", "batch", "release", "reenqueue", "refresh", "refreshed",
                "complete", "failing", "giveUp"}
Progress    == [done : SUBSET Chunk, rows : [Chunk -> Nat]]

NoProgress == [done |-> {}, rows |-> [c \in Chunk |-> 0]]

Init ==
    /\ status = [c \in Chunk |-> "pending"]
    /\ next = [c \in Chunk |-> 0]
    /\ rows = [c \in Chunk |-> 0]
    /\ lease = [c \in Chunk |-> NoLease]
    /\ leaseAge = [c \in Chunk |-> "live"]
    /\ failures = [c \in Chunk |-> 0]
    /\ stored = [c \in Chunk |-> [b \in 0..(Batches - 1) |-> 0]]
    /\ jobStatus = "none"
    /\ jobDone = {}
    /\ jobRows = [c \in Chunk |-> 0]
    /\ jobIdle = FALSE
    /\ queue = [c \in Chunk |-> 0]
    /\ toEnqueue = {}
    /\ pc = [w \in Worker |-> "idle"]
    /\ at = [w \in Worker |-> NoChunk]
    /\ off = [w \in Worker |-> 0]
    /\ snap = [w \in Worker |-> NoProgress]
    /\ sweepPc = "settle"
    /\ orphans = {}
    /\ faults = 0

(***************************************************************************)
(* The queue.  Copies of one chunk's job beyond MaxQueued coalesce: a copy *)
(* carries nothing but the chunk's name.  A publish that is not confirmed  *)
(* in time is reported as failed and may land all the same.                *)
(***************************************************************************)
Enqueue(q, c) == [q EXCEPT ![c] = IF @ < MaxQueued THEN @ + 1 ELSE @]

Published(c) == queue' = Enqueue(queue, c)

Unconfirmed(c) == queue' \in {queue, Enqueue(queue, c)}

Fault == faults < MaxFaults /\ faults' = faults + 1

(* What BullMQ does with a job whose handler threw or whose worker died: it *)
(* goes back to waiting, or to the failed set once its attempts are spent.  *)
RetriedOrDead(c) == queue' \in {queue, Enqueue(queue, c)}

(***************************************************************************)
(* Registration: job and chunk rows in one transaction, then one publish   *)
(* per chunk.  A publish that fails ends the request with the rows         *)
(* committed and the rest of the chunks not enqueued.                      *)
(***************************************************************************)
Register ==
    /\ jobStatus = "none"
    /\ jobStatus' = "running"
    /\ toEnqueue' = Chunk
    /\ UNCHANGED <<chunkVars, jobDone, jobRows, jobIdle, queue, workerVars, sweepVars, faults>>

EnqueueChunk(c) ==
    /\ c \in toEnqueue
    /\ toEnqueue' = toEnqueue \ {c}
    /\ Published(c)
    /\ UNCHANGED <<chunkVars, jobVars, workerVars, sweepVars, faults>>

EnqueueFails(c) ==
    /\ c \in toEnqueue
    /\ Fault
    /\ toEnqueue' = {}
    /\ Unconfirmed(c)
    /\ UNCHANGED <<chunkVars, jobVars, workerVars, sweepVars>>

(***************************************************************************)
(* An invocation ends: the worker is idle again.                           *)
(***************************************************************************)
Ends(w) ==
    /\ pc' = [pc EXCEPT ![w] = "idle"]
    /\ at' = [at EXCEPT ![w] = NoChunk]
    /\ off' = [off EXCEPT ![w] = 0]
    /\ snap' = [snap EXCEPT ![w] = NoProgress]

Goes(w, step) ==
    /\ pc' = [pc EXCEPT ![w] = step]
    /\ UNCHANGED <<at, off, snap>>

Dequeue(w, c) ==
    /\ pc[w] = "idle"
    /\ queue[c] > 0
    /\ queue' = [queue EXCEPT ![c] = @ - 1]

(* The WHERE clause of claimChunk. *)
Claimable(c) ==
    \/ status[c] = "pending"
    \/ status[c] = "running" /\ (lease[c] = NoLease \/ leaseAge[c] # "live")

(* A worker takes a job and claims its chunk, reading the checkpoint.       *)
ClaimChunk(w, c) ==
    /\ Dequeue(w, c)
    /\ Claimable(c)
    /\ status' = [status EXCEPT ![c] = "running"]
    /\ lease' = [lease EXCEPT ![c] = w]
    /\ leaseAge' = [leaseAge EXCEPT ![c] = "live"]
    /\ pc' = [pc EXCEPT ![w] = "batch"]
    /\ at' = [at EXCEPT ![w] = c]
    /\ off' = [off EXCEPT ![w] = next[c]]
    /\ UNCHANGED <<progressVars, failures, jobVars, toEnqueue, snap, sweepVars, faults>>

(* A duplicate delivery: nothing to claim, and the job completes.           *)
RefuseChunk(w, c) ==
    /\ Dequeue(w, c)
    /\ ~Claimable(c)
    /\ UNCHANGED <<chunkVars, jobVars, toEnqueue, workerVars, sweepVars, faults>>

(* The claim itself raises; process() still records a failure on the chunk, *)
(* whoever holds it.                                                        *)
ClaimRaises(w, c) ==
    /\ Dequeue(w, c)
    /\ Fault
    /\ pc' = [pc EXCEPT ![w] = "failing"]
    /\ at' = [at EXCEPT ![w] = c]
    /\ UNCHANGED <<chunkVars, jobVars, toEnqueue, off, snap, sweepVars>>

(***************************************************************************)
(* One batch: the product write and the checkpoint are one transaction,    *)
(* decided by a compare-and-set on next_offset.  The loser rolls back and  *)
(* its invocation returns.  After a batch that is not the last, the        *)
(* invocation may be out of time.                                          *)
(***************************************************************************)
MoveCheckpoint(c, seen, finished) ==
    /\ next' = [next EXCEPT ![c] = seen + 1]
    /\ rows' = [rows EXCEPT ![c] = @ + 1]
    /\ status' = [status EXCEPT ![c] = IF finished THEN "done" ELSE @]

\* Mutants: no compare; the end of the chunk missed by one.
CheckpointBatch_NoCompare(c, seen) == MoveCheckpoint(c, seen, seen + 1 >= Batches)
CheckpointBatch_PastTheEnd(c, seen) ==
    next[c] = seen /\ MoveCheckpoint(c, seen, seen + 1 > Batches)

CheckpointBatch(c, seen) ==
    next[c] = seen /\ MoveCheckpoint(c, seen, seen + 1 >= Batches)

UpsertMany(c, b) == stored' = [stored EXCEPT ![c][b] = @ + 1]

CommitBatch(w) ==
    /\ pc[w] = "batch"
    /\ UpsertMany(at[w], off[w])
    /\ CheckpointBatch(at[w], off[w])
    /\ off' = [off EXCEPT ![w] = @ + 1]
    /\ IF off[w] + 1 < Batches
         THEN \E step \in {"batch", "release"} : pc' = [pc EXCEPT ![w] = step]
         ELSE pc' = [pc EXCEPT ![w] = "refresh"]
    /\ UNCHANGED <<claimVars, failures, jobVars, queue, toEnqueue, at, snap, sweepVars, faults>>

Superseded(w) ==
    /\ pc[w] = "batch"
    /\ next[at[w]] # off[w]
    /\ Ends(w)
    /\ UNCHANGED <<chunkVars, jobVars, queue, toEnqueue, sweepVars, faults>>

(***************************************************************************)
(* Out of time: the chunk is given back, if it is still this invocation's  *)
(* to give, and a job for the next invocation is enqueued.                 *)
(***************************************************************************)
\* Mutant: the status is checked and not the lease.
Holds_StatusOnly(w, c) == status[c] = "running"

Holds(w, c) == status[c] = "running" /\ lease[c] = w

ReleaseChunk(w) ==
    /\ pc[w] = "release"
    /\ LET c == at[w] IN
         IF Holds(w, c)
           THEN /\ status' = [status EXCEPT ![c] = "pending"]
                /\ lease' = [lease EXCEPT ![c] = NoLease]
                /\ leaseAge' = [leaseAge EXCEPT ![c] = "live"]
           ELSE UNCHANGED <<status, claimVars>>
    /\ Goes(w, "reenqueue")
    /\ UNCHANGED <<progressVars, failures, jobVars, queue, toEnqueue, sweepVars, faults>>

Reenqueue(w) ==
    /\ pc[w] = "reenqueue"
    /\ Published(at[w])
    /\ Ends(w)
    /\ UNCHANGED <<chunkVars, jobVars, toEnqueue, sweepVars, faults>>

ReenqueueFails(w) ==
    /\ pc[w] = "reenqueue"
    /\ Fault
    /\ Unconfirmed(at[w])
    /\ Goes(w, "failing")
    /\ UNCHANGED <<chunkVars, jobVars, toEnqueue, sweepVars>>

(***************************************************************************)
(* The chunk is done: refresh the job's counters, then complete the job if *)
(* every chunk is done.  The refresh reads the chunks at its statement's   *)
(* snapshot and writes when it gets the job row; its guard is evaluated on *)
(* the row as it is then.                                                  *)
(***************************************************************************)
DoneChunks == {c \in Chunk : status[c] = "done"}

RefreshRead(w) ==
    /\ pc[w] = "refresh"
    /\ snap' = [snap EXCEPT ![w] = [done |-> DoneChunks, rows |-> rows]]
    /\ pc' = [pc EXCEPT ![w] = "refreshed"]
    /\ UNCHANGED <<chunkVars, jobVars, queue, toEnqueue, at, off, sweepVars, faults>>

\* Mutant: no status = 'running' guard.
RefreshJobProgress_Unguarded(read) ==
    jobDone' = read.done /\ jobRows' = read.rows /\ jobIdle' = FALSE

RefreshJobProgress(read) ==
    IF jobStatus = "running"
      THEN jobDone' = read.done /\ jobRows' = read.rows /\ jobIdle' = FALSE
      ELSE UNCHANGED <<jobDone, jobRows, jobIdle>>

RefreshWrite(w) ==
    /\ pc[w] = "refreshed"
    /\ RefreshJobProgress(snap[w])
    /\ pc' = [pc EXCEPT ![w] = "complete"]
    /\ snap' = [snap EXCEPT ![w] = NoProgress]
    /\ UNCHANGED <<chunkVars, jobStatus, queue, toEnqueue, at, off, sweepVars, faults>>

(* The two statements that settle a job.  Only the row's own guard can be   *)
(* overtaken between their snapshot and their write, and it is evaluated on *)
(* the current row, so each is one step.                                    *)
AllDone   == \A c \in Chunk : status[c] = "done"

\* Mutant: a chunk that is not running counts as given up.
Exhausted_NoneRunning == /\ \A c \in Chunk : status[c] # "running"
                         /\ \E c \in Chunk : status[c] # "done"

Exhausted == /\ \A c \in Chunk : status[c] \in {"done", "failed"}
             /\ \E c \in Chunk : status[c] = "failed"

\* Mutant: the counters are left to the refresh before it.
CompleteJob_StatusOnly ==
    jobStatus' = "completed" /\ jobIdle' = FALSE /\ UNCHANGED <<jobDone, jobRows>>

CompleteJob ==
    /\ jobStatus' = "completed"
    /\ jobDone' = DoneChunks
    /\ jobRows' = rows
    /\ jobIdle' = FALSE

FailJob ==
    /\ jobStatus' = "failed"
    /\ jobDone' = DoneChunks
    /\ jobIdle' = FALSE
    /\ UNCHANGED jobRows

CompleteJobIfDone ==
    IF jobStatus = "running" /\ AllDone THEN CompleteJob ELSE UNCHANGED jobVars

FailJobIfExhausted ==
    IF jobStatus = "running" /\ Exhausted THEN FailJob ELSE UNCHANGED jobVars

Complete(w) ==
    /\ pc[w] = "complete"
    /\ CompleteJobIfDone
    /\ Ends(w)
    /\ UNCHANGED <<chunkVars, queue, toEnqueue, sweepVars, faults>>

(***************************************************************************)
(* Failure: anything in run() may raise.  The failure is counted on the    *)
(* chunk with no regard to its status or its lease; a chunk that has spent *)
(* its failures is given up, and then the job may be.  The error is raised *)
(* again, to the queue.                                                    *)
(***************************************************************************)
Raises(w) ==
    /\ pc[w] \in {"batch", "release", "refresh", "refreshed", "complete"}
    /\ Fault
    /\ pc' = [pc EXCEPT ![w] = "failing"]
    /\ snap' = [snap EXCEPT ![w] = NoProgress]
    /\ UNCHANGED <<chunkVars, jobVars, queue, toEnqueue, at, off, sweepVars>>

RecordChunkFailure(c) ==
    /\ failures' = [failures EXCEPT ![c] = @ + 1]
    /\ status' = [status EXCEPT ![c] = IF failures[c] + 1 >= MaxFailures THEN "failed" ELSE @]
    /\ jobIdle' = FALSE

RecordFailure(w) ==
    /\ pc[w] = "failing"
    /\ RecordChunkFailure(at[w])
    /\ \/ /\ status'[at[w]] = "failed"
          /\ Goes(w, "giveUp")
          /\ UNCHANGED queue
       \/ /\ status'[at[w]] # "failed"
          /\ RetriedOrDead(at[w])
          /\ Ends(w)
    /\ UNCHANGED <<progressVars, claimVars, jobStatus, jobDone, jobRows, toEnqueue, sweepVars,
                   faults>>

GiveUp(w) ==
    /\ pc[w] = "giveUp"
    /\ FailJobIfExhausted
    /\ RetriedOrDead(at[w])
    /\ Ends(w)
    /\ UNCHANGED <<chunkVars, toEnqueue, sweepVars, faults>>

(* The worker process dies, or the store is gone when the failure is to be  *)
(* recorded: no more statements, and the queue finds the job stalled.       *)
Crash(w) ==
    /\ pc[w] # "idle"
    /\ Fault
    /\ RetriedOrDead(at[w])
    /\ Ends(w)
    /\ UNCHANGED <<chunkVars, jobVars, toEnqueue, sweepVars>>

(* The queue's lock expires under a worker that is still running: the job   *)
(* is delivered a second time.                                              *)
LockLost(w) ==
    /\ pc[w] # "idle"
    /\ Fault
    /\ Published(at[w])
    /\ UNCHANGED <<chunkVars, jobVars, toEnqueue, workerVars, sweepVars>>

(***************************************************************************)
(* The reconciler's sweep: settle the job if its chunks are finished, read *)
(* the abandoned chunks, enqueue them one by one.  A publish that fails is *)
(* logged and the sweep goes on.                                           *)
(***************************************************************************)
SettleJob == IF jobStatus = "running" /\ AllDone THEN CompleteJob ELSE FailJobIfExhausted

SweepSettle ==
    /\ sweepPc = "settle"
    /\ SettleJob
    /\ sweepPc' = "read"
    /\ UNCHANGED <<chunkVars, queue, toEnqueue, workerVars, orphans, faults>>

\* Mutant: only a chunk that a worker has held is looked for.
Orphaned_NeverStarted(c) ==
    /\ jobStatus = "running" /\ jobIdle
    /\ status[c] = "running" /\ (lease[c] = NoLease \/ leaseAge[c] = "stale")

(* The WHERE clause of orphaned. *)
Orphaned(c) ==
    /\ jobStatus = "running"
    /\ jobIdle
    /\ \/ status[c] = "pending"
       \/ status[c] = "running" /\ (lease[c] = NoLease \/ leaseAge[c] = "stale")

SweepRead ==
    /\ sweepPc = "read"
    /\ orphans' = {c \in Chunk : Orphaned(c)}
    /\ sweepPc' = "publish"
    /\ UNCHANGED <<chunkVars, jobVars, queue, toEnqueue, workerVars, faults>>

SweepPublish(c) ==
    /\ sweepPc = "publish"
    /\ c \in orphans
    /\ orphans' = orphans \ {c}
    /\ Published(c)
    /\ UNCHANGED <<chunkVars, jobVars, toEnqueue, workerVars, sweepPc, faults>>

SweepPublishFails(c) ==
    /\ sweepPc = "publish"
    /\ c \in orphans
    /\ Fault
    /\ orphans' = orphans \ {c}
    /\ Unconfirmed(c)
    /\ UNCHANGED <<chunkVars, jobVars, toEnqueue, workerVars, sweepPc>>

SweepEnds ==
    /\ sweepPc = "publish"
    /\ orphans = {}
    /\ sweepPc' = "settle"
    /\ UNCHANGED <<chunkVars, jobVars, queue, toEnqueue, workerVars, orphans, faults>>

(***************************************************************************)
(* Time passes.  Only a running chunk's lease is ever compared with now(). *)
(***************************************************************************)
LeaseAges(c) ==
    /\ status[c] = "running"
    /\ lease[c] # NoLease
    /\ leaseAge[c] # "stale"
    /\ leaseAge' = [leaseAge EXCEPT ![c] = IF @ = "live" THEN "expired" ELSE "stale"]
    /\ UNCHANGED <<status, progressVars, lease, failures, jobVars, queue, toEnqueue,
                   workerVars, sweepVars, faults>>

JobAges ==
    /\ jobStatus = "running"
    /\ ~jobIdle
    /\ jobIdle' = TRUE
    /\ UNCHANGED <<chunkVars, jobStatus, jobDone, jobRows, queue, toEnqueue,
                   workerVars, sweepVars, faults>>

Sweep ==
    \/ SweepSettle
    \/ SweepRead
    \/ SweepEnds
    \/ \E c \in Chunk : SweepPublish(c) \/ SweepPublishFails(c)

Invocation(w) ==
    \/ CommitBatch(w)
    \/ Superseded(w)
    \/ ReleaseChunk(w)
    \/ Reenqueue(w)
    \/ RefreshRead(w)
    \/ RefreshWrite(w)
    \/ Complete(w)
    \/ RecordFailure(w)
    \/ GiveUp(w)

WorkerFault(w) ==
    \/ ReenqueueFails(w)
    \/ Raises(w)
    \/ Crash(w)
    \/ LockLost(w)

Deliver(w, c) == ClaimChunk(w, c) \/ RefuseChunk(w, c)

Next ==
    \/ Register
    \/ \E c \in Chunk : EnqueueChunk(c) \/ EnqueueFails(c) \/ LeaseAges(c)
    \/ \E w \in Worker, c \in Chunk : Deliver(w, c) \/ ClaimRaises(w, c)
    \/ \E w \in Worker : Invocation(w) \/ WorkerFault(w)
    \/ Sweep
    \/ JobAges

Spec == Init /\ [][Next]_vars

(***************************************************************************)
(* Fairness.  An invocation that can take a step takes it or dies; the     *)
(* queue is FIFO, so a waiting job is delivered as long as workers keep    *)
(* coming free; the reconciler runs every five minutes; time passes.       *)
(* Registration and faults may happen or not.                              *)
(***************************************************************************)
Fairness ==
    /\ \A w \in Worker : WF_vars(Invocation(w))
    /\ \A c \in Chunk : /\ SF_vars(\E w \in Worker : Deliver(w, c))
                        /\ WF_vars(EnqueueChunk(c))
                        /\ WF_vars(SweepPublish(c))
                        /\ WF_vars(LeaseAges(c))
    /\ WF_vars(SweepSettle)
    /\ WF_vars(SweepRead)
    /\ WF_vars(SweepEnds)
    /\ WF_vars(JobAges)

FairSpec == Spec /\ Fairness

-----------------------------------------------------------------------------
(***************************************************************************)
(* Properties.                                                             *)
(***************************************************************************)

JobSettled == jobStatus \in {"completed", "failed"}

(* Every variable has its type: the columns of the two tables, the queue,   *)
(* and the locals of the invocations.                                       *)
TypeOK ==
    /\ status \in [Chunk -> ChunkStatus]
    /\ next \in [Chunk -> 0..Batches]
    /\ rows \in [Chunk -> Nat]
    /\ lease \in [Chunk -> Worker \union {NoLease}]
    /\ leaseAge \in [Chunk -> {"live", "expired", "stale"}]
    /\ failures \in [Chunk -> Nat]
    /\ stored \in [Chunk -> [0..(Batches - 1) -> Nat]]
    /\ jobStatus \in JobStatus
    /\ jobDone \in SUBSET Chunk
    /\ jobRows \in [Chunk -> Nat]
    /\ jobIdle \in BOOLEAN
    /\ queue \in [Chunk -> 0..MaxQueued]
    /\ toEnqueue \in SUBSET Chunk
    /\ pc \in [Worker -> Steps]
    /\ at \in [Worker -> Chunk \union {NoChunk}]
    /\ off \in [Worker -> 0..Batches]
    /\ snap \in [Worker -> Progress]
    /\ sweepPc \in {"settle", "read", "publish"}
    /\ orphans \in SUBSET Chunk
    /\ faults \in 0..MaxFaults

(* However many invocations run the same chunk, with or without its lease,  *)
(* and wherever they fail, every batch below the checkpoint has been stored *)
(* and counted exactly once and no batch above it at all (commit and        *)
(* checkpointBatch: one transaction, one compare-and-set).                  *)
EachBatchStoredOnce ==
    \A c \in Chunk :
        /\ rows[c] = next[c]
        /\ \A b \in 0..(Batches - 1) : stored[c][b] = IF b < next[c] THEN 1 ELSE 0

(* A job that reads completed has imported every chunk to its end, and the  *)
(* counters it reports are the final ones (completeJobIfDone, against a     *)
(* refreshJobProgress that read its counts earlier).                        *)
CompletedImportIsWhole ==
    jobStatus = "completed" =>
        /\ \A c \in Chunk : next[c] = Batches
        /\ jobDone = Chunk
        /\ jobRows = rows

(* A job is given up only when some chunk has spent its failures            *)
(* (failJobIfExhausted, called by a worker or by the sweep).                *)
GivenUpForCause ==
    jobStatus = "failed" => \E c \in Chunk : failures[c] >= MaxFailures

(* A chunk goes back to pending only from the hands of the invocation whose *)
(* lease it carries: a superseded holder that runs out of time cannot give  *)
(* back the chunk its successor is running (releaseChunk).                  *)
OnlyTheHolderReleases ==
    [][\A c \in Chunk :
          status[c] = "running" /\ status'[c] = "pending" =>
              \E w \in Worker : lease[c] = w /\ at[w] = c /\ pc[w] = "release"]_vars

(* No step moves a checkpoint back, so nothing already stored is imported   *)
(* again by a later invocation (checkpointBatch, claimChunk).               *)
CheckpointNeverMovesBack ==
    [][\A c \in Chunk : next'[c] >= next[c]]_vars

(* A settled job is never reopened, and the counters it settled with stay   *)
(* (the status = 'running' guards of the three job statements).             *)
SettledJobIsFrozen ==
    [][JobSettled => UNCHANGED <<jobStatus, jobDone, jobRows>>]_vars

(* A registered import is settled sooner or later, so its vendor is not     *)
(* locked out: whatever is lost on the way, the orphan sweep finds it       *)
(* (SweepOrphanChunksCommand).                                              *)
ImportSettles ==
    jobStatus = "running" ~> JobSettled

(***************************************************************************)
(* The abstract import this module implements.                             *)
(***************************************************************************)
Abstract == INSTANCE Import WITH
    store    <- stored,
    outcome  <- jobStatus,
    reported <- [done |-> jobDone, rows |-> jobRows]

(* Duplicate deliveries, lost leases, deaths, retries and the sweep cannot  *)
(* be told apart from outside: what reaches the products table and what the *)
(* job row says of it is always what one careful importer would have done   *)
(* (ProcessChunkCommand, IngestionRepository, SweepOrphanChunksCommand).    *)
ImplementsImport == Abstract!Spec
=============================================================================
