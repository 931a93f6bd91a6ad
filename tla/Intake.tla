-------------------------------- MODULE Intake --------------------------------
(***************************************************************************)
(* Imports side by side, from the upload to the end: the requests that     *)
(* register them, the files they leave on disk, the ingestion queue with   *)
(* its failed set and the operator who retries it, the workers and the     *)
(* sweep.                                                                  *)
(*                                                                         *)
(* An import has one chunk, or none if its file has no rows.  How a chunk  *)
(* is carried out is ChunkImport's: here an invocation imports it or       *)
(* raises, and a lease outlives an invocation that raised.                 *)
(***************************************************************************)
EXTENDS EventQueue

CONSTANTS
    Request,        \* requests to POST /api/vendor/imports
    Vendor,
    Unread,         \* of a request whose form has not been read, or was blank
    Bytes,          \* contents of files, by their hash
    Headers,        \* the contents that have a header and no row
    Copies,         \* bound: jobs of one chunk known to the queue at a time
    MaxQueued,      \* bound: jobs of one chunk on the queue or at work for the sweep to add one
    Stale,          \* failed jobs of an older producer, whose payload does not parse
    MaxFailures,    \* INGESTION_MAX_FAILURES
    MaxFaults,      \* bound: requests that break
    MaxOutages      \* bound: times PostgreSQL is away

ASSUME HeadersAssumption == Headers \subseteq Bytes
ASSUME UnreadAssumption == Unread \notin [vendor : Vendor, bytes : Bytes]
ASSUME JobAssumption == Job = (Request \X (1..Copies)) \union Stale
ASSUME StaleAssumption == IsFiniteSet(Stale)
ASSUME LimitsAssumption ==
    /\ MaxFailures \in 1..Attempts /\ MaxFaults \in Nat /\ MaxOutages \in Nat
    /\ MaxQueued \in Nat \ {0}

VARIABLES
    pc,         \* each request's step
    from,       \* its vendor and its bytes
    answer,     \* what it was answered
    disk,       \* the upload directory: requests whose file is in it
    job,        \* ingestion_jobs: the status of each request's import
    leased,     \* imports whose chunk is under a live lease
    failures,   \* failures of the chunk
    down,       \* PostgreSQL is away
    outages, faults

requestVars == <<pc, from, answer, disk>>
importVars  == <<job, leased, failures>>
faultVars   == <<down, outages, faults>>
vars == <<queueVars, requestVars, importVars, faultVars>>

Form == [vendor : Vendor, bytes : Bytes]

JobsOf(r) == {r} \X (1..Copies)

Init ==
    /\ QueueInit
    /\ waiting = {}
    /\ tries = [j \in Job |-> IF j \in Stale THEN Attempts ELSE 0]
    /\ failedSet = SetToSeq(Stale)
    /\ pc = [r \in Request |-> "idle"]
    /\ from = [r \in Request |-> Unread]
    /\ answer = [r \in Request |-> "none"]
    /\ disk = {}
    /\ job = [r \in Request |-> "none"]
    /\ leased = {}
    /\ failures = [r \in Request |-> 0]
    /\ down = FALSE
    /\ outages = 0
    /\ faults = 0

Fault == faults < MaxFaults /\ faults' = faults + 1 /\ UNCHANGED <<down, outages>>

HasRows(r) == from[r].bytes \notin Headers

Goes(r, step) ==
    /\ pc' = [pc EXCEPT ![r] = step]
    /\ UNCHANGED <<from, answer>>

Answers(r, with) ==
    /\ pc' = [pc EXCEPT ![r] = "answered"]
    /\ answer' = [answer EXCEPT ![r] = with]
    /\ UNCHANGED from

(***************************************************************************)
(* The request.  The file is on disk, under a name of its own, before the  *)
(* handler runs.                                                           *)
(***************************************************************************)
Upload(r) ==
    /\ pc[r] = "idle"
    /\ disk' = disk \union {r}
    /\ Goes(r, "uploaded")
    /\ UNCHANGED <<queueVars, importVars, faultVars>>

(* No file, not a .csv, too large, or broken off: nothing is left of it.    *)
RefuseUpload(r) ==
    /\ pc[r] = "idle"
    /\ Answers(r, "invalid")
    /\ UNCHANGED <<queueVars, disk, importVars, faultVars>>

RefuseNoVendor(r) ==
    /\ pc[r] = "uploaded"
    /\ disk' = disk \ {r}
    /\ Answers(r, "invalid")
    /\ UNCHANGED <<queueVars, importVars, faultVars>>

(* Its vendor; the file's size, its hash and its boundaries.                *)
ReadFile(r) ==
    /\ pc[r] = "uploaded"
    /\ \E form \in Form : from' = [from EXCEPT ![r] = form]
    /\ pc' = [pc EXCEPT ![r] = "read"]
    /\ UNCHANGED answer
    /\ UNCHANGED <<queueVars, disk, importVars, faultVars>>

(* The two unique indexes: a hash once and for ever, a vendor while it runs. *)
DuplicateFile(r) == \E s \in Request : job[s] # "none" /\ from[s].bytes = from[r].bytes

VendorBusy(r) == \E s \in Request : job[s] = "running" /\ from[s].vendor = from[r].vendor

Refused(r) == DuplicateFile(r) \/ VendorBusy(r)

Inserted(r) == job' = [job EXCEPT ![r] = "running"] /\ UNCHANGED <<leased, failures>>

InsertJob(r) ==
    /\ pc[r] = "read"
    /\ ~down
    /\ IF Refused(r)
         THEN Goes(r, "refused") /\ UNCHANGED importVars
         ELSE Goes(r, "registered") /\ Inserted(r)
    /\ UNCHANGED <<queueVars, disk, faultVars>>

(* What a request that breaks does with its file.                           *)
\* Mutant: a request that is not accepted leaves no file behind.
KeepsFile_OnlyIfAccepted(r) == disk' = disk \ {r}

KeepsFile(r) == UNCHANGED disk

(* The transaction raises.  It may have committed all the same.             *)
InsertRaises(r) ==
    /\ pc[r] = "read"
    /\ \/ down /\ UNCHANGED <<importVars, faultVars>>
       \/ ~down /\ Fault /\ UNCHANGED importVars
       \/ ~down /\ Fault /\ ~Refused(r) /\ Inserted(r)
    /\ KeepsFile(r)
    /\ Answers(r, "error")
    /\ UNCHANGED queueVars

Discard(r) ==
    /\ pc[r] = "refused"
    /\ disk' = disk \ {r}
    /\ Answers(r, "conflict")
    /\ UNCHANGED <<queueVars, importVars, faultVars>>

(* Under the first id that is free: they are alike.                         *)
PublishChunk(r) ==
    /\ \E j \in JobsOf(r) :
          /\ Publish(j)
          /\ \A i \in JobsOf(r) \ Known : j[2] <= i[2]
    /\ UNCHANGED <<walkVars, owed>>

EnqueueChunk(r) ==
    /\ pc[r] = "registered"
    /\ IF HasRows(r) THEN PublishChunk(r) ELSE UNCHANGED queueVars
    /\ Answers(r, "accepted")
    /\ UNCHANGED <<disk, importVars, faultVars>>

(* A publish that is not confirmed in time: it may land.                    *)
EnqueueFails(r) ==
    /\ pc[r] = "registered"
    /\ HasRows(r)
    /\ Fault
    /\ PublishChunk(r) \/ UNCHANGED queueVars
    /\ KeepsFile(r)
    /\ Answers(r, "error")
    /\ UNCHANGED importVars

(* Any other step raises, or the process is gone.                           *)
Breaks(r) ==
    /\ pc[r] \in {"uploaded", "read", "refused", "registered"}
    /\ Fault
    /\ Answers(r, "error")
    /\ UNCHANGED <<queueVars, disk, importVars>>

(***************************************************************************)
(* The ingestion worker.                                                   *)
(***************************************************************************)
Claimable(r) == job[r] = "running" /\ r \notin leased

ClaimChunk(r, j) ==
    /\ j \in JobsOf(r)
    /\ ~down
    /\ Claimable(r)
    /\ Take(j)
    /\ leased' = leased \union {r}
    /\ UNCHANGED <<walkVars, owed, requestVars, job, failures, faultVars>>

(* Nothing to claim: the job completes, whatever became of the chunk.       *)
RefuseChunk(r, j) ==
    /\ j \in JobsOf(r) \intersect waiting
    /\ ~down
    /\ ~Claimable(r)
    /\ Completes(j)
    /\ UNCHANGED <<walkVars, owed, requestVars, importVars, faultVars>>

(* The claim raises, and so does recording it; or the payload does not parse. *)
JobRaises(j) ==
    /\ j \in waiting
    /\ down \/ j \in Stale
    /\ RaisesIn(j)
    /\ UNCHANGED <<walkVars, owed, requestVars, importVars, faultVars>>

(* completeJobIfDone and failJobIfExhausted: a running import, once.        *)
Settle(r, status) == job' = [job EXCEPT ![r] = IF @ = "running" THEN status ELSE @]

ImportChunk(r, j) ==
    /\ j \in JobsOf(r) \intersect active
    /\ ~down
    /\ r \in disk
    /\ Completes(j)
    /\ Settle(r, "completed")
    /\ leased' = leased \ {r}
    /\ UNCHANGED <<walkVars, owed, requestVars, failures, faultVars>>

(* The invocation raises.  The failure is recorded if PostgreSQL is there,   *)
(* and a chunk that has spent its failures gives its import up.             *)
ChunkRaises(r, j) ==
    /\ j \in JobsOf(r) \intersect active
    /\ RaisesIn(j)
    /\ IF down
         THEN UNCHANGED <<job, failures>>
         ELSE /\ failures' = [failures EXCEPT ![r] = @ + 1]
              /\ IF failures[r] + 1 >= MaxFailures THEN Settle(r, "failed") ELSE UNCHANGED job
    /\ UNCHANGED <<walkVars, owed, leased, requestVars, faultVars>>

(* A lease runs out under nobody here; an invocation that outruns its own   *)
(* is in ChunkImport.                                                       *)
LeaseExpires(r) ==
    /\ r \in leased
    /\ JobsOf(r) \intersect active = {}
    /\ leased' = leased \ {r}
    /\ UNCHANGED <<queueVars, requestVars, job, failures, faultVars>>

(***************************************************************************)
(* The sweep, for one import: an import without chunks is settled by it    *)
(* and by nothing else; an abandoned chunk is enqueued.  A request is over *)
(* within the sweep's grace, ORPHAN_GRACE_MS, of the row it has inserted.  *)
(* It does not look at the queue: MaxQueued is a bound, as Copies is.      *)
(***************************************************************************)
\* Mutant: only what a worker has held is looked for.
Settles_NotEmpty(r) == FALSE

Settles(r) == ~HasRows(r)

SweepSettles(r) ==
    /\ ~down
    /\ job[r] = "running"
    /\ Settles(r)
    /\ Settle(r, "completed")
    /\ UNCHANGED <<queueVars, requestVars, leased, failures, faultVars>>

SweepEnqueues(r) ==
    /\ ~down
    /\ Claimable(r)
    /\ HasRows(r)
    /\ pc[r] = "answered"
    /\ Cardinality(JobsOf(r) \intersect (waiting \union active)) < MaxQueued
    /\ PublishChunk(r)
    /\ UNCHANGED <<requestVars, importVars, faultVars>>

(***************************************************************************)
(* The operator, and PostgreSQL.                                           *)
(***************************************************************************)
Operator ==
    /\ \/ WalkBegins
       \/ \E j \in Job : DashboardRetries(j)
    /\ UNCHANGED <<requestVars, importVars, faultVars>>

RetryFailed ==
    /\ WalkStep
    /\ UNCHANGED <<requestVars, importVars, faultVars>>

Outage ==
    /\ ~down
    /\ outages < MaxOutages
    /\ down' = TRUE
    /\ outages' = outages + 1
    /\ UNCHANGED <<queueVars, requestVars, importVars, faults>>

Recovers ==
    /\ down
    /\ down' = FALSE
    /\ UNCHANGED <<queueVars, requestVars, importVars, outages, faults>>

Asks(r) ==
    \/ Upload(r) \/ RefuseUpload(r) \/ RefuseNoVendor(r) \/ ReadFile(r)
    \/ InsertJob(r) \/ InsertRaises(r) \/ Discard(r)
    \/ EnqueueChunk(r) \/ EnqueueFails(r) \/ Breaks(r)

Starts(r, j) == ClaimChunk(r, j) \/ RefuseChunk(r, j)

Works(r, j) == ImportChunk(r, j) \/ ChunkRaises(r, j)

Sweep(r) == SweepSettles(r) \/ SweepEnqueues(r)

Next ==
    \/ \E r \in Request : Asks(r) \/ LeaseExpires(r) \/ Sweep(r)
    \/ \E r \in Request : \E j \in JobsOf(r) : Starts(r, j) \/ Works(r, j)
    \/ \E j \in Job : JobRaises(j)
    \/ Operator
    \/ RetryFailed
    \/ Outage
    \/ Recovers

Spec == Init /\ [][Next]_vars

(***************************************************************************)
(* Fairness.  Nobody has to upload, to break or to retry anything; a       *)
(* request that has registered its import goes on, and so does a walk that *)
(* has begun, the queue is served, leases run out, the sweep comes round   *)
(* and PostgreSQL comes back.                                              *)
(***************************************************************************)
Fairness ==
    /\ WF_vars(RetryFailed)
    /\ WF_vars(Recovers)
    /\ \A r \in Request :
          /\ WF_vars(EnqueueChunk(r))
          /\ WF_vars(LeaseExpires(r))
          /\ WF_vars(Sweep(r))
          /\ WF_vars(\E j \in JobsOf(r) : Starts(r, j) \/ Works(r, j))

FairSpec == Spec /\ Fairness

-----------------------------------------------------------------------------
(***************************************************************************)
(* Properties.                                                             *)
(***************************************************************************)

(* Every variable has its type: the queue's, the requests', the columns of  *)
(* ingestion_jobs and of its chunk.                                         *)
TypeOK ==
    /\ QueueTypeOK
    /\ pc \in [Request -> {"idle", "uploaded", "read", "refused", "registered", "answered"}]
    /\ from \in [Request -> Form \union {Unread}]
    /\ answer \in [Request -> {"none", "accepted", "invalid", "conflict", "error"}]
    /\ disk \in SUBSET Request
    /\ job \in [Request -> {"none", "running", "completed", "failed"}]
    /\ leased \in SUBSET Request
    /\ failures \in [Request -> Nat]
    /\ down \in BOOLEAN
    /\ outages \in 0..MaxOutages
    /\ faults \in 0..MaxFaults

(* The file of a registered import is on disk, however its request ended;   *)
(* and every other file is a request's still in progress or was left by one *)
(* that ended in an error (registered() of vendor-import-routes.ts, which   *)
(* removes a file only where no row can name it).                           *)
UploadDirectoryIsExact ==
    \A r \in Request :
        /\ job[r] # "none" => r \in disk
        /\ r \in disk => \/ job[r] # "none"
                         \/ pc[r] \in {"uploaded", "read", "refused"}
                         \/ answer[r] = "error"

(* A vendor with an import running gets its turn again, although a request  *)
(* may commit and fail, a job may be lost or dead, a file may have no chunk *)
(* and PostgreSQL may be away (SweepOrphanChunksCommand).                   *)
VendorComesFree ==
    \A v \in Vendor :
        LET Busy == \E r \in Request : job[r] = "running" /\ from[r].vendor = v
        IN  Busy ~> ~Busy
=============================================================================
