------------------------------ MODULE EventQueue ------------------------------
(***************************************************************************)
(* One queue as EventQueue leaves it to BullMQ, and retryFailed, which     *)
(* walks its failed set.  A job runs up to Attempts times; one that has    *)
(* spent them stays in the failed set, newest first, until someone retries *)
(* it.  A retried job keeps its attempts: it runs once more and, if it     *)
(* raises, is at the front of the failed set again.                        *)
(*                                                                         *)
(* Who publishes, what a job does and whether it raises is said by the     *)
(* module that has a queue.                                                *)
(***************************************************************************)
EXTENDS Naturals, FiniteSets, Sequences, SequencesExt

CONSTANTS
    Job,        \* the ids of jobs
    Attempts,   \* defaultJobOptions.attempts
    PageSize    \* what retryFailed reads of the failed set at a time

ASSUME AttemptsAssumption == Attempts \in Nat \ {0}
ASSUME PageSizeAssumption == PageSize \in Nat \ {0}

VARIABLES
    waiting,    \* jobs that wait, for a worker or for their backoff
    active,     \* jobs a worker runs
    tries,      \* how often each job has raised
    failedSet,  \* the failed set, newest first
    \* retryFailed
    walk,       \* where it is
    page,       \* the jobs of the page it read and has yet to retry
    seen,       \* the ids it has retried
    owed        \* history: what was in the set when it began and was not retried since

jobVars   == <<waiting, active, tries, failedSet>>
walkVars  == <<walk, page, seen>>
queueVars == <<jobVars, walkVars, owed>>

Failed == ToSet(failedSet)

Known == waiting \union active \union Failed

(* The jobs of a sequence that are not among `out`, in their order.         *)
Without(s, out) ==
    FoldLeft(LAMBDA kept, j : IF j \in out THEN kept ELSE Append(kept, j), <<>>, s)

QueueTypeOK ==
    /\ waiting \in SUBSET Job
    /\ active \in SUBSET Job
    /\ tries \in [Job -> 0..Attempts]
    /\ failedSet \in Seq(Job) /\ Cardinality(Failed) = Len(failedSet)
    /\ walk \in {"idle", "read", "retry", "threw"}
    /\ page \in Seq(Job)
    /\ seen \in SUBSET Job
    /\ owed \in SUBSET Failed

(***************************************************************************)
(* A job's life.                                                           *)
(***************************************************************************)
Publish(j) ==
    /\ j \notin Known
    /\ waiting' = waiting \union {j}
    /\ tries' = [tries EXCEPT ![j] = 0]
    /\ UNCHANGED <<active, failedSet>>

Take(j) ==
    /\ j \in waiting
    /\ waiting' = waiting \ {j}
    /\ active' = active \union {j}
    /\ UNCHANGED <<tries, failedSet>>

(* A job that ends well is gone: removeOnComplete keeps it for the reader.  *)
Completes(j) ==
    /\ j \in waiting \union active
    /\ waiting' = waiting \ {j}
    /\ active' = active \ {j}
    /\ UNCHANGED <<tries, failedSet>>

RaisesIn(j) ==
    /\ j \in waiting \union active
    /\ active' = active \ {j}
    /\ tries' = [tries EXCEPT ![j] = IF @ < Attempts THEN @ + 1 ELSE @]
    /\ IF tries[j] + 1 < Attempts
         THEN waiting' = waiting \union {j} /\ UNCHANGED failedSet
         ELSE waiting' = waiting \ {j} /\ failedSet' = <<j>> \o failedSet

\* Mutant: it waits again and is in the failed set too.
BackToWaiting_StaysFailed(j) ==
    /\ waiting' = waiting \union {j}
    /\ UNCHANGED <<active, tries, failedSet, owed>>

BackToWaiting(j) ==
    /\ failedSet' = Without(failedSet, {j})
    /\ waiting' = waiting \union {j}
    /\ owed' = owed \ {j}
    /\ UNCHANGED <<active, tries>>

(* Someone at the dashboard retries one job.                                *)
DashboardRetries(j) ==
    /\ j \in Failed
    /\ BackToWaiting(j)
    /\ UNCHANGED walkVars

(***************************************************************************)
(* retryFailed(name, pageSize): read the first page, retry what it has not *)
(* retried yet, read again; a page with nothing new in it ends the walk.   *)
(* job.retry() raises when the job has left the failed set meanwhile, and  *)
(* a read that is not answered in time raises.                             *)
(***************************************************************************)
WalkBegins ==
    /\ walk \in {"idle", "threw"}
    /\ walk' = "read"
    /\ owed' = Failed
    /\ UNCHANGED <<jobVars, page, seen>>

FirstPage == SubSeq(failedSet, 1, Min({PageSize, Len(failedSet)}))

\* Mutants: the next page, although retrying has moved the set up; no memory.
Fresh_NextPage ==
    LET from == Cardinality(seen) + 1 IN
    SubSeq(failedSet, from, Min({from + PageSize - 1, Len(failedSet)}))
Fresh_NoMemory == FirstPage

Fresh == Without(FirstPage, seen)

WalkOver(how) ==
    /\ walk' = how
    /\ page' = <<>>
    /\ seen' = {}
    /\ owed' = {}

WalkReads ==
    /\ walk = "read"
    /\ UNCHANGED jobVars
    /\ IF Fresh = <<>>
         THEN WalkOver("idle")
         ELSE /\ walk' = "retry"
              /\ page' = Fresh
              /\ UNCHANGED <<seen, owed>>

WalkRetries ==
    /\ walk = "retry"
    /\ Head(page) \in Failed
    /\ BackToWaiting(Head(page))
    /\ seen' = seen \union {Head(page)}
    /\ page' = Tail(page)
    /\ walk' = IF Tail(page) = <<>> THEN "read" ELSE "retry"

WalkThrows ==
    /\ \/ walk = "read"
       \/ walk = "retry" /\ Head(page) \notin Failed
    /\ WalkOver("threw")
    /\ UNCHANGED jobVars

WalkStep == WalkReads \/ WalkRetries \/ WalkThrows

QueueInit ==
    /\ active = {}
    /\ walk = "idle"
    /\ page = <<>>
    /\ seen = {}
    /\ owed = {}

-----------------------------------------------------------------------------
(***************************************************************************)
(* Properties.                                                             *)
(***************************************************************************)

Walking == walk \in {"read", "retry"}

(* A walk comes to an end, also when every job it retries fails again while *)
(* it is still walking (the `seen` set of retryFailed).                     *)
WalkEnds == Walking ~> ~Walking

(* A walk that returns has retried every job that was failed when it began, *)
(* or a whole page of jobs it retried has failed again and stands before    *)
(* the rest: then it stops, and the rest is not retried (retryFailed).      *)
WalkTakesAllButBehindAFullPage ==
    [][walk = "read" /\ walk' = "idle" =>
          owed = {} \/ PageSize <= Cardinality(seen \intersect Failed)]_queueVars
=============================================================================
