-------------------------------- MODULE Import --------------------------------
(***************************************************************************)
(* What a vendor import promises, apart from who carries it out: batches   *)
(* are stored from the front of each chunk, each once, and the job reports *)
(* on them and settles.  There are no workers, leases, deliveries, crashes *)
(* or retries here; ChunkImport, which has them, implements this.          *)
(***************************************************************************)
EXTENDS Naturals

CONSTANTS
    Chunk,      \* the chunks of the import
    Batches     \* batches in a chunk

VARIABLES
    store,      \* how often each batch of each chunk is in the products table
    outcome,    \* what the job's status says
    reported    \* the chunks and batches the job's counters stand for

vars == <<store, outcome, reported>>

Batch == 0..(Batches - 1)

StoredOf(c) == {b \in Batch : store[c][b] > 0}

Whole(c) == StoredOf(c) = Batch

Init ==
    /\ store = [c \in Chunk |-> [b \in Batch |-> 0]]
    /\ outcome = "none"
    /\ reported = [done |-> {}, rows |-> [c \in Chunk |-> 0]]

Register ==
    /\ outcome = "none"
    /\ outcome' = "running"
    /\ UNCHANGED <<store, reported>>

(* The next batch of a chunk, and only once.  A job that was given up does  *)
(* not recall the invocation that is still at work.                         *)
Store(c) ==
    \E b \in Batch :
        /\ outcome # "none"
        /\ StoredOf(c) = 0..(b - 1)
        /\ store' = [store EXCEPT ![c][b] = 1]
        /\ UNCHANGED <<outcome, reported>>

(* A report may lag behind the products table and never be ahead of it.     *)
Honest(report) ==
    /\ report.done \subseteq {c \in Chunk : Whole(c)}
    /\ \A c \in Chunk : \E n \in 0..Batches :
          report.rows[c] = n /\ 0..(n - 1) \subseteq StoredOf(c)

Report ==
    /\ outcome = "running"
    /\ Honest(reported')
    /\ UNCHANGED <<store, outcome>>

(* Only a whole import completes, and its last report is exact.             *)
Complete ==
    /\ outcome = "running"
    /\ \A c \in Chunk : Whole(c)
    /\ outcome' = "completed"
    /\ reported' = [done |-> Chunk, rows |-> [c \in Chunk |-> Batches]]
    /\ UNCHANGED store

GiveUp ==
    /\ outcome = "running"
    /\ outcome' = "failed"
    /\ Honest(reported')
    /\ reported'.rows = reported.rows
    /\ UNCHANGED store

Next ==
    \/ Register
    \/ \E c \in Chunk : Store(c)
    \/ Report
    \/ Complete
    \/ GiveUp

Spec == Init /\ [][Next]_vars
=============================================================================
