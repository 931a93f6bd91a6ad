----------------------------- MODULE IntakeProofs -----------------------------
(***************************************************************************)
(* The upload directory beside the imports, and the ingestion queue with   *)
(* its failed set and the walk over it, for any number of requests, jobs,  *)
(* workers, faults and outages, and any size of page.                      *)
(***************************************************************************)
EXTENDS Intake, FiniteSetTheorems, FunctionTheorems, WellFoundedInduction, TLAPS

Step   == {"idle", "uploaded", "read", "refused", "registered", "answered"}
Status == {"none", "running", "completed", "failed"}

(* What a request's step says of its file and its import.                   *)
RequestInv(r) ==
    /\ pc[r] \in {"idle", "uploaded", "read", "refused"} => job[r] = "none"
    /\ pc[r] \in {"uploaded", "read", "refused", "registered"} => r \in disk
    /\ pc[r] = "registered" => job[r] # "none"
    /\ pc[r] = "idle" => r \notin disk

IInv ==
    /\ pc \in [Request -> Step]
    /\ job \in [Request -> Status]
    /\ DOMAIN answer = Request
    /\ disk \in SUBSET Request
    /\ \A r \in Request : RequestInv(r)
    /\ UploadDirectoryIsExact

LEMMA InitInv == Init => IInv
BY DEF Init, IInv, Step, Status, RequestInv, UploadDirectoryIsExact

(* A step that leaves the requests alone may settle an import and neither   *)
(* makes nor removes one.                                                   *)
LEMMA OthersKeep ==
    ASSUME IInv, UNCHANGED requestVars,
           job' \in [Request -> Status],
           \A r \in Request : job'[r] = "none" <=> job[r] = "none"
    PROVE  IInv'
BY DEF IInv, requestVars, RequestInv, UploadDirectoryIsExact

LEMMA SettleKeeps ==
    ASSUME IInv, NEW r \in Request, NEW status \in {"completed", "failed"}, Settle(r, status)
    PROVE  /\ job' \in [Request -> Status]
           /\ \A s \in Request : job'[s] = "none" <=> job[s] = "none"
BY DEF IInv, Settle, Status

LEMMA AsksKeeps ==
    ASSUME IInv, NEW r \in Request, Asks(r)
    PROVE  IInv'
<1> USE DEF IInv, RequestInv, Step, Status, UploadDirectoryIsExact, Goes, Answers
<1>1. CASE Upload(r)
    BY <1>1 DEF Upload, importVars
<1>2. CASE RefuseUpload(r)
    BY <1>2 DEF RefuseUpload, importVars
<1>3. CASE ReadFile(r)
    BY <1>3 DEF ReadFile, importVars
<1>4. CASE InsertJob(r)
    BY <1>4 DEF InsertJob, Inserted, importVars
<1>5. CASE InsertRaises(r)
    BY <1>5 DEF InsertRaises, Inserted, KeepsFile, importVars
<1>6. CASE Discard(r)
    BY <1>6 DEF Discard, importVars
<1>7. CASE EnqueueChunk(r)
    BY <1>7 DEF EnqueueChunk, importVars
<1>8. CASE EnqueueFails(r)
    BY <1>8 DEF EnqueueFails, KeepsFile, importVars
<1>9. CASE Breaks(r)
    BY <1>9 DEF Breaks, importVars
<1>10. CASE RefuseNoVendor(r)
    BY <1>10 DEF RefuseNoVendor, importVars
<1> QED
    BY <1>1, <1>2, <1>3, <1>4, <1>5, <1>6, <1>7, <1>8, <1>9, <1>10 DEF Asks

LEMMA WorkerKeeps ==
    ASSUME IInv, NEW r \in Request, NEW j, Starts(r, j) \/ Works(r, j)
    PROVE  IInv'
<1>1. CASE ClaimChunk(r, j) \/ RefuseChunk(r, j)
    <2>1. UNCHANGED requestVars /\ UNCHANGED job
        BY <1>1 DEF ClaimChunk, RefuseChunk, importVars
    <2> QED
        BY <2>1, OthersKeep DEF IInv
<1>2. CASE ImportChunk(r, j)
    BY <1>2, SettleKeeps, OthersKeep DEF ImportChunk
<1>3. CASE ChunkRaises(r, j)
    <2>1. UNCHANGED requestVars /\ (UNCHANGED job \/ Settle(r, "failed"))
        BY <1>3 DEF ChunkRaises
    <2> QED
        BY <2>1, SettleKeeps, OthersKeep DEF IInv
<1> QED
    BY <1>1, <1>2, <1>3 DEF Starts, Works

LEMMA StepInv == IInv /\ [Next]_vars => IInv'
<1> SUFFICES ASSUME IInv, [Next]_vars PROVE IInv'
    OBVIOUS
<1>1. ASSUME NEW r \in Request, Asks(r) \/ LeaseExpires(r) \/ Sweep(r)
      PROVE  IInv'
    <2>1. CASE Asks(r)
        BY <2>1, AsksKeeps
    <2>2. CASE LeaseExpires(r) \/ SweepEnqueues(r)
        <3>1. UNCHANGED requestVars /\ UNCHANGED job
            BY <2>2 DEF LeaseExpires, SweepEnqueues, importVars
        <3> QED
            BY <3>1, OthersKeep DEF IInv
    <2>3. CASE SweepSettles(r)
        BY <2>3, SettleKeeps, OthersKeep DEF SweepSettles
    <2> QED
        BY <1>1, <2>1, <2>2, <2>3 DEF Sweep
<1>2. ASSUME NEW r \in Request, NEW j \in JobsOf(r), Starts(r, j) \/ Works(r, j)
      PROVE  IInv'
    BY <1>2, WorkerKeeps
<1>3. CASE (\E j \in Job : JobRaises(j)) \/ Operator \/ RetryFailed \/ Outage \/ Recovers
    <2>1. UNCHANGED requestVars /\ UNCHANGED job
        BY <1>3 DEF JobRaises, Operator, RetryFailed, Outage, Recovers, importVars
    <2> QED
        BY <2>1, OthersKeep DEF IInv
<1>4. CASE UNCHANGED vars
    <2>1. UNCHANGED requestVars /\ UNCHANGED job
        BY <1>4 DEF vars, importVars
    <2> QED
        BY <2>1, OthersKeep DEF IInv
<1> QED
    BY <1>1, <1>2, <1>3, <1>4 DEF Next

(* The file of every import stays on disk as long as the import does, and   *)
(* no other file stays but those of requests at work or ended in an error   *)
(* (registered() of vendor-import-routes.ts).                               *)
THEOREM UploadsAreExact == Spec => []UploadDirectoryIsExact
<1>1. IInv => UploadDirectoryIsExact
    BY DEF IInv
<1> QED
    BY <1>1, InitInv, StepInv, PTL DEF Spec
-----------------------------------------------------------------------------
(* Every set of numbers has a least, and the greatest of an interval's      *)
(* subset is the one Max gives.                                             *)
Below == {pair \in Nat \X Nat : pair[1] < pair[2]}

LEMMA LeastNat ==
    ASSUME NEW T \in SUBSET Nat, T # {}
    PROVE  \E x \in T : \A y \in T : x <= y
<1>1. OpToRel(<, Nat) = Below
    BY DEF OpToRel, Below
<1>2. IsWellFoundedOn(Below, Nat)
    BY <1>1, NatLessThanWellFounded
<1>3. PICK x \in T : \A y \in T : <<y, x>> \notin Below
    BY <1>2, WFMin
<1>4. ASSUME NEW y \in T PROVE x <= y
    <2>1. <<y, x>> \in Nat \X Nat /\ <<y, x>>[1] = y /\ <<y, x>>[2] = x
        OBVIOUS
    <2>2. ~(y < x)
        BY <1>3, <2>1 DEF Below
    <2> QED
        BY <2>2
<1> QED
    BY <1>4

LEMMA MaxIsThe ==
    ASSUME NEW T \in SUBSET Nat, NEW x \in T, \A y \in T : y <= x
    PROVE  Max(T) = x
<1>1. PICK y \in T : y = Max(T) /\ \A z \in T : y >= z
    BY DEF Max
<1> QED
    BY <1>1

-----------------------------------------------------------------------------
(* Without, one element at a time.                                          *)
Keeping(kept, j, out) == IF j \in out THEN kept ELSE Append(kept, j)

Kept(s, out, n, kept) ==
    /\ kept[0] = <<>>
    /\ \A k \in 1..n : kept[k] = Keeping(kept[k - 1], s[k], out)

Folds(s, out, n, iter) ==
    iter = [d \in SUBSET (1..n) |->
               IF d = {} THEN <<>> ELSE Keeping(iter[d \ {Max(d)}], s[Max(d)], out)]

LEMMA FoldExists ==
    ASSUME NEW s, NEW out, NEW n \in Nat
    PROVE  \E iter : Folds(s, out, n, iter)
<1> DEFINE bad == {m \in Nat : ~\E iter : Folds(s, out, m, iter)}
<1>1. SUFFICES ASSUME bad # {} PROVE FALSE
    OBVIOUS
<1>2. PICK m \in bad : \A k \in bad : m <= k
    BY <1>1, LeastNat
<1>3. CASE m = 0
    <2>1. SUBSET (1..0) = {{}}
        OBVIOUS
    <2>2. Folds(s, out, 0, [d \in SUBSET (1..0) |-> <<>>])
        BY <2>1 DEF Folds
    <2> QED
        BY <1>2, <1>3, <2>2
<1>4. CASE m > 0
    <2>1. m - 1 \in Nat /\ m - 1 \notin bad /\ m \in Nat
        BY <1>2, <1>4
    <2>2. PICK g : Folds(s, out, m - 1, g)
        BY <2>1
    <2> DEFINE h == [d \in SUBSET (1..m) |->
                        IF m \in d THEN Keeping(g[d \ {m}], s[m], out) ELSE g[d]]
    <2>3. ASSUME NEW d \in SUBSET (1..m)
          PROVE  h[d] = IF d = {} THEN <<>>
                    ELSE Keeping(h[d \ {Max(d)}], s[Max(d)], out)
        <3>1. h[d] = IF m \in d THEN Keeping(g[d \ {m}], s[m], out) ELSE g[d]
            OBVIOUS
        <3>2. ASSUME NEW t \in SUBSET (1..(m - 1)) PROVE h[t] = g[t]
            <4>1. t \in SUBSET (1..m) /\ m \notin t
                BY <2>1
            <4> QED
                BY <4>1
        <3> HIDE DEF h
        <3>3. CASE m \in d
            <4>1. Max(d) = m
                <5>1. d \in SUBSET Nat /\ \A y \in d : y <= m
                    BY <2>1
                <5> QED
                    BY <3>3, <5>1, MaxIsThe
            <4>2. d \ {m} \in SUBSET (1..(m - 1))
                BY <2>1
            <4> QED
                BY <3>1, <3>2, <3>3, <4>1, <4>2
        <3>4. CASE m \notin d
            <4>1. d \in SUBSET (1..(m - 1))
                BY <2>1, <3>4
            <4>2. g[d] = IF d = {} THEN <<>>
                    ELSE Keeping(g[d \ {Max(d)}], s[Max(d)], out)
                BY <2>2, <4>1 DEF Folds
            <4>3. d \ {Max(d)} \in SUBSET (1..(m - 1))
                BY <4>1
            <4> QED
                BY <3>1, <3>2, <3>4, <4>2, <4>3
        <3> QED
            BY <3>3, <3>4
    <2>4. Folds(s, out, m, h)
        BY <2>3 DEF Folds
    <2> QED
        BY <1>2, <2>4
<1> QED
    BY <1>2, <1>3, <1>4

LEMMA WithoutIs ==
    ASSUME NEW S, NEW s \in Seq(S), NEW out
    PROVE  \E kept : Kept(s, out, Len(s), kept) /\ Without(s, out) = kept[Len(s)]
<1> DEFINE n == Len(s)
           iter == CHOOSE g : Folds(s, out, n, g)
           kept == [k \in 0..n |-> iter[1..k]]
<1>n. n \in Nat /\ DOMAIN s = 1..n
    OBVIOUS
<1>1. Without(s, out) = iter[1..n]
    BY <1>n DEF Without, FoldLeft, MapThenFoldSet, Folds, Keeping
<1>2. Folds(s, out, n, iter)
    BY <1>n, FoldExists
<1> HIDE DEF iter, n
<1>3. \A d \in SUBSET (1..n) :
          iter[d] = IF d = {} THEN <<>>
                    ELSE Keeping(iter[d \ {Max(d)}], s[Max(d)], out)
    BY <1>2 DEF Folds
<1>4. kept[0] = <<>>
    <2>1. 1..0 = {} /\ 0 \in 0..n
        BY <1>n
    <2> QED
        BY <1>3, <2>1
<1>5. ASSUME NEW k \in 1..n
      PROVE  kept[k] = Keeping(kept[k - 1], s[k], out)
    <2>1. k \in 0..n /\ k - 1 \in 0..n
        BY <1>n
    <2>2. kept[k] = iter[1..k] /\ kept[k - 1] = iter[1..(k - 1)]
        BY <2>1
    <2>3. 1..k \in SUBSET (1..n) /\ 1..k # {} /\ k \in 1..k /\ 1..k \in SUBSET Nat
        BY <1>n
    <2>4. Max(1..k) = k
        <3>1. \A y \in 1..k : y <= k
            OBVIOUS
        <3> QED
            BY <2>3, <3>1, MaxIsThe
    <2>5. (1..k) \ {k} = 1..(k - 1)
        BY <1>n
    <2> QED
        BY <1>3, <2>2, <2>3, <2>4, <2>5
<1>6. kept[n] = iter[1..n]
    BY <1>n
<1> QED
    BY <1>1, <1>4, <1>5, <1>6 DEF Kept, n

(* What Without keeps: the jobs not among out, each as often as before.     *)
Distinct(s) == \A i, j \in DOMAIN s : s[i] = s[j] => i = j

LEMMA WithoutKeeps ==
    ASSUME NEW S, NEW s \in Seq(S), NEW out
    PROVE  /\ Without(s, out) \in Seq(S)
           /\ ToSet(Without(s, out)) = ToSet(s) \ out
           /\ Distinct(s) => Distinct(Without(s, out))
<1> DEFINE n == Len(s)
<1>1. PICK kept : Kept(s, out, n, kept) /\ Without(s, out) = kept[n]
    BY WithoutIs
<1>n. n \in Nat /\ DOMAIN s = 1..n /\ \A i \in 1..n : s[i] \in S
    OBVIOUS
<1> HIDE DEF n
<1> DEFINE Good(k) == /\ kept[k] \in Seq(S)
                      /\ ToSet(kept[k]) = {s[i] : i \in 1..k} \ out
                      /\ Distinct(s) => Distinct(kept[k])
           bad == {k \in 0..n : ~Good(k)}
<1>2. Good(0)
    <2>1. kept[0] = <<>>
        BY <1>1 DEF Kept
    <2>2. 1..0 = {}
        OBVIOUS
    <2> QED
        BY <2>1, <2>2 DEF ToSet, Distinct
<1>3. ASSUME NEW k \in 1..n, Good(k - 1) PROVE Good(k)
    <2>1. kept[k] = Keeping(kept[k - 1], s[k], out)
        BY <1>1, <1>n DEF Kept
    <2>2. 1..k = (1..(k - 1)) \union {k} /\ s[k] \in S /\ k \in Nat
        BY <1>n
    <2>3. {s[i] : i \in 1..k} = {s[i] : i \in 1..(k - 1)} \union {s[k]}
        BY <2>2
    <2> DEFINE old == kept[k - 1]
    <2>4. old \in Seq(S) /\ ToSet(old) = {s[i] : i \in 1..(k - 1)} \ out
          /\ (Distinct(s) => Distinct(old))
        BY <1>3
    <2> HIDE DEF old
    <2>5. CASE s[k] \in out
        <3>1. kept[k] = old
            BY <2>1, <2>5 DEF Keeping, old
        <3> QED
            BY <2>3, <2>4, <2>5, <3>1
    <2>6. CASE s[k] \notin out
        <3>1. kept[k] = Append(old, s[k])
            BY <2>1, <2>6 DEF Keeping, old
        <3>2. kept[k] \in Seq(S)
            BY <2>2, <2>4, <3>1
        <3>3. /\ DOMAIN old = 1..Len(old) /\ DOMAIN kept[k] = 1..(Len(old) + 1)
              /\ \A i \in 1..Len(old) : kept[k][i] = old[i]
              /\ kept[k][Len(old) + 1] = s[k]
              /\ Len(old) \in Nat
            BY <2>2, <2>4, <3>1
        <3>4. DOMAIN kept[k] = DOMAIN old \union {Len(old) + 1}
            BY <3>3
        <3>5. ToSet(kept[k]) = ToSet(old) \union {s[k]}
            BY <3>3, <3>4 DEF ToSet
        <3>6. ToSet(kept[k]) = {s[i] : i \in 1..k} \ out
            BY <2>3, <2>4, <2>6, <3>5
        <3>7. ASSUME Distinct(s) PROVE Distinct(kept[k])
            <4>1. s[k] \notin ToSet(old)
                <5>1. \A i \in 1..(k - 1) : s[i] # s[k]
                    BY <1>n, <2>2, <3>7 DEF Distinct
                <5> QED
                    BY <2>4, <5>1
            <4>2. \A i \in 1..Len(old) : old[i] # s[k]
                BY <3>3, <4>1 DEF ToSet
            <4> QED
                BY <2>4, <3>3, <3>4, <3>7, <4>2 DEF Distinct
        <3> QED
            BY <3>2, <3>6, <3>7
    <2> QED
        BY <2>5, <2>6
<1> HIDE DEF Good
<1>4. ASSUME bad # {} PROVE FALSE
    <2>1. bad \in SUBSET Nat
        BY <1>n
    <2>2. PICK k \in bad : \A m \in bad : k <= m
        BY <1>4, <2>1, LeastNat
    <2>3. k \in 1..n /\ k - 1 \in 0..n
        BY <1>2, <2>2, <1>n
    <2>4. k - 1 \notin bad
        BY <2>2, <2>3
    <2> QED
        BY <1>3, <2>2, <2>3, <2>4
<1>5. Good(n)
    BY <1>4, <1>n
<1> QED
    BY <1>1, <1>5, <1>n DEF Good, ToSet

(* A sequence without repetitions has as many elements as it is long.       *)
LEMMA CountDistinct ==
    ASSUME NEW S, NEW s \in Seq(S), Distinct(s)
    PROVE  /\ IsFiniteSet(ToSet(s))
           /\ Cardinality(ToSet(s)) = Len(s)
<1>1. Len(s) \in Nat /\ DOMAIN s = 1..Len(s)
    OBVIOUS
<1>2. s \in [1..Len(s) -> ToSet(s)]
    BY <1>1 DEF ToSet
<1>3. s \in Bijection(1..Len(s), ToSet(s))
    BY <1>1, <1>2 DEF Bijection, Injection, Surjection, IsInjective, Distinct, ToSet
<1>4. ExistsBijection(1..Len(s), ToSet(s))
    BY <1>3 DEF ExistsBijection
<1> QED
    BY <1>1, <1>4, FS_CountingElements, FS_NatBijection

LEMMA SetToSeqIs ==
    ASSUME NEW T, IsFiniteSet(T)
    PROVE  /\ SetToSeq(T) \in Seq(T)
           /\ Distinct(SetToSeq(T))
           /\ ToSet(SetToSeq(T)) = T
<1> DEFINE n == Cardinality(T)
<1>1. n \in Nat /\ ExistsBijection(1..n, T)
    BY FS_CardinalityType
<1>2. PICK f : f \in Bijection(1..n, T)
    BY <1>1 DEF ExistsBijection
<1>3. f \in [1..n -> T] /\ IsInjective(f)
    BY <1>2 DEF Bijection, Injection
<1> DEFINE s == SetToSeq(T)
<1>4. s \in [1..n -> T] /\ IsInjective(s)
    BY <1>3 DEF SetToSeq
<1> HIDE DEF s, n
<1>5. s \in Seq(T) /\ Distinct(s)
    BY <1>1, <1>4 DEF Distinct, IsInjective
<1>6. s \in Injection(1..n, T)
    BY <1>4 DEF Injection
<1>7. ToSet(s) = T
    <2>1. s \in Surjection(1..n, T)
        BY <1>6, <1>1, FS_Injection, FS_Interval DEF n
    <2> QED
        BY <2>1, <1>4 DEF Surjection, ToSet
<1> QED
    BY <1>5, <1>7 DEF s

-----------------------------------------------------------------------------
(* The queue and the walk over its failed set: the types, and what keeps    *)
(* them.  A job is in the failed set once and nowhere else; a walk that     *)
(* retries has something to retry; it remembers nothing when it is over,    *)
(* and owes nothing that it remembers.                                      *)
QueueInv ==
    /\ QueueTypeOK
    /\ Distinct(failedSet)
    /\ (waiting \union active) \intersect Failed = {}
    /\ walk = "retry" => page # <<>>
    /\ walk \in {"idle", "threw"} => seen = {}
    /\ owed \intersect seen = {}

(* The parts about the jobs, and the parts about the walk.                  *)
JobsInv ==
    /\ waiting \in SUBSET Job
    /\ active \in SUBSET Job
    /\ tries \in [Job -> 0..Attempts]
    /\ failedSet \in Seq(Job)
    /\ Distinct(failedSet)
    /\ (waiting \union active) \intersect Failed = {}

WalkInv ==
    /\ walk \in {"idle", "read", "retry", "threw"}
    /\ page \in Seq(Job)
    /\ seen \in SUBSET Job
    /\ owed \in SUBSET Failed
    /\ walk = "retry" => page # <<>>
    /\ walk \in {"idle", "threw"} => seen = {}
    /\ owed \intersect seen = {}

LEMMA QueueParts == QueueInv <=> JobsInv /\ WalkInv
<1>1. ASSUME failedSet \in Seq(Job), Distinct(failedSet)
      PROVE  Cardinality(Failed) = Len(failedSet)
    BY <1>1, CountDistinct DEF Failed
<1> QED
    BY <1>1 DEF QueueInv, QueueTypeOK, JobsInv, WalkInv

LEMMA QueuePartsNext == QueueInv' <=> JobsInv' /\ WalkInv'
BY QueueParts, PTL

LEMMA PublishKeeps ==
    ASSUME QueueInv, NEW j \in Job, Publish(j), UNCHANGED <<walkVars, owed>>
    PROVE  QueueInv'
<1>1. JobsInv /\ WalkInv
    BY QueueParts
<1>2. Failed' = Failed
    BY DEF Publish, Failed
<1>3. JobsInv'
    BY <1>1, <1>2, AttemptsAssumption DEF JobsInv, Publish, Known, Distinct
<1>4. WalkInv'
    BY <1>1, <1>2 DEF WalkInv, walkVars
<1> QED
    BY <1>3, <1>4, QueuePartsNext

LEMMA RunKeeps ==
    ASSUME QueueInv, NEW j, Take(j) \/ Completes(j), UNCHANGED <<walkVars, owed>>
    PROVE  QueueInv'
<1>1. JobsInv /\ WalkInv
    BY QueueParts
<1>2. Failed' = Failed
    BY DEF Take, Completes, Failed
<1>3. JobsInv'
    BY <1>1, <1>2 DEF JobsInv, Take, Completes, Distinct
<1>4. WalkInv'
    BY <1>1, <1>2 DEF WalkInv, walkVars
<1> QED
    BY <1>3, <1>4, QueuePartsNext

(* A job that raises comes in front of a set it was not in.                 *)
LEMMA InFront ==
    ASSUME NEW S, NEW s \in Seq(S), Distinct(s), NEW j \in S, j \notin ToSet(s)
    PROVE  /\ <<j>> \o s \in Seq(S)
           /\ ToSet(<<j>> \o s) = {j} \union ToSet(s)
           /\ Distinct(<<j>> \o s)
<1> DEFINE t == <<j>> \o s
<1>1. /\ t \in Seq(S)
      /\ DOMAIN t = 1..(Len(s) + 1)
      /\ t[1] = j
      /\ \A i \in 2..(Len(s) + 1) : t[i] = s[i - 1]
      /\ Len(s) \in Nat
      /\ DOMAIN s = 1..Len(s)
    OBVIOUS
<1> HIDE DEF t
<1>2. \A i \in 1..Len(s) : i + 1 \in DOMAIN t /\ t[i + 1] = s[i]
    BY <1>1
<1>3. \A i \in DOMAIN t : i = 1 \/ (i - 1 \in DOMAIN s /\ t[i] = s[i - 1])
    BY <1>1
<1>4. 1 \in DOMAIN t
    BY <1>1
<1>5. ToSet(t) = {j} \union ToSet(s)
    <2>1. ToSet(t) \subseteq {j} \union ToSet(s)
        BY <1>1, <1>3 DEF ToSet
    <2>2. {j} \union ToSet(s) \subseteq ToSet(t)
        BY <1>1, <1>2, <1>4 DEF ToSet
    <2> QED
        BY <2>1, <2>2
<1>6. Distinct(t)
    <2>1. ASSUME NEW a \in DOMAIN t, NEW b \in DOMAIN t, t[a] = t[b], a = 1, b # 1
          PROVE  FALSE
        <3>1. b - 1 \in DOMAIN s /\ s[b - 1] = j
            BY <2>1, <1>1, <1>3
        <3> QED
            BY <3>1 DEF ToSet
    <2>2. ASSUME NEW a \in DOMAIN t, NEW b \in DOMAIN t, t[a] = t[b], a # 1, b # 1
          PROVE  a = b
        <3>1. a - 1 \in DOMAIN s /\ b - 1 \in DOMAIN s /\ s[a - 1] = s[b - 1]
            BY <2>2, <1>3
        <3>2. a - 1 = b - 1
            BY <3>1 DEF Distinct
        <3> QED
            BY <3>2, <1>1
    <2> QED
        BY <2>1, <2>2 DEF Distinct
<1> QED
    BY <1>1, <1>5, <1>6 DEF t

LEMMA RaisesKeeps ==
    ASSUME QueueInv, NEW j, RaisesIn(j), UNCHANGED <<walkVars, owed>>
    PROVE  QueueInv'
<1>1. JobsInv /\ WalkInv
    BY QueueParts
<1>2. j \in Job /\ j \notin ToSet(failedSet)
    BY <1>1 DEF JobsInv, RaisesIn, Failed
<1>3. tries' \in [Job -> 0..Attempts]
    BY <1>1, <1>2, AttemptsAssumption DEF JobsInv, RaisesIn
<1>4. CASE tries[j] + 1 < Attempts
    <2>1. waiting' = waiting \union {j} /\ active' = active \ {j} /\ failedSet' = failedSet
        BY <1>4 DEF RaisesIn
    <2>2. Failed' = Failed
        BY <2>1 DEF Failed
    <2>3. JobsInv'
        BY <1>1, <1>2, <1>3, <2>1, <2>2 DEF JobsInv, Distinct, Failed
    <2>4. WalkInv'
        BY <1>1, <2>2 DEF WalkInv, walkVars
    <2> QED
        BY <2>3, <2>4, QueuePartsNext
<1>5. CASE ~(tries[j] + 1 < Attempts)
    <2>1. waiting' = waiting \ {j} /\ active' = active \ {j} /\ failedSet' = <<j>> \o failedSet
        BY <1>5 DEF RaisesIn
    <2>2. /\ failedSet' \in Seq(Job)
          /\ Failed' = {j} \union Failed
          /\ Distinct(failedSet')
        BY <1>1, <1>2, <2>1, InFront DEF JobsInv, Failed
    <2>3. JobsInv'
        BY <1>1, <1>3, <2>1, <2>2 DEF JobsInv, Distinct
    <2>4. WalkInv'
        BY <1>1, <2>2 DEF WalkInv, walkVars
    <2> QED
        BY <2>3, <2>4, QueuePartsNext
<1> QED
    BY <1>4, <1>5

(* A retried job leaves the failed set for good and the walk owes it no more. *)
LEMMA RetriedKeeps ==
    ASSUME QueueInv, NEW j \in Failed, BackToWaiting(j)
    PROVE  /\ JobsInv'
           /\ Failed' = Failed \ {j}
           /\ owed' = owed \ {j}
           /\ j \in Job
<1>1. JobsInv
    BY QueueParts
<1>2. j \in Job
    BY <1>1 DEF JobsInv, Failed, ToSet
<1>3. failedSet' = Without(failedSet, {j})
    BY DEF BackToWaiting
<1>4. failedSet' \in Seq(Job) /\ Failed' = Failed \ {j} /\ Distinct(failedSet')
    BY <1>1, <1>3, WithoutKeeps DEF JobsInv, Failed
<1>5. JobsInv'
    BY <1>1, <1>2, <1>4 DEF JobsInv, BackToWaiting, Distinct
<1> QED
    BY <1>2, <1>4, <1>5 DEF BackToWaiting

LEMMA DashboardKeeps ==
    ASSUME QueueInv, NEW j, DashboardRetries(j)
    PROVE  QueueInv'
<1>1. JobsInv' /\ Failed' = Failed \ {j} /\ owed' = owed \ {j}
    BY RetriedKeeps DEF DashboardRetries
<1>2. WalkInv'
    BY <1>1, QueueParts DEF WalkInv, DashboardRetries, walkVars
<1> QED
    BY <1>1, <1>2, QueuePartsNext

LEMMA BeginsKeeps ==
    ASSUME QueueInv, WalkBegins
    PROVE  QueueInv'
<1>1. JobsInv /\ WalkInv
    BY QueueParts
<1>2. Failed' = Failed
    BY DEF WalkBegins, jobVars, Failed
<1>3. JobsInv'
    BY <1>1, <1>2 DEF JobsInv, WalkBegins, jobVars, Distinct
<1>4. WalkInv'
    BY <1>1, <1>2 DEF WalkInv, WalkBegins
<1> QED
    BY <1>3, <1>4, QueuePartsNext

(* The first page is the set's beginning, PageSize long or all there is.    *)
LEMMA FirstPageIs ==
    ASSUME NEW S, failedSet \in Seq(S)
    PROVE  /\ FirstPage \in Seq(S)
           /\ Len(FirstPage) = PageSize \/ FirstPage = failedSet
           /\ ToSet(FirstPage) \subseteq Failed
           /\ Distinct(failedSet) => Distinct(FirstPage)
<1> DEFINE n == Len(failedSet)
           m == Min({PageSize, n})
<1>1. n \in Nat /\ DOMAIN failedSet = 1..n
    OBVIOUS
<1> HIDE DEF n
<1>2. m \in Nat /\ m <= n /\ (m = PageSize \/ m = n)
    <2>1. \E x \in {PageSize, n} : \A y \in {PageSize, n} : x <= y
        BY <1>1, PageSizeAssumption
    <2>2. m \in {PageSize, n} /\ \A y \in {PageSize, n} : m <= y
        BY <2>1 DEF Min, m
    <2> QED
        BY <1>1, <2>2, PageSizeAssumption
<1> HIDE DEF m
<1>3. /\ FirstPage \in Seq(S)
      /\ Len(FirstPage) = m
      /\ DOMAIN FirstPage = 1..m
      /\ \A i \in 1..m : FirstPage[i] = failedSet[i]
    <2>1. FirstPage = SubSeq(failedSet, 1, m)
        BY DEF FirstPage, m, n
    <2>2. \A i \in 1..m : i \in 1..n
        BY <1>1, <1>2
    <2>3. SubSeq(failedSet, 1, m) = [i \in 1..m |-> failedSet[i]]
        BY <1>1, <1>2, <2>2
    <2>4. [i \in 1..m |-> failedSet[i]] \in Seq(S)
        BY <1>1, <1>2, <2>2
    <2> QED
        BY <1>2, <2>1, <2>3, <2>4
<1>4. \A i \in 1..m : i \in 1..n
    BY <1>1, <1>2
<1>5. m = n => FirstPage = failedSet
    BY <1>1, <1>3 DEF n
<1>6. ToSet(FirstPage) \subseteq Failed
    BY <1>1, <1>3, <1>4 DEF ToSet, Failed
<1>7. Distinct(failedSet) => Distinct(FirstPage)
    BY <1>1, <1>3, <1>4 DEF Distinct
<1> QED
    BY <1>2, <1>3, <1>5, <1>6, <1>7

(* What a read of the first page leaves to retry.                           *)
LEMMA FreshIs ==
    ASSUME QueueInv
    PROVE  /\ Fresh \in Seq(Job)
           /\ ToSet(Fresh) = ToSet(FirstPage) \ seen
<1>1. failedSet \in Seq(Job)
    BY DEF QueueInv, QueueTypeOK
<1>2. FirstPage \in Seq(Job)
    BY <1>1, FirstPageIs
<1> QED
    BY <1>2, WithoutKeeps DEF Fresh

LEMMA ReadsKeeps ==
    ASSUME QueueInv, WalkReads
    PROVE  QueueInv'
<1>1. JobsInv /\ WalkInv
    BY QueueParts
<1>2. Failed' = Failed
    BY DEF WalkReads, jobVars, Failed
<1>3. JobsInv'
    BY <1>1, <1>2 DEF JobsInv, WalkReads, jobVars, Distinct
<1>4. CASE Fresh = <<>>
    BY <1>1, <1>2, <1>3, <1>4, QueuePartsNext DEF WalkInv, WalkReads, WalkOver
<1>5. CASE Fresh # <<>>
    <2>1. walk' = "retry" /\ page' = Fresh /\ UNCHANGED <<seen, owed>>
        BY <1>5 DEF WalkReads
    <2>2. WalkInv'
        BY <1>1, <1>2, <1>5, <2>1, FreshIs DEF WalkInv
    <2> QED
        BY <1>3, <2>2, QueuePartsNext
<1> QED
    BY <1>4, <1>5

LEMMA RetriesKeeps ==
    ASSUME QueueInv, WalkRetries
    PROVE  QueueInv'
<1> DEFINE j == Head(page)
<1>1. JobsInv' /\ Failed' = Failed \ {j} /\ owed' = owed \ {j} /\ j \in Job
    BY RetriedKeeps DEF WalkRetries
<1>2. WalkInv
    BY QueueParts
<1>3. /\ seen' = seen \union {j}
      /\ page' = Tail(page)
      /\ walk' = IF Tail(page) = <<>> THEN "read" ELSE "retry"
      /\ walk = "retry"
    BY DEF WalkRetries
<1>4. Tail(page) \in Seq(Job)
    BY <1>2, <1>3 DEF WalkInv
<1> HIDE DEF j
<1>5. WalkInv'
    BY <1>1, <1>2, <1>3, <1>4 DEF WalkInv
<1> QED
    BY <1>1, <1>5, QueuePartsNext

LEMMA ThrowsKeeps ==
    ASSUME QueueInv, WalkThrows
    PROVE  QueueInv'
<1>1. JobsInv /\ WalkInv
    BY QueueParts
<1>2. Failed' = Failed
    BY DEF WalkThrows, jobVars, Failed
<1>3. JobsInv'
    BY <1>1, <1>2 DEF JobsInv, WalkThrows, jobVars, Distinct
<1>4. WalkInv'
    BY <1>1, <1>2 DEF WalkInv, WalkThrows, WalkOver
<1> QED
    BY <1>3, <1>4, QueuePartsNext

LEMMA QueueSame ==
    ASSUME QueueInv, UNCHANGED queueVars
    PROVE  QueueInv'
<1>1. JobsInv /\ WalkInv
    BY QueueParts
<1>2. Failed' = Failed
    BY DEF queueVars, jobVars, Failed
<1>3. JobsInv' /\ WalkInv'
    BY <1>1, <1>2 DEF JobsInv, WalkInv, queueVars, jobVars, walkVars, Distinct
<1> QED
    BY <1>3, QueuePartsNext

(* Where a walk returns: everything on the first page was retried; if that  *)
(* is all of the set, nothing is owed, and otherwise it is a full page.     *)
LEMMA WalkReturns ==
    ASSUME QueueInv, walk = "read", walk' = "idle", WalkReads
    PROVE  owed = {} \/ PageSize <= Cardinality(seen \intersect Failed)
<1>1. JobsInv /\ WalkInv
    BY QueueParts
<1>2. Fresh = <<>>
    BY DEF WalkReads
<1>3. ToSet(FirstPage) \subseteq seen
    <2>1. ToSet(Fresh) = {}
        BY <1>2 DEF ToSet
    <2> QED
        BY <2>1, FreshIs
<1>4. /\ FirstPage \in Seq(Job)
      /\ Distinct(FirstPage)
      /\ ToSet(FirstPage) \subseteq Failed
      /\ Len(FirstPage) = PageSize \/ FirstPage = failedSet
    BY <1>1, FirstPageIs DEF JobsInv
<1>5. CASE FirstPage = failedSet
    <2>1. Failed \subseteq seen
        BY <1>3, <1>5 DEF Failed
    <2> QED
        BY <1>1, <2>1 DEF WalkInv
<1>6. CASE Len(FirstPage) = PageSize
    <2>1. IsFiniteSet(ToSet(FirstPage)) /\ Cardinality(ToSet(FirstPage)) = PageSize
        BY <1>4, <1>6, CountDistinct
    <2>2. IsFiniteSet(Failed)
        BY <1>1, CountDistinct DEF JobsInv, Failed
    <2>3. ToSet(FirstPage) \subseteq seen \intersect Failed
        BY <1>3, <1>4
    <2>4. IsFiniteSet(seen \intersect Failed)
        BY <2>2, FS_Subset
    <2> QED
        BY <2>1, <2>3, <2>4, FS_Subset
<1> QED
    BY <1>4, <1>5, <1>6

-----------------------------------------------------------------------------
(* The types of requests, imports and faults.                               *)
RestTypeOK ==
    /\ pc \in [Request -> Step]
    /\ from \in [Request -> Form \union {Unread}]
    /\ answer \in [Request -> {"none", "accepted", "invalid", "conflict", "error"}]
    /\ disk \in SUBSET Request
    /\ job \in [Request -> Status]
    /\ leased \in SUBSET Request
    /\ failures \in [Request -> Nat]
    /\ down \in BOOLEAN
    /\ outages \in 0..MaxOutages
    /\ faults \in 0..MaxFaults

TInv == QueueInv /\ RestTypeOK

LEMMA TInvTypes == TInv => TypeOK
BY DEF TInv, QueueInv, RestTypeOK, TypeOK, Step, Status

LEMMA InitTypes == Init => TInv
<1> SUFFICES ASSUME Init PROVE TInv
    OBVIOUS
<1>1. failedSet \in Seq(Stale) /\ Distinct(failedSet) /\ Failed = Stale
    BY StaleAssumption, SetToSeqIs DEF Init, Failed
<1>2. failedSet \in Seq(Job)
    <2>1. Stale \subseteq Job
        BY JobAssumption
    <2> QED
        BY <1>1, <2>1
<1>3. JobsInv
    BY <1>1, <1>2, AttemptsAssumption DEF JobsInv, Init, QueueInit
<1>4. WalkInv
    BY DEF WalkInv, Init, QueueInit
<1>5. RestTypeOK
    <2>1. down \in BOOLEAN
        BY DEF Init
    <2>2. outages \in 0..MaxOutages /\ faults \in 0..MaxFaults
        BY LimitsAssumption DEF Init
    <2> QED
        BY <2>1, <2>2 DEF RestTypeOK, Init, Step, Status
<1> QED
    BY <1>3, <1>4, <1>5, QueueParts DEF TInv

LEMMA AJobOf ==
    ASSUME NEW r \in Request, NEW j \in JobsOf(r)
    PROVE  j \in Job
BY JobAssumption DEF JobsOf

LEMMA PublishChunkKeeps ==
    ASSUME QueueInv, NEW r \in Request, PublishChunk(r)
    PROVE  QueueInv'
BY PublishKeeps, AJobOf DEF PublishChunk

LEMMA AsksTypes ==
    ASSUME TInv, NEW r \in Request, Asks(r)
    PROVE  TInv'
<1> USE DEF TInv
<1>1. QueueInv'
    <2>1. UNCHANGED queueVars \/ PublishChunk(r)
        BY DEF Asks, Upload, RefuseUpload, RefuseNoVendor, ReadFile, InsertJob,
               InsertRaises, Discard, EnqueueChunk, EnqueueFails, Breaks
    <2> QED
        BY <2>1, QueueSame, PublishChunkKeeps
<1> USE DEF RestTypeOK, Step, Status, Goes, Answers, importVars, faultVars
<1>2. CASE Upload(r) \/ RefuseUpload(r) \/ RefuseNoVendor(r) \/ Discard(r)
    BY <1>1, <1>2 DEF Upload, RefuseUpload, RefuseNoVendor, Discard
<1>3. CASE ReadFile(r)
    BY <1>1, <1>3 DEF ReadFile
<1>4. CASE InsertJob(r)
    BY <1>1, <1>4 DEF InsertJob, Inserted
<1>5. CASE InsertRaises(r)
    <2>1. /\ job' = job \/ job' = [job EXCEPT ![r] = "running"]
          /\ UNCHANGED <<leased, failures, disk, from, outages, down>>
          /\ faults' = faults \/ (faults < MaxFaults /\ faults' = faults + 1)
          /\ Answers(r, "error")
        BY <1>5 DEF InsertRaises, Inserted, KeepsFile, Fault
    <2> QED
        BY <1>1, <2>1, LimitsAssumption
<1>6. CASE EnqueueChunk(r)
    BY <1>1, <1>6 DEF EnqueueChunk
<1>7. CASE EnqueueFails(r)
    BY <1>1, <1>7, LimitsAssumption DEF EnqueueFails, KeepsFile, Fault
<1>8. CASE Breaks(r)
    BY <1>1, <1>8, LimitsAssumption DEF Breaks, Fault
<1> QED
    BY <1>2, <1>3, <1>4, <1>5, <1>6, <1>7, <1>8 DEF Asks

LEMMA SettleTypes ==
    ASSUME job \in [Request -> Status], NEW r, NEW status \in Status, Settle(r, status)
    PROVE  job' \in [Request -> Status]
BY DEF Settle

LEMMA WorkerTypes ==
    ASSUME TInv, NEW r \in Request, NEW j \in JobsOf(r), Starts(r, j) \/ Works(r, j)
    PROVE  TInv'
<1> USE DEF TInv
<1>1. CASE ClaimChunk(r, j)
    BY <1>1, RunKeeps DEF ClaimChunk, RestTypeOK, requestVars, faultVars
<1>2. CASE RefuseChunk(r, j)
    BY <1>2, RunKeeps DEF RefuseChunk, RestTypeOK, requestVars, importVars, faultVars
<1>3. CASE ImportChunk(r, j)
    <2>1. QueueInv'
        BY <1>3, RunKeeps DEF ImportChunk
    <2>2. job' \in [Request -> Status]
        BY <1>3, SettleTypes DEF ImportChunk, RestTypeOK, Status
    <2> QED
        BY <1>3, <2>1, <2>2 DEF ImportChunk, RestTypeOK, requestVars, faultVars
<1>4. CASE ChunkRaises(r, j)
    <2>1. QueueInv'
        BY <1>4, RaisesKeeps DEF ChunkRaises
    <2>2. job' \in [Request -> Status]
        <3>1. UNCHANGED job \/ Settle(r, "failed")
            BY <1>4 DEF ChunkRaises
        <3> QED
            BY <3>1, SettleTypes DEF RestTypeOK, Status
    <2>3. failures' \in [Request -> Nat]
        BY <1>4 DEF ChunkRaises, RestTypeOK
    <2> QED
        BY <1>4, <2>1, <2>2, <2>3 DEF ChunkRaises, RestTypeOK, requestVars, faultVars
<1> QED
    BY <1>1, <1>2, <1>3, <1>4 DEF Starts, Works

LEMMA StepTypes == TInv /\ [Next]_vars => TInv'
<1> SUFFICES ASSUME TInv, [Next]_vars PROVE TInv'
    OBVIOUS
<1>1. ASSUME NEW r \in Request, Asks(r) \/ LeaseExpires(r) \/ Sweep(r)
      PROVE  TInv'
    <2>1. CASE Asks(r)
        BY <2>1, AsksTypes
    <2>2. CASE LeaseExpires(r)
        BY <2>2, QueueSame DEF LeaseExpires, TInv, RestTypeOK, requestVars, faultVars
    <2>3. CASE SweepSettles(r)
        <3>1. job' \in [Request -> Status]
            BY <2>3, SettleTypes DEF SweepSettles, TInv, RestTypeOK, Status
        <3> QED
            BY <2>3, <3>1, QueueSame DEF SweepSettles, TInv, RestTypeOK, requestVars, faultVars
    <2>4. CASE SweepEnqueues(r)
        BY <2>4, PublishChunkKeeps
        DEF SweepEnqueues, TInv, RestTypeOK, requestVars, importVars, faultVars
    <2> QED
        BY <1>1, <2>1, <2>2, <2>3, <2>4 DEF Sweep
<1>2. ASSUME NEW r \in Request, NEW j \in JobsOf(r), Starts(r, j) \/ Works(r, j)
      PROVE  TInv'
    BY <1>2, WorkerTypes
<1>3. CASE (\E j \in Job : JobRaises(j)) \/ Operator \/ RetryFailed
    <2>1. QueueInv'
        <3>1. CASE \E j \in Job : JobRaises(j)
            BY <3>1, RaisesKeeps DEF JobRaises, TInv
        <3>2. CASE Operator
            BY <3>2, BeginsKeeps, DashboardKeeps DEF Operator, TInv
        <3>3. CASE RetryFailed
            BY <3>3, ReadsKeeps, RetriesKeeps, ThrowsKeeps DEF RetryFailed, WalkStep, TInv
        <3> QED
            BY <1>3, <3>1, <3>2, <3>3
    <2>2. UNCHANGED <<requestVars, importVars, faultVars>>
        BY <1>3 DEF JobRaises, Operator, RetryFailed
    <2> QED
        BY <2>1, <2>2 DEF TInv, RestTypeOK, requestVars, importVars, faultVars
<1>4. CASE Outage \/ Recovers
    <2>1. /\ UNCHANGED <<queueVars, requestVars, importVars, faults>>
          /\ down' \in BOOLEAN
        BY <1>4 DEF Outage, Recovers
    <2>2. outages' \in 0..MaxOutages
        BY <1>4, LimitsAssumption DEF Outage, Recovers, TInv, RestTypeOK
    <2> QED
        BY <2>1, <2>2, QueueSame DEF TInv, RestTypeOK, requestVars, importVars
<1>5. CASE UNCHANGED vars
    BY <1>5, QueueSame DEF vars, TInv, RestTypeOK, requestVars, importVars, faultVars
<1> QED
    BY <1>1, <1>2, <1>3, <1>4, <1>5 DEF Next

(* The queue's, the requests' and the imports' variables keep their types;  *)
(* in particular a job is in the failed set at most once, although a walk,  *)
(* the dashboard and the workers move it in and out (EventQueue).           *)
THEOREM TypeCorrect == Spec => []TypeOK
BY InitTypes, StepTypes, TInvTypes, PTL DEF Spec

(* A walk that returns has retried all it found failed when it began, or a  *)
(* full page of what it retried failed again and stands in front: for any   *)
(* page size, any jobs, whatever workers and dashboard do (retryFailed).    *)
THEOREM WalkTakesAll == Spec => WalkTakesAllButBehindAFullPage
<1>1. ASSUME TInv, [Next]_vars
      PROVE  [walk = "read" /\ walk' = "idle" =>
                 owed = {} \/ PageSize <= Cardinality(seen \intersect Failed)]_queueVars
    <2>1. SUFFICES ASSUME walk = "read", walk' = "idle"
                   PROVE  owed = {} \/ PageSize <= Cardinality(seen \intersect Failed)
        OBVIOUS
    <2>2. WalkReads
        <3>1. walk' # walk
            BY <2>1
        <3>2. CASE Operator
            BY <2>1, <3>1, <3>2
            DEF Operator, WalkBegins, DashboardRetries, walkVars
        <3>3. CASE RetryFailed
            BY <2>1, <3>3 DEF RetryFailed, WalkStep, WalkRetries, WalkThrows, WalkOver
        <3>4. CASE ~(Operator \/ RetryFailed)
            <4>1. UNCHANGED walkVars
                BY <1>1, <3>4
                DEF Next, vars, queueVars, Asks, LeaseExpires, Sweep, Starts, Works, JobRaises,
                    Outage, Recovers, Upload, RefuseUpload, RefuseNoVendor, ReadFile,
                    InsertJob, InsertRaises, Discard, EnqueueChunk, EnqueueFails, Breaks,
                    PublishChunk, ClaimChunk, RefuseChunk, ImportChunk, ChunkRaises,
                    SweepSettles, SweepEnqueues
            <4> QED
                BY <3>1, <4>1 DEF walkVars
        <3> QED
            BY <3>2, <3>3, <3>4
    <2> QED
        BY <1>1, <2>1, <2>2, WalkReturns DEF TInv
<1> QED
    BY <1>1, InitTypes, StepTypes, PTL DEF Spec, WalkTakesAllButBehindAFullPage
=============================================================================
