------------------------------ MODULE ReadModel ------------------------------
(***************************************************************************)
(* The storefront's read model: one Redis entry per product, a sorted set  *)
(* per category and one of every product, all derived from PostgreSQL.     *)
(* Every write is a recompute: read the rows of a batch of products, stamp *)
(* the batch with PostgreSQL's clock, and put each product's entry in      *)
(* place with a Lua compare-and-set on that stamp.  The workers of the     *)
(* products queue recompute what an announcement names; a driver (the boot *)
(* rebuild, an asked-for rebuild, the reconciler's drift check) recomputes *)
(* page by page with the same handler.                                     *)
(*                                                                         *)
(* What a recompute of a product would yield is a version, raised by       *)
(* everything that changes it: a write to its row, a promotion assigned or *)
(* cancelled, a promotion's window opening or closing.  The price, which   *)
(* is the score in the sorted sets, is the version.                        *)
(***************************************************************************)
EXTENDS Naturals, FiniteSets

CONSTANTS
    Products,      \* product ids are 1..Products, in id order
    Category,
    NoCategory,    \* no row: not inserted yet, or deleted; the tombstone's category
    None,          \* no token, entry or score in Redis
    Handler,       \* workers of the products queue
    Driver,        \* processes that rebuild or check for drift
    PageSize,      \* products of a keyset page
    Lead,          \* ticks a batch's stamp may lead the snapshot it labels by
    MaxClock, MaxVersion, MaxFaults, MaxFlushes   \* bounds

Product == 1..Products
Proc == Handler \union Driver

ASSUME SizesAssumption ==
    /\ Products \in Nat /\ PageSize \in Nat \ {0} /\ Lead \in Nat
    /\ MaxClock \in Nat /\ MaxVersion \in Nat
    /\ MaxFaults \in Nat /\ MaxFlushes \in Nat
ASSUME DistinctAssumption ==
    /\ NoCategory \notin Category
    /\ None \notin [category : Category \union {NoCategory}, at : Nat]
    /\ None \notin [category : Category, version : Nat, at : Nat, readAt : Nat]
    /\ None \notin Nat
ASSUME ProcAssumption == Handler \intersect Driver = {}

VARIABLES
    \* PostgreSQL
    rows,        \* each product's category and version
    deleted,     \* ids deleted; an identity column never hands one out again
    clock,       \* clock_timestamp(), in microseconds
    changed,     \* history: the instant of each product's last change
    \* the writers' side: committed changes whose announcement is still to be published
    owed,
    \* the products queue: waiting product.upserted announcements, as sets of ids
    queue,
    \* Redis
    token,       \* readmodel:source-read-at
    entry,       \* product:{id}; readAt is history: the instant of the snapshot
    scored,      \* category:{c}, the score of each member
    listed,      \* products:all
    ready,       \* readmodel:ready
    \* each process's recompute in progress
    pc, ids, snap, readAt, stamp, todo,
    \* each driver's task
    task, target, after, handled, left, expected, unchecked,
    \* history: the rows there when the driver's full rebuild began
    atStart,
    faults, flushes

pgVars     == <<rows, deleted, clock, changed>>
redisVars  == <<token, entry, scored, listed, ready>>
procVars   == <<pc, ids, snap, readAt, stamp, todo>>
taskVars   == <<task, target, after, handled, left, expected, unchecked, atStart>>
boundVars  == <<faults, flushes>>
vars == <<pgVars, owed, queue, redisVars, procVars, taskVars, boundVars>>

Row == [category : Category \union {NoCategory}, version : 0..MaxVersion]
NoRow == [category |-> NoCategory, version |-> 0]
Live(p) == rows[p].category # NoCategory
NoCounts == [c \in Category |-> 0]

Init ==
    /\ rows = [p \in Product |-> NoRow]
    /\ deleted = {}
    /\ clock = 1
    /\ changed = [p \in Product |-> 0]
    /\ owed = {}
    /\ queue = {}
    /\ token = [p \in Product |-> None]
    /\ entry = [p \in Product |-> None]
    /\ scored = [c \in Category |-> [p \in Product |-> None]]
    /\ listed = [p \in Product |-> None]
    /\ ready = FALSE
    /\ pc = [x \in Proc |-> "idle"]
    /\ ids = [x \in Proc |-> {}]
    /\ snap = [x \in Proc |-> [p \in Product |-> NoRow]]
    /\ readAt = [x \in Proc |-> 0]
    /\ stamp = [x \in Proc |-> 0]
    /\ todo = [x \in Proc |-> {}]
    /\ task = [d \in Driver |-> "idle"]
    /\ target = [d \in Driver |-> NoCategory]
    /\ after = [d \in Driver |-> 0]
    /\ handled = [d \in Driver |-> {}]
    /\ left = [d \in Driver |-> {}]
    /\ expected = [d \in Driver |-> NoCounts]
    /\ unchecked = [d \in Driver |-> {}]
    /\ atStart = [d \in Driver |-> {}]
    /\ faults = 0
    /\ flushes = 0

(* Whatever the code is not built to see happen counts as a fault, and      *)
(* MaxFaults bounds them together.                                          *)
Fault == faults < MaxFaults /\ faults' = faults + 1

(***************************************************************************)
(* PostgreSQL changes under the read model, and the change is announced    *)
(* after its commit: later, batched with others, or never.                 *)
(***************************************************************************)
Tick ==
    /\ clock < MaxClock
    /\ \A x \in Proc : pc[x] = "stamp" => clock < readAt[x] + Lead
    /\ clock' = clock + 1
    /\ UNCHANGED <<rows, deleted, changed, owed, queue, redisVars, procVars, taskVars, boundVars>>

(* A product is inserted, changed, or moved to another category.            *)
Commit(p, c) ==
    /\ p \notin deleted
    /\ rows[p].version < MaxVersion
    /\ changed' = [changed EXCEPT ![p] = clock]
    /\ rows' = [rows EXCEPT ![p] = [category |-> c, version |-> @.version + 1]]
    /\ owed' = owed \union {p}
    /\ UNCHANGED <<deleted, clock, queue, redisVars, procVars, taskVars, boundVars>>

(* A row is deleted by hand: no code does it and nothing announces it.  It  *)
(* counts among the faults.                                                 *)
Delete(p) ==
    /\ Live(p)
    /\ Fault
    /\ rows' = [rows EXCEPT ![p].category = NoCategory]
    /\ deleted' = deleted \union {p}
    /\ changed' = [changed EXCEPT ![p] = clock]
    /\ UNCHANGED <<clock, owed, queue, redisVars, procVars, taskVars, flushes>>

Announce(S) ==
    /\ S # {} /\ S \subseteq owed
    /\ owed' = owed \ S
    /\ queue' = queue \union {S}
    /\ UNCHANGED <<pgVars, redisVars, procVars, taskVars, boundVars>>

(* The publish fails, or the writer dies between its commit and its publish. *)
LoseAnnouncement(p) ==
    /\ p \in owed
    /\ Fault
    /\ owed' = owed \ {p}
    /\ UNCHANGED <<pgVars, queue, redisVars, procVars, taskVars, flushes>>

(***************************************************************************)
(* The Lua scripts.  A stamp not newer than the stored one is refused.     *)
(***************************************************************************)
\* Mutants: every write applies; the comparison is turned round.
Newer_Always(p, at) == TRUE
Newer_Swapped(p, at) == IF token[p] = None THEN TRUE ELSE token[p].at > at

Newer(p, at) == IF token[p] = None THEN TRUE ELSE token[p].at < at

WasCategory(p) == IF token[p] = None THEN NoCategory ELSE token[p].category

\* Mutant: the set the product is leaving keeps it.
Moved_NoRemove(p, c, score) ==
    scored' = [b \in Category |-> IF b = c THEN [scored[b] EXCEPT ![p] = score] ELSE scored[b]]

(* The category sets once p has left the one its token names for c.         *)
Moved(p, c, score) ==
    scored' = [b \in Category |->
        IF b = c THEN [scored[b] EXCEPT ![p] = score]
        ELSE IF b = WasCategory(p) THEN [scored[b] EXCEPT ![p] = None]
        ELSE scored[b]]

WriteEntry(p, row, at, read) ==
    /\ Moved(p, row.category, row.version)
    /\ token' = [token EXCEPT ![p] = [category |-> row.category, at |-> at]]
    /\ entry' = [entry EXCEPT ![p] =
           [category |-> row.category, version |-> row.version, at |-> at, readAt |-> read]]
    /\ listed' = [listed EXCEPT ![p] = row.version]

(* A removal keeps the token: an absent token means never written.          *)
RemoveEntry(p, at) ==
    /\ Moved(p, NoCategory, None)
    /\ token' = [token EXCEPT ![p] = [category |-> NoCategory, at |-> at]]
    /\ entry' = [entry EXCEPT ![p] = None]
    /\ listed' = [listed EXCEPT ![p] = None]

(***************************************************************************)
(* A recompute of ids[x]: one statement reads the rows of the batch at its *)
(* snapshot and takes the clock when the first row is emitted (or, when    *)
(* there is none, in a statement of its own); then one script per product, *)
(* entries first and removals after, other clients' scripts in between.    *)
(***************************************************************************)
ReadRows(x) ==
    /\ pc[x] = "read"
    /\ snap' = [snap EXCEPT ![x] = [p \in Product |-> IF p \in ids[x] THEN rows[p] ELSE NoRow]]
    /\ readAt' = [readAt EXCEPT ![x] = clock]
    /\ pc' = [pc EXCEPT ![x] = "stamp"]
    /\ UNCHANGED <<pgVars, owed, queue, redisVars, ids, stamp, todo, taskVars, boundVars>>

\* Mutant: the stamp is of the worker's own clock, which may be behind.
TakeStamp_NodeClock(x) ==
    /\ pc[x] = "stamp"
    /\ \E own \in {clock - 1, clock} : stamp' = [stamp EXCEPT ![x] = own]
    /\ todo' = [todo EXCEPT ![x] = ids[x]]
    /\ pc' = [pc EXCEPT ![x] = "write"]
    /\ UNCHANGED <<pgVars, owed, queue, redisVars, ids, snap, readAt, taskVars, boundVars>>

TakeStamp(x) ==
    /\ pc[x] = "stamp"
    /\ stamp' = [stamp EXCEPT ![x] = clock]
    /\ todo' = [todo EXCEPT ![x] = ids[x]]
    /\ pc' = [pc EXCEPT ![x] = "write"]
    /\ UNCHANGED <<pgVars, owed, queue, redisVars, ids, snap, readAt, taskVars, boundVars>>

\* Mutant: a product whose row is gone is written like the others.
Found_All(x) == todo[x]

Found(x) == {p \in todo[x] : snap[x][p].category # NoCategory}

Write(x, p) ==
    /\ pc[x] = "write"
    /\ p \in Found(x)
    /\ IF Newer(p, stamp[x])
         THEN WriteEntry(p, snap[x][p], stamp[x], readAt[x])
         ELSE UNCHANGED <<token, entry, scored, listed>>
    /\ todo' = [todo EXCEPT ![x] = @ \ {p}]
    /\ UNCHANGED <<pgVars, owed, queue, ready, pc, ids, snap, readAt, stamp, taskVars, boundVars>>

Remove(x, p) ==
    /\ pc[x] = "write"
    /\ Found(x) = {}
    /\ p \in todo[x]
    /\ IF Newer(p, stamp[x])
         THEN RemoveEntry(p, stamp[x])
         ELSE UNCHANGED <<token, entry, scored, listed>>
    /\ todo' = [todo EXCEPT ![x] = @ \ {p}]
    /\ UNCHANGED <<pgVars, owed, queue, ready, pc, ids, snap, readAt, stamp, taskVars, boundVars>>

Begins(x, S) ==
    /\ pc' = [pc EXCEPT ![x] = "read"]
    /\ ids' = [ids EXCEPT ![x] = S]
    /\ UNCHANGED <<snap, readAt, stamp, todo>>

Ends(x) ==
    /\ pc' = [pc EXCEPT ![x] = "idle"]
    /\ ids' = [ids EXCEPT ![x] = {}]
    /\ snap' = [snap EXCEPT ![x] = [p \in Product |-> NoRow]]
    /\ readAt' = [readAt EXCEPT ![x] = 0]
    /\ stamp' = [stamp EXCEPT ![x] = 0]
    /\ todo' = [todo EXCEPT ![x] = {}]

Recomputed(x) ==
    /\ pc[x] = "write"
    /\ todo[x] = {}
    /\ Ends(x)
    /\ UNCHANGED <<pgVars, owed, queue, redisVars, taskVars, boundVars>>

(* A worker takes an announcement.                                          *)
Take(h, S) ==
    /\ pc[h] = "idle"
    /\ S \in queue
    /\ queue' = queue \ {S}
    /\ Begins(h, S)
    /\ UNCHANGED <<pgVars, owed, redisVars, taskVars, boundVars>>

(* The recompute fails part-way or its worker dies; the queue runs the job  *)
(* again, or keeps it in the failed set once its attempts are spent.        *)
HandlerFails(h) ==
    /\ pc[h] # "idle"
    /\ Fault
    /\ queue' \in {queue, queue \union {ids[h]}}
    /\ Ends(h)
    /\ UNCHANGED <<pgVars, owed, redisVars, taskVars, flushes>>

(***************************************************************************)
(* The drivers.  "all": keyset pages of every product; "scan": the entries *)
(* with nothing behind them; "category" and "left": one category, as       *)
(* PostgreSQL has it and then as the sorted set lists it; "drift": compare *)
(* the categories' counts and rebuild those that differ.                   *)
(***************************************************************************)
\* Mutant: the keyset comparison is off by one.
Beyond_Skips(S, low) == {p \in S : p > low + 1}

Beyond(S, low) == {p \in S : p > low}

(* order by id limit PageSize: a set of one page, or of none.               *)
Pages(S, low) ==
    LET beyond == Beyond(S, low)
    IN  {P \in SUBSET beyond :
            /\ Cardinality(P) = IF Cardinality(beyond) < PageSize
                                  THEN Cardinality(beyond) ELSE PageSize
            /\ \A p \in P, q \in beyond \ P : p < q}

Largest(S) == CHOOSE p \in S : \A q \in S : q <= p

StartsAll(d) ==
    /\ task[d] = "idle"
    /\ task' = [task EXCEPT ![d] = "all"]
    /\ after' = [after EXCEPT ![d] = 0]
    /\ atStart' = [atStart EXCEPT ![d] = {p \in Product : Live(p)}]
    /\ UNCHANGED <<pgVars, owed, queue, redisVars, procVars, target, handled, left,
                   expected, unchecked>>

(* rebuildUnlessReady, on boot.                                             *)
RebuildOnBoot(d) ==
    /\ ~ready
    /\ StartsAll(d)
    /\ UNCHANGED boundVars

StartsCategory(d, c) ==
    /\ task' = [task EXCEPT ![d] = "category"]
    /\ target' = [target EXCEPT ![d] = c]
    /\ after' = [after EXCEPT ![d] = 0]
    /\ handled' = [handled EXCEPT ![d] = {}]

(* readmodel.rebuild: the same, whether the key is there or not, or one     *)
(* category.  Counted among the faults, to bound them.                      *)
RebuildAsked(d) ==
    /\ Fault
    /\ UNCHANGED flushes
    /\ \/ StartsAll(d)
       \/ /\ task[d] = "idle"
          /\ \E c \in Category : StartsCategory(d, c)
          /\ UNCHANGED <<pgVars, owed, queue, redisVars, procVars, left, expected, unchecked,
                         atStart>>

(* The ids a driver's next page is taken from.                              *)
Source(d) ==
    IF task[d] = "all" THEN {p \in Product : Live(p)}
    ELSE {p \in Product : rows[p].category = target[d]}

NextPage(d, P) ==
    /\ task[d] \in {"all", "category"}
    /\ pc[d] = "idle"
    /\ P # {} /\ P \in Pages(Source(d), after[d])
    /\ Begins(d, P)
    /\ after' = [after EXCEPT ![d] = Largest(P)]
    /\ handled' = [handled EXCEPT ![d] = IF task[d] = "category" THEN @ \union P ELSE @]
    /\ UNCHANGED <<pgVars, owed, queue, redisVars, task, target, left, expected,
                   unchecked, atStart, boundVars>>

LastPage(d) == pc[d] = "idle" /\ Beyond(Source(d), after[d]) = {}

(* SCAN for product:*; a key there throughout the scan is returned by it.   *)
ScanBegins(d) ==
    /\ task[d] = "all"
    /\ LastPage(d)
    /\ task' = [task EXCEPT ![d] = "scan"]
    /\ left' = [left EXCEPT ![d] = {p \in Product : entry[p] # None}]
    /\ UNCHANGED <<pgVars, owed, queue, redisVars, procVars, target, after, handled,
                   expected, unchecked, atStart, boundVars>>

DropOrphans(d, S) ==
    /\ task[d] = "scan"
    /\ pc[d] = "idle"
    /\ S # {} /\ S \subseteq left[d]
    /\ left' = [left EXCEPT ![d] = @ \ S]
    /\ LET orphans == {p \in S : ~Live(p)}
       IN  IF orphans = {} THEN UNCHANGED procVars ELSE Begins(d, orphans)
    /\ UNCHANGED <<pgVars, owed, queue, redisVars, task, target, after, handled, expected,
                   unchecked, atStart, boundVars>>

Publish(d) ==
    /\ task[d] = "scan"
    /\ pc[d] = "idle"
    /\ left[d] = {}
    /\ ready' = TRUE
    /\ task' = [task EXCEPT ![d] = "idle"]
    /\ after' = [after EXCEPT ![d] = 0]
    /\ atStart' = [atStart EXCEPT ![d] = {}]
    /\ UNCHANGED <<pgVars, owed, queue, token, entry, scored, listed, procVars, target,
                   handled, left, expected, unchecked, boundVars>>

Members(c) == {p \in Product : scored[c][p] # None}

(* The second pass of rebuildCategory: the members the first did not write. *)
LeftBegins(d) ==
    /\ task[d] = "category"
    /\ LastPage(d)
    /\ task' = [task EXCEPT ![d] = "left"]
    /\ left' = [left EXCEPT ![d] = Members(target[d]) \ handled[d]]
    /\ UNCHANGED <<pgVars, owed, queue, redisVars, procVars, target, after, handled,
                   expected, unchecked, atStart, boundVars>>

LeftPage(d, P) ==
    /\ task[d] = "left"
    /\ pc[d] = "idle"
    /\ P # {} /\ P \subseteq left[d]
    /\ Cardinality(P) = PageSize \/ (Cardinality(P) < PageSize /\ P = left[d])
    /\ Begins(d, P)
    /\ left' = [left EXCEPT ![d] = @ \ P]
    /\ UNCHANGED <<pgVars, owed, queue, redisVars, task, target, after, handled, expected,
                   unchecked, atStart, boundVars>>

(* Back to the drift check's next category.                                 *)
CategoryRebuilt(d) ==
    /\ task[d] = "left"
    /\ pc[d] = "idle"
    /\ left[d] = {}
    /\ task' = [task EXCEPT ![d] = "drift"]
    /\ target' = [target EXCEPT ![d] = NoCategory]
    /\ after' = [after EXCEPT ![d] = 0]
    /\ handled' = [handled EXCEPT ![d] = {}]
    /\ UNCHANGED <<pgVars, owed, queue, redisVars, procVars, left, expected, unchecked,
                   atStart, boundVars>>

Count(c) == Cardinality({p \in Product : rows[p].category = c})

DriftCheck(d) ==
    /\ task[d] = "idle"
    /\ task' = [task EXCEPT ![d] = "drift"]
    /\ expected' = [expected EXCEPT ![d] = [c \in Category |-> Count(c)]]
    /\ unchecked' = [unchecked EXCEPT ![d] = {c \in Category : Count(c) > 0}]
    /\ UNCHANGED <<pgVars, owed, queue, redisVars, procVars, target, after, handled, left,
                   atStart, boundVars>>

\* Mutant: only a category that lists too many is rebuilt.
Drifted_TooMany(d, c) == Cardinality(Members(c)) > expected[d][c]

Drifted(d, c) == Cardinality(Members(c)) # expected[d][c]

Compare(d, c) ==
    /\ task[d] = "drift"
    /\ c \in unchecked[d]
    /\ unchecked' = [unchecked EXCEPT ![d] = @ \ {c}]
    /\ IF Drifted(d, c)
         THEN StartsCategory(d, c)
         ELSE UNCHANGED <<task, target, after, handled>>
    /\ UNCHANGED <<pgVars, owed, queue, redisVars, procVars, left, expected, atStart, boundVars>>

DriftChecked(d) ==
    /\ task[d] = "drift"
    /\ unchecked[d] = {}
    /\ task' = [task EXCEPT ![d] = "idle"]
    /\ expected' = [expected EXCEPT ![d] = NoCounts]
    /\ UNCHANGED <<pgVars, owed, queue, redisVars, procVars, target, after, handled, left,
                   unchecked, atStart, boundVars>>

(* The driver's process dies, or a read or a write of it raises: its task   *)
(* ends where it stands.                                                    *)
DriverFails(d) ==
    /\ task[d] # "idle"
    /\ Fault
    /\ task' = [task EXCEPT ![d] = "idle"]
    /\ target' = [target EXCEPT ![d] = NoCategory]
    /\ after' = [after EXCEPT ![d] = 0]
    /\ handled' = [handled EXCEPT ![d] = {}]
    /\ left' = [left EXCEPT ![d] = {}]
    /\ expected' = [expected EXCEPT ![d] = NoCounts]
    /\ unchecked' = [unchecked EXCEPT ![d] = {}]
    /\ atStart' = [atStart EXCEPT ![d] = {}]
    /\ Ends(d)
    /\ UNCHANGED <<pgVars, owed, queue, redisVars, flushes>>

(* The read-model database is flushed: tokens, entries, sets and the key.   *)
Flush ==
    /\ flushes < MaxFlushes
    /\ Fault
    /\ flushes' = flushes + 1
    /\ token' = [p \in Product |-> None]
    /\ entry' = [p \in Product |-> None]
    /\ scored' = [c \in Category |-> [p \in Product |-> None]]
    /\ listed' = [p \in Product |-> None]
    /\ ready' = FALSE
    /\ UNCHANGED <<pgVars, owed, queue, procVars, taskVars>>

Writers ==
    \/ \E p \in Product : Delete(p) \/ LoseAnnouncement(p)
    \/ \E p \in Product, c \in Category : Commit(p, c)
    \/ \E S \in SUBSET Product : Announce(S)

Recompute(x) ==
    \/ ReadRows(x)
    \/ TakeStamp(x)
    \/ \E p \in Product : Write(x, p) \/ Remove(x, p)
    \/ Recomputed(x)

Rebuild(d) ==
    \/ \E P \in SUBSET Product : NextPage(d, P) \/ DropOrphans(d, P) \/ LeftPage(d, P)
    \/ ScanBegins(d)
    \/ Publish(d)
    \/ LeftBegins(d)
    \/ CategoryRebuilt(d)
    \/ \E c \in Category : Compare(d, c)
    \/ DriftChecked(d)

Next ==
    \/ Tick
    \/ Writers
    \/ \E x \in Proc : Recompute(x)
    \/ \E h \in Handler : HandlerFails(h) \/ \E S \in SUBSET Product : Take(h, S)
    \/ \E d \in Driver : \/ Rebuild(d) \/ DriftCheck(d)
                         \/ RebuildOnBoot(d) \/ RebuildAsked(d) \/ DriverFails(d)
    \/ Flush

Spec == Init /\ [][Next]_vars

(***************************************************************************)
(* Fairness: an announcement that is not lost is published, a waiting one  *)
(* is taken, a recompute and a driver's task go on, and the reconciler     *)
(* checks for drift every five minutes.  Nothing makes a process boot, an  *)
(* operator ask for a rebuild, or PostgreSQL change.                       *)
(***************************************************************************)
Fairness ==
    /\ WF_vars(\E S \in SUBSET Product : Announce(S))
    /\ \A x \in Proc : WF_vars(Recompute(x))
    /\ \A h \in Handler : WF_vars(\E S \in SUBSET Product : Take(h, S))
    /\ \A d \in Driver : WF_vars(Rebuild(d)) /\ WF_vars(DriftCheck(d))

FairSpec == Spec /\ Fairness

-----------------------------------------------------------------------------
Tokens  == [category : Category \union {NoCategory}, at : Nat]
Entries == [category : Category, version : Nat, at : Nat, readAt : Nat]
Scores  == [Product -> Nat \union {None}]
Tasks   == {"idle", "all", "scan", "category", "left", "drift"}

(* Every variable has its type, in both stores and in every process.        *)
TypeOK ==
    /\ rows \in [Product -> Row]
    /\ deleted \in SUBSET Product
    /\ clock \in Nat /\ changed \in [Product -> Nat]
    /\ owed \in SUBSET Product
    /\ queue \in SUBSET (SUBSET Product)
    /\ token \in [Product -> Tokens \union {None}]
    /\ entry \in [Product -> Entries \union {None}]
    /\ scored \in [Category -> Scores]
    /\ listed \in Scores
    /\ ready \in BOOLEAN
    /\ pc \in [Proc -> {"idle", "read", "stamp", "write"}]
    /\ ids \in [Proc -> SUBSET Product]
    /\ snap \in [Proc -> [Product -> Row]]
    /\ readAt \in [Proc -> Nat]
    /\ stamp \in [Proc -> Nat]
    /\ todo \in [Proc -> SUBSET Product]
    /\ task \in [Driver -> Tasks]
    /\ target \in [Driver -> Category \union {NoCategory}]
    /\ after \in [Driver -> Nat]
    /\ handled \in [Driver -> SUBSET Product]
    /\ left \in [Driver -> SUBSET Product]
    /\ expected \in [Driver -> [Category -> Nat]]
    /\ unchecked \in [Driver -> SUBSET Category]
    /\ atStart \in [Driver -> SUBSET Product]
    /\ faults \in Nat /\ flushes \in Nat

(* A shopper who reads any of it reads the same product: an entry is        *)
(* labelled by its token, listed at its own price in its own category and   *)
(* in products:all and nowhere else; a product without an entry is listed   *)
(* nowhere (the Lua scripts WRITE and REMOVE, under every interleaving).    *)
ListedWhereItBelongs ==
    \A p \in Product :
        IF entry[p] = None
          THEN /\ WasCategory(p) = NoCategory
               /\ listed[p] = None
               /\ \A c \in Category : scored[c][p] = None
          ELSE /\ token[p] = [category |-> entry[p].category, at |-> entry[p].at]
               /\ listed[p] = entry[p].version
               /\ \A c \in Category : scored[c][p] =
                      IF c = entry[p].category THEN entry[p].version ELSE None

(* Older truth replaces newer only out of a recompute whose read, from      *)
(* snapshot to stamp, spans the stamp it beats: two recomputes that read    *)
(* one after the other are never inverted, however late either one writes.  *)
OnlyOverlappingReadsInvert ==
    [][\A p \in Product :
          (entry[p] # None /\ entry'[p] # None) /\ entry'[p].version < entry[p].version =>
                  entry'[p].readAt <= entry[p].at /\ entry[p].at < entry'[p].at]_vars

(* The storefront opens on a whole model: when a full rebuild publishes the *)
(* key, every product that was there when it began, and still is, has its   *)
(* entry (rebuildAll, with handlers and writers running beside it).  A      *)
(* flush in the middle of a rebuild is not noticed by it, and is left to    *)
(* the drift check.                                                         *)
OpensOnAWholeModel ==
    [][\A d \in Driver :
          ready' /\ task[d] = "scan" /\ task'[d] = "idle" /\ flushes = 0 =>
              \A p \in atStart[d] : Live(p) => entry[p] # None]_vars

Fresh(p) ==
    IF Live(p)
      THEN /\ entry[p] # None
           /\ entry[p].version = rows[p].version
           /\ entry[p].category = rows[p].category
      ELSE entry[p] = None

(* An entry whose read has the product's last change between its snapshot   *)
(* and its stamp, or at the same instant as one of them.                    *)
ReadAcrossItsChange(p) ==
    /\ entry[p] # None
    /\ entry[p].readAt <= changed[p] /\ changed[p] <= entry[p].at

(* A recompute that has yet to read p's row, or has read it as it is and    *)
(* has yet to write it.                                                     *)
Brings(x, p) ==
    /\ pc[x] # "idle" /\ p \in ids[x]
    /\ pc[x] # "read" => snap[x][p] = rows[p]
    /\ pc[x] = "write" => p \in todo[x]

(* Who is still to bring p's row to its entry: its writer, a waiting        *)
(* announcement, or a recompute.                                            *)
ToCome(p) ==
    \/ p \in owed
    \/ \E S \in queue : p \in S
    \/ \E x \in Proc : Brings(x, p)

(* As long as nothing is lost, an older price never stands with nobody on   *)
(* the way to replace it: a recompute that is refused, or overwritten by a  *)
(* later stamp, has lost to its own row or to a read across its last        *)
(* change, whichever of several workers and rebuilds wrote when (the        *)
(* compare of both scripts, and the order of announcement and commit).      *)
StaleIsToCome ==
    faults = 0 => \A p \in Product : Fresh(p) \/ ReadAcrossItsChange(p) \/ ToCome(p)

(* When nothing is lost and the changes have stopped, every product's entry *)
(* comes to show its row and stays so, whichever of several workers and     *)
(* rebuilds writes last.  One thing may keep an older price there, and      *)
(* nothing else: the read it is from spans the last change, so its stamp    *)
(* led its snapshot past that change or tied with it.  ADR.md:99 and :102   *)
(* accept that much and no more (the compare of both scripts, and           *)
(* clock_timestamp() in the statement that reads).                          *)
ConvergesButForReadsAcross ==
    [](faults = 0) => <>[](\A p \in Product : Fresh(p) \/ ReadAcrossItsChange(p))

(* Whatever is lost, flushed or cut short, the drift check brings every     *)
(* product back: again and again, every row has an entry                    *)
(* (RepairDriftCommand, rebuildCategory).  Not so beside a deleted row: the *)
(* entry it leaves makes up the count of the one that is missing.           *)
MissingEntriesReturn ==
    []<>(deleted = {} => \A p \in Product : Live(p) => entry[p] # None)
=============================================================================
