---------------------------- MODULE ProductUpsert ----------------------------
(***************************************************************************)
(* The products table as imports write it: upsertMany, one statement per   *)
(* batch, keyed on the SKU and decided by where a row came from in its     *)
(* vendor file.  The chunks of a file are run by different workers, so     *)
(* their batches commit in any order; within a chunk they commit in file   *)
(* order (module ChunkImport).  Imports of different vendors run at the    *)
(* same time and may name the same SKU.                                    *)
(*                                                                         *)
(* A row is its SKU and a value, which stands for name, category, base     *)
(* price, stock quantity and rules version together: the code only asks    *)
(* whether two of these tuples differ.                                     *)
(***************************************************************************)
EXTENDS Naturals

CONSTANTS
    Sku, Value,
    Rejected,     \* a line the parser or the pricing rules reject
    Absent,       \* no product with that SKU
    Api,          \* ingest_job_id is null: created through the API
    Jobs,         \* number of imports; a job's id is its registration order
    Chunks,       \* chunks of a file
    Batches,      \* batches of a chunk
    BatchRows     \* rows of a batch

ASSUME SizesAssumption ==
    Jobs \in Nat /\ Chunks \in Nat /\ Batches \in Nat /\ BatchRows \in Nat
ASSUME DistinctAssumption ==
    /\ Rejected \notin [sku : Sku, value : Value]
    /\ Absent \notin [value : Value, from : {Api} \union ((1..Jobs) \X Nat)]
    /\ Api \notin (1..Jobs) \X Nat

Job    == 1..Jobs
Chunk  == 1..Chunks
Offset == 1..(Chunks * Batches * BatchRows)
Row    == [sku : Sku, value : Value]
Source == Job \X Offset

VARIABLES
    file,       \* the rows of each import's file, by offset
    next,       \* batches of each chunk that have committed
    products,   \* the products table
    created     \* history: the value the API created a product with, if it did

vars == <<file, next, products, created>>

Product == [value : Value, from : {Api} \union Source]

Init ==
    /\ file \in [Job -> [Offset -> Row \union {Rejected}]]
    /\ next = [j \in Job |-> [k \in Chunk |-> 0]]
    /\ products = [s \in Sku |-> Absent]
    /\ created = [s \in Sku |-> Absent]

(* The API's insert: refused by the unique index when the SKU is taken.     *)
CreateProduct(s, v) ==
    /\ products[s] = Absent
    /\ products' = [products EXCEPT ![s] = [value |-> v, from |-> Api]]
    /\ created' = [created EXCEPT ![s] = v]
    /\ UNCHANGED <<file, next>>

\* Mutant: by offset alone, whichever job it belongs to.
Later_OffsetOnly(p, q) == p[2] > q[2]

(* (ingest_job_id, ingest_source_offset) compared as a row.                 *)
Later(p, q) == p[1] > q[1] \/ (p[1] = q[1] /\ p[2] > q[2])

(* The offsets of a chunk's b-th batch, and of its batches before that.     *)
FirstOffset(k, b) == ((k - 1) * Batches + b) * BatchRows + 1
BatchOffsets(k, b) == FirstOffset(k, b)..(FirstOffset(k, b) + BatchRows - 1)

(* In-batch dedupe: the last row of the batch that names the SKU; a set of  *)
(* one offset, or of none.                                                  *)
Winner(j, B, s) ==
    {o \in B : /\ file[j][o] # Rejected /\ file[j][o].sku = s
               /\ \A p \in B : file[j][p] # Rejected /\ file[j][p].sku = s => p <= o}

\* Mutants: the last write wins; the two columns of the provenance swapped.
Overwrites_Always(old, source, value) == old.value # value
Upserted_Swapped(old, source, value) ==
    IF old = Absent \/ Overwrites_Always(old, source, value)
      THEN [value |-> value, from |-> <<source[2], source[1]>>]
      ELSE old

(* setWhere: the source is newer, and something would change.               *)
Overwrites(old, source, value) ==
    /\ old.from = Api \/ Later(source, old.from)
    /\ old.value # value

(* insert ... on conflict do update set ... where.                          *)
Upserted(old, source, value) ==
    IF old = Absent \/ Overwrites(old, source, value)
      THEN [value |-> value, from |-> source]
      ELSE old

UpsertMany(j, B) ==
    products' = [s \in Sku |->
        IF Winner(j, B, s) = {} THEN products[s]
        ELSE LET o == CHOOSE o \in Winner(j, B, s) : TRUE
             IN  Upserted(products[s], <<j, o>>, file[j][o].value)]

(* A worker commits a chunk's next batch.                                   *)
CommitBatch(j, k) ==
    /\ next[j][k] < Batches
    /\ UpsertMany(j, BatchOffsets(k, next[j][k]))
    /\ next' = [next EXCEPT ![j][k] = @ + 1]
    /\ UNCHANGED <<file, created>>

Next ==
    \/ \E s \in Sku, v \in Value : CreateProduct(s, v)
    \/ \E j \in Job, k \in Chunk : CommitBatch(j, k)

Spec == Init /\ [][Next]_vars

-----------------------------------------------------------------------------
(* The table holds rows, a file is never changed under its import, and a    *)
(* chunk never runs past its last batch.                                    *)
TypeOK ==
    /\ file \in [Job -> [Offset -> Row \union {Rejected}]]
    /\ next \in [Job -> [Chunk -> 0..Batches]]
    /\ products \in [Sku -> Product \union {Absent}]
    /\ created \in [Sku -> Value \union {Absent}]

(* The rows naming a SKU that are stored so far.                            *)
Committed(s) ==
    {r \in Source : /\ file[r[1]][r[2]] # Rejected
                    /\ file[r[1]][r[2]].sku = s
                    /\ \E k \in Chunk, b \in 0..(Batches - 1) :
                          b < next[r[1]][k] /\ r[2] \in BatchOffsets(k, b)}

ValueOf(r) == file[r[1]][r[2]].value

(* A product's value is the one its provenance points at: the row of the    *)
(* vendor file it is attributed to, a committed one, or the API's.          *)
ValueMatchesProvenance ==
    \A s \in Sku : products[s] # Absent =>
        IF products[s].from = Api
          THEN products[s].value = created[s]
          ELSE /\ products[s].from \in Committed(s)
               /\ products[s].value = ValueOf(products[s].from)

(* The order of the rows an import is made of: by registration, then by     *)
(* their place in the file.                                                 *)
After(p, q) == p[1] > q[1] \/ (p[1] = q[1] /\ p[2] > q[2])

(* Provenance only moves forward in (job, offset): no late batch takes a    *)
(* product back to an earlier row, nor to the API's value.                  *)
ProvenanceMovesForward ==
    [][\A s \in Sku :
          products[s] # Absent /\ products'[s] # products[s] =>
              /\ products'[s] # Absent
              /\ products'[s].from # Api
              /\ products[s].from = Api \/ After(products'[s].from, products[s].from)]_vars

IsLast(r, S) == r \in S /\ \A q \in S : q = r \/ After(r, q)

(* The rows of a product all differ, and differ from what the API created.  *)
Distinct(s) ==
    /\ \A r, q \in Committed(s) : ValueOf(r) = ValueOf(q) => r = q
    /\ \A r \in Committed(s) : ValueOf(r) # created[s]

(* Whatever order the chunks committed in, a product whose committed rows   *)
(* are pairwise different, and different from what the API created, holds   *)
(* the value of the last of them (upsertMany, batch after batch).           *)
LastRowWinsIfDistinct ==
    \A s \in Sku : Distinct(s) =>
        \A r \in Committed(s) : IsLast(r, Committed(s)) => products[s].value = ValueOf(r)

=============================================================================
