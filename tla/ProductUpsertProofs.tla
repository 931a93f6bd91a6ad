------------------------- MODULE ProductUpsertProofs -------------------------
(***************************************************************************)
(* Proofs about ProductUpsert, for any SKUs and values and any number and  *)
(* size of imports: which row a product holds, whatever order the batches  *)
(* commit in.                                                              *)
(***************************************************************************)
EXTENDS ProductUpsert, WellFoundedInduction, TLAPS

USE SizesAssumption, DistinctAssumption DEF SizesAssumption, DistinctAssumption

-----------------------------------------------------------------------------
(* Multiplication is monotone. *)
LEMMA Monotone ==
    ASSUME NEW a \in Nat, NEW b \in Nat, NEW c \in Nat, a <= b
    PROVE  a * c <= b * c /\ a * c \in Nat /\ b * c \in Nat
  OBVIOUS

(* A batch of a chunk lies in its file. *)
LEMMA BatchInFile ==
    ASSUME NEW k \in Chunk, NEW b \in 0..(Batches - 1)
    PROVE  BatchOffsets(k, b) \subseteq Offset
<1> DEFINE m == (k - 1) * Batches + b
           n == Chunks * Batches
<1>1. k \in Nat /\ k - 1 \in Nat /\ b \in Nat /\ b + 1 <= Batches /\ k <= Chunks
  BY DEF Chunk
<1>2. (k - 1) * Batches \in Nat /\ k * Batches \in Nat /\ n \in Nat
  BY <1>1, Monotone
<1>3. k * Batches = (k - 1) * Batches + Batches
  BY <1>1
<1>4. m \in Nat /\ m + 1 <= k * Batches
  BY <1>1, <1>2, <1>3
<1>5. k * Batches <= n
  BY <1>1, Monotone
<1>6. m + 1 \in Nat /\ m + 1 <= n
  BY <1>2, <1>4, <1>5
<1>7. (m + 1) * BatchRows <= n * BatchRows /\ (m + 1) * BatchRows \in Nat /\ n * BatchRows \in Nat
  BY <1>2, <1>6, Monotone
<1>8. (m + 1) * BatchRows = m * BatchRows + BatchRows /\ m * BatchRows \in Nat
  BY <1>4, Monotone
<1>9. FirstOffset(k, b) = m * BatchRows + 1
  BY DEF FirstOffset
<1> HIDE DEF m, n
<1>10. BatchOffsets(k, b) \subseteq 1..(n * BatchRows)
  BY <1>7, <1>8, <1>9 DEF BatchOffsets
<1> QED
  BY <1>10 DEF Offset, n

(* Sources are ordered: any two of them one way or the other, and no way    *)
(* round in a circle.                                                       *)
LEMMA AfterIsAnOrder ==
    ASSUME NEW p \in Source, NEW q \in Source, NEW r \in Source
    PROVE  /\ ~After(p, p)
           /\ After(p, q) => ~After(q, p)
           /\ After(p, q) /\ After(q, r) => After(p, r)
           /\ p = q \/ After(p, q) \/ After(q, p)
  BY DEF After, Source, Job, Offset

(* What decides the update is that order. *)
LEMMA LaterIsAfter == \A p, q : Later(p, q) <=> After(p, q)
  BY DEF Later, After

(* Whatever a commit's batch has for a SKU is one of the file's rows. *)
LEMMA WinnerInFile ==
    ASSUME TypeOK, NEW j \in Job, NEW k \in Chunk, next[j][k] < Batches,
           NEW s \in Sku, NEW o \in Winner(j, BatchOffsets(k, next[j][k]), s)
    PROVE  /\ o \in Offset /\ <<j, o>> \in Source
           /\ file[j][o] \in Row /\ file[j][o].sku = s
<1>1. next[j][k] \in 0..(Batches - 1)
  BY DEF TypeOK
<1>2. o \in Offset
  BY <1>1, BatchInFile DEF Winner
<1> QED
  BY <1>2 DEF Winner, TypeOK, Source

(* A commit leaves a product alone, or upserts its batch's winner. *)
LEMMA CommitEffect ==
    ASSUME NEW j, NEW k, CommitBatch(j, k), NEW s \in Sku
    PROVE  LET W == Winner(j, BatchOffsets(k, next[j][k]), s)
           IN  IF W = {} THEN products'[s] = products[s]
               ELSE \E o \in W : products'[s] = Upserted(products[s], <<j, o>>, file[j][o].value)
  BY DEF CommitBatch, UpsertMany

-----------------------------------------------------------------------------
(* Types. *)
LEMMA InitTypeOK == Init => TypeOK
  BY DEF Init, TypeOK

(* A step keeps the table's rows rows, and every chunk within its batches. *)
LEMMA TypeStep == TypeOK /\ [Next]_vars => TypeOK'
<1> SUFFICES ASSUME TypeOK, [Next]_vars PROVE TypeOK'
  OBVIOUS
<1>1. ASSUME NEW s \in Sku, NEW v \in Value, CreateProduct(s, v) PROVE TypeOK'
  BY <1>1 DEF CreateProduct, TypeOK, Product
<1>2. ASSUME NEW j \in Job, NEW k \in Chunk, CommitBatch(j, k) PROVE TypeOK'
  <2>1. next' \in [Job -> [Chunk -> 0..Batches]]
    BY <1>2 DEF CommitBatch, TypeOK
  <2>2. ASSUME NEW s \in Sku PROVE products'[s] \in Product \union {Absent}
    <3> DEFINE W == Winner(j, BatchOffsets(k, next[j][k]), s)
    <3>1. next[j][k] < Batches
      BY <1>2 DEF CommitBatch
    <3>2. CASE W = {}
      BY <1>2, <3>2, CommitEffect DEF TypeOK
    <3>3. CASE W # {}
      <4>1. PICK o \in W : products'[s] = Upserted(products[s], <<j, o>>, file[j][o].value)
        BY <1>2, <3>3, CommitEffect
      <4>2. <<j, o>> \in Source /\ file[j][o].value \in Value
        BY <3>1, WinnerInFile DEF Row
      <4> QED
        BY <4>1, <4>2 DEF Upserted, Product, TypeOK
    <3> QED
      BY <3>2, <3>3
  <2>3. products' \in [Sku -> Product \union {Absent}]
    <3>1. products' = [s \in Sku |-> products'[s]]
      BY <1>2 DEF CommitBatch, UpsertMany
    <3> QED
      BY <2>2, <3>1
  <2> QED
    BY <1>2, <2>1, <2>3 DEF CommitBatch, TypeOK
<1>3. CASE UNCHANGED vars
  BY <1>3 DEF vars, TypeOK
<1> QED
  BY <1>1, <1>2, <1>3 DEF Next

(* Every variable keeps its type. *)
THEOREM TypeCorrect == Spec => []TypeOK
  BY InitTypeOK, TypeStep, PTL DEF Spec

-----------------------------------------------------------------------------
(* A commit adds the rows of its batch to the committed ones. *)
LEMMA CommittedGrows ==
    ASSUME TypeOK, NEW j \in Job, NEW k \in Chunk, CommitBatch(j, k), NEW s \in Sku
    PROVE  Committed(s)' = Committed(s) \union
               {<<j, o>> : o \in {x \in BatchOffsets(k, next[j][k]) :
                                     /\ x \in Offset
                                     /\ file[j][x] # Rejected /\ file[j][x].sku = s}}
<1> DEFINE n == next[j][k]
<1>1. /\ n \in 0..(Batches - 1) /\ file' = file
      /\ next'[j][k] = n + 1
      /\ \A i \in Job, l \in Chunk : i # j \/ l # k => next'[i][l] = next[i][l]
  BY DEF CommitBatch, TypeOK
<1>2. \A b \in 0..(Batches - 1) : b < n + 1 <=> b < n \/ b = n
  BY <1>1
<1>3. \A i \in Job, l \in Chunk, b \in 0..(Batches - 1) :
          b < next'[i][l] <=> b < next[i][l] \/ (i = j /\ l = k /\ b = n)
  BY <1>1, <1>2
<1>4. ASSUME NEW r \in Source
      PROVE  (\E l \in Chunk, b \in 0..(Batches - 1) :
                  b < next'[r[1]][l] /\ r[2] \in BatchOffsets(l, b))
             <=> \/ \E l \in Chunk, b \in 0..(Batches - 1) :
                        b < next[r[1]][l] /\ r[2] \in BatchOffsets(l, b)
                 \/ r[1] = j /\ r[2] \in BatchOffsets(k, n)
  BY <1>1, <1>3 DEF Source
<1>5. \A o \in Offset : <<j, o>> \in Source
  BY DEF Source
<1>6. \A r \in Source : r = <<r[1], r[2]>> /\ r[2] \in Offset
  BY DEF Source
<1> HIDE DEF n
<1> QED
  BY <1>1, <1>4, <1>5, <1>6 DEF Committed, n

(* So what was committed stays committed, and the batch's winner is. *)
LEMMA CommittedKeeps ==
    ASSUME TypeOK, NEW j \in Job, NEW k \in Chunk, CommitBatch(j, k), NEW s \in Sku
    PROVE  /\ Committed(s) \subseteq Committed(s)'
           /\ \A o \in Winner(j, BatchOffsets(k, next[j][k]), s) : <<j, o>> \in Committed(s)'
<1>1. next[j][k] < Batches
  BY DEF CommitBatch
<1>2. ASSUME NEW o \in Winner(j, BatchOffsets(k, next[j][k]), s)
      PROVE  o \in BatchOffsets(k, next[j][k]) /\ o \in Offset
             /\ file[j][o] # Rejected /\ file[j][o].sku = s
  <2>1. o \in Offset
    BY <1>1, WinnerInFile
  <2> QED
    BY <2>1 DEF Winner
<1> QED
  BY <1>2, CommittedGrows

(* A step that commits nothing leaves the committed rows as they are. *)
LEMMA CommittedStays ==
    ASSUME UNCHANGED <<file, next>>, NEW s
    PROVE  Committed(s)' = Committed(s)
  BY DEF Committed

-----------------------------------------------------------------------------
(* A product's value is its provenance's. *)
LEMMA ProvenanceStep == TypeOK /\ ValueMatchesProvenance /\ [Next]_vars => ValueMatchesProvenance'
<1> SUFFICES ASSUME TypeOK, ValueMatchesProvenance, [Next]_vars PROVE ValueMatchesProvenance'
  OBVIOUS
<1>1. ASSUME NEW t \in Sku, NEW v \in Value, CreateProduct(t, v) PROVE ValueMatchesProvenance'
  <2> SUFFICES ASSUME NEW s \in Sku, products'[s] # Absent
               PROVE  IF products'[s].from = Api
                        THEN products'[s].value = created'[s]
                        ELSE /\ products'[s].from \in Committed(s)'
                             /\ products'[s].value = ValueOf(products'[s].from)
    BY <1>1 DEF ValueMatchesProvenance, ValueOf, CreateProduct
  <2>1. Committed(s)' = Committed(s) /\ file' = file
    BY <1>1, CommittedStays DEF CreateProduct
  <2>2. CASE s = t
    BY <1>1, <2>2 DEF CreateProduct, TypeOK
  <2>3. CASE s # t
    <3>1. products'[s] = products[s] /\ created'[s] = created[s]
      BY <1>1, <2>3 DEF CreateProduct, TypeOK
    <3> QED
      BY <2>1, <3>1 DEF ValueMatchesProvenance
  <2> QED
    BY <2>2, <2>3
<1>2. ASSUME NEW j \in Job, NEW k \in Chunk, CommitBatch(j, k) PROVE ValueMatchesProvenance'
  <2> SUFFICES ASSUME NEW s \in Sku, products'[s] # Absent
               PROVE  IF products'[s].from = Api
                        THEN products'[s].value = created'[s]
                        ELSE /\ products'[s].from \in Committed(s)'
                             /\ products'[s].value = ValueOf(products'[s].from)
    BY <1>2 DEF ValueMatchesProvenance, ValueOf, CommitBatch
  <2> DEFINE W == Winner(j, BatchOffsets(k, next[j][k]), s)
  <2>1. file' = file /\ created' = created /\ next[j][k] < Batches
    BY <1>2 DEF CommitBatch
  <2>2. Committed(s) \subseteq Committed(s)'
    BY <1>2, CommittedKeeps
  <2>3. CASE products'[s] = products[s]
    BY <2>1, <2>2, <2>3 DEF ValueMatchesProvenance
  <2>4. CASE products'[s] # products[s]
    <3>1. PICK o \in W : products'[s] = Upserted(products[s], <<j, o>>, file[j][o].value)
      BY <1>2, <2>4, CommitEffect
    <3>2. products'[s] = [value |-> file[j][o].value, from |-> <<j, o>>]
      BY <2>4, <3>1 DEF Upserted
    <3>3. <<j, o>> \in Committed(s)' /\ <<j, o>> \in Source
      BY <1>2, <2>1, CommittedKeeps, WinnerInFile
    <3>4. <<j, o>> # Api
      BY <3>3 DEF Source, Job, Offset
    <3>5. ValueOf(<<j, o>>) = file[j][o].value
      BY DEF ValueOf
    <3> QED
      BY <3>2, <3>3, <3>4, <3>5
  <2> QED
    BY <2>3, <2>4
<1>3. ASSUME UNCHANGED vars PROVE ValueMatchesProvenance'
  <2>1. UNCHANGED <<file, next>> /\ products' = products /\ created' = created
    BY <1>3 DEF vars
  <2> QED
    BY <2>1, CommittedStays DEF ValueMatchesProvenance, ValueOf
<1> QED
  BY <1>1, <1>2, <1>3 DEF Next

(* A product's value is the one its provenance points at, whatever order    *)
(* the batches committed in.                                                *)
THEOREM ValuesMatch == Spec => []ValueMatchesProvenance
<1>1. Init => ValueMatchesProvenance
  BY DEF Init, ValueMatchesProvenance
<1> QED
  BY <1>1, ProvenanceStep, TypeCorrect, PTL DEF Spec

-----------------------------------------------------------------------------
(* A step that changes a product takes it to a later row. *)
LEMMA ForwardStep ==
    ASSUME TypeOK, Next, NEW s \in Sku, products[s] # Absent, products'[s] # products[s]
    PROVE  /\ products'[s] # Absent
           /\ products'[s].from # Api
           /\ products[s].from = Api \/ After(products'[s].from, products[s].from)
<1>1. ASSUME NEW t \in Sku, NEW v \in Value, CreateProduct(t, v) PROVE FALSE
  BY <1>1 DEF CreateProduct, TypeOK
<1>2. PICK j \in Job, k \in Chunk : CommitBatch(j, k)
  BY <1>1 DEF Next
<1>3. PICK o \in Winner(j, BatchOffsets(k, next[j][k]), s) :
          products'[s] = Upserted(products[s], <<j, o>>, file[j][o].value)
  BY <1>2, CommitEffect
<1>4. /\ products'[s] = [value |-> file[j][o].value, from |-> <<j, o>>]
      /\ Overwrites(products[s], <<j, o>>, file[j][o].value)
  BY <1>3 DEF Upserted
<1>5. <<j, o>> \in Source /\ file[j][o].value \in Value
  BY <1>2, WinnerInFile DEF CommitBatch, Row
<1>6. <<j, o>> \in (1..Jobs) \X Nat
  BY <1>5 DEF Source, Job, Offset
<1>7. products'[s] # Absent
  BY <1>4, <1>5, <1>6
<1> QED
  BY <1>4, <1>6, <1>7, LaterIsAfter DEF Overwrites

(* Provenance only moves forward. *)
THEOREM ProvenanceForward == Spec => ProvenanceMovesForward
<1> DEFINE Forward == \A s \in Sku :
              products[s] # Absent /\ products'[s] # products[s] =>
                  /\ products'[s] # Absent
                  /\ products'[s].from # Api
                  /\ products[s].from = Api \/ After(products'[s].from, products[s].from)
<1>1. ASSUME TypeOK, Next PROVE Forward
  BY <1>1, ForwardStep
<1>2. TypeOK /\ [Next]_vars => [Forward]_vars
  BY <1>1
<1> QED
  BY <1>2, TypeCorrect, PTL DEF Spec, ProvenanceMovesForward

-----------------------------------------------------------------------------
(* A bounded set of numbers has a greatest. *)
LEMMA GreatestExists ==
    ASSUME NEW m \in Nat, NEW S, S \subseteq 0..m, S # {}
    PROVE  \E x \in S : \A y \in S : y <= x
<1> DEFINE D == {d \in Nat : m - d \in S}
<1>1. D \subseteq Nat /\ D # {}
  <2>1. PICK x \in S : TRUE
    OBVIOUS
  <2>2. m - x \in Nat /\ m - (m - x) = x
    BY <2>1
  <2> QED
    BY <2>1, <2>2
<1>0. \A x \in Nat : x \in D <=> m - x \in S
  OBVIOUS
<1> HIDE DEF D
<1>2. PICK d \in D : \A e \in D : d <= e
  <2> DEFINE R == OpToRel(<, Nat)
  <2>1. \A x, y \in Nat : y < x => <<y, x>> \in R
    BY DEF OpToRel
  <2>2. IsWellFoundedOn(R, Nat)
    BY NatLessThanWellFounded
  <2> HIDE DEF R
  <2>3. PICK d \in D : \A e \in D : ~ (<<e, d>> \in R)
    BY <1>1, <2>2, WFMin
  <2> QED
    <3>1. \A x, y \in Nat : ~(y < x) => x <= y
      OBVIOUS
    <3>2. d \in Nat
      BY <1>1, <2>3
    <3>3. ASSUME NEW e \in D PROVE ~(e < d)
      BY <1>1, <2>1, <2>3, <3>2
    <3> QED
      BY <1>1, <3>1, <3>2, <3>3
<1>3. ASSUME NEW y \in S PROVE y <= m - d
  <2>1. m - y \in Nat /\ m - (m - y) = y
    OBVIOUS
  <2>2. m - y \in D
    BY <1>0, <2>1
  <2>3. d <= m - y /\ d \in Nat /\ y \in Nat
    BY <1>1, <1>2, <2>2
  <2> QED
    BY <2>1, <2>3
<1> QED
  BY <1>0, <1>1, <1>2, <1>3

(* Where a batch names a SKU, its winner is the last of the rows that do. *)
LEMMA WinnerIsLast ==
    ASSUME TypeOK, NEW j \in Job, NEW k \in Chunk, next[j][k] < Batches, NEW s \in Sku
    PROVE  LET B == BatchOffsets(k, next[j][k])
               N == {o \in B : file[j][o] # Rejected /\ file[j][o].sku = s}
           IN  /\ Winner(j, B, s) = {} => N = {}
               /\ \A w \in Winner(j, B, s), o \in N : o <= w
<1> DEFINE B == BatchOffsets(k, next[j][k])
           N == {o \in B : file[j][o] # Rejected /\ file[j][o].sku = s}
<1>1. next[j][k] \in 0..(Batches - 1)
  BY DEF TypeOK
<1>2. B \subseteq Offset
  BY <1>1, BatchInFile
<1>3. Chunks * Batches * BatchRows \in Nat
  BY Monotone
<1>4. N \subseteq 0..(Chunks * Batches * BatchRows)
  BY <1>2, <1>3 DEF Offset
<1>5. Winner(j, B, s) = {w \in N : \A o \in N : o <= w}
  BY DEF Winner
<1>6. N # {} => Winner(j, B, s) # {}
  BY <1>3, <1>4, <1>5, GreatestExists
<1> QED
  BY <1>5, <1>6

(* A product some committed row names is in the table, and holds the last   *)
(* of those rows if they all differ.                                        *)
HoldsTheLast ==
    \A s \in Sku : Committed(s) # {} =>
        /\ products[s] # Absent
        /\ Distinct(s) => /\ products[s].from # Api
                          /\ IsLast(products[s].from, Committed(s))

(* What was said of the values of a larger set of rows holds of a smaller.  *)
LEMMA DistinctBefore ==
    ASSUME TypeOK, ValueMatchesProvenance, HoldsTheLast, Next, NEW s \in Sku, Distinct(s)'
    PROVE  Committed(s) # {} => Distinct(s)
<1> SUFFICES ASSUME Committed(s) # {} PROVE Distinct(s)
  OBVIOUS
<1>1. ASSUME NEW t \in Sku, NEW v \in Value, CreateProduct(t, v) PROVE Distinct(s)
  <2>1. Committed(s)' = Committed(s) /\ file' = file
    BY <1>1, CommittedStays DEF CreateProduct
  <2>2. s # t
    BY <1>1 DEF CreateProduct, HoldsTheLast
  <2>3. created'[s] = created[s]
    BY <1>1, <2>2 DEF CreateProduct, TypeOK
  <2> QED
    BY <2>1, <2>3 DEF Distinct, ValueOf
<1>2. ASSUME NEW j \in Job, NEW k \in Chunk, CommitBatch(j, k) PROVE Distinct(s)
  <2>1. Committed(s) \subseteq Committed(s)' /\ file' = file /\ created' = created
    BY <1>2, CommittedKeeps DEF CommitBatch
  <2> QED
    BY <2>1 DEF Distinct, ValueOf
<1> QED
  BY <1>1, <1>2 DEF Next

(* A commit of a batch leaves every product it names with the last row, of  *)
(* the batch and of what was committed before.                              *)
LEMMA LastAfterCommit ==
    ASSUME TypeOK, ValueMatchesProvenance, HoldsTheLast,
           NEW j \in Job, NEW k \in Chunk, CommitBatch(j, k),
           NEW s \in Sku, NEW o \in Winner(j, BatchOffsets(k, next[j][k]), s),
           products'[s] = Upserted(products[s], <<j, o>>, file[j][o].value),
           Distinct(s)', Committed(s) # {} => Distinct(s)
    PROVE  products'[s].from # Api /\ IsLast(products'[s].from, Committed(s)')
<1> DEFINE B == BatchOffsets(k, next[j][k])
           N == {x \in B : file[j][x] # Rejected /\ file[j][x].sku = s}
           w == <<j, o>>
           C == Committed(s)'
<1>1. next[j][k] < Batches /\ file' = file /\ created' = created
  BY DEF CommitBatch
<1>2. /\ w \in Source /\ w \in C /\ file[j][o].value = ValueOf(w)
  BY <1>1, WinnerInFile, CommittedKeeps DEF ValueOf
<1>3. w # Api
  BY <1>2 DEF Source, Job, Offset
<1>4. Committed(s) \subseteq Source /\ C \subseteq Source
  BY DEF Committed
<1>5. \A q \in C : q \in Committed(s) \/ q = w \/ After(w, q)
  <2>1. \A x \in N : x <= o
    BY <1>1, WinnerIsLast
  <2>2. \A q \in C : q \in Committed(s) \/ \E x \in N : x \in Offset /\ q = <<j, x>>
    BY CommittedGrows
  <2>3. ASSUME NEW x \in N, x \in Offset PROVE <<j, x>> = w \/ After(w, <<j, x>>)
    BY <1>2, <2>1, <2>3 DEF After, Source, Job, Offset
  <2> QED
    BY <2>2, <2>3
<1>6. /\ \A p, q \in C : ValueOf(p) = ValueOf(q) => p = q
      /\ ValueOf(w) # created[s]
  BY <1>1, <1>2 DEF Distinct, ValueOf
<1> HIDE DEF B, N, w, C
<1>7. products'[s] = Upserted(products[s], w, ValueOf(w))
  BY <1>2 DEF w
<1>8. Committed(s) \subseteq C
  BY CommittedKeeps DEF C
<1>9. CASE products[s] = Absent \/ Overwrites(products[s], w, ValueOf(w))
  <2>1. products'[s].from = w
    BY <1>7, <1>9 DEF Upserted
  <2>2. ASSUME NEW q \in Committed(s) PROVE q = w \/ After(w, q)
    <3> DEFINE p == products[s].from
    <3>1. products[s] # Absent /\ p # Api /\ IsLast(p, Committed(s))
      BY <2>2 DEF HoldsTheLast
    <3>2. After(w, p)
      BY <1>9, <3>1, LaterIsAfter DEF Overwrites
    <3>3. p \in Source /\ q \in Source /\ (q = p \/ After(p, q))
      BY <1>4, <3>1 DEF IsLast
    <3> HIDE DEF p
    <3> QED
      BY <1>2, <3>2, <3>3, AfterIsAnOrder
  <2> QED
    BY <1>2, <1>3, <1>5, <2>1, <2>2 DEF IsLast, C
<1>10. CASE ~(products[s] = Absent \/ Overwrites(products[s], w, ValueOf(w)))
  <2> DEFINE p == products[s].from
  <2>1. products'[s].from = p
    BY <1>7, <1>10 DEF Upserted
  <2>2. p # Api
    BY <1>6, <1>10 DEF ValueMatchesProvenance, Overwrites
  <2>3. p \in Committed(s) /\ products[s].value = ValueOf(p)
    BY <1>10, <2>2 DEF ValueMatchesProvenance
  <2>4. IsLast(p, Committed(s)) /\ p \in Source /\ p \in C
    BY <1>4, <1>8, <2>3 DEF HoldsTheLast
  <2>5. ~After(w, p)
    <3> SUFFICES ASSUME After(w, p) PROVE FALSE
      OBVIOUS
    <3>1. ValueOf(p) = ValueOf(w)
      BY <1>10, <2>3, LaterIsAfter DEF Overwrites
    <3>2. p = w
      BY <1>2, <1>6, <2>4, <3>1 DEF C
    <3> QED
      BY <1>2, <3>2, AfterIsAnOrder
  <2> HIDE DEF p
  <2>6. p = w \/ After(p, w)
    BY <1>2, <2>4, <2>5, AfterIsAnOrder
  <2>7. ASSUME NEW q \in C PROVE q = p \/ After(p, q)
    BY <1>2, <1>4, <1>5, <2>4, <2>6, AfterIsAnOrder DEF IsLast, C
  <2> QED
    BY <2>1, <2>2, <2>4, <2>7 DEF IsLast, C
<1> QED
  BY <1>9, <1>10

(* Every step keeps the last row where it is, or puts it there. *)
LEMMA LastStep ==
    TypeOK /\ ValueMatchesProvenance /\ HoldsTheLast /\ [Next]_vars => HoldsTheLast'
<1> SUFFICES ASSUME TypeOK, ValueMatchesProvenance, HoldsTheLast, [Next]_vars
             PROVE  HoldsTheLast'
  OBVIOUS
<1> DEFINE Holds(s) == /\ products'[s] # Absent
                       /\ Distinct(s)' => /\ products'[s].from # Api
                                          /\ IsLast(products'[s].from, Committed(s)')
<1>1. ASSUME NEW t \in Sku, NEW v \in Value, CreateProduct(t, v),
             NEW s \in Sku, Committed(s)' # {}
      PROVE  Holds(s)
  <2>1. Committed(s)' = Committed(s)
    BY <1>1, CommittedStays DEF CreateProduct
  <2>2. s # t
    BY <1>1, <2>1 DEF CreateProduct, HoldsTheLast
  <2>3. products'[s] = products[s]
    BY <1>1, <2>2 DEF CreateProduct, TypeOK
  <2>4. Next
    BY <1>1 DEF Next
  <2>5. Distinct(s)' => Distinct(s)
    BY <1>1, <2>1, <2>4, DistinctBefore
  <2> QED
    BY <1>1, <2>1, <2>3, <2>5 DEF HoldsTheLast
<1>2. ASSUME NEW j \in Job, NEW k \in Chunk, CommitBatch(j, k),
             NEW s \in Sku, Committed(s)' # {}
      PROVE  Holds(s)
  <2> DEFINE W == Winner(j, BatchOffsets(k, next[j][k]), s)
  <2>1. Next /\ next[j][k] < Batches
    BY <1>2 DEF Next, CommitBatch
  <2>2. Distinct(s)' => (Committed(s) # {} => Distinct(s))
    BY <2>1, DistinctBefore
  <2>3. CASE W = {}
    <3>1. Committed(s)' = Committed(s)
      <4>1. {x \in BatchOffsets(k, next[j][k]) :
                file[j][x] # Rejected /\ file[j][x].sku = s} = {}
        BY <2>1, <2>3, WinnerIsLast
      <4> DEFINE M == {x \in BatchOffsets(k, next[j][k]) :
                          /\ x \in Offset
                          /\ file[j][x] # Rejected /\ file[j][x].sku = s}
      <4>2. M = {}
        BY <4>1
      <4>3. Committed(s)' = Committed(s) \union {<<j, o>> : o \in M}
        BY <1>2, CommittedGrows
      <4> HIDE DEF M
      <4> QED
        BY <4>2, <4>3
    <3>2. products'[s] = products[s]
      BY <1>2, <2>3, CommitEffect
    <3> QED
      BY <1>2, <2>2, <3>1, <3>2 DEF HoldsTheLast
  <2>4. CASE W # {}
    <3>1. PICK o \in W : products'[s] = Upserted(products[s], <<j, o>>, file[j][o].value)
      BY <1>2, <2>4, CommitEffect
    <3>2. <<j, o>> \in (1..Jobs) \X Nat /\ file[j][o].value \in Value
      BY <2>1, WinnerInFile, SMTT(30) DEF Source, Job, Offset, Row
    <3>3. products'[s] # Absent
      BY <3>1, <3>2 DEF Upserted
    <3>4. Distinct(s)' => /\ products'[s].from # Api
                          /\ IsLast(products'[s].from, Committed(s)')
      BY <1>2, <2>2, <3>1, LastAfterCommit
    <3> QED
      BY <3>3, <3>4
  <2> QED
    BY <2>3, <2>4
<1>3. ASSUME UNCHANGED vars, NEW s \in Sku, Committed(s)' # {} PROVE Holds(s)
  <2>1. UNCHANGED <<file, next>> /\ products' = products /\ created' = created
    BY <1>3 DEF vars
  <2>2. Committed(s)' = Committed(s) /\ (Distinct(s)' <=> Distinct(s))
    BY <2>1, CommittedStays DEF Distinct, ValueOf
  <2> QED
    BY <1>3, <2>1, <2>2 DEF HoldsTheLast
<1>4. \A s \in Sku : Committed(s)' # {} => Holds(s)
  BY <1>1, <1>2, <1>3 DEF Next
<1> QED
  BY <1>4 DEF HoldsTheLast

(* Whatever order the batches of whatever imports commit in, a product      *)
(* whose rows all differ holds the value of the last of them.               *)
THEOREM LastRowWinsProved == Spec => []LastRowWinsIfDistinct
<1>1. Init => HoldsTheLast
  <2>1. ASSUME Init, NEW s PROVE Committed(s) = {}
    <3>1. \A j \in Job, k \in Chunk, b \in 0..(Batches - 1) : ~(b < next[j][k])
      BY <2>1 DEF Init
    <3> QED
      BY <3>1 DEF Committed, Source
  <2> QED
    BY <2>1 DEF HoldsTheLast
<1>2. ASSUME TypeOK, ValueMatchesProvenance, HoldsTheLast PROVE LastRowWinsIfDistinct
  <2> SUFFICES ASSUME NEW s \in Sku, Distinct(s), NEW r \in Committed(s), IsLast(r, Committed(s))
               PROVE  products[s].value = ValueOf(r)
    BY DEF LastRowWinsIfDistinct
  <2> DEFINE p == products[s].from
  <2>1. products[s] # Absent /\ p # Api /\ IsLast(p, Committed(s))
    BY <1>2 DEF HoldsTheLast
  <2>2. p \in Source /\ r \in Source
    BY <2>1 DEF IsLast, Committed
  <2>3. p = r
    BY <2>1, <2>2, AfterIsAnOrder DEF IsLast
  <2> QED
    BY <1>2, <2>1, <2>3 DEF ValueMatchesProvenance
<1> QED
  BY <1>1, <1>2, LastStep, TypeCorrect, ValuesMatch, PTL DEF Spec
=============================================================================
