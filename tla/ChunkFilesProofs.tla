--------------------------- MODULE ChunkFilesProofs ---------------------------
(***************************************************************************)
(* Proofs about ChunkFiles, for every file of any size, any target, window *)
(* and bound of a row: a file is cut between its rows, each row is read     *)
(* once and in full, and as its own bytes, wherever an invocation stops.   *)
(***************************************************************************)
EXTENDS ChunkFiles, SequenceTheorems, WellFoundedInduction, TLAPS

USE SizesAssumption DEF SizesAssumption

-----------------------------------------------------------------------------
(* Every non-empty set of natural numbers has a least element: Smallest is  *)
(* it.                                                                      *)
Below == {p \in Nat \X Nat : p[1] < p[2]}

LEMMA LeastNat ==
    ASSUME NEW T \in SUBSET Nat, T # {}
    PROVE  \E x \in T : \A y \in T : x <= y
<1>1. OpToRel(<, Nat) = Below
  BY DEF OpToRel, Below
<1>2. IsWellFoundedOn(Below, Nat)
  BY <1>1, NatLessThanWellFounded
<1>3. PICK x \in T : \A y \in T : <<y, x>> \notin Below
  BY <1>2, WFMin
<1>4. ASSUME NEW y \in T PROVE x <= y
  <2>1. <<y, x>> \in Nat \X Nat /\ <<y, x>>[1] = y /\ <<y, x>>[2] = x
    OBVIOUS
  <2>2. ~(y < x)
    BY <1>3, <2>1 DEF Below
  <2> QED
    BY <2>2
<1> QED
  BY <1>4

LEMMA SmallestIsLeast ==
    ASSUME NEW T \in SUBSET Nat, T # {}
    PROVE  Smallest(T) \in T /\ \A y \in T : Smallest(T) <= y
BY LeastNat DEF Smallest

LEMMA SmallestIs ==
    ASSUME NEW T \in SUBSET Nat, NEW x \in T, \A y \in T : x <= y
    PROVE  Smallest(T) = x
<1>1. Smallest(T) \in T /\ Smallest(T) <= x
  BY SmallestIsLeast
<1>2. x <= Smallest(T) /\ x \in Nat /\ Smallest(T) \in Nat
  BY <1>1
<1> QED
  BY <1>1, <1>2

-----------------------------------------------------------------------------
(* The end of the row that begins at an offset.                             *)
IsFile == file \in Seq(Bytes) /\ Size <= MaxSize

EndsRow(s, e) ==
    /\ e \in (s + 1)..Size
    /\ \A i \in s..(e - 2) : Byte(i) # Newline
    /\ e = Size \/ Byte(e - 1) = Newline

LEMMA SizeIsNat ==
    ASSUME IsFile
    PROVE  Size \in Nat
BY DEF IsFile, Size

(* The offset past the first of some newlines, the size if there are none.  *)
LEMMA PastTheFirst ==
    ASSUME IsFile, NEW s \in Nat
    PROVE  EndOfRow(s) = IF Newlines(s, Size) = {} THEN Size
                         ELSE Smallest(Newlines(s, Size)) + 1
<1> DEFINE N == Newlines(s, Size)
<1>1. N \in SUBSET Nat /\ Size \in Nat /\ \A i \in N : i + 1 <= Size
  BY SizeIsNat DEF Newlines
<1>2. CASE N = {}
  <2>1. {i + 1 : i \in N} \union {Size} = {Size}
    BY <1>2
  <2> QED
    BY <1>1, <1>2, <2>1, SmallestIs DEF EndOfRow
<1>3. CASE N # {}
  <2> DEFINE first == Smallest(N)
             T == {i + 1 : i \in N} \union {Size}
  <2>1. first \in N /\ \A y \in N : first <= y
    BY <1>1, <1>3, SmallestIsLeast
  <2> HIDE DEF N, first
  <2>2. first + 1 \in T /\ T \in SUBSET Nat /\ \A y \in T : first + 1 <= y
    BY <1>1, <2>1
  <2>3. Smallest(T) = first + 1
    BY <2>2, SmallestIs
  <2> QED
    BY <1>3, <2>3 DEF EndOfRow, N, first
<1> QED
  BY <1>2, <1>3

LEMMA EndOfRowEnds ==
    ASSUME IsFile, NEW s \in 0..(Size - 1)
    PROVE  EndsRow(s, EndOfRow(s))
<1> DEFINE N == Newlines(s, Size)
<1>1. N \in SUBSET Nat /\ Size \in Nat
  BY SizeIsNat DEF Newlines
<1>2. \A i \in s..(Size - 1) : i \in N <=> Byte(i) = Newline
  BY <1>1 DEF Newlines
<1>3. CASE N = {}
  BY <1>1, <1>2, <1>3, PastTheFirst DEF EndsRow
<1>4. CASE N # {}
  <2>1. Smallest(N) \in N /\ \A y \in N : Smallest(N) <= y
    BY <1>1, <1>4, SmallestIsLeast
  <2>2. EndOfRow(s) = Smallest(N) + 1
    BY <1>1, <1>4, PastTheFirst
  <2>3. Smallest(N) \in s..(Size - 1) /\ Byte(Smallest(N)) = Newline
    BY <2>1 DEF Newlines
  <2>4. ASSUME NEW i \in s..(Smallest(N) - 1)
        PROVE  Byte(i) # Newline
    BY <1>1, <1>2, <2>1, <2>3, <2>4
  <2>5. EndOfRow(s) \in (s + 1)..Size /\ EndOfRow(s) - 1 = Smallest(N)
        /\ EndOfRow(s) - 2 = Smallest(N) - 1
    BY <1>1, <2>2, <2>3
  <2> QED
    BY <2>3, <2>4, <2>5 DEF EndsRow
<1> QED
  BY <1>3, <1>4

(* A row has one end.                                                       *)
LEMMA OneEnd ==
    ASSUME IsFile, NEW s \in 0..(Size - 1), NEW e, EndsRow(s, e), NEW d, EndsRow(s, d)
    PROVE  d = e
BY SizeIsNat DEF EndsRow

LEMMA RowEnds ==
    ASSUME IsFile, NEW s \in 0..(Size - 1)
    PROVE  /\ EndsRow(s, EndOfRow(s))
           /\ \A e : EndsRow(s, e) => e = EndOfRow(s)
BY EndOfRowEnds, OneEnd

LEMMA HeaderEnds ==
    ASSUME IsFile
    PROVE  /\ HeaderEnd = EndOfRow(0)
           /\ HeaderEnd \in 0..Size
           /\ Size > 0 => HeaderEnd > 0
<1>1. HeaderEnd = EndOfRow(0)
  BY DEF HeaderEnd, EndOfRow
<1>2. CASE Size = 0
  <2>1. Newlines(0, Size) = {}
    BY <1>2 DEF Newlines
  <2> QED
    BY <1>1, <1>2, <2>1, PastTheFirst
<1>3. CASE Size > 0
  BY <1>1, <1>3, RowEnds, SizeIsNat DEF EndsRow
<1> QED
  BY <1>2, <1>3, <1>1, SizeIsNat

(* The rows after a row begin where it ends.                                *)
LEMMA NextRow ==
    ASSUME IsFile, NEW s \in HeaderEnd..(Size - 1)
    PROVE  EndOfRow(s) \in RowStarts \union {Size}
<1>1. s \in 0..(Size - 1)
  BY HeaderEnds, SizeIsNat
<1>2. EndsRow(s, EndOfRow(s))
  BY <1>1, RowEnds
<1> QED
  BY <1>1, <1>2, HeaderEnds, SizeIsNat DEF EndsRow, RowStarts

(* No row begins inside a row.                                              *)
LEMMA NoRowInside ==
    ASSUME IsFile, NEW s \in RowStarts, NEW t \in RowStarts \union {Size}, s < t
    PROVE  EndOfRow(s) <= t
<1>1. s \in 0..(Size - 1) /\ t \in Nat
  BY HeaderEnds, SizeIsNat DEF RowStarts
<1>2. EndsRow(s, EndOfRow(s))
  BY <1>1, RowEnds
<1>3. CASE t = Size
  BY <1>1, <1>2, <1>3, SizeIsNat DEF EndsRow
<1>4. CASE t \in RowStarts
  <2>1. t - 1 \in s..(t - 1) /\ Byte(t - 1) = Newline
    BY <1>1, <1>4, HeaderEnds, SizeIsNat DEF RowStarts
  <2>2. SUFFICES ASSUME EndOfRow(s) > t PROVE FALSE
    BY <1>1, <1>2, SizeIsNat DEF EndsRow
  <2>3. t - 1 \in s..(EndOfRow(s) - 2)
    BY <1>1, <1>2, <2>1, <2>2, SizeIsNat DEF EndsRow
  <2> QED
    BY <1>2, <2>1, <2>3 DEF EndsRow
<1> QED
  BY <1>3, <1>4

-----------------------------------------------------------------------------
(* The search for a chunk's end, window by window, finds a row's end,       *)
(* whatever the window.                                                     *)
InWindow(at) == Newlines(at, at + Least(StepBytes, Size - at))

LEMMA OneWindow ==
    ASSUME IsFile, NEW at \in Nat, at < Size
    PROVE  EndOfRow(at) = IF InWindow(at) = {} THEN EndOfRow(at + StepBytes)
                          ELSE Smallest(InWindow(at)) + 1
<1> DEFINE w == InWindow(at)
           N == Newlines(at, Size)
           M == Newlines(at + StepBytes, Size)
           to == at + Least(StepBytes, Size - at)
<1>1. Size \in Nat /\ at + StepBytes \in Nat /\ to \in Nat /\ to <= Size
      /\ to = IF at + StepBytes <= Size THEN at + StepBytes ELSE Size
  BY SizeIsNat DEF Least
<1>2. w = {i \in at..(to - 1) : Byte(i) = Newline}
      /\ N = {i \in at..(Size - 1) : Byte(i) = Newline}
      /\ M = {i \in (at + StepBytes)..(Size - 1) : Byte(i) = Newline}
  BY DEF InWindow, Newlines
<1>3. CASE w = {}
  <2>1. ASSUME NEW i \in N PROVE i \in M
    <3>1. i \in at..(Size - 1) /\ Byte(i) = Newline /\ i \notin at..(to - 1)
      BY <1>2, <1>3
    <3>2. i >= to
      BY <1>1, <3>1
    <3> QED
      BY <1>1, <1>2, <3>1, <3>2
  <2>2. M \subseteq N
    BY <1>1, <1>2
  <2>3. M = N
    BY <2>1, <2>2
  <2> HIDE DEF M, N
  <2> QED
    BY <1>1, <1>3, <2>3, PastTheFirst DEF M, N
<1>4. CASE w # {}
  <2> DEFINE first == Smallest(w)
  <2>1. w \in SUBSET Nat
    BY <1>1, <1>2
  <2>2. first \in w /\ \A y \in w : first <= y
    BY <2>1, <1>4, SmallestIsLeast
  <2>3. first \in N /\ N \in SUBSET Nat
    BY <1>1, <1>2, <2>2
  <2>4. ASSUME NEW y \in N PROVE first <= y
    <3>1. CASE y < to
      BY <1>1, <1>2, <2>2, <3>1
    <3>2. CASE y >= to
      BY <1>1, <1>2, <2>2, <3>2
    <3> QED
      BY <1>1, <1>2, <3>1, <3>2
  <2>5. Smallest(N) = first
    <3> HIDE DEF first, N
    <3> QED
      BY <2>3, <2>4, SmallestIs
  <2> QED
    BY <1>4, <2>3, <2>5, PastTheFirst
<1> QED
  BY <1>3, <1>4

(* What the search equates, and that the end of a row is what it finds.     *)
Searches(g) ==
    g = [at \in Nat |->
            IF at >= Size THEN Size
            ELSE IF InWindow(at) = {} THEN g[at + StepBytes] ELSE Smallest(InWindow(at)) + 1]

LEMMA PastTheEnd ==
    ASSUME IsFile, NEW at \in Nat, at >= Size
    PROVE  EndOfRow(at) = Size
<1>1. Newlines(at, Size) = {}
  BY SizeIsNat DEF Newlines
<1> QED
  BY <1>1, PastTheFirst

LEMMA SearchExists ==
    ASSUME IsFile
    PROVE  Searches([at \in Nat |-> EndOfRow(at)])
<1> DEFINE g == [at \in Nat |-> EndOfRow(at)]
<1>1. ASSUME NEW at \in Nat
      PROVE  EndOfRow(at) = IF at >= Size THEN Size
                            ELSE IF InWindow(at) = {} THEN g[at + StepBytes]
                            ELSE Smallest(InWindow(at)) + 1
  <2>1. at + StepBytes \in Nat /\ g[at + StepBytes] = EndOfRow(at + StepBytes)
    OBVIOUS
  <2> HIDE DEF g
  <2>2. CASE at >= Size
    BY <2>2, PastTheEnd
  <2>3. CASE at < Size
    BY <2>1, <2>3, OneWindow, SizeIsNat
  <2> QED
    BY <2>2, <2>3, SizeIsNat
<1> QED
  BY <1>1 DEF Searches

LEMMA SearchIsOne ==
    ASSUME IsFile, NEW g, Searches(g), NEW from \in Nat
    PROVE  g[from] = EndOfRow(from)
<1> DEFINE wrong == {at \in Nat : g[at] # EndOfRow(at)}
           left == {Size - at : at \in wrong}
<1>1. ASSUME NEW at \in Nat
      PROVE  g[at] = IF at >= Size THEN Size
                     ELSE IF InWindow(at) = {} THEN g[at + StepBytes]
                     ELSE Smallest(InWindow(at)) + 1
  BY DEF Searches
<1>2. \A at \in wrong : at < Size
  BY <1>1, PastTheEnd, SizeIsNat
<1>3. SUFFICES ASSUME wrong # {} PROVE FALSE
  OBVIOUS
<1>4. left \in SUBSET Nat /\ left # {}
  BY <1>2, <1>3, SizeIsNat
<1>5. PICK n \in left : \A m \in left : n <= m
  BY <1>4, LeastNat
<1>6. PICK at \in wrong : n = Size - at
  BY <1>5
<1>7. at \in Nat /\ at < Size /\ g[at] # EndOfRow(at)
  BY <1>2
<1>8. at + StepBytes \in Nat /\ at + StepBytes \notin wrong
  <2>1. SUFFICES ASSUME at + StepBytes \in wrong PROVE FALSE
    OBVIOUS
  <2>2. Size - (at + StepBytes) \in left
    BY <2>1
  <2>3. n <= Size - (at + StepBytes)
    BY <1>5, <2>2
  <2> QED
    BY <1>6, <1>7, <2>3, SizeIsNat
<1>9. g[at + StepBytes] = EndOfRow(at + StepBytes)
  BY <1>8
<1> QED
  BY <1>1, <1>7, <1>9, OneWindow, SizeIsNat

LEMMA NextNewlineEndsARow ==
    ASSUME IsFile, NEW from \in Nat
    PROVE  NextNewlineAfter(from) = EndOfRow(from)
<1> DEFINE search == CHOOSE g : Searches(g)
<1>1. NextNewlineAfter(from) = search[from]
  BY DEF NextNewlineAfter, Searches, InWindow
<1>2. Searches(search)
  BY SearchExists
<1> QED
  BY <1>1, <1>2, SearchIsOne

(* The first window, past the mark.                                         *)
LEMMA FirstRowIsPastTheHeader ==
    ASSUME IsFile
    PROVE  FirstRowOffset \in {HeaderEnd, Size}
<1> DEFINE mark == IF Size > 0 /\ Byte(0) = Mark THEN 1 ELSE 0
           to == Least(Size, HeadBytes)
           found == Newlines(mark, to)
           N == Newlines(0, Size)
<1>1. mark \in {0, 1} /\ (mark = 1 => Byte(0) # Newline)
      /\ to \in Nat /\ to <= Size /\ Size \in Nat
  BY SizeIsNat DEF Mark, Newline, Least
<1>2. SUFFICES ASSUME found # {} PROVE Smallest(found) + 1 = HeaderEnd
  BY DEF FirstRowOffset
<1>3. found = {i \in mark..(to - 1) : Byte(i) = Newline}
      /\ N = {i \in 0..(Size - 1) : Byte(i) = Newline}
  BY DEF Newlines
<1> HIDE DEF found, N, to, mark
<1>4. found \in SUBSET Nat /\ N \in SUBSET Nat
  BY <1>1, <1>3
<1>5. Smallest(found) \in found /\ \A y \in found : Smallest(found) <= y
  BY <1>2, <1>4, SmallestIsLeast
<1>6. Smallest(found) \in N
  BY <1>1, <1>3, <1>5
<1>7. ASSUME NEW y \in N PROVE Smallest(found) <= y
  <2>1. y # 0 \/ mark = 0
    BY <1>1, <1>3
  <2>2. CASE y < to
    BY <1>1, <1>3, <1>5, <2>1, <2>2
  <2>3. CASE y >= to
    BY <1>1, <1>3, <1>5, <2>3
  <2> QED
    BY <1>1, <1>4, <2>2, <2>3
<1>8. Smallest(N) = Smallest(found)
  BY <1>4, <1>6, <1>7, SmallestIs
<1>9. HeaderEnd = Smallest(N) + 1
  BY <1>6, PastTheFirst, HeaderEnds DEF N
<1> QED
  BY <1>8, <1>9

(* A row read within a range that ends between rows ends where the file's   *)
(* row does.                                                                *)
LEMMA RowEndsInRange ==
    ASSUME IsFile, row \in RowStarts, NEW to \in RowStarts \union {Size}, row < to
    PROVE  RowEnd(to) = EndOfRow(row) /\ EndOfRow(row) <= to
<1> DEFINE found == Newlines(row, to)
<1>1. Size \in Nat /\ row \in 0..(Size - 1) /\ to \in Nat /\ to <= Size
  BY SizeIsNat, HeaderEnds DEF RowStarts
<1>2. found = {i \in row..(to - 1) : Byte(i) = Newline} /\ found \in SUBSET Nat
  BY <1>1 DEF Newlines
<1>3. CASE found = {}
  <2>1. to = Size
    <3>1. SUFFICES ASSUME to # Size PROVE FALSE
      OBVIOUS
    <3>2. to - 1 \in row..(to - 1) /\ Byte(to - 1) = Newline
      BY <1>1, <3>1, HeaderEnds DEF RowStarts
    <3> QED
      BY <1>2, <1>3, <3>2
  <2>2. EndsRow(row, to)
    BY <1>1, <1>2, <1>3, <2>1 DEF EndsRow
  <2> QED
    BY <1>1, <1>3, <2>2, RowEnds DEF RowEnd
<1>4. CASE found # {}
  <2> DEFINE first == Smallest(found)
  <2>1. first \in found /\ \A y \in found : first <= y
    BY <1>2, <1>4, SmallestIsLeast
  <2>2. first \in row..(to - 1) /\ Byte(first) = Newline
    BY <1>2, <2>1
  <2>3. ASSUME NEW i \in row..(first - 1), Byte(i) = Newline
        PROVE  FALSE
    <3>1. i \in row..(to - 1) /\ i < first
      BY <1>1, <2>2
    <3>2. i \in found /\ first \in Nat
      BY <1>2, <2>1, <2>3, <3>1
    <3> HIDE DEF first, found
    <3> QED
      BY <2>1, <3>1, <3>2
  <2>4. RowEnd(to) = first + 1
    BY <1>4 DEF RowEnd
  <2> HIDE DEF first, found
  <2>5. EndsRow(row, first + 1)
    BY <1>1, <2>2, <2>3 DEF EndsRow
  <2> QED
    BY <1>1, <2>2, <2>4, <2>5, RowEnds
<1> QED
  BY <1>3, <1>4

-----------------------------------------------------------------------------
(* The decoder: what it makes of the first bytes of a row is where what it  *)
(* makes of the whole row begins.                                           *)
Character == Bytes \union {Wide, Broken}

Begins(s, t) ==
    /\ s \in Seq(Character) /\ t \in Seq(Character)
    /\ Len(s) <= Len(t)
    /\ \A i \in 1..Len(s) : s[i] = t[i]

DecodesTo(h, bytes, n, u) ==
    u = [i \in 0..n |-> IF i = 0 THEN <<>> ELSE u[i - 1] \o Characters(h, bytes, i)]

(* Its steps, one byte after the other.                                     *)
Steps(h, bytes, n, u) ==
    /\ u[0] = <<>>
    /\ \A i \in 1..n : u[i] = u[i - 1] \o Characters(h, bytes, i)

LEMMA CharactersType ==
    ASSUME NEW h \in BOOLEAN, NEW bytes \in Seq(Bytes), NEW i \in 1..Len(bytes)
    PROVE  Characters(h, bytes, i) \in Seq(Character)
<1>1. bytes[i] \in Character
  BY DEF Character
<1>2. Wide \in Character /\ Broken \in Character
  BY DEF Character
<1>3. <<>> \in Seq(Character) /\ <<Wide>> \in Seq(Character) /\ <<Broken>> \in Seq(Character)
  BY <1>2
<1>4. ASSUME NEW l \in Seq(Character) PROVE Append(l, bytes[i]) \in Seq(Character)
  BY <1>1
<1> QED
  BY <1>3, <1>4 DEF Characters

LEMMA DecodingExists ==
    ASSUME NEW h \in BOOLEAN, NEW bytes \in Seq(Bytes), NEW n \in Nat
    PROVE  \E u : DecodesTo(h, bytes, n, u)
<1> DEFINE bad == {m \in Nat : ~\E u : DecodesTo(h, bytes, m, u)}
<1>1. SUFFICES ASSUME bad # {} PROVE FALSE
  OBVIOUS
<1>2. PICK m \in bad : \A k \in bad : m <= k
  BY <1>1, LeastNat
<1>3. CASE m = 0
  <2>1. DecodesTo(h, bytes, 0, [i \in 0..0 |-> <<>>])
    BY DEF DecodesTo
  <2> QED
    BY <1>2, <1>3, <2>1
<1>4. CASE m > 0
  <2>1. m - 1 \in Nat /\ m - 1 \notin bad
    BY <1>2, <1>4
  <2>2. PICK u : DecodesTo(h, bytes, m - 1, u)
    BY <2>1
  <2> DEFINE v == [i \in 0..m |-> IF i = m THEN u[m - 1] \o Characters(h, bytes, m) ELSE u[i]]
  <2>3. ASSUME NEW i \in 0..m
        PROVE  v[i] = IF i = 0 THEN <<>> ELSE v[i - 1] \o Characters(h, bytes, i)
    <3>1. \A k \in 0..(m - 1) : v[k] = u[k]
      BY <2>1
    <3>2. CASE i = m
      <4>1. v[i] = u[m - 1] \o Characters(h, bytes, m) /\ m - 1 \in 0..(m - 1)
        BY <2>1, <3>2
      <4> HIDE DEF v
      <4>2. v[i] = v[m - 1] \o Characters(h, bytes, m)
        BY <3>1, <4>1
      <4>3. i # 0 /\ v[i - 1] = v[m - 1] /\ Characters(h, bytes, i) = Characters(h, bytes, m)
        BY <1>4, <3>2
      <4> QED
        BY <4>2, <4>3
    <3>3. CASE i # m
      <4>1. i \in 0..(m - 1) /\ (i # 0 => i - 1 \in 0..(m - 1))
        BY <2>1, <3>3
      <4>2. u[i] = IF i = 0 THEN <<>> ELSE u[i - 1] \o Characters(h, bytes, i)
        BY <2>2, <4>1 DEF DecodesTo
      <4> HIDE DEF v
      <4> QED
        BY <3>1, <4>1, <4>2
    <3> QED
      BY <3>2, <3>3
  <2>4. DecodesTo(h, bytes, m, v)
    BY <2>3 DEF DecodesTo
  <2> QED
    BY <1>2, <2>4
<1> QED
  BY <1>2, <1>3, <1>4

(* One step of it. *)
LEMMA DecodingStep ==
    ASSUME NEW h, NEW bytes, NEW n \in Nat, NEW u, DecodesTo(h, bytes, n, u)
    PROVE  Steps(h, bytes, n, u)
<1>1. \A i \in 0..n : u[i] = IF i = 0 THEN <<>> ELSE u[i - 1] \o Characters(h, bytes, i)
  BY DEF DecodesTo
<1>2. 0 \in 0..n /\ \A i \in 1..n : i \in 0..n /\ i # 0
  OBVIOUS
<1> QED
  BY <1>1, <1>2 DEF Steps

LEMMA BytesLen ==
    ASSUME NEW bytes \in Seq(Bytes)
    PROVE  Len(bytes) \in Nat
OBVIOUS

LEMMA DecodingTypes ==
    ASSUME NEW h \in BOOLEAN, NEW bytes \in Seq(Bytes), NEW u,
           Steps(h, bytes, Len(bytes), u), NEW j \in 0..Len(bytes)
    PROVE  u[j] \in Seq(Character)
<1> DEFINE bad == {m \in 0..Len(bytes) : u[m] \notin Seq(Character)}
<1>1. SUFFICES ASSUME bad # {} PROVE FALSE
  OBVIOUS
<1>2. bad \in SUBSET Nat
  OBVIOUS
<1>3. PICK m \in bad : \A k \in bad : m <= k
  BY <1>1, <1>2, LeastNat
<1>4. m # 0
  <2>1. u[0] = <<>>
    BY DEF Steps
  <2>2. u[0] \in Seq(Character)
    BY <2>1
  <2> QED
    BY <1>3, <2>2
<1>5. u[m - 1] \in Seq(Character) /\ m \in 1..Len(bytes)
  BY <1>3, <1>4
<1>6. u[m] = u[m - 1] \o Characters(h, bytes, m)
  BY <1>5 DEF Steps
<1>7. Characters(h, bytes, m) \in Seq(Character)
  BY <1>5, CharactersType
<1>8. u[m] \in Seq(Character)
  BY <1>5, <1>6, <1>7, ConcatProperties
<1> QED
  BY <1>3, <1>8

LEMMA BeginsOn ==
    ASSUME NEW s, NEW t, NEW more \in Seq(Character), Begins(s, t)
    PROVE  Begins(s, t \o more)
<1>1. /\ s \in Seq(Character) /\ t \in Seq(Character) /\ t \o more \in Seq(Character)
      /\ Len(s) \in Nat /\ Len(t) \in Nat /\ Len(more) \in Nat
      /\ Len(t \o more) = Len(t) + Len(more)
      /\ \A i \in 1..Len(t) : (t \o more)[i] = t[i]
  BY DEF Begins
<1>2. Len(s) <= Len(t) /\ \A i \in 1..Len(s) : s[i] = t[i]
  BY DEF Begins
<1>3. \A i \in 1..Len(s) : i \in 1..Len(t)
  BY <1>1, <1>2
<1>4. \A i \in 1..Len(s) : s[i] = (t \o more)[i]
  BY <1>1, <1>2, <1>3
<1>5. Len(s) <= Len(t \o more)
  BY <1>1, <1>2
<1> QED
  BY <1>1, <1>4, <1>5 DEF Begins

LEMMA DecodedBegins ==
    ASSUME NEW h \in BOOLEAN, NEW bytes \in Seq(Bytes), NEW u,
           Steps(h, bytes, Len(bytes), u),
           NEW i \in 0..Len(bytes), NEW j \in i..Len(bytes)
    PROVE  Begins(u[i], u[j])
<1> DEFINE bad == {m \in i..Len(bytes) : ~Begins(u[i], u[m])}
<1>1. SUFFICES ASSUME bad # {} PROVE FALSE
  OBVIOUS
<1>2. bad \in SUBSET Nat
  OBVIOUS
<1>3. PICK m \in bad : \A k \in bad : m <= k
  BY <1>1, <1>2, LeastNat
<1>4. m \in i..Len(bytes) /\ ~Begins(u[i], u[m])
  BY <1>3
<1>5. u[i] \in Seq(Character) /\ u[m] \in Seq(Character)
  BY <1>4, DecodingTypes
<1>6. CASE m = i
  BY <1>4, <1>5, <1>6 DEF Begins
<1>7. CASE m # i
  <2>1. m \in 1..Len(bytes) /\ m - 1 \in i..Len(bytes) /\ m - 1 \in 0..Len(bytes)
    BY <1>4, <1>7
  <2>2. Begins(u[i], u[m - 1])
    BY <1>3, <2>1
  <2>3. u[m] = u[m - 1] \o Characters(h, bytes, m)
    BY <2>1 DEF Steps
  <2>4. Characters(h, bytes, m) \in Seq(Character)
    BY <2>1, CharactersType
  <2>5. Begins(u[i], u[m - 1] \o Characters(h, bytes, m))
    BY <2>2, <2>4, BeginsOn
  <2>6. Begins(u[i], u[m])
    BY <2>3, <2>5
  <2> QED
    BY <1>4, <2>6
<1> QED
  BY <1>6, <1>7

LEMMA DecodedIs ==
    ASSUME NEW h \in BOOLEAN, NEW bytes \in Seq(Bytes)
    PROVE  \E u : Steps(h, bytes, Len(bytes), u) /\ Decoded(h, bytes) = u[Len(bytes)]
<1> DEFINE upTo == CHOOSE u : DecodesTo(h, bytes, Len(bytes), u)
<1>1. Decoded(h, bytes) = upTo[Len(bytes)]
  BY DEF Decoded, DecodesTo
<1>2. DecodesTo(h, bytes, Len(bytes), upTo)
  BY DecodingExists, BytesLen
<1>3. Steps(h, bytes, Len(bytes), upTo)
  BY <1>2, DecodingStep, BytesLen
<1> QED
  BY <1>1, <1>3

LEMMA DecodedPrefix ==
    ASSUME NEW h \in BOOLEAN, NEW bytes \in Seq(Bytes), NEW k \in 0..Len(bytes),
           NEW part \in Seq(Bytes), Len(part) = k, \A i \in 1..k : part[i] = bytes[i]
    PROVE  Begins(Decoded(h, part), Decoded(h, bytes))
<1>1. PICK u : Steps(h, bytes, Len(bytes), u) /\ Decoded(h, bytes) = u[Len(bytes)]
  BY DecodedIs
<1>2. PICK w : Steps(h, part, k, w) /\ Decoded(h, part) = w[k]
  BY DecodedIs
<1>3. w[k] = u[k]
  <2> DEFINE bad == {m \in 0..k : w[m] # u[m]}
  <2>1. SUFFICES ASSUME bad # {} PROVE FALSE
    OBVIOUS
  <2>2. bad \in SUBSET Nat
    OBVIOUS
  <2>3. PICK m \in bad : \A j \in bad : m <= j
    BY <2>1, <2>2, LeastNat
  <2>4. m # 0
    BY <1>1, <1>2, <2>3 DEF Steps
  <2>5. m \in 1..k /\ m \in 1..Len(bytes) /\ m - 1 \in 0..k
    BY <2>3, <2>4
  <2>6. w[m - 1] = u[m - 1]
    <3>1. m - 1 \notin bad
      BY <2>3, <2>5
    <3> QED
      BY <2>5, <3>1
  <2>7. Characters(h, part, m) = Characters(h, bytes, m)
    BY <2>5 DEF Characters
  <2>8. w[m] = w[m - 1] \o Characters(h, part, m)
    BY <1>2, <2>5 DEF Steps
  <2>9. u[m] = u[m - 1] \o Characters(h, bytes, m)
    BY <1>1, <2>5 DEF Steps
  <2> QED
    BY <2>3, <2>6, <2>7, <2>8, <2>9
<1> QED
  BY <1>1, <1>2, <1>3, DecodedBegins

LEMMA DecodedType ==
    ASSUME NEW h \in BOOLEAN, NEW bytes \in Seq(Bytes)
    PROVE  Decoded(h, bytes) \in Seq(Character)
BY DecodedIs, DecodingTypes

(* The bytes between two offsets.                                           *)
LEMMA SliceIs ==
    ASSUME IsFile, NEW from \in 0..Size, NEW to \in from..Size
    PROVE  /\ Slice(from, to) \in Seq(Bytes)
           /\ Len(Slice(from, to)) = to - from
           /\ \A i \in 1..(to - from) : Slice(from, to)[i] = Byte(from + i - 1)
<1>1. Size \in Nat /\ from \in Int /\ to \in Int /\ from + 1 \in Int
  BY SizeIsNat
<1>2. \A i \in (from + 1)..to : file[i] \in Bytes
  BY <1>1 DEF IsFile, Size
<1>3. /\ Slice(from, to) \in Seq(Bytes)
      /\ Len(Slice(from, to)) = IF from + 1 <= to THEN to - (from + 1) + 1 ELSE 0
      /\ \A i \in 1..(to - (from + 1) + 1) : Slice(from, to)[i] = file[(from + 1) + i - 1]
  BY <1>1, <1>2, SubSeqProperties DEF Slice
<1>4. Len(Slice(from, to)) = to - from
  BY <1>1, <1>3
<1>5. ASSUME NEW i \in 1..(to - from)
      PROVE  Slice(from, to)[i] = Byte(from + i - 1)
  <2>1. i \in 1..(to - (from + 1) + 1) /\ (from + 1) + i - 1 = from + i - 1 + 1
    BY <1>1
  <2>2. Slice(from, to)[i] = file[(from + 1) + i - 1]
    BY <1>3, <2>1
  <2> QED
    BY <2>1, <2>2 DEF Byte
<1> QED
  BY <1>3, <1>4, <1>5

-----------------------------------------------------------------------------
(* What is kept of a row's bytes: all of them, or enough of them.           *)
LEMMA Kept ==
    ASSUME IsFile, NEW from \in 0..Size, NEW to \in from..Size
    PROVE  /\ KeptTo(from, to) \in from..to
           /\ \/ KeptTo(from, to) = to
              \/ Len(Decoded(held, Slice(from, KeptTo(from, to)))) >= MaxRow
<1> DEFINE enough == {e \in Edges(from, to) : Len(Decoded(held, Slice(from, e))) >= MaxRow}
           T == enough \union {to}
<1>1. Edges(from, to) \subseteq from..to
  BY SizeIsNat DEF Edges
<1>2. T \in SUBSET Nat /\ T # {} /\ T \subseteq from..to
  BY <1>1, SizeIsNat
<1>3. KeptTo(from, to) = Smallest(T)
  BY DEF KeptTo
<1>4. Smallest(T) \in T
  <2> HIDE DEF T
  <2> QED
    BY <1>2, SmallestIsLeast
<1> QED
  BY <1>2, <1>3, <1>4

(* The end of a row's text, and its bytes.                                  *)
LastOf(s) == IF Byte(EndOfRow(s) - 1) = Newline THEN EndOfRow(s) - 1 ELSE EndOfRow(s)

LEMMA LastOfARow ==
    ASSUME IsFile, NEW s \in 0..(Size - 1)
    PROVE  LastOf(s) \in s..Size /\ LineOf(s) = Slice(s, LastOf(s))
<1>1. EndsRow(s, EndOfRow(s))
  BY RowEnds
<1>2. LastOf(s) \in s..Size
  BY <1>1, SizeIsNat DEF EndsRow, LastOf
<1>3. LineOf(s) = Slice(s, LastOf(s))
  BY DEF LineOf, LastOf
<1> QED
  BY <1>2, <1>3

(* A text and the row's own: one is the other, or both go beyond the bound  *)
(* and agree up to it.                                                      *)
AsGood(line, own) ==
    IF Len(own) <= MaxRow
      THEN line = own
      ELSE /\ Len(line) >= MaxRow
           /\ SubSeq(line, 1, MaxRow) = SubSeq(own, 1, MaxRow)

LEMMA SameText ==
    ASSUME NEW t \in Seq(Character)
    PROVE  AsGood(t, t)
<1>1. Len(t) \in Nat
  OBVIOUS
<1> QED
  BY <1>1 DEF AsGood

LEMMA LongText ==
    ASSUME NEW s, NEW t, Begins(s, t), Len(s) >= MaxRow
    PROVE  /\ AsGood(s, t)
           /\ AsGood(Append(s, Broken), Append(t, Broken))
<1>1. s \in Seq(Character) /\ t \in Seq(Character) /\ Len(s) \in Nat /\ Len(t) \in Nat
      /\ Len(s) <= Len(t) /\ \A i \in 1..Len(s) : s[i] = t[i]
  BY DEF Begins
<1> DEFINE sb == Append(s, Broken)
           tb == Append(t, Broken)
<1>2. Broken \in Character
  BY DEF Character
<1>3. /\ sb \in Seq(Character) /\ tb \in Seq(Character)
      /\ Len(sb) = Len(s) + 1 /\ Len(tb) = Len(t) + 1
      /\ \A i \in 1..Len(s) : sb[i] = s[i]
      /\ \A i \in 1..Len(t) : tb[i] = t[i]
  BY <1>1, <1>2
<1>4. ASSUME NEW a \in Seq(Character), NEW b \in Seq(Character),
             Len(a) >= MaxRow, Len(b) >= MaxRow, \A i \in 1..MaxRow : a[i] = b[i]
      PROVE  SubSeq(a, 1, MaxRow) = SubSeq(b, 1, MaxRow)
  <2> DEFINE u == SubSeq(a, 1, MaxRow)
             v == SubSeq(b, 1, MaxRow)
  <2>1. Len(a) \in Nat /\ Len(b) \in Nat /\ MaxRow \in Nat \ {0}
    OBVIOUS
  <2>2. (\A i \in 1..MaxRow : a[i] \in Character) /\ (\A i \in 1..MaxRow : b[i] \in Character)
    BY <1>4, <2>1
  <2>3. /\ u \in Seq(Character)
        /\ Len(u) = IF 1 <= MaxRow THEN MaxRow - 1 + 1 ELSE 0
        /\ \A i \in 1..(MaxRow - 1 + 1) : u[i] = a[1 + i - 1]
    BY <2>1, <2>2, SubSeqProperties
  <2>4. /\ v \in Seq(Character)
        /\ Len(v) = IF 1 <= MaxRow THEN MaxRow - 1 + 1 ELSE 0
        /\ \A i \in 1..(MaxRow - 1 + 1) : v[i] = b[1 + i - 1]
    BY <2>1, <2>2, SubSeqProperties
  <2> HIDE DEF u, v
  <2>5. Len(u) = MaxRow /\ Len(v) = MaxRow
    BY <2>1, <2>3, <2>4
  <2>6. ASSUME NEW i \in 1..MaxRow PROVE u[i] = v[i]
    <3>1. i \in 1..(MaxRow - 1 + 1) /\ 1 + i - 1 = i
      BY <2>1
    <3> QED
      BY <1>4, <2>3, <2>4, <3>1
  <2>7. u = v
    BY <2>3, <2>4, <2>5, <2>6, SeqEqual
  <2> QED
    BY <2>7 DEF u, v
<1>5. AsGood(s, t)
  <2>1. CASE Len(t) <= MaxRow
    <3>1. Len(s) = Len(t)
      BY <1>1, <2>1
    <3>2. s = t
      BY <1>1, <3>1, SeqEqual
    <3> QED
      BY <2>1, <3>2 DEF AsGood
  <2>2. CASE ~(Len(t) <= MaxRow)
    <3>1. Len(t) >= MaxRow /\ \A i \in 1..MaxRow : s[i] = t[i]
      BY <1>1, <2>2
    <3> QED
      BY <1>1, <1>4, <2>2, <3>1 DEF AsGood
  <2> QED
    BY <2>1, <2>2
<1>6. AsGood(sb, tb)
  <2>1. ~(Len(tb) <= MaxRow) /\ Len(sb) >= MaxRow /\ Len(tb) >= MaxRow
    BY <1>1, <1>3
  <2>2. ASSUME NEW i \in 1..MaxRow PROVE sb[i] = tb[i]
    <3>1. i \in 1..Len(s) /\ i \in 1..Len(t)
      BY <1>1
    <3> QED
      BY <1>1, <1>3, <3>1
  <2> HIDE DEF sb, tb
  <2>3. SubSeq(sb, 1, MaxRow) = SubSeq(tb, 1, MaxRow)
    BY <1>3, <1>4, <2>1, <2>2
  <2> QED
    BY <2>1, <2>3 DEF AsGood
<1> QED
  BY <1>5, <1>6

(* What ReadRow appends, and what the decoder holds after it.               *)
TextRead(s) ==
    LET text == Decoded(held, Slice(s, KeptTo(s, LastOf(s))))
    IN  IF Byte(EndOfRow(s) - 1) # Newline /\ HeldAfter(held, Slice(s, LastOf(s)))
          THEN Append(text, Broken) ELSE text

TextIsOwn(line, s) ==
    \E h \in {FALSE, AfterABrokenRow(s)} : \E own \in Texts(h, s) : AsGood(line, own)

LEMMA HeldIs ==
    ASSUME NEW h \in BOOLEAN, NEW bytes \in Seq(Bytes)
    PROVE  HeldAfter(h, bytes) \in BOOLEAN
BY DEF HeldAfter

LEMMA TextOfTheRow ==
    ASSUME IsFile, NEW s \in RowStarts, held \in BOOLEAN, held => AfterABrokenRow(s)
    PROVE  TextRead(s) \in Seq(Character) /\ TextIsOwn(TextRead(s), s)
<1> DEFINE last == LastOf(s)
           kept == KeptTo(s, last)
           whole == Slice(s, last)
           part == Slice(s, kept)
           text == Decoded(held, part)
           full == Decoded(held, whole)
           gives == Byte(EndOfRow(s) - 1) # Newline /\ HeldAfter(held, whole)
<1>1. s \in 0..(Size - 1) /\ s \in 0..Size
  BY HeaderEnds, SizeIsNat DEF RowStarts
<1>2. last \in s..Size /\ last \in 0..Size /\ LineOf(s) = whole
  BY <1>1, LastOfARow, SizeIsNat
<1> HIDE DEF last
<1>3. kept \in s..last /\ (kept = last \/ Len(text) >= MaxRow)
  BY <1>1, <1>2, Kept
<1>4. kept \in s..Size
  BY <1>1, <1>2, <1>3, SizeIsNat
<1> HIDE DEF kept
<1>5. /\ whole \in Seq(Bytes) /\ Len(whole) = last - s
      /\ \A i \in 1..(last - s) : whole[i] = Byte(s + i - 1)
  BY <1>1, <1>2, SliceIs
<1>6. /\ part \in Seq(Bytes) /\ Len(part) = kept - s
      /\ \A i \in 1..(kept - s) : part[i] = Byte(s + i - 1)
  BY <1>1, <1>4, SliceIs
<1>7. Begins(text, full)
  <2>1. kept - s \in 0..Len(whole) /\ Len(part) = kept - s
    BY <1>1, <1>2, <1>3, <1>5, <1>6
  <2>2. ASSUME NEW i \in 1..(kept - s) PROVE part[i] = whole[i]
    <3>1. i \in 1..(last - s)
      BY <1>1, <1>2, <1>3
    <3> QED
      BY <1>5, <1>6, <3>1
  <2> HIDE DEF part, whole
  <2> QED
    BY <1>5, <1>6, <2>1, <2>2, DecodedPrefix
<1>8. text \in Seq(Character) /\ Append(text, Broken) \in Seq(Character)
  <2>1. Broken \in Character
    BY DEF Character
  <2> QED
    BY <1>7, <2>1 DEF Begins
<1>9. TextRead(s) = IF gives THEN Append(text, Broken) ELSE text
  BY DEF TextRead, last, kept
<1>10. /\ full \in Texts(held, s)
       /\ gives => Append(full, Broken) \in Texts(held, s)
  BY <1>2 DEF Texts
<1>11. AsGood(text, full) /\ AsGood(Append(text, Broken), Append(full, Broken))
  <2>1. CASE kept = last
    <3>1. text = full
      BY <2>1
    <3> QED
      BY <1>8, <3>1, SameText
  <2>2. CASE Len(text) >= MaxRow
    <3> HIDE DEF text, full
    <3> QED
      BY <1>7, <2>2, LongText
  <2> QED
    BY <1>3, <2>1, <2>2
<1>12. held \in {FALSE, AfterABrokenRow(s)}
  BY DEF AfterABrokenRow
<1> HIDE DEF text, full, gives
<1>13. \E own \in Texts(held, s) : AsGood(TextRead(s), own)
  BY <1>9, <1>10, <1>11
<1> QED
  BY <1>8, <1>9, <1>12, <1>13 DEF TextIsOwn

LEMMA CarriedOn ==
    ASSUME IsFile, NEW s \in RowStarts, held \in BOOLEAN, held => AfterABrokenRow(s),
           HeldAfter(held, Slice(s, LastOf(s)))
    PROVE  AfterABrokenRow(EndOfRow(s))
<1> DEFINE last == LastOf(s)
           whole == Slice(s, last)
           end == EndOfRow(s)
<1>1. s \in 0..(Size - 1) /\ s \in 0..Size /\ s >= HeaderEnd /\ HeaderEnd \in Nat /\ Size \in Nat
  BY HeaderEnds, SizeIsNat DEF RowStarts
<1>2. last \in s..Size
  BY <1>1, LastOfARow
<1>3. end \in (s + 1)..Size
  BY <1>1, RowEnds DEF EndsRow
<1>4. \A j \in last..(end - 1) : Byte(j) = Newline
  BY <1>1, <1>3 DEF LastOf
<1> HIDE DEF last, end
<1>5. /\ whole \in Seq(Bytes) /\ Len(whole) = last - s
      /\ \A i \in 1..(last - s) : whole[i] = Byte(s + i - 1)
  BY <1>1, <1>2, SliceIs
<1>6. HeldAfter(held, whole)
  BY DEF last
<1>7. CASE last = s
  <2>1. whole = <<>>
    <3> HIDE DEF whole
    <3> QED
      BY <1>5, <1>7, <1>1
  <2>2. AfterABrokenRow(s)
    BY <1>6, <2>1 DEF HeldAfter
  <2>3. PICK i \in HeaderEnd..(s - 1) :
            Byte(i) = First /\ \A j \in (i + 1)..(s - 1) : Byte(j) = Newline
    BY <2>2 DEF AfterABrokenRow
  <2>4. i \in HeaderEnd..(end - 1)
    BY <1>1, <1>3
  <2>5. \A j \in (i + 1)..(end - 1) : j \in (i + 1)..(s - 1) \/ j \in last..(end - 1)
    BY <1>1, <1>3, <1>7
  <2> QED
    BY <1>4, <2>3, <2>4, <2>5 DEF AfterABrokenRow, end
<1>8. CASE last # s
  <2>1. whole # <<>> /\ Len(whole) = last - s /\ last - s \in 1..(last - s)
    <3>1. last - s \in Nat \ {0}
      BY <1>1, <1>2, <1>8
    <3> HIDE DEF whole
    <3> QED
      BY <1>5, <3>1
  <2>2. whole[last - s] = First
    BY <1>6, <2>1 DEF HeldAfter
  <2>3. Byte(s + (last - s) - 1) = First
    BY <1>5, <2>1, <2>2
  <2>4. s + (last - s) - 1 = last - 1 /\ last - 1 \in HeaderEnd..(end - 1)
    BY <1>1, <1>2, <1>3, <1>8 DEF last, LastOf, end
  <2>5. \A j \in ((last - 1) + 1)..(end - 1) : Byte(j) = Newline
    BY <1>1, <1>2, <1>4
  <2> QED
    BY <2>3, <2>4, <2>5 DEF AfterABrokenRow, end
<1> QED
  BY <1>7, <1>8

-----------------------------------------------------------------------------
(* The inductive invariant.                                                 *)
CutsMeet ==
    IF chunks = <<>> THEN scan \in {-1, HeaderEnd, Size} ELSE scan = chunks[Len(chunks)].end

Place ==
    /\ reading = 0 => read = <<>> /\ ~held
    /\ reading > 0 =>
          /\ scan = Size
          /\ row \in RowStarts \union {Size}
          /\ row \in chunks[reading].start..chunks[reading].end
          /\ row = IF read = <<>> THEN HeaderEnd ELSE read[Len(read)].end

Carried == held => AfterABrokenRow(row)

Cuts == ChunksAreWholeRows /\ CutsMeet
Rows == EachRowReadOnce /\ TextIsTheRowsOwn
Whole == TypeOK /\ Cuts /\ Place /\ Carried /\ Rows

(* The file is the same all along, and so is what is said of it.            *)
LEMMA SameFile ==
    ASSUME file' = file
    PROVE  /\ Size' = Size /\ HeaderEnd' = HeaderEnd /\ RowStarts' = RowStarts
           /\ \A i : Byte(i)' = Byte(i)
           /\ \A s : EndOfRow(s)' = EndOfRow(s)
           /\ \A s : AfterABrokenRow(s)' = AfterABrokenRow(s)
           /\ \A h, s : Texts(h, s)' = Texts(h, s)
<1>1. Size' = Size /\ \A i : Byte(i)' = Byte(i)
  BY DEF Size, Byte
<1>2. \A s : Newlines(s, Size)' = Newlines(s, Size)
  BY <1>1 DEF Newlines
<1>3. \A s : EndOfRow(s)' = EndOfRow(s)
  BY <1>1, <1>2 DEF EndOfRow, Smallest
<1>4. HeaderEnd' = HeaderEnd
  BY <1>1, <1>2 DEF HeaderEnd, Smallest
<1>5. RowStarts' = RowStarts
  BY <1>1, <1>4 DEF RowStarts
<1>6. \A s : AfterABrokenRow(s)' = AfterABrokenRow(s)
  BY <1>1, <1>4 DEF AfterABrokenRow
<1>7. \A h, s : Texts(h, s)' = Texts(h, s)
  <2>1. \A s : LineOf(s)' = LineOf(s)
    BY <1>1, <1>3 DEF LineOf, Slice
  <2> QED
    BY <2>1 DEF Texts
<1> QED
  BY <1>1, <1>3, <1>4, <1>5, <1>6, <1>7

LEMMA TypedFile ==
    ASSUME TypeOK
    PROVE  IsFile
BY DEF TypeOK, IsFile

LEMMA InitWhole ==
    ASSUME Init
    PROVE  Whole
<1>1. IsFile
  <2>1. PICK n \in 0..MaxSize : file \in [1..n -> Bytes]
    BY DEF Init, Files
  <2>2. file \in Seq(Bytes) /\ Len(file) = n
    BY <2>1
  <2> QED
    BY <2>2 DEF IsFile, Size
<1>2. Size \in Nat
  BY <1>1, SizeIsNat
<1>3. TypeOK
  <2>1. \A S : <<>> \in Seq(S)
    OBVIOUS
  <2>2. /\ chunks = <<>> /\ read = <<>> /\ scan = -1 /\ reading = 0 /\ opened = 0 /\ row = 0
        /\ held = FALSE
    BY DEF Init
  <2>3. scan \in -1..Size /\ 0 \in 0..Size /\ reading \in 0..Len(chunks)
    BY <1>2, <2>2
  <2> QED
    BY <1>1, <2>1, <2>2, <2>3 DEF TypeOK, IsFile
<1>4. Cuts /\ Place /\ Carried /\ Rows
  BY DEF Init, Cuts, ChunksAreWholeRows, CutsMeet, Place, Carried, Rows, EachRowReadOnce,
         TextIsTheRowsOwn
<1> QED
  BY <1>3, <1>4 DEF Whole

(* What is read stays whole.                                                *)
LEMMA SameRows ==
    ASSUME Rows, UNCHANGED <<file, read>>
    PROVE  Rows'
<1>1. EachRowReadOnce'
  BY SameFile DEF Rows, EachRowReadOnce
<1>2. TextIsTheRowsOwn'
  <2>1. \A i \in DOMAIN read : TextIsOwn(read[i].line, read[i].start)
    BY DEF Rows, TextIsTheRowsOwn, TextIsOwn, AsGood
  <2>2. ASSUME NEW i \in DOMAIN read
        PROVE  TextIsOwn(read[i].line, read[i].start)'
    <3> DEFINE s == read[i].start
               hs == {FALSE, AfterABrokenRow(s)}
    <3>1. PICK h \in hs : \E own \in Texts(h, s) : AsGood(read[i].line, own)
      BY <2>1 DEF TextIsOwn
    <3>2. hs' = hs /\ Texts(h, s)' = Texts(h, s) /\ read' = read
      BY SameFile
    <3> QED
      BY <3>1, <3>2 DEF TextIsOwn, AsGood
  <2> QED
    BY <2>2 DEF TextIsTheRowsOwn, TextIsOwn, AsGood
<1> QED
  BY <1>1, <1>2 DEF Rows

LEMMA SameCuts ==
    ASSUME Cuts, UNCHANGED <<file, chunks, scan>>
    PROVE  Cuts'
BY SameFile DEF Cuts, ChunksAreWholeRows, CutsMeet

LEMMA ScanBeginsWhole ==
    ASSUME Whole, ScanBegins
    PROVE  Whole'
<1> USE DEF Whole
<1>1. UNCHANGED <<file, chunks, reading, opened, row, held, read>> /\ scan = -1
      /\ scan' = FirstRowOffset
  BY DEF ScanBegins
<1>2. IsFile /\ scan' \in {HeaderEnd, Size} /\ Size \in Nat /\ HeaderEnd \in 0..Size
  BY <1>1, TypedFile, FirstRowIsPastTheHeader, SizeIsNat, HeaderEnds
<1>3. TypeOK'
  BY <1>1, <1>2, SameFile DEF TypeOK
<1>4. chunks = <<>>
  <2>1. SUFFICES ASSUME chunks # <<>> PROVE FALSE
    OBVIOUS
  <2>2. Len(chunks) \in DOMAIN chunks /\ chunks[Len(chunks)] \in [start : 0..Size, end : 0..Size]
    <3>1. chunks \in Seq([start : 0..Size, end : 0..Size])
      BY DEF TypeOK
    <3> HIDE DEF TypeOK
    <3>2. Len(chunks) \in 1..Len(chunks) /\ DOMAIN chunks = 1..Len(chunks)
      BY <2>1, <3>1, EmptySeq, LenProperties
    <3> QED
      BY <3>1, <3>2, ElementOfSeq
  <2> QED
    BY <1>1, <1>2, <2>1, <2>2 DEF Cuts, CutsMeet
<1>5. Cuts'
  BY <1>1, <1>2, <1>4, SameFile DEF Cuts, ChunksAreWholeRows, CutsMeet
<1>6. Place' /\ Carried'
  <2>1. reading = 0
    BY <1>4 DEF TypeOK
  <2> QED
    BY <1>1, <2>1 DEF Place, Carried
<1>7. Rows'
  BY <1>1, SameRows
<1> QED
  BY <1>3, <1>5, <1>6, <1>7

LEMMA ScanChunkWhole ==
    ASSUME Whole, ScanChunk
    PROVE  Whole'
<1> USE DEF Whole
<1> DEFINE n == Len(chunks)
           target == scan + TargetBytes
           end == IF target >= Size THEN Size ELSE NextNewlineAfter(target)
           c == [start |-> scan, end |-> end]
<1>1. UNCHANGED <<file, reading, opened, row, held, read>> /\ scan \in 0..(Size - 1)
      /\ reading = 0 /\ chunks' = Append(chunks, c) /\ scan' = end
  BY DEF ScanChunk
<1>2. IsFile /\ Size \in Nat /\ HeaderEnd \in 0..Size /\ n \in Nat
  BY TypedFile, SizeIsNat, HeaderEnds DEF TypeOK
<1>3. scan \in RowStarts
  <2>1. CASE chunks = <<>>
    <3>1. scan = HeaderEnd
      BY <1>1, <1>2, <2>1 DEF Cuts, CutsMeet
    <3> QED
      BY <1>1, <1>2, <3>1 DEF RowStarts
  <2>2. CASE chunks # <<>>
    <3>1. n \in DOMAIN chunks
      BY <2>2 DEF TypeOK
    <3>2. scan = chunks[n].end /\ chunks[n].end \in RowStarts \union {Size}
      BY <2>2, <3>1 DEF Cuts, CutsMeet, ChunksAreWholeRows
    <3> QED
      BY <1>1, <1>2, <3>2
  <2> QED
    BY <2>1, <2>2
<1>4. end \in RowStarts \union {Size} /\ end > scan /\ end \in 0..Size
  <2>1. target \in Nat /\ target > scan
    BY <1>1, <1>2
  <2>2. CASE target >= Size
    BY <1>1, <1>2, <2>2
  <2>3. CASE ~(target >= Size)
    <3>1. target \in HeaderEnd..(Size - 1) /\ target \in 0..(Size - 1)
      BY <1>2, <1>3, <2>1, <2>3 DEF RowStarts
    <3>2. end = EndOfRow(target)
      BY <1>2, <2>1, <2>3, NextNewlineEndsARow
    <3>3. EndOfRow(target) \in RowStarts \union {Size} /\ EndOfRow(target) \in (target + 1)..Size
      BY <1>2, <3>1, NextRow, RowEnds DEF EndsRow
    <3> QED
      BY <1>1, <1>2, <2>1, <3>2, <3>3
  <2> QED
    BY <2>2, <2>3
<1> HIDE DEF end
<1>5. c \in [start : 0..Size, end : 0..Size] /\ c.start = scan /\ c.end = end
  BY <1>1, <1>2, <1>4
<1>6. /\ chunks' \in Seq([start : 0..Size, end : 0..Size]) /\ Len(chunks') = n + 1
      /\ DOMAIN chunks' = 1..(n + 1) /\ DOMAIN chunks = 1..n
      /\ \A k \in 1..n : chunks'[k] = chunks[k]
      /\ chunks'[n + 1] = c
  <2> HIDE DEF c
  <2> QED
    BY <1>1, <1>5 DEF TypeOK
<1> HIDE DEF c
<1>7. TypeOK'
  BY <1>1, <1>2, <1>4, <1>6, SameFile DEF TypeOK
<1>8. ChunksAreWholeRows'
  <2>1. SUFFICES ASSUME NEW k \in 1..(n + 1)
                 PROVE  /\ chunks'[k].start < chunks'[k].end
                        /\ chunks'[k].start = IF k = 1 THEN HeaderEnd ELSE chunks'[k - 1].end
                        /\ chunks'[k].start \in RowStarts
                        /\ chunks'[k].end \in RowStarts \union {Size}
    BY <1>1, <1>6, SameFile DEF ChunksAreWholeRows
  <2>2. k = 1 \/ k - 1 \in 1..n
    BY <1>2
  <2>3. k # 1 => chunks'[k - 1] = chunks[k - 1]
    BY <1>6, <2>2
  <2>4. CASE k \in 1..n
    <3>1. /\ chunks[k].start < chunks[k].end
          /\ chunks[k].start = IF k = 1 THEN HeaderEnd ELSE chunks[k - 1].end
          /\ chunks[k].start \in RowStarts
          /\ chunks[k].end \in RowStarts \union {Size}
      BY <1>6, <2>4 DEF Cuts, ChunksAreWholeRows
    <3> QED
      BY <1>6, <2>3, <2>4, <3>1
  <2>5. CASE k = n + 1
    <3>1. chunks'[k] = c /\ k - 1 = n
      BY <1>2, <1>6, <2>5
    <3>2. scan = IF k = 1 THEN HeaderEnd ELSE chunks[k - 1].end
      <4>1. CASE chunks = <<>>
        <5>1. k = 1
          BY <2>5, <4>1
        <5> QED
          BY <1>1, <1>2, <4>1, <5>1 DEF Cuts, CutsMeet
      <4>2. CASE chunks # <<>>
        <5>1. k # 1 /\ scan = chunks[n].end
          BY <1>2, <2>5, <4>2 DEF Cuts, CutsMeet, TypeOK
        <5> QED
          BY <3>1, <5>1
      <4> QED
        BY <4>1, <4>2
    <3> QED
      BY <1>3, <1>4, <1>5, <2>3, <3>1, <3>2
  <2> QED
    BY <1>2, <2>4, <2>5
<1>9. CutsMeet'
  <2>1. chunks' # <<>>
    BY <1>2, <1>6
  <2> QED
    BY <1>1, <1>5, <1>6, <2>1 DEF CutsMeet
<1>10. Place' /\ Carried'
  BY <1>1 DEF Place, Carried
<1>11. Rows'
  BY <1>1, SameRows
<1> QED
  BY <1>7, <1>8, <1>9, <1>10, <1>11 DEF Cuts

(* A chunk, and where it lies.                                              *)
LEMMA ChunkLies ==
    ASSUME TypeOK, ChunksAreWholeRows, NEW k \in 1..Len(chunks)
    PROVE  /\ chunks[k].start \in RowStarts
           /\ chunks[k].end \in RowStarts \union {Size}
           /\ chunks[k].start < chunks[k].end
           /\ chunks[k].start \in 0..Size /\ chunks[k].end \in 0..Size
           /\ chunks[k].start = IF k = 1 THEN HeaderEnd ELSE chunks[k - 1].end
<1>1. chunks \in Seq([start : 0..Size, end : 0..Size])
  BY DEF TypeOK
<1>2. k \in DOMAIN chunks /\ chunks[k] \in [start : 0..Size, end : 0..Size]
  BY <1>1, ElementOfSeq, LenProperties
<1> QED
  BY <1>2 DEF ChunksAreWholeRows

LEMMA NextChunkWhole ==
    ASSUME Whole, NextChunk
    PROVE  Whole'
<1> USE DEF Whole
<1> DEFINE k == reading + 1
<1>1. /\ UNCHANGED <<file, chunks, scan, read>>
      /\ scan = Size /\ reading < Len(chunks)
      /\ reading > 0 => row = chunks[reading].end
      /\ reading' = k /\ opened' = chunks[k].start /\ row' = chunks[k].start /\ held' = FALSE
  BY DEF NextChunk, Open
<1>2. IsFile /\ Size \in Nat /\ reading \in Nat /\ k \in 1..Len(chunks) /\ Len(chunks) \in Nat
  <2>1. reading \in 0..Len(chunks) /\ Len(chunks) \in Nat
    BY DEF TypeOK
  <2> QED
    BY <1>1, <2>1, TypedFile, SizeIsNat
<1>3. /\ chunks[k].start \in RowStarts
      /\ chunks[k].start < chunks[k].end
      /\ chunks[k].start \in 0..Size /\ chunks[k].end \in 0..Size
      /\ chunks[k].start = IF k = 1 THEN HeaderEnd ELSE chunks[k - 1].end
  BY <1>2, ChunkLies DEF Cuts
<1>4. TypeOK'
  <2>1. UNCHANGED <<file, chunks, scan, read>> /\ Size' = Size
    BY <1>1, SameFile
  <2>2. reading' \in 0..Len(chunks) /\ opened' \in 0..Size /\ row' \in 0..Size
        /\ held' \in BOOLEAN
    <3>1. k \in 0..Len(chunks) /\ FALSE \in BOOLEAN
      BY <1>2
    <3> HIDE DEF k, Whole
    <3> QED
      BY <1>1, <1>3, <3>1
  <2> QED
    BY <2>1, <2>2 DEF TypeOK
<1>5. Place'
  <2>1. row' = IF read = <<>> THEN HeaderEnd ELSE read[Len(read)].end
    <3>1. CASE reading = 0
      BY <1>1, <1>3, <3>1 DEF Place
    <3>2. CASE reading > 0
      <4>1. k # 1 /\ k - 1 = reading
        BY <1>2, <3>2
      <4>2. row' = chunks[reading].end
        BY <1>1, <1>3, <4>1
      <4>3. row' = row
        BY <1>1, <3>2, <4>2
      <4> QED
        BY <3>2, <4>3 DEF Place
    <3> QED
      BY <1>2, <3>1, <3>2
  <2>2. reading' > 0 /\ chunks'[reading'] = chunks[k] /\ row' \in RowStarts
        /\ row' \in chunks[k].start..chunks[k].end
    BY <1>1, <1>2, <1>3
  <2> QED
    BY <1>1, <2>1, <2>2, SameFile DEF Place
<1>6. Carried'
  BY <1>1 DEF Carried
<1>7. Cuts' /\ Rows'
  BY <1>1, SameCuts, SameRows
<1> QED
  BY <1>4, <1>5, <1>6, <1>7

LEMMA ResumeWhole ==
    ASSUME Whole, Resume
    PROVE  Whole'
<1> USE DEF Whole
<1>1. /\ UNCHANGED <<file, chunks, scan, read, reading, row>>
      /\ reading > 0 /\ opened' = row /\ held' = FALSE
  BY DEF Resume, Open
<1>2. TypeOK'
  BY <1>1, SameFile DEF TypeOK
<1>3. Place'
  BY <1>1, SameFile DEF Place
<1>4. Carried'
  BY <1>1 DEF Carried
<1>5. Cuts' /\ Rows'
  BY <1>1, SameCuts, SameRows
<1> QED
  BY <1>2, <1>3, <1>4, <1>5

RowRead(s) == [start |-> s, end |-> EndOfRow(s), line |-> TextRead(s)]

(* The row that is read is the file's row.                                  *)
LEMMA ReadsTheRow ==
    ASSUME Whole, ReadRow
    PROVE  /\ UNCHANGED <<file, chunks, scan, reading, opened>>
           /\ reading > 0 /\ row \in RowStarts
           /\ row' = EndOfRow(row) /\ EndOfRow(row) <= chunks[reading].end
           /\ held' = HeldAfter(held, Slice(row, LastOf(row)))
           /\ read' = Append(read, RowRead(row))
<1> USE DEF Whole
<1>1. UNCHANGED <<file, chunks, scan, reading, opened>> /\ reading > 0
      /\ row < chunks[reading].end
  BY DEF ReadRow
<1>2. reading \in 1..Len(chunks)
  BY <1>1 DEF TypeOK
<1>3. chunks[reading].end \in RowStarts \union {Size} /\ chunks[reading].end \in 0..Size
  BY <1>2, ChunkLies DEF Cuts
<1>4. IsFile /\ row \in RowStarts \union {Size} /\ Size \in Nat
  BY <1>1, TypedFile, SizeIsNat DEF Place
<1>5. row \in RowStarts
  BY <1>1, <1>3, <1>4
<1>6. RowEnd(chunks[reading].end) = EndOfRow(row) /\ EndOfRow(row) <= chunks[reading].end
  BY <1>1, <1>3, <1>4, <1>5, RowEndsInRange
<1>7. row' = EndOfRow(row) /\ held' = HeldAfter(held, Slice(row, LastOf(row)))
  BY <1>6 DEF ReadRow, LastOf
<1>8. read' = Append(read, RowRead(row))
  BY <1>6, <1>7 DEF ReadRow, LastOf, RowRead, TextRead
<1> QED
  BY <1>1, <1>5, <1>6, <1>7, <1>8

LEMMA ReadRowWhole ==
    ASSUME Whole, ReadRow
    PROVE  Whole'
<1> USE DEF Whole
<1> DEFINE n == Len(read)
           end == EndOfRow(row)
           r == RowRead(row)
<1>1. /\ UNCHANGED <<file, chunks, scan, reading, opened>>
      /\ reading > 0 /\ row \in RowStarts
      /\ row' = end /\ end <= chunks[reading].end
      /\ held' = HeldAfter(held, Slice(row, LastOf(row)))
      /\ read' = Append(read, r)
  BY ReadsTheRow
<1>2. IsFile /\ Size \in Nat /\ HeaderEnd \in 0..Size /\ held \in BOOLEAN
      /\ row \in 0..(Size - 1) /\ row \in HeaderEnd..(Size - 1)
  BY <1>1, TypedFile, SizeIsNat, HeaderEnds DEF TypeOK, RowStarts
<1>3. end \in (row + 1)..Size /\ end \in RowStarts \union {Size}
  BY <1>2, RowEnds, NextRow DEF EndsRow
<1>4. TextRead(row) \in Seq(Character) /\ TextIsOwn(TextRead(row), row)
  BY <1>1, <1>2, TextOfTheRow DEF Carried
<1>5. held' \in BOOLEAN /\ (held' => AfterABrokenRow(end))
  <2>1. LastOf(row) \in row..Size
    BY <1>2, LastOfARow
  <2>2. Slice(row, LastOf(row)) \in Seq(Bytes)
    BY <1>2, <2>1, SliceIs
  <2>3. held' \in BOOLEAN
    BY <1>1, <1>2, <2>2, HeldIs
  <2>4. held' => AfterABrokenRow(end)
    BY <1>1, <1>2, CarriedOn DEF Carried
  <2> QED
    BY <2>3, <2>4
<1>6. /\ r \in [start : 0..Size, end : 0..Size, line : Seq(Bytes \union {Wide, Broken})]
      /\ r.start = row /\ r.end = end /\ r.line = TextRead(row)
  BY <1>2, <1>3, <1>4 DEF RowRead, Character
<1> HIDE DEF r, end
<1>7. /\ read' \in Seq([start : 0..Size, end : 0..Size, line : Seq(Bytes \union {Wide, Broken})])
      /\ n \in Nat /\ Len(read') = n + 1
      /\ DOMAIN read' = 1..(n + 1) /\ DOMAIN read = 1..n
      /\ \A i \in 1..n : read'[i] = read[i]
      /\ read'[n + 1] = r
  <2>1. read \in Seq([start : 0..Size, end : 0..Size, line : Seq(Bytes \union {Wide, Broken})])
    BY DEF TypeOK
  <2> HIDE DEF Whole
  <2> QED
    BY <1>1, <1>6, <2>1
<1>8. TypeOK'
  <2>1. UNCHANGED <<file, chunks, scan, reading, opened>> /\ Size' = Size
    BY <1>1, SameFile
  <2>2. row' \in 0..Size
    BY <1>1, <1>2, <1>3
  <2>3. TypeOK
    OBVIOUS
  <2> HIDE DEF Whole
  <2> QED
    BY <1>5, <1>7, <2>1, <2>2, <2>3 DEF TypeOK
<1>9. Place'
  <2>1. row' = read'[Len(read')].end /\ read' # <<>>
    <3> HIDE DEF n, Whole
    <3>1. Len(read') = n + 1 /\ n \in Nat /\ read'[n + 1] = r
      BY <1>7
    <3>2. row' = r.end
      BY <1>1, <1>6
    <3>3. Len(read') # 0 /\ read'[Len(read')] = r
      BY <3>1
    <3> QED
      BY <3>2, <3>3
  <2>2. reading \in 1..Len(chunks) /\ scan = Size
        /\ row \in chunks[reading].start..chunks[reading].end
    BY <1>1 DEF Place, TypeOK
  <2>3. chunks[reading].start \in 0..Size /\ chunks[reading].end \in 0..Size
    BY <2>2, ChunkLies DEF Cuts
  <2>4. row' \in chunks[reading].start..chunks[reading].end
    <3>1. row \in Nat /\ Size \in Nat /\ row' \in (row + 1)..Size
      BY <1>1, <1>2, <1>3
    <3>2. row' <= chunks[reading].end
      BY <1>1
    <3> HIDE DEF Whole
    <3> QED
      BY <2>2, <2>3, <3>1, <3>2
  <2> QED
    BY <1>1, <1>3, <2>1, <2>2, <2>4, SameFile DEF Place
<1>10. Carried'
  BY <1>1, <1>5, SameFile DEF Carried
<1>11. row = IF n = 0 THEN HeaderEnd ELSE read[n].end
  BY <1>1, <1>7 DEF Place
<1>12. EachRowReadOnce'
  <2>1. SUFFICES ASSUME NEW i \in 1..(n + 1)
                 PROVE  /\ read'[i].start = IF i = 1 THEN HeaderEnd ELSE read'[i - 1].end
                        /\ read'[i].start \in RowStarts
                        /\ read'[i].end = EndOfRow(read'[i].start)
    <3>1. HeaderEnd' = HeaderEnd /\ RowStarts' = RowStarts
          /\ \A s : EndOfRow(s)' = EndOfRow(s)
      BY <1>1, SameFile
    <3>2. \A i \in DOMAIN read' : EndOfRow(read[i].start)' = EndOfRow(read'[i].start)
      BY <1>1 DEF EndOfRow, Newlines, Byte, Size, Smallest
    <3> QED
      BY <1>7, <2>1, <3>1, <3>2 DEF EachRowReadOnce
  <2>2. i # 1 => read'[i - 1] = read[i - 1]
    <3>1. i # 1 => i - 1 \in 1..n
      BY <1>7
    <3> QED
      BY <1>7, <3>1
  <2>3. CASE i \in 1..n
    <3>1. /\ read[i].start = IF i = 1 THEN HeaderEnd ELSE read[i - 1].end
          /\ read[i].start \in RowStarts
          /\ read[i].end = EndOfRow(read[i].start)
      BY <1>7, <2>3 DEF Rows, EachRowReadOnce
    <3>2. read'[i] = read[i]
      BY <1>7, <2>3
    <3> QED
      BY <2>2, <3>1, <3>2
  <2>4. CASE i = n + 1
    <3>1. read'[i] = r /\ i - 1 = n /\ (i = 1 <=> n = 0)
      BY <1>7, <2>4
    <3> QED
      BY <1>1, <1>6, <1>11, <2>2, <3>1 DEF end
  <2> QED
    BY <1>7, <2>3, <2>4
<1>13. TextIsTheRowsOwn'
  <2>1. ASSUME NEW i \in 1..(n + 1)
        PROVE  TextIsOwn(read'[i].line, read'[i].start)
    <3>1. CASE i \in 1..n
      <4>1. TextIsOwn(read[i].line, read[i].start)
        BY <1>7, <3>1 DEF Rows, TextIsTheRowsOwn, TextIsOwn, AsGood
      <4> QED
        BY <1>7, <3>1, <4>1
    <3>2. CASE i = n + 1
      BY <1>4, <1>6, <1>7, <3>2
    <3> QED
      BY <1>7, <3>1, <3>2
  <2>2. ASSUME NEW i \in DOMAIN read'
        PROVE  TextIsOwn(read[i].line, read[i].start)'
    <3> DEFINE s == read'[i].start
               hs == {FALSE, AfterABrokenRow(s)}
    <3>1. PICK h \in hs : \E own \in Texts(h, s) : AsGood(read'[i].line, own)
      BY <1>7, <2>1, <2>2 DEF TextIsOwn
    <3>2. {FALSE, AfterABrokenRow(read[i].start)}' = hs /\ Texts(h, read[i].start)' = Texts(h, s)
      BY <1>1, SameFile
    <3> QED
      BY <3>1, <3>2 DEF TextIsOwn, AsGood
  <2> QED
    BY <2>2 DEF TextIsTheRowsOwn, TextIsOwn, AsGood
<1>14. Cuts'
  BY <1>1, SameCuts
<1> QED
  BY <1>8, <1>9, <1>10, <1>12, <1>13, <1>14 DEF Rows

LEMMA StepWhole ==
    ASSUME Whole, [Next]_vars
    PROVE  Whole'
<1>1. CASE UNCHANGED vars
  <2>1. UNCHANGED <<file, chunks, scan, reading, opened, row, held, read>>
    BY <1>1 DEF vars
  <2> QED
    BY <2>1, SameFile, SameCuts, SameRows DEF Whole, TypeOK, Place, Carried
<1>2. CASE Finished
  BY <1>1, <1>2 DEF Finished
<1> QED
  BY <1>1, <1>2, ScanBeginsWhole, ScanChunkWhole, NextChunkWhole, ResumeWhole, ReadRowWhole
  DEF Next

-----------------------------------------------------------------------------
(* The invariant, for every file, chunk size and window: what has been cut  *)
(* meets, what has been read goes on from where the last row ended, and     *)
(* what the decoder holds comes from a row that ended inside a character.   *)
THEOREM WholeAlways == Spec => []Whole
<1>1. Init => Whole
  BY InitWhole
<1>2. Whole /\ [Next]_vars => Whole'
  BY StepWhole
<1> QED
  BY <1>1, <1>2, PTL DEF Spec

(* Every variable of the file, its chunks and its rows has its type.        *)
THEOREM TypeCorrect == Spec => []TypeOK
<1>1. Whole => TypeOK
  BY DEF Whole
<1> QED
  BY <1>1, WholeAlways, PTL

(* A file is cut between its rows, whatever the windows and the target.     *)
THEOREM CutBetweenRows == Spec => []ChunksAreWholeRows
<1>1. Whole => ChunksAreWholeRows
  BY DEF Whole, Cuts
<1> QED
  BY <1>1, WholeAlways, PTL

(* Every row is read once and in full, wherever invocations stop.           *)
THEOREM ReadOnce == Spec => []EachRowReadOnce
<1>1. Whole => EachRowReadOnce
  BY DEF Whole, Rows
<1> QED
  BY <1>1, WholeAlways, PTL

(* A row reads as its own bytes, wherever the windows of the stream fall.   *)
THEOREM ReadsItsOwn == Spec => []TextIsTheRowsOwn
<1>1. Whole => TextIsTheRowsOwn
  BY DEF Whole, Rows
<1> QED
  BY <1>1, WholeAlways, PTL
=============================================================================
