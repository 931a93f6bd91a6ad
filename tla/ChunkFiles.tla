------------------------------ MODULE ChunkFiles ------------------------------
(***************************************************************************)
(* A vendor file, cut into the byte ranges of its chunks at registration   *)
(* (chunkBoundaries) and read back row by row by the workers               *)
(* (readRangeLines).  A worker may stop after any row it has stored, and   *)
(* the next one opens the file again at the byte that row ended at.        *)
(*                                                                         *)
(* A byte is what the two functions look at: the newline, the mark at the  *)
(* head of the file, a character of one byte, and the two bytes of a wider *)
(* one, which a read window may separate and a broken file may leave       *)
(* alone.  The mark is one byte here.                                      *)
(***************************************************************************)
EXTENDS Integers, Sequences

CONSTANTS
    MaxSize,        \* bound: bytes of a file
    TargetBytes,    \* CHUNK_BYTES
    HeadBytes,      \* the window the header must end in
    StepBytes,      \* the window of the search for a chunk's end
    WindowBytes,    \* the stream's window
    MaxRow          \* MAX_ROW_CHARS

ASSUME SizesAssumption ==
    /\ MaxSize \in Nat
    /\ {TargetBytes, HeadBytes, StepBytes, WindowBytes, MaxRow} \subseteq Nat \ {0}

Newline == "newline"
Mark    == "mark"
Plain   == "plain"
First   == "first"
Second  == "second"
Wide    == "wide"        \* a character: its first and second byte
Broken  == "broken"      \* the replacement character

Bytes == {Newline, Mark, Plain, First, Second}

VARIABLES
    file,       \* its bytes, from offset 0
    chunks,     \* the ranges found so far
    scan,       \* where the search stands; -1 before it, the size when it is over
    reading,    \* the chunk being read; 0 before the import is registered
    opened,     \* the offset the stream was opened at
    row,        \* the offset the next row starts at
    held,       \* the decoder holds a first byte
    read        \* history: the rows read, in order

vars == <<file, chunks, scan, reading, opened, row, held, read>>

Size == Len(file)
Byte(i) == file[i + 1]

(* A mark elsewhere than at the head is a character like another.           *)
Files == {f \in UNION {[1..n -> Bytes] : n \in 0..MaxSize} :
            \A i \in DOMAIN f : f[i] = Mark => i = 1}

Init ==
    /\ file \in Files
    /\ chunks = <<>>
    /\ scan = -1
    /\ reading = 0
    /\ opened = 0
    /\ row = 0
    /\ held = FALSE
    /\ read = <<>>

Least(a, b) == IF a < b THEN a ELSE b
Smallest(S) == CHOOSE i \in S : \A j \in S : i <= j

Newlines(from, to) == {i \in from..(to - 1) : Byte(i) = Newline}

(***************************************************************************)
(* Registration.                                                           *)
(***************************************************************************)
(* Past the mark and the header, which must end in the first window.        *)
FirstRowOffset ==
    LET afterMark == IF Size > 0 /\ Byte(0) = Mark THEN 1 ELSE 0
        found == Newlines(afterMark, Least(Size, HeadBytes))
    IN  IF found = {} THEN Size ELSE Smallest(found) + 1

\* Mutants: the byte of the newline itself; the last window's end, not the file's.
NextNewlineAfter_On(from) ==
    LET found == Newlines(from, Size) IN IF found = {} THEN Size ELSE Smallest(found)
NextNewlineAfter_WindowEnd(from) ==
    LET found == Newlines(from, Size)
        steps == (Size - from + StepBytes - 1) \div StepBytes
    IN  IF found = {} THEN from + StepBytes * steps ELSE Smallest(found) + 1

(* Past the first newline at or after from, a window at a time.             *)
NextNewlineAfter(from) ==
    LET search[at \in Nat] ==
            IF at >= Size THEN Size
            ELSE LET found == Newlines(at, at + Least(StepBytes, Size - at))
                 IN  IF found = {} THEN search[at + StepBytes] ELSE Smallest(found) + 1
    IN  search[from]

ScanBegins ==
    /\ scan = -1
    /\ scan' = FirstRowOffset
    /\ UNCHANGED <<file, chunks, reading, opened, row, held, read>>

ScanChunk ==
    /\ scan \in 0..(Size - 1)
    /\ reading = 0
    /\ LET target == scan + TargetBytes
           end == IF target >= Size THEN Size ELSE NextNewlineAfter(target)
       IN  /\ chunks' = Append(chunks, [start |-> scan, end |-> end])
           /\ scan' = end
    /\ UNCHANGED <<file, reading, opened, row, held, read>>

(***************************************************************************)
(* Reading.                                                                *)
(***************************************************************************)
Open(k, at) ==
    /\ reading' = k
    /\ opened' = at
    /\ row' = at
    /\ held' = FALSE

(* The next chunk is begun, in file order; the chunks share nothing.        *)
NextChunk ==
    /\ scan = Size
    /\ reading < Len(chunks)
    /\ reading > 0 => row = chunks[reading].end
    /\ Open(reading + 1, chunks[reading + 1].start)
    /\ UNCHANGED <<file, chunks, scan, read>>

(* The invocation stops at a row's end, and another resumes there.          *)
Resume ==
    /\ reading > 0
    /\ row > opened /\ row < chunks[reading].end
    /\ Open(reading, row)
    /\ UNCHANGED <<file, chunks, scan, read>>

Slice(from, to) == SubSeq(file, from + 1, to)

(* The UTF-8 decoder: what it holds after some bytes, and the characters it *)
(* has made of them, byte by byte.                                          *)
HeldAfter(h, bytes) == IF bytes = <<>> THEN h ELSE bytes[Len(bytes)] = First

Characters(h, bytes, i) ==
    LET heldBefore == IF i = 1 THEN h ELSE bytes[i - 1] = First
        left == IF heldBefore /\ bytes[i] # Second THEN <<Broken>> ELSE <<>>
    IN  CASE bytes[i] = First  -> left
          [] bytes[i] = Second -> <<IF heldBefore THEN Wide ELSE Broken>>
          [] OTHER             -> Append(left, bytes[i])

Decoded(h, bytes) ==
    LET upTo[i \in 0..Len(bytes)] ==
            IF i = 0 THEN <<>> ELSE upTo[i - 1] \o Characters(h, bytes, i)
    IN  upTo[Len(bytes)]

(* Where the stream's windows cut a row's bytes.                            *)
Edges(from, to) == {e \in (from + 1)..to : e = to \/ (e - opened) % WindowBytes = 0}

\* Mutant: each window replaces what the one before it left.
KeptTo_FirstWindow(from, to) == Smallest(Edges(from, to) \union {to})

(* keep: windows are added while the row is within its bound.               *)
KeptTo(from, to) ==
    Smallest({e \in Edges(from, to) : Len(Decoded(held, Slice(from, e))) >= MaxRow} \union {to})

\* Mutants: the offset of the terminator; the range is one row.
RowEnd_On(to) ==
    LET found == Newlines(row, to) IN IF found = {} THEN to ELSE Smallest(found)
RowEnd_Range(to) == to

RowEnd(to) ==
    LET found == Newlines(row, to) IN IF found = {} THEN to ELSE Smallest(found) + 1

(* A row, without its terminator.  The decoder goes on to the next one with *)
(* what it holds; at the end of the range it gives it up.                   *)
ReadRow ==
    /\ reading > 0
    /\ row < chunks[reading].end
    /\ LET end  == RowEnd(chunks[reading].end)
           ends == Byte(end - 1) = Newline
           last == IF ends THEN end - 1 ELSE end
           text == Decoded(held, Slice(row, KeptTo(row, last)))
       IN  /\ held' = HeldAfter(held, Slice(row, last))
           /\ read' = Append(read,
                 [start |-> row, end |-> end,
                  line |-> IF ~ends /\ held' THEN Append(text, Broken) ELSE text])
           /\ row' = end
    /\ UNCHANGED <<file, chunks, scan, reading, opened>>

(* Every chunk has been read.                                               *)
Finished ==
    /\ scan = Size
    /\ reading = Len(chunks)
    /\ reading > 0 => row = chunks[reading].end
    /\ UNCHANGED vars

Next ==
    \/ ScanBegins
    \/ ScanChunk
    \/ NextChunk
    \/ Resume
    \/ ReadRow
    \/ Finished

Spec == Init /\ [][Next]_vars /\ WF_vars(ScanBegins \/ ScanChunk \/ NextChunk \/ ReadRow)

-----------------------------------------------------------------------------
(* The rows of the file, by its newlines alone: the first line is the       *)
(* header.  A header that does not end in the first window is taken for a   *)
(* file of no rows.                                                         *)
HeaderEnd == Smallest({i + 1 : i \in Newlines(0, Size)} \union {Size})
HeaderFits == HeaderEnd <= HeadBytes \/ HeaderEnd = Size
RowStarts == {i \in HeaderEnd..(Size - 1) : i = HeaderEnd \/ Byte(i - 1) = Newline}
EndOfRow(s) == Smallest({i + 1 : i \in Newlines(s, Size)} \union {Size})
LineOf(s) ==
    LET e == EndOfRow(s)
    IN  Slice(s, IF Byte(e - 1) = Newline THEN e - 1 ELSE e)
(* What a row may read as: a character it ends inside of may be left out.   *)
Texts(h, s) ==
    LET text == Decoded(h, LineOf(s))
    IN  {text} \union (IF HeldAfter(h, LineOf(s)) THEN {Append(text, Broken)} ELSE {})

(* The last character before the row, however many empty rows ago, is a     *)
(* first byte with no second.                                               *)
AfterABrokenRow(s) ==
    \E i \in HeaderEnd..(s - 1) :
        Byte(i) = First /\ \A j \in (i + 1)..(s - 1) : Byte(j) = Newline

(* Every variable has its type.                                             *)
TypeOK ==
    /\ file \in Seq(Bytes) /\ Size <= MaxSize
    /\ chunks \in Seq([start : 0..Size, end : 0..Size])
    /\ scan \in -1..Size
    /\ reading \in 0..Len(chunks)
    /\ opened \in 0..Size /\ row \in 0..Size
    /\ held \in BOOLEAN
    /\ read \in Seq([start : 0..Size, end : 0..Size, line : Seq(Bytes \union {Wide, Broken})])

(* Chunks are cut between rows: each is at least a row, the first begins at *)
(* the first row, each of the others where the one before it ended, and no  *)
(* row is on both sides of a cut (chunkBoundaries, whatever the sizes of    *)
(* its windows, its target and the rows).                                   *)
ChunksAreWholeRows ==
    \A k \in DOMAIN chunks :
        /\ chunks[k].start < chunks[k].end
        /\ chunks[k].start = IF k = 1 THEN HeaderEnd ELSE chunks[k - 1].end
        /\ chunks[k].start \in RowStarts
        /\ chunks[k].end \in RowStarts \union {Size}

(* Every row is read once, and in full, wherever the invocations stopped:   *)
(* the rows read so far are the file's first ones, each from where the one  *)
(* before it ended (readRangeLines and the offsets a checkpoint stores).    *)
EachRowReadOnce ==
    \A i \in DOMAIN read :
        /\ read[i].start = IF i = 1 THEN HeaderEnd ELSE read[i - 1].end
        /\ read[i].start \in RowStarts
        /\ read[i].end = EndOfRow(read[i].start)

(* A row's text is its own bytes decoded, with no character cut by a window *)
(* (the decoder beside the scan, and keep).  A row longer than              *)
(* MAX_ROW_CHARS keeps at least that.  A row that ends inside a character may   *)
(* leave it to the next one, if the same invocation reads both.             *)
TextIsTheRowsOwn ==
    \A i \in DOMAIN read :
        \E h \in {FALSE, AfterABrokenRow(read[i].start)} :
            \E own \in Texts(h, read[i].start) :
                IF Len(own) <= MaxRow
                  THEN read[i].line = own
                  ELSE /\ Len(read[i].line) >= MaxRow
                       /\ SubSeq(read[i].line, 1, MaxRow) = SubSeq(own, 1, MaxRow)

(* Every row of a file is read in the end, and the file with a header that  *)
(* does not end in the first window is taken for one without rows: it is    *)
(* cut into no chunks and loses all of them, never some (chunkBoundaries    *)
(* and firstRowOffset, readRangeLines).                                     *)
EveryRowIsRead ==
    <>(IF HeaderFits THEN RowStarts = {read[i].start : i \in DOMAIN read}
                     ELSE scan = Size /\ chunks = <<>>)
=============================================================================
