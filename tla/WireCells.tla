----------------------------- MODULE WireCells -----------------------------
(***************************************************************************)
(* The byte path every forge shares: Wire::plan cuts a chunk into cells of *)
(* CellBytes (about 5 ms of line time; the whole chunk when no baud is     *)
(* simulated), and a cell is written to a kernel buffer that takes what    *)
(* fits.  Line noise is off and a due instant is "some time later": what   *)
(* the modules that extend this one say is about order and ownership.      *)
(***************************************************************************)
EXTENDS Integers, Sequences, SequencesExt

CONSTANTS CellBytes,   \* bytes per delivery cell
          ReadMax,     \* the size of a read's buffer
          PtyBuf       \* how many bytes a kernel buffer holds

ASSUME BytesAssumption == /\ CellBytes \in Nat \ {0}
                          /\ ReadMax \in Nat \ {0}
                          /\ PtyBuf \in Nat \ {0}

Least(a, b) == IF a < b THEN a ELSE b

\* Mutant of Cells: a cell for every byte.
CellsOfOne(chunk) == [i \in 1..Len(chunk) |-> <<chunk[i]>>]

Cells(chunk) ==
  [i \in 1..((Len(chunk) + CellBytes - 1) \div CellBytes) |->
     SubSeq(chunk, (i - 1) * CellBytes + 1, Least(i * CellBytes, Len(chunk)))]

\* What one read returns of the bytes waiting in a buffer, and what it leaves.
ReadOf(buffer) == SubSeq(buffer, 1, Least(ReadMax, Len(buffer)))
LeftBy(buffer) == SubSeq(buffer, Least(ReadMax, Len(buffer)) + 1, Len(buffer))

\* One write(2) of the bytes still to go: as many as the buffer has room for.
Room(buffer) == PtyBuf - Len(buffer)
Taken(bytes, buffer) == Least(Len(bytes), Room(buffer))
Filled(buffer, bytes) == buffer \o SubSeq(bytes, 1, Taken(bytes, buffer))
Unwritten(bytes, buffer) == SubSeq(bytes, Taken(bytes, buffer) + 1, Len(bytes))

\* Mutant of CellsLeft: a short write counts as the whole cell.
CellsLeftShort(cells, buffer) == Tail(cells)

\* The cells left once the head cell has been written as far as it went.
CellsLeft(cells, buffer) ==
  LET rest == Unwritten(Head(cells), buffer)
  IN  IF rest = << >> THEN Tail(cells) ELSE <<rest>> \o Tail(cells)

Bytes(cells) == FlattenSeq(cells)

\* What of a stream is in X, in order: the words in which what is kept and what
\* is lost on the way is said.
Kept(s, X) == FlattenSeq([i \in 1..Len(s) |-> IF s[i] \in X THEN <<s[i]>> ELSE << >>])
=============================================================================
