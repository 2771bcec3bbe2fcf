------------------------------ MODULE TextLines ------------------------------
(***************************************************************************)
(* Text as the editor of newbcpl-runtime/src/igui sees it: a sequence of   *)
(* characters, offsets counted from 0, and (row, column) positions.  What  *)
(* the methods of RopeBuffer promise, without a rope.                      *)
(***************************************************************************)
EXTENDS Integers, SequencesExt

CONSTANT Newline

(* The characters from offset lo up to, not including, offset hi.          *)
Slice(text, lo, hi) == SubSeq(text, lo + 1, Min({hi, Len(text)}))

Spliced(text, offset, new) ==
  Slice(text, 0, offset) \o new \o Slice(text, offset, Len(text))

Without(text, offset, count) ==
  Slice(text, 0, offset) \o Slice(text, offset + count, Len(text))

(* The k-th smallest of some numbers, k from 1.                            *)
Nth(S, k) == CHOOSE i \in S : Cardinality({j \in S : j <= i}) = k

Breaks(text) == {i \in DOMAIN text : text[i] = Newline}

Newlines(text) == Cardinality(Breaks(text))

LineCount(text) == Newlines(text) + 1

(* The offset behind newline number row, counted from 1.                   *)
LineStart(text, row) == IF row = 0 THEN 0 ELSE Nth(Breaks(text), row)

LineEnd(text, row) ==
  IF row + 1 < LineCount(text) THEN LineStart(text, row + 1) - 1
                               ELSE Len(text)

LineLen(text, row) ==
  IF row < LineCount(text) THEN LineEnd(text, row) - LineStart(text, row)
                           ELSE 0

Line(text, row) ==
  IF row < LineCount(text)
  THEN Slice(text, LineStart(text, row), LineEnd(text, row)) ELSE <<>>

(* Positions are <<row, column>>.  A column past the end of its row means  *)
(* the end of the row, a row past the end of the text the end of the text. *)
OffsetOf(text, pos) ==
  IF pos[1] < LineCount(text)
  THEN LineStart(text, pos[1]) + Min({pos[2], LineLen(text, pos[1])})
  ELSE Len(text)

PosOf(text, offset) ==
  LET row == Newlines(Slice(text, 0, offset))
  IN <<row, Min({offset, Len(text)}) - LineStart(text, row)>>

(* Positions of one text, and their order.                                 *)
Before(p, q) == p[1] < q[1] \/ (p[1] = q[1] /\ p[2] < q[2])

Positions(text) == {PosOf(text, offset) : offset \in 0 .. Len(text)}

=============================================================================
