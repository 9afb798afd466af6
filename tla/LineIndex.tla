------------------------------ MODULE LineIndex ------------------------------
(***************************************************************************)
(* Offsets and positions in a text (crates/sneklsp_text/line_index.rs).    *)
(* A text is a sequence of characters, an offset the number of characters  *)
(* before it, and lines and columns count from 0.  A character stands for  *)
(* one byte and for one UTF-16 unit: texts are ASCII.                      *)
(***************************************************************************)
EXTENDS Integers, Sequences, FiniteSets

CONSTANT Newline

\* LineIndex::new: line_starts, here as a function from line numbers.
LineCount(t) == 1 + Cardinality({i \in DOMAIN t : t[i] = Newline})

LineOf(t, o) == Cardinality({i \in 1 .. o : t[i] = Newline})

LineStart(t, l) ==
  IF l = 0 THEN 0
  ELSE CHOOSE o \in DOMAIN t : t[o] = Newline /\ LineOf(t, o) = l

\* A Position: LineIndex::position computes no others.
Position == [line : Nat, column : Nat]

\* LineIndex::position
PositionOf(t, o) ==
  [line |-> LineOf(t, o), column |-> o - LineStart(t, LineOf(t, o))]

\* LineIndex::offset is Some: only the line is looked at.
HasOffset(t, p) == p.line < LineCount(t)

Offset(t, p) == LineStart(t, p.line) + p.column
==============================================================================
