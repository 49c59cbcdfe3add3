------------------------------ MODULE LineEditor ------------------------------
(***************************************************************************)
(* What the IBus engine promises to do with the text that is being typed:  *)
(* a line with a cursor between its characters.  While a character of two  *)
(* bytes is on the line it promises less: characters come and go one at a  *)
(* time, but not where the cursor is.                                      *)
(***************************************************************************)
EXTENDS Naturals, Sequences, SequencesExt

CONSTANTS Chars, Wide

VARIABLES line, cursor

vars == <<line, cursor>>

Init == line = <<>> /\ cursor = 0

Insert(c) == line' = InsertAt(line, cursor + 1, c) /\ cursor' = cursor + 1

DeleteBefore == cursor > 0 /\ line' = RemoveAt(line, cursor) /\ cursor' = cursor - 1

DeleteAfter ==
  cursor < Len(line) /\ line' = RemoveAt(line, cursor + 1) /\ UNCHANGED cursor

Left == cursor > 0 /\ cursor' = cursor - 1 /\ UNCHANGED line

Right == cursor < Len(line) /\ cursor' = cursor + 1 /\ UNCHANGED line

Clear == line' = <<>> /\ cursor' = 0

Misplaced ==
  /\ cursor' \in Nat
  /\ \/ UNCHANGED line
     \/ \E i \in DOMAIN line : line' = RemoveAt(line, i)
     \/ \E i \in 1 .. Len(line) + 1, c \in Chars : line' = InsertAt(line, i, c)

HasWide == \E i \in DOMAIN line : line[i] \in Wide

Next ==
  \/ ~HasWide /\ (DeleteBefore \/ DeleteAfter \/ Left \/ Right \/ \E c \in Chars : Insert(c))
  \/ HasWide /\ Misplaced
  \/ Clear

Spec == Init /\ [][Next]_vars
=============================================================================
