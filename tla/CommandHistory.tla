--------------------------- MODULE CommandHistory ---------------------------
(***************************************************************************)
(* What a command line with a history promises: the newest lines that fit  *)
(* are kept whole and in order, and going up and down shows them.          *)
(***************************************************************************)
EXTENDS Naturals, Sequences, SequencesExt

CONSTANT Room   \* what the lines kept may take, each its length and one more

VARIABLES
  lines,   \* the lines kept, the newest one last
  back,    \* how many lines back the line shown is, 0 if it is a new one
  shown    \* the line shown

hist == <<lines, back, shown>>

Size(ls) == FoldSeq(LAMBDA l, sum : sum + Len(l) + 1, 0, ls)

\* The newest lines that fit.
Newest(ls) ==
  LET k == CHOOSE k \in 0 .. Len(ls) :
             /\ Size(SubSeq(ls, k + 1, Len(ls))) <= Room
             /\ \A j \in 0 .. k - 1 : Size(SubSeq(ls, j + 1, Len(ls))) > Room
  IN SubSeq(ls, k + 1, Len(ls))

Init == lines = <<>> /\ back = 0 /\ shown = <<>>

\* A line is entered; an empty one, or one that cannot fit, is not kept.
Enter ==
  /\ lines' = (IF shown # <<>> /\ Len(shown) < Room
               THEN Newest(Append(lines, shown)) ELSE lines)
  /\ back' = 0 /\ shown' = <<>>

Up ==
  /\ back < Len(lines)
  /\ back' = back + 1
  /\ shown' = lines[Len(lines) - back]
  /\ UNCHANGED lines

Down ==
  /\ back' = (IF back > 0 THEN back - 1 ELSE 0)
  /\ shown' = (IF back > 1 THEN lines[Len(lines) + 2 - back] ELSE <<>>)
  /\ UNCHANGED lines

Edit == UNCHANGED <<lines, back>>

Next == Enter \/ Up \/ Down \/ Edit

Spec == Init /\ [][Next]_hist
=============================================================================
