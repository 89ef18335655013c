---------------------------- MODULE FirmwareSlot ----------------------------
(***************************************************************************)
(* What the bootloader promises of every application partition, whatever   *)
(* the host sends and whenever power is lost: it is empty, holds one whole *)
(* image, or is marked as being updated.  The image of a partition is      *)
(* never replaced or dropped in one step, and nothing is installed that    *)
(* the partition was not first marked for.                                 *)
(***************************************************************************)
CONSTANTS Parts, Contents, Empty, Updating

VARIABLE slot

Init == slot \in [Parts -> Contents \cup {Empty}]

\* Some partitions are marked: an update of one starts, or all are erased.
Begin == \E S \in SUBSET Parts :
           slot' = [p \in Parts |-> IF p \in S THEN Updating ELSE slot[p]]

\* The update of one partition completes.
Install(p, c) ==
  /\ slot[p] = Updating
  /\ slot' = [slot EXCEPT ![p] = c]

\* Every unfinished partition is erased.
Discard ==
  slot' = [p \in Parts |-> IF slot[p] = Updating THEN Empty ELSE slot[p]]

Next ==
  \/ Begin
  \/ \E p \in Parts, c \in Contents : Install(p, c)
  \/ Discard

Spec == Init /\ [][Next]_slot
=============================================================================
