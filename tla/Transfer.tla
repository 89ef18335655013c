------------------------------ MODULE Transfer ------------------------------
(***************************************************************************)
(* What every driver promises of one transfer: after it has been started   *)
(* its data moves, and the client is called back once, by which time       *)
(* nothing of it moves any more; a transfer reported done has moved all of *)
(* its data.                                                               *)
(*                                                                         *)
(* Two variables that no program reads say where a driver promises less.   *)
(* An error that the hardware has raised and the driver has not looked at  *)
(* may come too late for the report: a transfer reported done is then      *)
(* short, and the error is reported after it.  And nothing is promised     *)
(* from when a transfer has met what the driver is not made for until a    *)
(* transfer starts anew on hardware that it has left clean.                *)
(***************************************************************************)
EXTENDS Naturals

VARIABLES
  busy,     \* a transfer was started and has not been reported yet
  size,     \* how much it is to move
  moved,    \* how much it has moved
  outcome,  \* its callback: "none", "done", "failed", or "again" if repeated
  missed,   \* an error is raised that the driver has not looked at
  disturbed \* a transfer has met what the driver is not made for

xfer == <<busy, size, moved, outcome>>

Init == ~busy /\ size \in Nat /\ moved = 0 /\ outcome = "none"

Start ==
  /\ ~busy /\ busy'
  /\ size' \in Nat
  /\ moved' = 0
  /\ outcome' = "none"

Move ==
  /\ busy
  /\ moved' \in moved + 1 .. size
  /\ UNCHANGED <<busy, size, outcome>>

Report ==
  /\ busy /\ ~busy'
  /\ moved' \in moved .. size
  /\ outcome' \in {"done", "failed"}
  /\ outcome' = "done" => moved' = size \/ missed
  /\ UNCHANGED size

\* The error that was missed is reported after all.
Again ==
  /\ ~busy /\ missed
  /\ outcome' = "again"
  /\ UNCHANGED <<busy, size, moved>>

Next == Start \/ Move \/ Report \/ Again \/ disturbed'

Spec == Init /\ [][Next]_xfer
=============================================================================
