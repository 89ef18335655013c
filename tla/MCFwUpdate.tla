----------------------------- MODULE MCFwUpdate -----------------------------
(* Instances of FwUpdate for TLC. *)
EXTENDS FwUpdate, TLC

CONSTANTS i1, i2, i3, k0, k1, lmt, arc

\* Three images: a short one, one that fills the partition and has the next
\* security version, and one that is too large.
MCSize == [i \in Images |-> IF i = i1 THEN 1 ELSE IF i = i2 THEN 2 ELSE 3]
MCSvn == [i \in Images |-> IF i = i1 THEN 0 ELSE 1]
MCSigned == [i \in Images |-> k1]

OneTarget == [p \in Partitions |-> lmt]
TwoTargets == 1 :> lmt @@ 2 :> arc
ActiveOne == lmt :> 1
ActiveTwo == lmt :> 1 @@ arc :> 2
=============================================================================
