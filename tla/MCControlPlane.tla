--------------------------- MODULE MCControlPlane ---------------------------
(***************************************************************************)
(* Instances of ControlPlane for TLC.                                      *)
(***************************************************************************)
EXTENDS ControlPlane, TLC

CONSTANTS n1, n2

\* The nodes are paired with each other.
AllPaired == [n \in Senders |-> Senders \ {n}]
Alike == Permutations(Senders)
=============================================================================
