------------------------------- MODULE MCGroups -------------------------------
(***************************************************************************)
(* Instances of Groups for TLC.  Nodes are interchangeable, and so are the *)
(* workers of all nodes.                                                   *)
(***************************************************************************)
EXTENDS Groups, TLC

CONSTANTS n1, n2, n3, g1, w1, w2

\* All nodes are paired with each other.
AllPaired == [n \in Nodes |-> Nodes \ {n}]
\* One at a time, there is time for two groups of one name and their members.
FewerIfTheyOverlap == [o \in BOOLEAN |-> IF o THEN 5 ELSE 6]
Alike == Permutations(Nodes) \cup Permutations(Workers)
===============================================================================
