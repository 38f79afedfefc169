-------------------------- MODULE MCPublicRegistry --------------------------
(***************************************************************************)
(* Instances of PublicRegistry for TLC.                                    *)
(***************************************************************************)
EXTENDS PublicRegistry

CONSTANTS n1, n2

\* A prompt network whose clocks agree; and a slow one on which the clock of
\* one node is further ahead than the control plane accepts.
PromptOrSlow ==
  {[prompt |-> TRUE,  ahead |-> [n \in Nodes |-> 0]],
   [prompt |-> FALSE, ahead |-> [n \in Nodes |-> FUTURE + 1]]}
=============================================================================
