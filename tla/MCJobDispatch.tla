---------------------------- MODULE MCJobDispatch -----------------------------
(***************************************************************************)
(* A command with up to two attempts at one provider, after a choice among *)
(* the peers of MCScheduler: an instance of JobDispatch for TLC.           *)
(***************************************************************************)
EXTENDS JobDispatch, TLC

CONSTANTS j1, j2, p1, p2, nobody

Ids == <<j1, j2>>

\* Two machines set up with the same name.
Names == (p1 :> 1) @@ (p2 :> 1)

\* 8 GB on any paired peer; a group that lists p1 by id, with p1 preferred.
Asked == {
    [grouped |-> FALSE, ids |-> {}, names |-> {}, need |-> 8000, prefer |-> {}],
    [grouped |-> TRUE, ids |-> {p1, p2}, names |-> {}, need |-> 0,
     prefer |-> {p1}] }

Said == {
    [sharing |-> TRUE, status |-> "idle", free |-> 8000, util |-> 5],
    [sharing |-> TRUE, status |-> "idle", free |-> 8000, util |-> 90],
    [sharing |-> TRUE, status |-> "busy", free |-> 24000, util |-> 95],
    [sharing |-> FALSE, status |-> "idle", free |-> 24000, util |-> 0],
    [sharing |-> TRUE, status |-> "unknown", free |-> 80000, util |-> 0] }

=============================================================================
