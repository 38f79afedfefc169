----------------------------- MODULE MCScheduler ------------------------------
(***************************************************************************)
(* Two machines that bear one name and a third, one group, a request with  *)
(* and one without a preference: an instance of Scheduler for TLC.         *)
(***************************************************************************)
EXTENDS Scheduler, TLC

CONSTANTS p1, p2, p3, nobody

\* p1 and p3 are two machines set up with the same name.
Names == (p1 :> 1) @@ (p2 :> 2) @@ (p3 :> 1)

\* Any paired peer with 8 GB; a member of a group, p3 by name and p2 by id;
\* with p2 preferred, without need.
Asked == {
    [grouped |-> FALSE, ids |-> {}, names |-> {}, need |-> 8000, prefer |-> {}],
    [grouped |-> TRUE, ids |-> {p2}, names |-> {1}, need |-> 8000, prefer |-> {}],
    [grouped |-> TRUE, ids |-> {p1, p2}, names |-> {}, need |-> 0,
     prefer |-> {p2}] }

\* A small idle GPU, a loaded one, a large idle one without a utilization, a
\* busy one, one whose sharing is off, and a very large one.
Said == {
    [sharing |-> TRUE, status |-> "idle", free |-> 8000, util |-> 5],
    [sharing |-> TRUE, status |-> "unknown", free |-> 8000, util |-> 90],
    [sharing |-> TRUE, status |-> "idle", free |-> 24000, util |-> 100],
    [sharing |-> TRUE, status |-> "busy", free |-> 24000, util |-> 95],
    [sharing |-> FALSE, status |-> "idle", free |-> 24000, util |-> 0],
    [sharing |-> TRUE, status |-> "unknown", free |-> 80000, util |-> 0] }

=============================================================================
