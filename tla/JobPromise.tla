------------------------------ MODULE JobPromise ------------------------------
(***************************************************************************)
(* What a consumer is promised about each of its jobs, whatever the        *)
(* provider, docker and the network do: the stages it observes come in     *)
(* order and end once, success is only ever reported of a program that     *)
(* ended by itself with exit code 0, and a reported job has its outputs    *)
(* ready to be pulled.  JobRuntime implements this specification.          *)
(***************************************************************************)
CONSTANT Jobs

VARIABLES
    seen,   \* the stage the consumer has observed
    fate,   \* how the job's program ended by itself, once it did
    ready   \* the provider has tried to pack the job's outputs

vars == <<seen, fate, ready>>

Open == {"requested", "accepted", "running"}

Init ==
    /\ seen  = [j \in Jobs |-> "idle"]
    /\ fate  = [j \in Jobs |-> "unknown"]
    /\ ready = [j \in Jobs |-> FALSE]

\* The stages before the end, one after the other.
Stages == {<<"idle", "requested">>, <<"requested", "accepted">>,
           <<"requested", "rejected">>, <<"accepted", "running">>}

Advance(j) ==
    /\ \E s \in {"requested", "accepted", "rejected", "running"} :
           /\ <<seen[j], s>> \in Stages
           /\ seen' = [seen EXCEPT ![j] = s]
    /\ UNCHANGED <<fate, ready>>

ProgramEnds(j) ==
    /\ fate[j] = "unknown"
    /\ \E f \in {"ok", "nonzero"} : fate' = [fate EXCEPT ![j] = f]
    /\ UNCHANGED <<seen, ready>>

OutputsReady(j) ==
    /\ ready' = [ready EXCEPT ![j] = TRUE]
    /\ UNCHANGED <<seen, fate>>

Report(j) ==
    /\ seen[j] = "running" /\ ready[j]
    /\ \/ seen' = [seen EXCEPT ![j] = "succeeded"] /\ fate[j] = "ok"
       \/ seen' = [seen EXCEPT ![j] = "failed"]
    /\ UNCHANGED <<fate, ready>>

Lose(j) ==
    /\ seen[j] \in Open
    /\ seen' = [seen EXCEPT ![j] = "lost"]
    /\ UNCHANGED <<fate, ready>>

Next == \E j \in Jobs :
    \/ Advance(j) \/ ProgramEnds(j) \/ OutputsReady(j) \/ Report(j) \/ Lose(j)

Spec == Init /\ [][Next]_vars
=============================================================================
