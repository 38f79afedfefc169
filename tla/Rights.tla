------------------------------- MODULE Rights -------------------------------
(***************************************************************************)
(* What the trust commands of one machine promise to its owner: every      *)
(* command changes the rights of one peer, all at once, a running provider *)
(* serves by the rights it found when it started, and every use needs the  *)
(* right to it.                                                            *)
(***************************************************************************)
CONSTANT Peers

VARIABLES
    rights,    \* what each peer may do
    enforced,  \* the rights the running provider found when it started
    using      \* what each peer is doing at the provider

vars == <<rights, enforced, using>>

\* pair and allow; desktop allow, which includes jobs; cuda allow, which
\* does not.
Grants == {{"job"}, {"job", "desktop"}, {"cuda"}}

Nothing == [p \in Peers |-> {}]

Init == rights = Nothing /\ enforced = Nothing /\ using = Nothing

Grant(p) ==
    /\ \E caps \in Grants : rights' = [rights EXCEPT ![p] = @ \cup caps]
    /\ UNCHANGED <<enforced, using>>

Revoke(p) ==
    /\ rights' = [rights EXCEPT ![p] = {}]
    /\ UNCHANGED <<enforced, using>>

Forget ==
    /\ rights' = Nothing
    /\ UNCHANGED <<enforced, using>>

Start ==
    /\ enforced = Nothing /\ using = Nothing
    /\ enforced' = rights
    /\ UNCHANGED <<rights, using>>

Use(p) ==
    /\ \E c \in enforced[p] : using' = [using EXCEPT ![p] = @ \cup {c}]
    /\ UNCHANGED <<rights, enforced>>

Leave(p) ==
    /\ using' = [using EXCEPT ![p] = {}]
    /\ UNCHANGED <<rights, enforced>>

Stop ==
    /\ enforced' = Nothing /\ using' = Nothing
    /\ UNCHANGED rights

Next ==
    \/ \E p \in Peers : Grant(p) \/ Revoke(p) \/ Use(p) \/ Leave(p)
    \/ Forget \/ Start \/ Stop

Spec == Init /\ [][Next]_vars
=============================================================================
