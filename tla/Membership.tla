------------------------------ MODULE Membership ------------------------------
(***************************************************************************)
(* What a group is to its owner: a set of nodes with the owner in it, that *)
(* the owner founds and dissolves, and that grows one node at a time, by a *)
(* node that the owner chose or that has used an invite of the owner.      *)
(* Groups implements this specification, if the commands of a node do not  *)
(* overlap.                                                                *)
(***************************************************************************)
CONSTANTS Nodes, Names

VARIABLES
    members,   \* members[n][g]: the members of n's group g, {} if there is none
    open,      \* the groups, as <<n, g>>, for which an invite is valid
    accepted,  \* <<m, n, g>> if m has used an invite for n's g
    chosen     \* <<n, g, m>> if n has chosen m for g

vars == <<members, open, accepted, chosen>>

Init ==
    /\ members  = [n \in Nodes |-> [g \in Names |-> {}]]
    /\ open = {} /\ accepted = {} /\ chosen = {}

Found(n, g) ==
    /\ members[n][g] = {}
    /\ members' = [members EXCEPT ![n][g] = {n}]
    /\ UNCHANGED <<open, accepted, chosen>>

Dissolve(n, g) ==
    /\ members' = [members EXCEPT ![n][g] = {}]
    /\ UNCHANGED <<open, accepted, chosen>>

Invite(n, g) ==
    /\ members[n][g] # {}
    /\ open' = open \cup {<<n, g>>}
    /\ UNCHANGED <<members, accepted, chosen>>

Expire(n, g) ==
    /\ open' = open \ {<<n, g>>}
    /\ UNCHANGED <<members, accepted, chosen>>

Accept(m, n, g) ==
    /\ <<n, g>> \in open
    /\ accepted' = accepted \cup {<<m, n, g>>}
    /\ UNCHANGED <<members, open, chosen>>

Choose(m, n, g) ==
    /\ chosen' = chosen \cup {<<n, g, m>>}
    /\ UNCHANGED <<members, open, accepted>>

Enter(m, n, g) ==
    /\ members[n][g] # {}
    /\ <<m, n, g>> \in accepted \/ <<n, g, m>> \in chosen
    /\ members' = [members EXCEPT ![n][g] = @ \cup {m}]
    /\ UNCHANGED <<open, accepted, chosen>>

Leave(m, n, g) ==
    /\ m # n
    /\ members' = [members EXCEPT ![n][g] = @ \ {m}]
    /\ UNCHANGED <<open, accepted, chosen>>

Next ==
    \E n \in Nodes, g \in Names :
        \/ Found(n, g) \/ Dissolve(n, g) \/ Invite(n, g) \/ Expire(n, g)
        \/ \E m \in Nodes :
              Accept(m, n, g) \/ Choose(m, n, g) \/ Enter(m, n, g) \/ Leave(m, n, g)

Spec == Init /\ [][Next]_vars
===============================================================================
