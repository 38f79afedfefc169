---------------------------- MODULE MCTrustStore ----------------------------
(* Small instances of TrustStore for TLC. *)
EXTENDS TrustStore, TLC

CONSTANTS p1, p2, c1, c2

\* Bound: of p2 it is only asked to be paired and denied.
SomeTried == [p \in Peers |-> IF p = p1 THEN PeerOps ELSE {"pair", "deny"}]

Alike == Permutations(Commands)

\* The peers that are mentioned in a list, by a command, and anywhere.
InList(l) == l.allowed \cup l.denied \cup l.desktop \cup l.cuda
InProc(r) ==
    UNION {CASE f = "peer"  -> {r.peer}
             [] f = "list"  -> InList(r.list)
             [] f = "known" -> r.known
             [] OTHER       -> {} : f \in DOMAIN r}
Mentioned ==
    known \cup InList(list) \cup UNION {InProc(proc[c]) : c \in Commands}

\* Bound: several commands at a time are followed while p1 is the only peer and
\* no agent serves.
Small ==
    \/ \A c, d \in Commands : c = d \/ proc[c] = Idle \/ proc[d] = Idle
    \/ agent.at # "serving" /\ Mentioned \subseteq {p1}
=============================================================================
