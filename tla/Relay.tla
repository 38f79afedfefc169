--------------------------------- MODULE Relay ---------------------------------
(***************************************************************************)
(* Sessions through the relay: an agent opens a connection to the relay,   *)
(* registers under its node id and waits there for a peer; a dialer asks   *)
(* the relay for that node, and the relay copies frames between the two    *)
(* connections until one of them ends.  A registration serves one session. *)
(*                                                                         *)
(*   gpumesh-relay/src/main.rs            accept loop, registrations, proxy *)
(*   gpumesh-network/src/{relay,endpoint}.rs          register, dial, accept *)
(*   gpumesh-agent/src/main.rs            the task that keeps registering  *)
(*   gpumesh-core/src/{handshake,node}.rs handshakes on both sides         *)
(*                                                                         *)
(* A connection that ends may lose what is on its way: a reader may find   *)
(* the end before it has read everything.                                  *)
(***************************************************************************)
EXTENDS Naturals, FiniteSets, SequencesExt

CONSTANTS
    Agents,      \* nodes that register
    Dialers,     \* nodes that dial through the relay
    Conns,       \* numbers of connections, used again once both ends let go
    MaxSaid,     \* bound: frames a dialer sends in a session
    Plans        \* bound: who dials, how many faults (connections lost,
                 \* crashes of the relay and of nodes) there may be, and how
                 \* many numbers of Conns dialers leave to agents

ASSUME RelayAssumption ==
    /\ Agents \cap Dialers = {}
    /\ IsFiniteSet(Conns) /\ Conns \subseteq Nat \ {0}
    /\ MaxSaid \in Nat \ {0}
    /\ Plans \subseteq [dialers : SUBSET Dialers, faults : Nat, spare : Nat]

VARIABLES
    state,    \* what each node is doing
    mine,     \* the connection each node holds, or 0
    said,     \* the session's frames each node has sent (history)
    heard,    \* the session's frames each node has received (history)
    expired,  \* is the Hello the agent made when it registered too old?
    live,     \* is the connection up?
    toRelay, toNode,  \* frames on their way, per connection
    at,       \* what the relay does with the connection
    mate,     \* the connection it is bridged with
    backlog,  \* connections the relay has not accepted yet
    reg,      \* the relay's registrations
    plan,     \* what may happen in this behaviour
    faults    \* faults so far

nodes == <<state, mine, said, heard, expired>>
wires == <<live, toRelay, toNode>>
relay == <<at, mate, backlog, reg>>
count == <<plan, faults>>
vars  == <<nodes, wires, relay, count>>

Nodes  == Agents \cup Dialers
Frames == [kind : {"error"}] \cup [kind : {"register", "request"}, node : Agents]
          \cup [kind : {"hello"}, of : Dialers]
          \cup [kind : {"ack"}, fresh : BOOLEAN]
          \cup [kind : {"data"}, of : Dialers, n : 1..MaxSaid]

TypeOK ==
    /\ state \in [Nodes -> {"off", "dialing", "asked", "waiting", "session",
                         "dead"}]
    /\ mine \in [Nodes -> Conns \cup {0}]
    /\ \A e \in Nodes : mine[e] = 0 <=> state[e] \in {"off", "dead"}
    /\ \A e, f \in Nodes : mine[e] = mine[f] /\ mine[e] # 0 => e = f
    /\ said \in [Nodes -> Seq(Frames)] /\ heard \in [Nodes -> Seq(Frames)]
    /\ expired \in [Agents -> BOOLEAN]
    /\ live \in [Conns -> BOOLEAN]
    /\ toRelay \in [Conns -> Seq(Frames)] /\ toNode \in [Conns -> Seq(Frames)]
    /\ at \in [Conns -> {"out", "lost", "backlog", "taken", "registered",
                      "bridged"}]
    /\ mate \in [Conns -> Conns \cup {0}]
    /\ \A c \in Conns : at[c] = "bridged" => mate[c] # 0 /\ mate[mate[c]] = c
    /\ backlog \in Seq(Conns)
    /\ reg \in [Agents -> Conns \cup {0}]
    /\ plan \in Plans /\ faults \in 0..plan.faults

Init ==
    /\ state = [e \in Nodes |-> "off"] /\ mine = [e \in Nodes |-> 0]
    /\ said = [e \in Nodes |-> <<>>] /\ heard = [e \in Nodes |-> <<>>]
    /\ expired = [a \in Agents |-> FALSE]
    /\ live = [c \in Conns |-> FALSE]
    /\ toRelay = [c \in Conns |-> <<>>] /\ toNode = [c \in Conns |-> <<>>]
    /\ at = [c \in Conns |-> "out"] /\ mate = [c \in Conns |-> 0]
    /\ backlog = <<>> /\ reg = [a \in Agents |-> 0]
    /\ plan \in Plans /\ faults = 0

-------------------------------------------------------------------------------
(* The two ends of a connection.                                           *)

Held(c) == \E e \in Nodes : mine[e] = c
Free    == {c \in Conns : at[c] \in {"out", "lost"} /\ ~live[c] /\ ~Held(c)}

Send(e, fs)  == toRelay' = IF at[mine[e]] = "lost" THEN toRelay
                  ELSE [toRelay EXCEPT ![mine[e]] = @ \o fs]
Next1(e)     == Head(toNode[mine[e]])
Reads(e)     == toNode[mine[e]] # <<>>
Take(e)      == toNode' = [toNode EXCEPT ![mine[e]] = Tail(@)]
Goto(e, s)   == state' = [state EXCEPT ![e] = s]
Says(e, fs)  == said' = [said EXCEPT ![e] = @ \o fs]
Hears(e, f)  == heard' = [heard EXCEPT ![e] = Append(@, f)]

\* The node drops its connection, which closes it.
Leaves(e, s) ==
    /\ Goto(e, s)
    /\ mine' = [mine EXCEPT ![e] = 0]
    /\ said' = [said EXCEPT ![e] = <<>>] /\ heard' = [heard EXCEPT ![e] = <<>>]
    /\ expired' = [a \in Agents |-> expired[a] /\ a # e]
    /\ toNode' = [toNode EXCEPT ![mine[e]] = <<>>]
Drop(e) == Leaves(e, "off") /\ live' = [live EXCEPT ![mine[e]] = FALSE]

\* Connect to the relay.
Connect(e) ==
    /\ state[e] = "off" /\ e \in Agents \cup plan.dialers
    /\ Cardinality(Free) > IF e \in Agents THEN 0 ELSE plan.spare
    /\ LET c == CHOOSE c \in Free : \A b \in Free : c <= b IN
        /\ mine' = [mine EXCEPT ![e] = c]
        /\ live' = [live EXCEPT ![c] = TRUE]
        /\ at' = [at EXCEPT ![c] = "backlog"]
        /\ backlog' = Append(backlog, c)
        /\ toRelay' = [toRelay EXCEPT ![c] = <<>>]
    /\ Goto(e, "dialing")
    /\ UNCHANGED <<said, heard, expired, toNode, mate, reg, count>>

\* Whoever waits for a frame, or sends one, finds that the connection ended.
Ended(e) ==
    /\ mine[e] # 0 /\ ~live[mine[e]]
    /\ Drop(e)
    /\ UNCHANGED <<toRelay, relay, count>>

\* The process dies; its connection is up until it has been idle for a minute.
Dies(e) ==
    /\ faults < plan.faults /\ mine[e] # 0
    /\ faults' = faults + 1
    /\ Leaves(e, "dead")
    /\ UNCHANGED <<live, toRelay, relay, plan>>

Starts(e) ==
    /\ state[e] = "dead"
    /\ Goto(e, "off")
    /\ UNCHANGED <<mine, said, heard, expired, wires, relay, count>>

IdleTimeout(c) ==
    /\ live[c] /\ (~Held(c) \/ at[c] = "lost")
    /\ live' = [live EXCEPT ![c] = FALSE]
    /\ UNCHANGED <<nodes, toRelay, toNode, relay, count>>

ConnLoss(c) ==
    /\ live[c] /\ faults < plan.faults
    /\ faults' = faults + 1
    /\ live' = [live EXCEPT ![c] = FALSE]
    /\ UNCHANGED <<nodes, toRelay, toNode, relay, plan>>

-------------------------------------------------------------------------------
(* The agent: it registers, makes its Hello and waits.                     *)

Register(a) ==
    /\ state[a] = "dialing" /\ live[mine[a]]
    /\ Goto(a, "waiting")
    /\ expired' = [expired EXCEPT ![a] = FALSE]
    /\ Send(a, <<[kind |-> "register", node |-> a]>>)
    /\ UNCHANGED <<mine, said, heard, live, toNode, relay, count>>

\* HELLO_TTL_SECS pass before a peer comes.
Expire(a) ==
    /\ state[a] = "waiting" /\ ~expired[a]
    /\ expired' = [expired EXCEPT ![a] = TRUE]
    /\ UNCHANGED <<state, mine, said, heard, wires, relay, count>>

\* A peer's Hello is answered with the Hello made at registration.
ServerHandshake(a) ==
    /\ state[a] = "waiting" /\ live[mine[a]] /\ Reads(a)
    /\ Next1(a).kind = "hello"
    /\ LET ack == [kind |-> "ack", fresh |-> ~expired[a]]
           err == [kind |-> "error"] IN
       \/ /\ Take(a) /\ Hears(a, Next1(a))
          /\ Send(a, <<ack>>) /\ Says(a, <<ack>>)
          /\ Goto(a, "session")
          /\ UNCHANGED <<mine, live, expired>>
       \/ \* the peer is not allowed: it is told so, and closed
          Send(a, <<ack, err>>) /\ Drop(a)
       \/ \* its Hello is of another version or does not verify: nothing is said
          UNCHANGED toRelay /\ Drop(a)
    /\ UNCHANGED <<relay, count>>

\* serve_peer_session answers what the peer asks.
Serve(a) ==
    /\ state[a] = "session" /\ live[mine[a]] /\ Reads(a)
    /\ Take(a) /\ Hears(a, Next1(a))
    /\ Send(a, <<Next1(a)>>) /\ Says(a, <<Next1(a)>>)
    /\ UNCHANGED <<state, mine, expired, live, relay, count>>

-------------------------------------------------------------------------------
(* The dialer.                                                             *)

Ask(d) ==
    /\ state[d] = "dialing" /\ live[mine[d]]
    /\ Goto(d, "asked")
    /\ \E a \in Agents : Send(d, <<[kind |-> "request", node |-> a]>>)
    /\ UNCHANGED <<mine, said, heard, expired, live, toNode, relay, count>>

\* connect_peer has a connection, whatever the relay makes of the request.
Greet(d) ==
    /\ state[d] = "asked" /\ live[mine[d]]
    /\ Goto(d, "waiting")
    /\ LET hello == [kind |-> "hello", of |-> d] IN
        Send(d, <<hello>>) /\ Says(d, <<hello>>)
    /\ UNCHANGED <<mine, heard, expired, live, toNode, relay, count>>

\* perform_client_handshake: an acknowledgement that has expired, or an error,
\* ends the attempt.
ClientHandshake(d) ==
    /\ state[d] = "waiting" /\ Reads(d)
    /\ IF Next1(d).kind = "ack" /\ Next1(d).fresh
       THEN /\ Take(d) /\ Hears(d, Next1(d))
            /\ Goto(d, "session")
            /\ UNCHANGED <<mine, said, expired, live>>
       ELSE Drop(d)
    /\ UNCHANGED <<toRelay, relay, count>>

Say(d) ==
    /\ state[d] = "session" /\ live[mine[d]] /\ Len(said[d]) <= MaxSaid
    /\ LET f == [kind |-> "data", of |-> d, n |-> Len(said[d])] IN
        Send(d, <<f>>) /\ Says(d, <<f>>)
    /\ UNCHANGED <<state, mine, heard, expired, live, toNode, relay, count>>

Hear(d) ==
    /\ state[d] = "session" /\ Reads(d)
    /\ Take(d) /\ Hears(d, Next1(d))
    /\ UNCHANGED <<state, mine, said, expired, live, toRelay, relay, count>>

HangUp(d) ==
    /\ state[d] = "session"
    /\ Drop(d)
    /\ UNCHANGED <<toRelay, relay, count>>

-------------------------------------------------------------------------------
(* The relay.                                                              *)

First(c) == Head(toRelay[c])
Rest(c)  == toRelay' = [toRelay EXCEPT ![c] = Tail(@)]

\* Mutant: a connection that ended before its stream came is waited for.
AcceptStreams ==
    /\ backlog # <<>>
    /\ toRelay[Head(backlog)] # <<>>
    /\ at' = [at EXCEPT ![Head(backlog)] = "taken"]
    /\ backlog' = Tail(backlog)
    /\ UNCHANGED <<nodes, wires, mate, reg, count>>

\* The loop accepts a connection once its stream is there, one at a time.
Accept ==
    /\ backlog # <<>>
    /\ LET c == Head(backlog) IN
        \/ /\ toRelay[c] # <<>>
           /\ at' = [at EXCEPT ![c] = "taken"]
           /\ UNCHANGED toRelay
        \/ /\ ~live[c]
           /\ at' = [at EXCEPT ![c] = "out"]
           /\ toRelay' = [toRelay EXCEPT ![c] = <<>>]
    /\ backlog' = Tail(backlog)
    /\ UNCHANGED <<nodes, live, toNode, mate, reg, count>>

\* handle_connection: a registration replaces that of the same node, which is
\* closed.
HandleRegister(c) ==
    /\ at[c] = "taken" /\ First(c).kind = "register"
    /\ Rest(c)
    /\ reg' = [reg EXCEPT ![First(c).node] = c]
    /\ LET old == {reg[First(c).node]} \ {0} IN
        /\ at' = [b \in Conns |-> IF b = c THEN "registered"
                                  ELSE IF b \in old THEN "out" ELSE at[b]]
        /\ live' = [b \in Conns |-> live[b] /\ b \notin old]
    /\ UNCHANGED <<nodes, toNode, mate, backlog, count>>

Bridge(c, b) ==
    /\ at' = [at EXCEPT ![c] = "bridged", ![b] = "bridged"]
    /\ mate' = [mate EXCEPT ![c] = b, ![b] = c]

\* Mutant: the registration stays in the table.
HandleRequestKeeps(c) ==
    /\ at[c] = "taken" /\ First(c).kind = "request"
    /\ LET a == First(c).node IN
       \/ /\ reg[a] # 0
          /\ Rest(c)
          /\ Bridge(c, reg[a])
          /\ UNCHANGED <<reg, live, toNode>>
       \/ /\ reg[a] = 0
          /\ toRelay' = [toRelay EXCEPT ![c] = <<>>]
          /\ toNode' = IF Held(c)
                THEN [toNode EXCEPT ![c] = <<[kind |-> "error"]>>] ELSE toNode
          /\ at' = [at EXCEPT ![c] = "out"]
          /\ live' = [live EXCEPT ![c] = FALSE]
          /\ UNCHANGED <<mate, reg>>
    /\ UNCHANGED <<nodes, backlog, count>>

\* A request takes the registration out of the table, or is told that there is
\* none and closed.
HandleRequest(c) ==
    /\ at[c] = "taken" /\ First(c).kind = "request"
    /\ LET a == First(c).node IN
       \/ /\ reg[a] # 0
          /\ Rest(c)
          /\ Bridge(c, reg[a])
          /\ reg' = [reg EXCEPT ![a] = 0]
          /\ UNCHANGED <<live, toNode>>
       \/ /\ reg[a] = 0
          /\ toRelay' = [toRelay EXCEPT ![c] = <<>>]
          /\ toNode' = IF Held(c)
                THEN [toNode EXCEPT ![c] = <<[kind |-> "error"]>>] ELSE toNode
          /\ at' = [at EXCEPT ![c] = "out"]
          /\ live' = [live EXCEPT ![c] = FALSE]
          /\ UNCHANGED <<mate, reg>>
    /\ UNCHANGED <<nodes, backlog, count>>

\* proxy_messages: one frame goes to the other side.
Forward(c) ==
    /\ at[c] = "bridged" /\ toRelay[c] # <<>> /\ live[mate[c]]
    /\ Rest(c)
    /\ toNode' = IF Held(mate[c])
          THEN [toNode EXCEPT ![mate[c]] = Append(@, First(c))] ELSE toNode
    /\ UNCHANGED <<nodes, live, relay, count>>

\* Mutant: the other side is not closed.
ProxyEndsHalf(c) ==
    /\ at[c] = "bridged" /\ ~live[c]
    /\ at' = [at EXCEPT ![c] = "out", ![mate[c]] = "out"]
    /\ mate' = [mate EXCEPT ![c] = 0, ![mate[c]] = 0]
    /\ UNCHANGED <<nodes, wires, backlog, reg, count>>

\* One side has ended: both connections are dropped.
ProxyEnds(c) ==
    /\ at[c] = "bridged" /\ ~live[c]
    /\ at' = [at EXCEPT ![c] = "out", ![mate[c]] = "out"]
    /\ mate' = [mate EXCEPT ![c] = 0, ![mate[c]] = 0]
    /\ toRelay' = [toRelay EXCEPT ![c] = <<>>, ![mate[c]] = <<>>]
    /\ live' = [live EXCEPT ![mate[c]] = FALSE]
    /\ UNCHANGED <<nodes, toNode, backlog, reg, count>>

\* The relay dies and is started again; the nodes' connections are up until
\* they have been idle for a minute.
RelayCrash ==
    /\ faults < plan.faults
    /\ faults' = faults + 1
    /\ at' = [c \in Conns |-> IF live[c] THEN "lost" ELSE "out"]
    /\ mate' = [c \in Conns |-> 0]
    /\ backlog' = <<>>
    /\ reg' = [a \in Agents |-> 0]
    /\ toRelay' = [c \in Conns |-> <<>>]
    /\ UNCHANGED <<nodes, live, toNode, plan>>

-------------------------------------------------------------------------------
AgentStep(a) == Register(a) \/ ServerHandshake(a) \/ Serve(a)
DialerStep(d) == Ask(d) \/ Greet(d) \/ ClientHandshake(d) \/ Hear(d)
RelayStep(c) == HandleRegister(c) \/ HandleRequest(c) \/ Forward(c) \/ ProxyEnds(c)

Next ==
    \/ \E e \in Nodes : Connect(e) \/ Ended(e) \/ Dies(e) \/ Starts(e)
    \/ \E a \in Agents : AgentStep(a) \/ Expire(a)
    \/ \E d \in Dialers : DialerStep(d) \/ Say(d) \/ HangUp(d)
    \/ \E c \in Conns : RelayStep(c) \/ IdleTimeout(c) \/ ConnLoss(c)
    \/ Accept \/ RelayCrash

Spec == Init /\ [][Next]_vars

\* The agent's task loops, every read and the accept loop are polled, QUIC's
\* idle timer runs; users, crashes and losses owe nothing.
Fairness ==
    /\ \A a \in Agents : WF_vars(Connect(a)) /\ WF_vars(AgentStep(a))
    /\ \A d \in Dialers : WF_vars(DialerStep(d))
    /\ \A e \in Nodes : WF_vars(Ended(e))
    /\ \A c \in Conns : WF_vars(RelayStep(c)) /\ WF_vars(IdleTimeout(c))
    /\ WF_vars(Accept)

FairSpec == Spec /\ Fairness

-------------------------------------------------------------------------------
(* Properties.                                                             *)

\* What a node has heard in a relayed session is the beginning of what the
\* node on the other side said in it: nothing is lost in the middle, swapped
\* or taken from another session (relay main.rs:73-100).
RelayedInOrder ==
    \A e, f \in Nodes :
        /\ mine[e] # 0 /\ mine[f] # 0
        /\ at[mine[e]] = "bridged" /\ mate[mine[e]] = mine[f]
        => IsPrefix(heard[f], said[e])

Reachable(a) == mine[a] # 0 /\ at[mine[a]] \in {"registered", "bridged"}

\* Whatever dialers do, and after the losses and crashes are over, the relay
\* can reach an agent again and again, unless the agent is dead for good
\* (agent main.rs:74-88).
AgentReturns == \A a \in Agents : []<>Reachable(a) \/ <>[](state[a] = "dead")

\* Who asked for a peer is answered, or sees the connection end: the relay and
\* the agent never leave a dialer waiting (its handshake has no timeout).
DialIsAnswered ==
    \A d \in Dialers : state[d] = "asked" ~> state[d] \notin {"asked", "waiting"}

\* relay.rs:41 says that the registered connection "becomes an inbound peer
\* session after a dialer is matched": no acknowledgement that an agent sends
\* is too old for the dialer.
MatchedIsAccepted ==
    \A c \in Conns : \A i \in DOMAIN toNode[c] :
        toNode[c][i].kind = "ack" => toNode[c][i].fresh
===============================================================================
