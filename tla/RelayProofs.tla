----------------------------- MODULE RelayProofs -----------------------------
(***************************************************************************)
(* What a relayed session delivers, for any number of agents, dialers and  *)
(* connections, any number of frames, and any number of lost connections   *)
(* and crashes of the relay and of nodes.                                  *)
(*                                                                         *)
(* The invariant has three parts: the types; how the relay's tables fit    *)
(* together (Wiring); and, of each connection, what its node has sent that *)
(* nobody has received yet (OrderInv).                                     *)
(***************************************************************************)
EXTENDS Relay, FiniteSetTheorems, SequenceTheorems, WellFoundedInduction, TLAPS

States == {"off", "dialing", "asked", "waiting", "session", "dead"}
Places == {"out", "lost", "backlog", "taken", "registered", "bridged"}

NodeTypes ==
    /\ state \in [Nodes -> States]
    /\ mine \in [Nodes -> Conns \cup {0}]
    /\ \A e \in Nodes : mine[e] = 0 <=> state[e] \in {"off", "dead"}
    /\ \A e, f \in Nodes : mine[e] = mine[f] /\ mine[e] # 0 => e = f
    /\ said \in [Nodes -> Seq(Frames)] /\ heard \in [Nodes -> Seq(Frames)]
    /\ expired \in [Agents -> BOOLEAN]

WireTypes ==
    /\ live \in [Conns -> BOOLEAN]
    /\ toRelay \in [Conns -> Seq(Frames)] /\ toNode \in [Conns -> Seq(Frames)]

RelayTypes ==
    /\ at \in [Conns -> Places]
    /\ mate \in [Conns -> Conns \cup {0}]
    /\ backlog \in Seq(Conns)
    /\ reg \in [Agents -> Conns \cup {0}]

CountTypes == plan \in Plans /\ faults \in 0..plan.faults

TypeInv == NodeTypes /\ WireTypes /\ RelayTypes /\ CountTypes

\* A connection that the relay has let go of is down; the backlog, the
\* registrations and the bridges are of different connections, and of the ones
\* whose place says so; nothing is on its way to a node that is gone.
Wiring ==
    /\ \A c \in Conns : at[c] = "out" => ~live[c]
    /\ \A i \in DOMAIN backlog : at[backlog[i]] = "backlog"
    /\ \A i, j \in DOMAIN backlog : backlog[i] = backlog[j] => i = j
    /\ \A c \in Conns : at[c] = "taken" => toRelay[c] # <<>>
    /\ \A c \in Conns : at[c] = "bridged" =>
          /\ mate[c] \in Conns /\ mate[c] # c
          /\ at[mate[c]] = "bridged" /\ mate[mate[c]] = c
    /\ \A a \in Agents : reg[a] # 0 => at[reg[a]] = "registered"
    /\ \A a, b \in Agents : reg[a] = reg[b] /\ reg[a] # 0 => a = b
    /\ \A c \in Conns : ~Held(c) => toNode[c] = <<>>

Hello(d)       == [kind |-> "hello", of |-> d]
Registering(a) == [kind |-> "register", node |-> a]
Requesting(a)  == [kind |-> "request", node |-> a]

\* Before node e's connection is bridged: e has heard nothing, and what it has
\* sent is where the relay has not read it.
Opening(e) ==
    /\ heard[e] = <<>> /\ toNode[mine[e]] = <<>>
    /\ \/ /\ state[e] = "dialing" /\ at[mine[e]] = "backlog"
          /\ said[e] = <<>> /\ toRelay[mine[e]] = <<>>
       \/ /\ e \in Agents /\ state[e] = "waiting" /\ said[e] = <<>>
          /\ toRelay[mine[e]] = IF at[mine[e]] = "registered" THEN <<>>
                                ELSE <<Registering(e)>>
       \/ /\ e \in Dialers /\ at[mine[e]] # "registered"
          /\ state[e] = "waiting" \/ (state[e] = "asked" /\ said[e] = <<>>)
          /\ state[e] = "waiting" => said[e] = <<Hello(e)>>
          /\ \E a \in Agents :
                toRelay[mine[e]] = <<Requesting(a)>> \o said[e]

Early == {"backlog", "taken", "registered"}

NodeInv(e) ==
    /\ mine[e] = 0 => said[e] = <<>> /\ heard[e] = <<>>
    /\ mine[e] # 0 /\ at[mine[e]] \in Early => Opening(e)
    /\ mine[e] # 0 /\ at[mine[e]] = "bridged"
         => state[e] \in {"asked", "waiting", "session"}
    /\ e \in Dialers /\ state[e] \in {"waiting", "session"} => said[e] # <<>>

\* The connections of e and f are bridged: what e has said is what f has heard
\* and what is on its way to f, on one connection or the other.
Joined(e, f) ==
    /\ mine[e] # 0 /\ mine[f] # 0
    /\ at[mine[e]] = "bridged" /\ mate[mine[e]] = mine[f]
Carried(e, f) ==
    said[e] = (heard[f] \o toNode[mine[f]]) \o toRelay[mine[e]]

OrderInv ==
    /\ \A e \in Nodes : NodeInv(e)
    /\ \A e, f \in Nodes : Joined(e, f) => Carried(e, f)

IInv == TypeInv /\ Wiring /\ OrderInv

-------------------------------------------------------------------------------
(* Sequences and frames.                                                   *)

\* When the first of what is on its way is heard, the rest follows.
LEMMA MovesFirst ==
  ASSUME NEW S, NEW t \in Seq(S), NEW u \in Seq(S), u # <<>>
  PROVE  Append(t, Head(u)) \o Tail(u) = t \o u
<1>1. Head(u) \in S /\ Tail(u) \in Seq(S) /\ Len(Tail(u)) = Len(u) - 1
      /\ \A i \in 1..Len(Tail(u)) : Tail(u)[i] = u[i + 1]
  BY HeadTailProperties
<1>2. Append(t, Head(u)) = t \o <<Head(u)>> /\ <<Head(u)>> \in Seq(S)
  BY <1>1, AppendIsConcat
<1>3. u = <<Head(u)>> \o Tail(u)
  <2>1. Len(u) \in Nat \ {0} /\ u = SubSeq(u, 1, Len(u))
    BY EmptySeq, SubSeqFull
  <2>2. u = <<u[1]>> \o SubSeq(u, 2, Len(u))
    BY <2>1, SubSeqRecursiveFirst
  <2>3. Tail(u) = SubSeq(u, 2, Len(u)) /\ Head(u) = u[1]
    BY TailIsSubSeq
  <2>4. QED
    BY <2>2, <2>3
<1>4. Append(t, Head(u)) \o Tail(u) = t \o (<<Head(u)>> \o Tail(u))
  BY <1>1, <1>2, ConcatAssociative
<1>5. QED
  BY <1>3, <1>4

LEMMA BeginningIsPrefix ==
  ASSUME NEW S, NEW t \in Seq(S), NEW u \in Seq(S)
  PROVE  IsPrefix(t, t \o u)
<1>1. Len(t) \in Nat /\ Len(u) \in Nat /\ Len(t \o u) = Len(t) + Len(u)
  BY ConcatProperties, LenProperties
<1>2. SubSeq(t \o u, 1, Len(t)) = SubSeq(t, 1, Len(t))
  <2>1. CASE Len(t) = 0
    BY <1>1, <2>1, SubSeqEmpty
  <2>2. CASE Len(t) # 0
    BY <1>1, <2>2, SubSeqOfConcat1
  <2>3. QED
    BY <2>1, <2>2
<1>3. QED
  BY <1>1, <1>2 DEF IsPrefix

LEMMA FrameTypes ==
  /\ \A a \in Agents : Registering(a) \in Frames /\ Requesting(a) \in Frames
  /\ \A d \in Dialers : Hello(d) \in Frames
  /\ [kind |-> "error"] \in Frames
  /\ \A b \in BOOLEAN : [kind |-> "ack", fresh |-> b] \in Frames
  /\ \A d \in Dialers, n \in 1..MaxSaid :
        [kind |-> "data", of |-> d, n |-> n] \in Frames
BY DEF Frames, Registering, Requesting, Hello

\* A request, and what was said after it.
LEMMA RequestsFirst ==
  ASSUME NEW a \in Agents, NEW e \in Nodes, TypeInv
  PROVE  /\ Head(<<Requesting(a)>> \o said[e]) = Requesting(a)
         /\ Tail(<<Requesting(a)>> \o said[e]) = said[e]
<1>1. PICK s \in Seq(Frames) : s = said[e]
  BY DEF TypeInv, NodeTypes
<1>2. PICK r \in Frames : r = Requesting(a)
  BY FrameTypes
<1>3. Head(<<r>> \o s) = r /\ Tail(<<r>> \o s) = s
  OBVIOUS
<1>4. QED
  BY <1>1, <1>2, <1>3

LEMMA FrameNames ==
  ASSUME NEW f \in Frames, f.kind \in {"register", "request"}
  PROVE  f.node \in Agents
BY DEF Frames

-------------------------------------------------------------------------------
(* Types.                                                                  *)

LEMMA InitInv == Init => IInv
<1> SUFFICES ASSUME Init PROVE IInv
  OBVIOUS
<1>1. TypeInv
  <2>1. NodeTypes
    BY RelayAssumption DEF Init, NodeTypes, States
  <2>2. WireTypes /\ RelayTypes
    BY DEF Init, WireTypes, RelayTypes, Places
  <2>3. CountTypes
    BY RelayAssumption DEF Init, CountTypes
  <2>4. QED
    BY <2>1, <2>2, <2>3 DEF TypeInv
<1>2. Wiring
  BY DEF Init, Wiring, Held
<1>3. OrderInv
  BY DEF Init, OrderInv, NodeInv, Joined
<1>4. QED
  BY <1>1, <1>2, <1>3 DEF IInv

LEMMA MineType ==
  ASSUME TypeInv, NEW e \in Nodes
  PROVE  /\ mine[e] # 0 => mine[e] \in Conns
         /\ state[e] \in {"dialing", "asked", "waiting", "session"} => mine[e] # 0
         /\ state[e] \in {"off", "dead"} => mine[e] = 0
BY DEF TypeInv, NodeTypes, States

LEMMA LeavesType ==
  ASSUME TypeInv, NEW e \in Nodes, NEW s \in {"off", "dead"}, Leaves(e, s)
  PROVE  NodeTypes' /\ toNode' \in [Conns -> Seq(Frames)]
<1>1. /\ state' \in [Nodes -> States] /\ mine' \in [Nodes -> Conns \cup {0}]
      /\ expired' \in [Agents -> BOOLEAN]
  BY DEF Leaves, Goto, TypeInv, NodeTypes, States
<1>2. /\ said' \in [Nodes -> Seq(Frames)] /\ heard' \in [Nodes -> Seq(Frames)]
      /\ toNode' \in [Conns -> Seq(Frames)]
  <2>1. <<>> \in Seq(Frames)
    BY EmptySeq
  <2>2. QED
    BY <2>1 DEF Leaves, TypeInv, NodeTypes, WireTypes
<1>3. /\ state'[e] = s /\ mine'[e] = 0
      /\ \A f \in Nodes \ {e} : state'[f] = state[f] /\ mine'[f] = mine[f]
  BY DEF Leaves, Goto, TypeInv, NodeTypes
<1>4. \A f \in Nodes : mine'[f] = 0 <=> state'[f] \in {"off", "dead"}
  BY <1>3 DEF TypeInv, NodeTypes
<1>5. \A f, g \in Nodes : mine'[f] = mine'[g] /\ mine'[f] # 0 => f = g
  BY <1>3 DEF TypeInv, NodeTypes
<1>6. QED
  BY <1>2, <1>1, <1>4, <1>5 DEF NodeTypes

\* A node says fs, if anything, and goes on to a state in which it holds its
\* connection.
LEMMA SpeaksType ==
  ASSUME TypeInv, NEW e \in Nodes, NEW fs \in Seq(Frames), Send(e, fs)
  PROVE  toRelay' \in [Conns -> Seq(Frames)]
<1>1. \A c \in Conns : toRelay[c] \o fs \in Seq(Frames)
  BY ConcatProperties DEF TypeInv, WireTypes
<1>2. QED
  BY <1>1 DEF Send, TypeInv, WireTypes

LEMMA SaysType ==
  ASSUME TypeInv, NEW e \in Nodes, NEW fs \in Seq(Frames), Says(e, fs)
  PROVE  said' \in [Nodes -> Seq(Frames)]
<1>1. said[e] \o fs \in Seq(Frames)
  BY ConcatProperties DEF TypeInv, NodeTypes
<1>2. QED
  BY <1>1 DEF Says, TypeInv, NodeTypes

LEMMA HearsType ==
  ASSUME TypeInv, NEW e \in Nodes, Reads(e), Take(e), mine[e] # 0
  PROVE  /\ toNode' \in [Conns -> Seq(Frames)] /\ Next1(e) \in Frames
         /\ Hears(e, Next1(e)) => heard' \in [Nodes -> Seq(Frames)]
<1>1. mine[e] \in Conns /\ toNode[mine[e]] \in Seq(Frames)
  BY MineType DEF TypeInv, WireTypes
<1>2. Next1(e) \in Frames /\ Tail(toNode[mine[e]]) \in Seq(Frames)
  BY <1>1, HeadTailProperties DEF Reads, Next1
<1>3. Append(heard[e], Next1(e)) \in Seq(Frames)
  BY <1>2, AppendProperties DEF TypeInv, NodeTypes
<1>4. QED
  BY <1>1, <1>2, <1>3 DEF Take, Hears, TypeInv, NodeTypes, WireTypes

LEMMA GoesOnType ==
  ASSUME TypeInv, NEW e \in Nodes,
         NEW s \in {"dialing", "asked", "waiting", "session"},
         state[e] \in {"dialing", "asked", "waiting", "session"}, Goto(e, s),
         mine' = mine
  PROVE  /\ state' \in [Nodes -> States]
         /\ mine' \in [Nodes -> Conns \cup {0}]
         /\ \A f \in Nodes : mine'[f] = 0 <=> state'[f] \in {"off", "dead"}
         /\ \A f, g \in Nodes : mine'[f] = mine'[g] /\ mine'[f] # 0 => f = g
BY DEF Goto, TypeInv, NodeTypes, States

LEMMA DropType ==
  ASSUME TypeInv, NEW e \in Nodes, Drop(e)
  PROVE  /\ NodeTypes' /\ toNode' \in [Conns -> Seq(Frames)]
         /\ live' \in [Conns -> BOOLEAN]
<1>1. Leaves(e, "off") /\ live' = [live EXCEPT ![mine[e]] = FALSE]
  BY DEF Drop
<1>2. NodeTypes' /\ toNode' \in [Conns -> Seq(Frames)]
  BY <1>1, LeavesType
<1>3. live' \in [Conns -> BOOLEAN]
  BY <1>1 DEF TypeInv, WireTypes
<1>4. QED
  BY <1>2, <1>3

LEMMA AgentStepType ==
  ASSUME TypeInv, NEW a \in Agents, AgentStep(a) \/ Expire(a)
  PROVE  TypeInv'
<1> USE DEF Nodes
<1>1. CASE Register(a)
  <2>1. <<Registering(a)>> \in Seq(Frames)
    BY FrameTypes
  <2>2. toRelay' \in [Conns -> Seq(Frames)]
    BY <1>1, <2>1, SpeaksType DEF Register, Registering
  <2>3. /\ state' \in [Nodes -> States] /\ mine' \in [Nodes -> Conns \cup {0}]
        /\ \A f \in Nodes : mine'[f] = 0 <=> state'[f] \in {"off", "dead"}
        /\ \A f, g \in Nodes : mine'[f] = mine'[g] /\ mine'[f] # 0 => f = g
    BY <1>1, GoesOnType DEF Register
  <2>4. expired' \in [Agents -> BOOLEAN]
    BY <1>1 DEF Register, TypeInv, NodeTypes
  <2>5. UNCHANGED <<said, heard, live, toNode, relay, count>>
    BY <1>1 DEF Register
  <2>6. QED
    BY <2>2, <2>3, <2>4, <2>5 DEF TypeInv, NodeTypes, WireTypes, RelayTypes,
                                  CountTypes, relay, count
<1>2. CASE ServerHandshake(a)
  <2>1. /\ \A b \in BOOLEAN : <<[kind |-> "ack", fresh |-> b]>> \in Seq(Frames)
        /\ \A b \in BOOLEAN : <<[kind |-> "ack", fresh |-> b],
                                [kind |-> "error"]>> \in Seq(Frames)
    BY FrameTypes
  <2>2. expired[a] \in BOOLEAN
    BY DEF TypeInv, NodeTypes
  <2>3. PICK b \in BOOLEAN : b = ~expired[a]
    BY <2>2
  <2>4. UNCHANGED <<relay, count>> /\ state[a] = "waiting" /\ Reads(a)
    BY <1>2 DEF ServerHandshake
  <2>5. CASE /\ Take(a) /\ Hears(a, Next1(a))
             /\ Send(a, <<[kind |-> "ack", fresh |-> b]>>)
             /\ Says(a, <<[kind |-> "ack", fresh |-> b]>>)
             /\ Goto(a, "session")
             /\ UNCHANGED <<mine, live, expired>>
    <3>1. /\ toRelay' \in [Conns -> Seq(Frames)]
          /\ said' \in [Nodes -> Seq(Frames)]
      BY <2>1, <2>5, SpeaksType, SaysType
    <3>2. /\ toNode' \in [Conns -> Seq(Frames)]
          /\ heard' \in [Nodes -> Seq(Frames)]
      BY <2>4, <2>5, HearsType, MineType
    <3>3. /\ state' \in [Nodes -> States]
          /\ mine' \in [Nodes -> Conns \cup {0}]
          /\ \A f \in Nodes : mine'[f] = 0 <=> state'[f] \in {"off", "dead"}
          /\ \A f, g \in Nodes : mine'[f] = mine'[g] /\ mine'[f] # 0 => f = g
      BY <2>4, <2>5, GoesOnType
    <3>4. QED
      BY <2>4, <2>5, <3>1, <3>2, <3>3
         DEF TypeInv, NodeTypes, WireTypes, RelayTypes, CountTypes, relay,
             count
  <2>6. CASE /\ Send(a, <<[kind |-> "ack", fresh |-> b], [kind |-> "error"]>>)
             /\ Drop(a)
    <3>1. toRelay' \in [Conns -> Seq(Frames)]
      BY <2>1, <2>6, SpeaksType
    <3>2. /\ NodeTypes' /\ toNode' \in [Conns -> Seq(Frames)]
          /\ live' \in [Conns -> BOOLEAN]
      BY <2>6, DropType
    <3>3. QED
      BY <2>4, <3>1, <3>2 DEF TypeInv, WireTypes, RelayTypes, CountTypes,
                              relay, count
  <2>7. CASE UNCHANGED toRelay /\ Drop(a)
    BY <2>4, <2>7, DropType DEF TypeInv, WireTypes, RelayTypes, CountTypes,
                                relay, count
  <2>8. QED
    BY <1>2, <2>3, <2>5, <2>6, <2>7 DEF ServerHandshake
<1>3. CASE Serve(a)
  <2>1. /\ state[a] = "session" /\ mine[a] # 0 /\ Reads(a) /\ Take(a)
        /\ Hears(a, Next1(a)) /\ Send(a, <<Next1(a)>>) /\ Says(a, <<Next1(a)>>)
        /\ UNCHANGED <<state, mine, expired, live, relay, count>>
    BY <1>3, MineType DEF Serve
  <2>2. /\ Next1(a) \in Frames /\ toNode' \in [Conns -> Seq(Frames)]
        /\ heard' \in [Nodes -> Seq(Frames)]
    BY <2>1, HearsType
  <2>3. PICK f \in Frames : f = Next1(a)
    BY <2>2
  <2>4. <<f>> \in Seq(Frames)
    OBVIOUS
  <2>5. /\ toRelay' \in [Conns -> Seq(Frames)]
        /\ said' \in [Nodes -> Seq(Frames)]
    BY <2>1, <2>3, <2>4, SpeaksType, SaysType
  <2>6. QED
    BY <2>1, <2>2, <2>5 DEF TypeInv, NodeTypes, WireTypes, RelayTypes,
                            CountTypes, relay, count
<1>4. CASE Expire(a)
  BY <1>4 DEF Expire, TypeInv, NodeTypes, WireTypes, RelayTypes, CountTypes,
              wires, relay, count
<1>5. QED
  BY <1>1, <1>2, <1>3, <1>4 DEF AgentStep

LEMMA DialerStepType ==
  ASSUME TypeInv, OrderInv, NEW d \in Dialers,
         DialerStep(d) \/ Say(d) \/ HangUp(d)
  PROVE  TypeInv'
<1> USE DEF Nodes
<1>1. CASE Ask(d) \/ Greet(d)
  <2>1. PICK fs \in Seq(Frames), hs \in Seq(Frames) : Send(d, fs) /\ Says(d, hs)
    <3>1. CASE Ask(d)
      <4>1. PICK a \in Agents : Send(d, <<Requesting(a)>>)
        BY <3>1 DEF Ask, Requesting
      <4>2. Says(d, <<>>)
        <5>1. said[d] \o <<>> = said[d]
          BY ConcatEmptySeq DEF TypeInv, NodeTypes
        <5>2. QED
          BY <3>1, <5>1 DEF Ask, Says, TypeInv, NodeTypes
      <4>3. <<Requesting(a)>> \in Seq(Frames) /\ <<>> \in Seq(Frames)
        BY FrameTypes, EmptySeq
      <4>4. QED
        BY <4>1, <4>2, <4>3
    <3>2. CASE Greet(d)
      <4>1. <<Hello(d)>> \in Seq(Frames)
        BY FrameTypes
      <4>2. Send(d, <<Hello(d)>>) /\ Says(d, <<Hello(d)>>)
        BY <3>2 DEF Greet, Hello
      <4>3. QED
        BY <4>1, <4>2
    <3>3. QED
      BY <1>1, <3>1, <3>2
  <2>2. PICK s \in {"asked", "waiting"} : Goto(d, s)
    BY <1>1 DEF Ask, Greet
  <2>3. /\ state[d] \in {"dialing", "asked"}
        /\ UNCHANGED <<mine, heard, expired, live, toNode, relay, count>>
    BY <1>1 DEF Ask, Greet
  <2>4. /\ toRelay' \in [Conns -> Seq(Frames)]
        /\ said' \in [Nodes -> Seq(Frames)]
    BY <2>1, SpeaksType, SaysType
  <2>5. /\ state' \in [Nodes -> States] /\ mine' \in [Nodes -> Conns \cup {0}]
        /\ \A f \in Nodes : mine'[f] = 0 <=> state'[f] \in {"off", "dead"}
        /\ \A f, g \in Nodes : mine'[f] = mine'[g] /\ mine'[f] # 0 => f = g
    BY <2>2, <2>3, GoesOnType
  <2>6. QED
    BY <2>3, <2>4, <2>5 DEF TypeInv, NodeTypes, WireTypes, RelayTypes,
                            CountTypes, relay, count
<1>2. CASE ClientHandshake(d)
  <2>1. UNCHANGED <<toRelay, relay, count>> /\ state[d] = "waiting" /\ Reads(d)
    BY <1>2 DEF ClientHandshake
  <2>2. CASE /\ Take(d) /\ Hears(d, Next1(d)) /\ Goto(d, "session")
             /\ UNCHANGED <<mine, said, expired, live>>
    <3>1. /\ toNode' \in [Conns -> Seq(Frames)]
          /\ heard' \in [Nodes -> Seq(Frames)]
      BY <2>1, <2>2, HearsType, MineType
    <3>2. /\ state' \in [Nodes -> States]
          /\ mine' \in [Nodes -> Conns \cup {0}]
          /\ \A f \in Nodes : mine'[f] = 0 <=> state'[f] \in {"off", "dead"}
          /\ \A f, g \in Nodes : mine'[f] = mine'[g] /\ mine'[f] # 0 => f = g
      BY <2>1, <2>2, GoesOnType
    <3>3. QED
      BY <2>1, <2>2, <3>1, <3>2 DEF TypeInv, NodeTypes, WireTypes, RelayTypes,
                                    CountTypes, relay, count
  <2>3. CASE Drop(d)
    BY <2>1, <2>3, DropType DEF TypeInv, WireTypes, RelayTypes, CountTypes,
                                relay, count
  <2>4. QED
    BY <1>2, <2>2, <2>3 DEF ClientHandshake
<1>3. CASE Say(d)
  <2>1. /\ state[d] = "session" /\ Len(said[d]) <= MaxSaid
        /\ Send(d, <<[kind |-> "data", of |-> d, n |-> Len(said[d])]>>)
        /\ Says(d, <<[kind |-> "data", of |-> d, n |-> Len(said[d])]>>)
        /\ UNCHANGED <<state, mine, heard, expired, live, toNode>>
        /\ UNCHANGED <<relay, count>>
    BY <1>3 DEF Say
  <2>2. said[d] \in Seq(Frames) /\ said[d] # <<>>
    BY <2>1 DEF TypeInv, NodeTypes, OrderInv, NodeInv
  <2>3. Len(said[d]) \in 1..MaxSaid
    BY <2>1, <2>2, EmptySeq, RelayAssumption
  <2>4. PICK n \in 1..MaxSaid : n = Len(said[d])
    BY <2>3
  <2>5. <<[kind |-> "data", of |-> d, n |-> n]>> \in Seq(Frames)
    BY FrameTypes
  <2>6. /\ toRelay' \in [Conns -> Seq(Frames)]
        /\ said' \in [Nodes -> Seq(Frames)]
    BY <2>1, <2>4, <2>5, SpeaksType, SaysType
  <2>7. QED
    BY <2>1, <2>6 DEF TypeInv, NodeTypes, WireTypes, RelayTypes, CountTypes,
                      relay, count
<1>4. CASE Hear(d)
  <2>1. /\ state[d] = "session" /\ mine[d] # 0 /\ Reads(d) /\ Take(d)
        /\ Hears(d, Next1(d))
        /\ UNCHANGED <<state, mine, said, expired, live, toRelay>>
        /\ UNCHANGED <<relay, count>>
    BY <1>4, MineType DEF Hear
  <2>2. /\ toNode' \in [Conns -> Seq(Frames)]
        /\ heard' \in [Nodes -> Seq(Frames)]
    BY <2>1, HearsType
  <2>3. QED
    BY <2>1, <2>2 DEF TypeInv, NodeTypes, WireTypes, RelayTypes, CountTypes,
                      relay, count
<1>5. CASE HangUp(d)
  BY <1>5, DropType DEF HangUp, TypeInv, WireTypes, RelayTypes, CountTypes,
                        relay, count
<1>6. QED
  BY <1>1, <1>2, <1>3, <1>4, <1>5 DEF DialerStep

Less == {ss \in Nat \X Nat : ss[1] < ss[2]}

LEMMA LessWellFounded == IsWellFoundedOn(Less, Nat)
  BY NatLessThanWellFounded DEF OpToRel, Less

\* Free connections have a least number.
LEMMA FreeLeast ==
  ASSUME TypeInv, NEW e \in Nodes, Connect(e)
  PROVE  LET c == CHOOSE c \in Free : \A b \in Free : c <= b IN c \in Free
<1>1. Free \subseteq Nat
  BY RelayAssumption DEF Free
<1>2. Free # {}
  <2>1. plan.spare \in Nat
    BY RelayAssumption DEF TypeInv, CountTypes
  <2>2. Cardinality(Free) # 0
    <3>1. IsFiniteSet(Free)
      BY RelayAssumption, FS_Subset DEF Free
    <3>2. Cardinality(Free) \in Nat
      BY <3>1, FS_CardinalityType
    <3>3. QED
      BY <2>1, <3>2 DEF Connect
  <2>3. QED
    BY <2>2, FS_EmptySet
<1>3. PICK c \in Free : \A b \in Free : ~(<<b, c>> \in Less)
  BY <1>1, <1>2, LessWellFounded, WFMin
<1>4. \A b \in Free : c <= b
  <2> SUFFICES ASSUME NEW b \in Free, ~(c <= b) PROVE FALSE
    OBVIOUS
  <2>1. b \in Nat /\ c \in Nat
    BY <1>1
  <2>2. b < c
    BY <2>1
  <2>3. <<b, c>> \in Less
    BY <2>1, <2>2 DEF Less
  <2>4. QED
    BY <1>3, <2>3
<1>5. QED
  BY <1>4

\* What a node's new connection is.
LEMMA Connects ==
  ASSUME TypeInv, NEW e \in Nodes, Connect(e)
  PROVE  \E c \in Free :
           /\ mine' = [mine EXCEPT ![e] = c]
           /\ live' = [live EXCEPT ![c] = TRUE]
           /\ at' = [at EXCEPT ![c] = "backlog"]
           /\ backlog' = Append(backlog, c)
           /\ toRelay' = [toRelay EXCEPT ![c] = <<>>]
BY FreeLeast DEF Connect

LEMMA NodeStepType ==
  ASSUME TypeInv, NEW e \in Nodes,
         Connect(e) \/ Ended(e) \/ Dies(e) \/ Starts(e)
  PROVE  TypeInv'
<1>1. CASE Connect(e)
  <2>1. PICK c \in Free :
           /\ mine' = [mine EXCEPT ![e] = c]
           /\ live' = [live EXCEPT ![c] = TRUE]
           /\ at' = [at EXCEPT ![c] = "backlog"]
           /\ backlog' = Append(backlog, c)
           /\ toRelay' = [toRelay EXCEPT ![c] = <<>>]
    BY <1>1, Connects
  <2>2. c \in Conns /\ c # 0 /\ \A f \in Nodes : mine[f] # c
    BY RelayAssumption DEF Free, Held
  <2>3. /\ state' = [state EXCEPT ![e] = "dialing"]
        /\ UNCHANGED <<said, heard, expired, toNode, mate, reg, count>>
    BY <1>1 DEF Connect, Goto
  <2>4. state' \in [Nodes -> States] /\ mine' \in [Nodes -> Conns \cup {0}]
    BY <2>1, <2>2, <2>3 DEF TypeInv, NodeTypes, States
  <2>5. \A f \in Nodes : mine'[f] = 0 <=> state'[f] \in {"off", "dead"}
    BY <2>1, <2>2, <2>3 DEF TypeInv, NodeTypes
  <2>6. \A f, g \in Nodes : mine'[f] = mine'[g] /\ mine'[f] # 0 => f = g
    BY <2>1, <2>2 DEF TypeInv, NodeTypes
  <2>7. NodeTypes'
    BY <2>3, <2>4, <2>5, <2>6 DEF TypeInv, NodeTypes
  <2>8. WireTypes'
    BY <2>1, <2>3, EmptySeq DEF TypeInv, WireTypes
  <2>9. RelayTypes'
    BY <2>1, <2>2, <2>3, AppendProperties DEF TypeInv, RelayTypes, Places
  <2>10. QED
    BY <2>3, <2>7, <2>8, <2>9 DEF TypeInv, CountTypes, count
<1>2. CASE Ended(e)
  BY <1>2, DropType DEF Ended, TypeInv, WireTypes, RelayTypes, CountTypes,
                        relay, count
<1>3. CASE Dies(e)
  <2>1. /\ faults < plan.faults /\ faults' = faults + 1 /\ plan' = plan
        /\ Leaves(e, "dead") /\ UNCHANGED <<live, toRelay, relay>>
    BY <1>3 DEF Dies
  <2>2. CountTypes'
    BY <2>1, RelayAssumption DEF TypeInv, CountTypes
  <2>3. QED
    BY <2>1, <2>2, LeavesType DEF TypeInv, WireTypes, RelayTypes, relay
<1>4. CASE Starts(e)
  <2>1. /\ state[e] = "dead" /\ state' = [state EXCEPT ![e] = "off"]
        /\ UNCHANGED <<mine, said, heard, expired, wires, relay, count>>
    BY <1>4 DEF Starts, Goto
  <2>2. NodeTypes'
    BY <2>1 DEF TypeInv, NodeTypes, States
  <2>3. QED
    BY <2>1, <2>2 DEF TypeInv, WireTypes, RelayTypes, CountTypes, wires, relay,
                      count
<1>5. QED
  BY <1>1, <1>2, <1>3, <1>4

\* What the relay has not read yet of a connection.
LEMMA FirstType ==
  ASSUME TypeInv, NEW c \in Conns, toRelay[c] # <<>>
  PROVE  /\ First(c) \in Frames
         /\ Rest(c) => toRelay' \in [Conns -> Seq(Frames)]
         /\ First(c).kind \in {"register", "request"} =>
                First(c).node \in Agents
<1>1. toRelay[c] \in Seq(Frames)
  BY DEF TypeInv, WireTypes
<1>2. First(c) \in Frames /\ Tail(toRelay[c]) \in Seq(Frames)
  BY <1>1, HeadTailProperties DEF First
<1>3. PICK f \in Frames : f = First(c)
  BY <1>2
<1>4. QED
  BY <1>2, <1>3, FrameNames DEF Rest, TypeInv, WireTypes

LEMMA RelayStepType ==
  ASSUME TypeInv, Wiring, NEW c \in Conns,
         RelayStep(c) \/ IdleTimeout(c) \/ ConnLoss(c)
  PROVE  TypeInv'
<1>1. CASE HandleRegister(c)
  <2>1. toRelay[c] # <<>> /\ First(c).kind = "register"
    BY <1>1 DEF HandleRegister, Wiring
  <2>2. First(c).node \in Agents /\ toRelay' \in [Conns -> Seq(Frames)]
    BY <1>1, <2>1, FirstType DEF HandleRegister
  <2>3. RelayTypes'
    BY <1>1, <2>2 DEF HandleRegister, TypeInv, RelayTypes, Places
  <2>4. live' \in [Conns -> BOOLEAN]
    BY <1>1 DEF HandleRegister, TypeInv, WireTypes
  <2>5. QED
    BY <1>1, <2>2, <2>3, <2>4 DEF HandleRegister, TypeInv, NodeTypes,
                                  WireTypes, CountTypes, nodes, count
<1>2. CASE HandleRequest(c)
  <2>1. toRelay[c] # <<>> /\ First(c).kind = "request"
    BY <1>2 DEF HandleRequest, Wiring
  <2>2. PICK a \in Agents : a = First(c).node
    BY <2>1, FirstType
  <2>3. UNCHANGED <<nodes, backlog, count>>
    BY <1>2 DEF HandleRequest
  <2>4. CASE /\ reg[a] # 0 /\ Rest(c) /\ Bridge(c, reg[a])
             /\ reg' = [reg EXCEPT ![a] = 0] /\ UNCHANGED <<live, toNode>>
    <3>1. toRelay' \in [Conns -> Seq(Frames)]
      BY <2>1, <2>4, FirstType
    <3>2. reg[a] \in Conns
      BY <2>4 DEF TypeInv, RelayTypes
    <3>3. RelayTypes'
      BY <2>3, <2>4, <3>2 DEF Bridge, TypeInv, RelayTypes, Places
    <3>4. QED
      BY <2>3, <2>4, <3>1, <3>3 DEF TypeInv, NodeTypes, WireTypes, CountTypes,
                                    nodes, count
  <2>5. CASE /\ toRelay' = [toRelay EXCEPT ![c] = <<>>]
             /\ toNode' = IF Held(c)
                           THEN [toNode EXCEPT ![c] = <<[kind |-> "error"]>>]
                           ELSE toNode
             /\ at' = [at EXCEPT ![c] = "out"]
             /\ live' = [live EXCEPT ![c] = FALSE]
             /\ UNCHANGED <<mate, reg>>
    <3>1. <<[kind |-> "error"]>> \in Seq(Frames)
      BY FrameTypes
    <3>2. WireTypes'
      BY <2>5, <3>1, EmptySeq DEF TypeInv, WireTypes
    <3>3. RelayTypes'
      BY <2>3, <2>5 DEF TypeInv, RelayTypes, Places
    <3>4. QED
      BY <2>3, <3>2, <3>3 DEF TypeInv, NodeTypes, CountTypes, nodes, count
  <2>6. QED
    BY <1>2, <2>2, <2>4, <2>5 DEF HandleRequest
<1>3. CASE Forward(c)
  <2>1. /\ toRelay[c] # <<>> /\ Rest(c) /\ mate[c] \in Conns
        /\ UNCHANGED <<nodes, live, relay, count>>
    BY <1>3 DEF Forward, Wiring
  <2>2. First(c) \in Frames /\ toRelay' \in [Conns -> Seq(Frames)]
    BY <2>1, FirstType
  <2>3. Append(toNode[mate[c]], First(c)) \in Seq(Frames)
    BY <2>1, <2>2, AppendProperties DEF TypeInv, WireTypes
  <2>4. toNode' \in [Conns -> Seq(Frames)]
    BY <1>3, <2>1, <2>3 DEF Forward, TypeInv, WireTypes
  <2>5. QED
    BY <2>1, <2>2, <2>4 DEF TypeInv, NodeTypes, WireTypes, RelayTypes,
                            CountTypes, nodes, relay, count
<1>4. CASE ProxyEnds(c)
  <2>1. WireTypes'
    BY <1>4, EmptySeq DEF ProxyEnds, TypeInv, WireTypes
  <2>2. RelayTypes'
    BY <1>4 DEF ProxyEnds, TypeInv, RelayTypes, Places
  <2>3. QED
    BY <1>4, <2>1, <2>2 DEF ProxyEnds, TypeInv, NodeTypes, CountTypes, nodes,
                            count
<1>5. CASE IdleTimeout(c)
  BY <1>5 DEF IdleTimeout, TypeInv, NodeTypes, WireTypes, RelayTypes,
              CountTypes, nodes, relay, count
<1>6. CASE ConnLoss(c)
  <2>1. CountTypes'
    BY <1>6, RelayAssumption DEF ConnLoss, TypeInv, CountTypes
  <2>2. QED
    BY <1>6, <2>1 DEF ConnLoss, TypeInv, NodeTypes, WireTypes, RelayTypes,
                      nodes, relay
<1>7. QED
  BY <1>1, <1>2, <1>3, <1>4, <1>5, <1>6 DEF RelayStep

LEMMA AcceptType ==
  ASSUME TypeInv, Accept \/ RelayCrash
  PROVE  TypeInv'
<1>1. CASE Accept
  <2>1. backlog # <<>> /\ backlog' = Tail(backlog)
        /\ UNCHANGED <<nodes, live, toNode, mate, reg, count>>
    BY <1>1 DEF Accept
  <2>2. PICK c \in Conns : c = Head(backlog)
    BY <2>1, HeadTailProperties DEF TypeInv, RelayTypes
  <2>3. \/ at' = [at EXCEPT ![c] = "taken"] /\ UNCHANGED toRelay
        \/ at' = [at EXCEPT ![c] = "out"]
           /\ toRelay' = [toRelay EXCEPT ![c] = <<>>]
    BY <1>1, <2>2 DEF Accept
  <2>4. backlog' \in Seq(Conns)
    BY <2>1, HeadTailProperties DEF TypeInv, RelayTypes
  <2>5. at' \in [Conns -> Places]
    BY <2>3 DEF TypeInv, RelayTypes, Places
  <2>6. toRelay' \in [Conns -> Seq(Frames)]
    <3>1. <<>> \in Seq(Frames) /\ toRelay \in [Conns -> Seq(Frames)]
      BY EmptySeq DEF TypeInv, WireTypes
    <3>2. QED
      BY <2>3, <3>1
  <2>7. QED
    BY <2>1, <2>4, <2>5, <2>6 DEF TypeInv, NodeTypes, WireTypes, RelayTypes,
                            CountTypes, nodes, count
<1>2. CASE RelayCrash
  <2>1. CountTypes'
    BY <1>2, RelayAssumption DEF RelayCrash, TypeInv, CountTypes
  <2>2. RelayTypes'
    BY <1>2, EmptySeq DEF RelayCrash, RelayTypes, Places
  <2>3. WireTypes'
    BY <1>2, EmptySeq DEF RelayCrash, TypeInv, WireTypes
  <2>4. QED
    BY <1>2, <2>1, <2>2, <2>3 DEF RelayCrash, TypeInv, NodeTypes, nodes
<1>3. QED
  BY <1>1, <1>2

LEMMA NextType == IInv /\ [Next]_vars => TypeInv'
<1> SUFFICES ASSUME IInv, [Next]_vars PROVE TypeInv'
  OBVIOUS
<1>1. TypeInv /\ Wiring /\ OrderInv
  BY DEF IInv
<1>2. CASE UNCHANGED vars
  BY <1>1, <1>2 DEF TypeInv, NodeTypes, WireTypes, RelayTypes, CountTypes,
                    vars, nodes, wires, relay, count
<1>3. CASE Next
  BY <1>1, <1>3, NodeStepType, AgentStepType, DialerStepType, RelayStepType,
     AcceptType DEF Next
<1>4. QED
  BY <1>2, <1>3

-------------------------------------------------------------------------------
(* A node's step on its own connection.                                    *)

\* Node e acts, or lets go of its connection; the relay's tables and the other
\* nodes' connections are as they were.
Local(e) ==
    /\ mine[e] \in Conns /\ UNCHANGED relay
    /\ \A f \in Nodes \ {e} :
          /\ state'[f] = state[f] /\ mine'[f] = mine[f]
          /\ said'[f] = said[f] /\ heard'[f] = heard[f]
    /\ \A b \in Conns \ {mine[e]} :
          toRelay'[b] = toRelay[b] /\ toNode'[b] = toNode[b]
    /\ \A b \in Conns : live'[b] => live[b]
    /\ toRelay[mine[e]] # <<>> => toRelay'[mine[e]] # <<>>
    /\ \/ mine'[e] = mine[e]
       \/ /\ mine'[e] = 0 /\ toNode'[mine[e]] = <<>>
          /\ said'[e] = <<>> /\ heard'[e] = <<>>
          /\ state'[e] \in {"off", "dead"}

LEMMA SendLocal ==
  ASSUME TypeInv, NEW e \in Nodes, mine[e] # 0, NEW fs \in Seq(Frames),
         Send(e, fs)
  PROVE  /\ mine[e] \in Conns
         /\ \A b \in Conns \ {mine[e]} : toRelay'[b] = toRelay[b]
         /\ toRelay[mine[e]] # <<>> => toRelay'[mine[e]] # <<>>
         /\ at[mine[e]] # "lost" => toRelay'[mine[e]] = toRelay[mine[e]] \o fs
<1>1. PICK c \in Conns : c = mine[e]
  BY MineType
<1>2. toRelay' = IF at[c] = "lost" THEN toRelay
                 ELSE [toRelay EXCEPT ![c] = @ \o fs]
  BY <1>1 DEF Send
<1>3. toRelay \in [Conns -> Seq(Frames)]
  BY DEF TypeInv, WireTypes
<1>4. \A b \in Conns \ {c} : toRelay'[b] = toRelay[b]
  BY <1>2, <1>3
<1>5. at[c] # "lost" => toRelay'[c] = toRelay[c] \o fs
  BY <1>2, <1>3
<1>6. toRelay[c] # <<>> => toRelay[c] \o fs # <<>>
  BY <1>3, ConcatProperties
<1>7. at[c] = "lost" => toRelay'[c] = toRelay[c]
  BY <1>2
<1>8. QED
  BY <1>1, <1>4, <1>5, <1>6, <1>7

LEMMA LeavesLocal ==
  ASSUME TypeInv, NEW e \in Nodes, mine[e] # 0, NEW s \in {"off", "dead"},
         Leaves(e, s), UNCHANGED relay, \A b \in Conns : live'[b] => live[b],
         \A b \in Conns \ {mine[e]} : toRelay'[b] = toRelay[b],
         toRelay[mine[e]] # <<>> => toRelay'[mine[e]] # <<>>
  PROVE  Local(e) /\ mine'[e] = 0
<1>1. mine[e] \in Conns
  BY MineType
<1>2. \A b \in Conns \ {mine[e]} : toNode'[b] = toNode[b]
  BY DEF Leaves, TypeInv, WireTypes
<1>3. toNode'[mine[e]] = <<>>
  BY <1>1 DEF Leaves, TypeInv, WireTypes
<1>4. \A f \in Nodes \ {e} :
          /\ state'[f] = state[f] /\ mine'[f] = mine[f]
          /\ said'[f] = said[f] /\ heard'[f] = heard[f]
  BY DEF Leaves, Goto, TypeInv, NodeTypes
<1>5. /\ mine'[e] = 0 /\ said'[e] = <<>> /\ heard'[e] = <<>>
      /\ state'[e] \in {"off", "dead"}
  BY DEF Leaves, Goto, TypeInv, NodeTypes
<1>6. QED
  BY <1>1, <1>2, <1>3, <1>4, <1>5 DEF Local

LEMMA DropLocal ==
  ASSUME TypeInv, NEW e \in Nodes, mine[e] # 0, Drop(e), UNCHANGED relay,
         \A b \in Conns \ {mine[e]} : toRelay'[b] = toRelay[b],
         toRelay[mine[e]] # <<>> => toRelay'[mine[e]] # <<>>
  PROVE  Local(e) /\ mine'[e] = 0
<1>1. Leaves(e, "off") /\ live' = [live EXCEPT ![mine[e]] = FALSE]
  BY DEF Drop
<1>2. \A b \in Conns : live'[b] => live[b]
  BY <1>1 DEF TypeInv, WireTypes
<1>3. QED
  BY <1>1, <1>2, LeavesLocal

LEMMA LocalWiring ==
  ASSUME TypeInv, Wiring, NEW e \in Nodes, Local(e)
  PROVE  Wiring'
<1>1. PICK c \in Conns : c = mine[e]
  BY DEF Local
<1>2. at' = at /\ mate' = mate /\ backlog' = backlog /\ reg' = reg
  BY DEF Local, relay
<1>3. \A b \in Conns : at[b] = "taken" => toRelay'[b] # <<>>
  BY <1>1 DEF Local, Wiring
<1>4. \A b \in Conns : ~Held(b)' => toNode'[b] = <<>>
  <2> SUFFICES ASSUME NEW b \in Conns, ~Held(b)' PROVE toNode'[b] = <<>>
    OBVIOUS
  <2>1. \A f \in Nodes : mine'[f] # b
    BY DEF Held
  <2>2. CASE b = c
    BY <1>1, <2>1, <2>2 DEF Local
  <2>3. CASE b # c
    <3>1. \A f \in Nodes : mine[f] # b
      BY <1>1, <2>1, <2>3 DEF Local
    <3>2. QED
      BY <1>1, <2>3, <3>1 DEF Local, Wiring, Held
  <2>4. QED
    BY <2>2, <2>3
<1>5. \A b \in Conns : at[b] = "out" => ~live'[b]
  BY DEF Local, Wiring
<1>6. QED
  BY <1>2, <1>3, <1>4, <1>5 DEF Wiring

LEMMA SaysLocal ==
  ASSUME TypeInv, NEW e \in Nodes, NEW fs \in Seq(Frames), Says(e, fs)
  PROVE  /\ said'[e] = said[e] \o fs
         /\ \A f \in Nodes \ {e} : said'[f] = said[f]
BY DEF Says, TypeInv, NodeTypes

LEMMA HearsLocal ==
  ASSUME TypeInv, NEW e \in Nodes, mine[e] # 0, Take(e), Hears(e, Next1(e))
  PROVE  /\ heard'[e] = Append(heard[e], Head(toNode[mine[e]]))
         /\ toNode'[mine[e]] = Tail(toNode[mine[e]])
         /\ \A f \in Nodes \ {e} : heard'[f] = heard[f]
         /\ \A b \in Conns \ {mine[e]} : toNode'[b] = toNode[b]
<1>1. mine[e] \in Conns
  BY MineType
<1>2. QED
  BY <1>1 DEF Take, Hears, Next1, TypeInv, NodeTypes, WireTypes

LEMMA GotoLocal ==
  ASSUME TypeInv, NEW e \in Nodes, NEW s, Goto(e, s)
  PROVE  state'[e] = s /\ \A f \in Nodes \ {e} : state'[f] = state[f]
BY DEF Goto, TypeInv, NodeTypes

\* What node e says goes to the relay.
Speaks(e) == \E fs \in Seq(Frames) :
    said'[e] = said[e] \o fs /\ toRelay'[mine[e]] = toRelay[mine[e]] \o fs

\* Node e hears nothing, or the first of what is on its way to it.
Listens(e) ==
    \/ heard'[e] = heard[e] /\ toNode'[mine[e]] = toNode[mine[e]]
    \/ /\ toNode[mine[e]] # <<>>
       /\ heard'[e] = Append(heard[e], Head(toNode[mine[e]]))
       /\ toNode'[mine[e]] = Tail(toNode[mine[e]])

LEMMA OthersInv ==
  ASSUME TypeInv, NEW f \in Nodes, NodeInv(f), UNCHANGED relay,
         state'[f] = state[f], mine'[f] = mine[f],
         said'[f] = said[f], heard'[f] = heard[f],
         mine[f] # 0 => /\ toRelay'[mine[f]] = toRelay[mine[f]]
                        /\ toNode'[mine[f]] = toNode[mine[f]]
  PROVE  NodeInv(f)'
<1>1. at' = at
  BY DEF relay
<1>2. mine[f] # 0 /\ at'[mine[f]] \in Early => Opening(f)'
  BY <1>1 DEF NodeInv, Opening
<1>3. QED
  BY <1>1, <1>2 DEF NodeInv

LEMMA LocalOrder ==
  ASSUME TypeInv, Wiring, OrderInv, NEW e \in Nodes, Local(e),
         \/ mine'[e] = 0
         \/ /\ NodeInv(e)'
            /\ at[mine[e]] = "bridged" => Speaks(e) /\ Listens(e)
  PROVE  OrderInv'
<1>1. \A f \in Nodes \ {e} :
          /\ state'[f] = state[f] /\ mine'[f] = mine[f]
          /\ said'[f] = said[f] /\ heard'[f] = heard[f]
          /\ mine[f] # 0 => /\ mine[f] \in Conns /\ mine[f] # mine[e]
                            /\ toRelay'[mine[f]] = toRelay[mine[f]]
                            /\ toNode'[mine[f]] = toNode[mine[f]]
  <2> SUFFICES ASSUME NEW f \in Nodes \ {e}
               PROVE  /\ state'[f] = state[f] /\ mine'[f] = mine[f]
                      /\ said'[f] = said[f] /\ heard'[f] = heard[f]
                      /\ mine[f] # 0 =>
                            /\ mine[f] \in Conns /\ mine[f] # mine[e]
                            /\ toRelay'[mine[f]] = toRelay[mine[f]]
                            /\ toNode'[mine[f]] = toNode[mine[f]]
    OBVIOUS
  <2>1. mine[f] # 0 => mine[f] \in Conns /\ mine[f] # mine[e]
    BY MineType DEF TypeInv, NodeTypes
  <2>2. QED
    BY <2>1 DEF Local
<1>2. UNCHANGED relay
  BY DEF Local
<1>3. ASSUME NEW f \in Nodes PROVE NodeInv(f)'
  <2>1. CASE f # e
    BY <1>1, <1>2, <2>1, OthersInv DEF OrderInv
  <2>2. CASE f = e /\ mine'[e] = 0
    <3>1. said'[e] = <<>> /\ heard'[e] = <<>> /\ state'[e] \in {"off", "dead"}
      BY <2>2, RelayAssumption DEF Local, TypeInv, NodeTypes
    <3>2. QED
      BY <2>2, <3>1 DEF NodeInv
  <2>3. QED
    BY <2>1, <2>2
<1>4. ASSUME NEW f \in Nodes, NEW g \in Nodes, Joined(f, g)'
      PROVE  Carried(f, g)'
  <2>1. /\ mine'[f] = mine[f] /\ mine'[g] = mine[g]
        /\ mine[f] \in Conns /\ mine[g] \in Conns
    <3>1. \A h \in Nodes : mine'[h] # 0 => mine'[h] = mine[h]
      BY <1>1 DEF Local
    <3>2. QED
      BY <1>4, <3>1, MineType DEF Joined
  <2>2. Joined(f, g) /\ at[mine[f]] = "bridged" /\ at[mine[g]] = "bridged"
    <3>1. at' = at /\ mate' = mate
      BY <1>2 DEF relay
    <3>2. Joined(f, g)
      BY <1>4, <2>1, <3>1 DEF Joined
    <3>3. QED
      BY <2>1, <3>2 DEF Joined, Wiring
  <2>3. f # g
    BY <2>1, <2>2 DEF Joined, Wiring
  <2>4. Carried(f, g)
    BY <2>2 DEF OrderInv
  <2>5. /\ said[f] \in Seq(Frames) /\ heard[g] \in Seq(Frames)
        /\ toNode[mine[g]] \in Seq(Frames) /\ toRelay[mine[f]] \in Seq(Frames)
    BY <2>1 DEF TypeInv, NodeTypes, WireTypes
  <2>6. CASE f = e
    <3>1. Speaks(e) /\ mine'[e] # 0
      BY <2>1, <2>2, <2>6, RelayAssumption
    <3>2. PICK fs \in Seq(Frames) :
             /\ said'[f] = said[f] \o fs
             /\ toRelay'[mine[f]] = toRelay[mine[f]] \o fs
      BY <2>6, <3>1 DEF Speaks
    <3>3. heard'[g] = heard[g] /\ toNode'[mine[g]] = toNode[mine[g]]
      BY <1>1, <2>1, <2>3, <2>6, RelayAssumption
    <3>4. said[f] \o fs =
             (heard[g] \o toNode[mine[g]]) \o (toRelay[mine[f]] \o fs)
      <4>1. heard[g] \o toNode[mine[g]] \in Seq(Frames)
        BY <2>5, ConcatProperties
      <4>2. PICK t \in Seq(Frames), v \in Seq(Frames) :
               t = heard[g] \o toNode[mine[g]] /\ v = toRelay[mine[f]]
        BY <2>5, <4>1
      <4>3. (t \o v) \o fs = t \o (v \o fs)
        BY <3>2, ConcatAssociative
      <4>4. said[f] = t \o v
        BY <2>4, <4>2 DEF Carried
      <4>5. QED
        BY <4>2, <4>3, <4>4
    <3>5. QED
      BY <2>1, <3>2, <3>3, <3>4 DEF Carried
  <2>7. CASE g = e
    <3>1. Listens(e)
      BY <2>1, <2>2, <2>7, RelayAssumption
    <3>2. said'[f] = said[f] /\ toRelay'[mine[f]] = toRelay[mine[f]]
      BY <1>1, <2>1, <2>3, <2>7, RelayAssumption
    <3>3. heard'[g] \o toNode'[mine[g]] = heard[g] \o toNode[mine[g]]
      BY <2>5, <2>7, <3>1, MovesFirst DEF Listens
    <3>4. QED
      BY <2>1, <2>4, <3>2, <3>3 DEF Carried
  <2>8. CASE f # e /\ g # e
    <3>1. /\ said'[f] = said[f] /\ toRelay'[mine[f]] = toRelay[mine[f]]
          /\ heard'[g] = heard[g] /\ toNode'[mine[g]] = toNode[mine[g]]
      BY <1>1, <2>1, <2>8, RelayAssumption
    <3>2. QED
      BY <2>1, <2>4, <3>1 DEF Carried
  <2>9. QED
    BY <2>6, <2>7, <2>8
<1>5. QED
  BY <1>3, <1>4 DEF OrderInv

\* A node that has something to read, or is in a session, is past the opening.
LEMMA NotEarly ==
  ASSUME TypeInv, OrderInv, NEW e \in Nodes, mine[e] # 0,
         Reads(e) \/ state[e] = "session"
  PROVE  at[mine[e]] \notin Early
BY DEF OrderInv, NodeInv, Opening, Reads

LEMMA PastOpening ==
  ASSUME TypeInv, NEW e \in Nodes, mine[e] # 0, at[mine[e]] \notin Early,
         UNCHANGED relay, mine'[e] = mine[e],
         state'[e] \in {"asked", "waiting", "session"},
         e \in Dialers /\ state'[e] # "asked" => said'[e] # <<>>
  PROVE  NodeInv(e)'
<1>1. at' = at
  BY DEF relay
<1>2. QED
  BY <1>1 DEF NodeInv

LEMMA SaidMore ==
  ASSUME NEW S, NEW s \in Seq(S), NEW f \in S
  PROVE  s \o <<f>> # <<>>
<1>1. s \o <<f>> = Append(s, f)
  BY AppendIsConcat
<1>2. QED
  BY <1>1, AppendProperties

LEMMA DropInv ==
  ASSUME TypeInv, Wiring, OrderInv, NEW e \in Nodes, mine[e] # 0, Drop(e),
         UNCHANGED <<toRelay, relay>>
  PROVE  Wiring' /\ OrderInv'
BY DropLocal, LocalWiring, LocalOrder

LEMMA AgentStepInv ==
  ASSUME TypeInv, Wiring, OrderInv, NEW a \in Agents, AgentStep(a)
  PROVE  Wiring' /\ OrderInv'
<1> a \in Nodes /\ a \notin Dialers
  BY RelayAssumption DEF Nodes
<1>1. CASE Register(a)
  <2> DEFINE fs == <<Registering(a)>>
  <2>1. fs \in Seq(Frames)
    BY FrameTypes
  <2>2. /\ state[a] = "dialing" /\ Goto(a, "waiting") /\ Send(a, fs)
        /\ UNCHANGED <<mine, said, heard, live, toNode, relay>>
    BY <1>1 DEF Register, Registering
  <2> HIDE DEF fs
  <2>3. mine[a] # 0 /\ mine[a] \in Conns
    BY <2>2, MineType
  <2>4. /\ \A b \in Conns \ {mine[a]} : toRelay'[b] = toRelay[b]
        /\ toRelay[mine[a]] # <<>> => toRelay'[mine[a]] # <<>>
        /\ at[mine[a]] # "lost" => toRelay'[mine[a]] = toRelay[mine[a]] \o fs
    BY <2>1, <2>2, <2>3, SendLocal
  <2>5. state'[a] = "waiting" /\ \A f \in Nodes \ {a} : state'[f] = state[f]
    BY <2>2, GotoLocal
  <2>6. Local(a)
    BY <2>2, <2>3, <2>4, <2>5 DEF Local
  <2>7. NodeInv(a)'
    <3>1. CASE at[mine[a]] \in Early
      <4>1. /\ heard[a] = <<>> /\ toNode[mine[a]] = <<>> /\ said[a] = <<>>
            /\ toRelay[mine[a]] = <<>> /\ at[mine[a]] = "backlog"
        BY <2>2, <2>3, <3>1 DEF OrderInv, NodeInv, Opening
      <4>2. toRelay'[mine[a]] = fs
        BY <2>1, <2>4, <4>1, ConcatEmptySeq
      <4>3. at'[mine'[a]] = "backlog" /\ mine'[a] = mine[a]
        BY <2>2, <4>1 DEF relay
      <4>4. Opening(a)'
        BY <2>2, <2>5, <4>1, <4>2, <4>3 DEF Opening, fs, Registering
      <4>5. QED
        BY <2>2, <2>3, <4>3, <4>4 DEF NodeInv
    <3>2. CASE at[mine[a]] \notin Early
      BY <2>2, <2>3, <2>5, <3>2, PastOpening
    <3>3. QED
      BY <3>1, <3>2
  <2>8. at[mine[a]] # "bridged"
    BY <2>2, <2>3 DEF OrderInv, NodeInv
  <2>9. QED
    BY <2>6, <2>7, <2>8, LocalWiring, LocalOrder
<1>2. CASE ServerHandshake(a)
  <2>1. expired[a] \in BOOLEAN
    BY DEF TypeInv, NodeTypes
  <2>2. PICK b \in BOOLEAN : b = ~expired[a]
    BY <2>1
  <2> DEFINE ack == [kind |-> "ack", fresh |-> b]
             err == [kind |-> "error"]
  <2>3. ack \in Frames /\ err \in Frames
    BY FrameTypes
  <2>4. \/ /\ Take(a) /\ Hears(a, Next1(a)) /\ Send(a, <<ack>>)
           /\ Says(a, <<ack>>) /\ Goto(a, "session")
           /\ UNCHANGED <<mine, live, expired>>
        \/ Send(a, <<ack, err>>) /\ Drop(a)
        \/ UNCHANGED toRelay /\ Drop(a)
    BY <1>2, <2>2 DEF ServerHandshake
  <2>5. /\ UNCHANGED relay /\ state[a] = "waiting" /\ Reads(a) /\ mine[a] # 0
        /\ mine[a] \in Conns
    BY <1>2, MineType DEF ServerHandshake
  <2>6. at[mine[a]] \notin Early
    BY <2>5, NotEarly
  <2> HIDE DEF ack, err
  <2>7. CASE /\ Take(a) /\ Hears(a, Next1(a)) /\ Send(a, <<ack>>)
             /\ Says(a, <<ack>>) /\ Goto(a, "session")
             /\ UNCHANGED <<mine, live, expired>>
    <3>1. <<ack>> \in Seq(Frames)
      BY <2>3
    <3>2. /\ \A c \in Conns \ {mine[a]} : toRelay'[c] = toRelay[c]
          /\ toRelay[mine[a]] # <<>> => toRelay'[mine[a]] # <<>>
          /\ at[mine[a]] # "lost" =>
                toRelay'[mine[a]] = toRelay[mine[a]] \o <<ack>>
      BY <2>5, <2>7, <3>1, SendLocal
    <3>3. /\ said'[a] = said[a] \o <<ack>>
          /\ \A f \in Nodes \ {a} : said'[f] = said[f]
      BY <2>7, <3>1, SaysLocal
    <3>4. /\ heard'[a] = Append(heard[a], Head(toNode[mine[a]]))
          /\ toNode'[mine[a]] = Tail(toNode[mine[a]])
          /\ \A f \in Nodes \ {a} : heard'[f] = heard[f]
          /\ \A c \in Conns \ {mine[a]} : toNode'[c] = toNode[c]
      BY <2>5, <2>7, HearsLocal
    <3>5. state'[a] = "session" /\ \A f \in Nodes \ {a} : state'[f] = state[f]
      BY <2>7, GotoLocal
    <3>6. Local(a)
      BY <2>5, <2>7, <3>2, <3>3, <3>4, <3>5 DEF Local
    <3>7. NodeInv(a)'
      BY <2>5, <2>6, <2>7, <3>5, PastOpening
    <3>8. at[mine[a]] = "bridged" => Speaks(a) /\ Listens(a)
      BY <2>5, <3>1, <3>2, <3>3, <3>4 DEF Speaks, Listens, Reads
    <3>9. QED
      BY <3>6, <3>7, <3>8, LocalWiring, LocalOrder
  <2>8. CASE Send(a, <<ack, err>>) /\ Drop(a)
    <3>1. <<ack, err>> \in Seq(Frames)
      BY <2>3
    <3>2. /\ \A c \in Conns \ {mine[a]} : toRelay'[c] = toRelay[c]
          /\ toRelay[mine[a]] # <<>> => toRelay'[mine[a]] # <<>>
      BY <2>5, <2>8, <3>1, SendLocal
    <3>3. Local(a) /\ mine'[a] = 0
      BY <2>5, <2>8, <3>2, DropLocal
    <3>4. QED
      BY <3>3, LocalWiring, LocalOrder
  <2>9. CASE UNCHANGED toRelay /\ Drop(a)
    BY <2>5, <2>9, DropInv
  <2>10. QED
    BY <2>4, <2>7, <2>8, <2>9
<1>3. CASE Serve(a)
  <2>1. /\ state[a] = "session" /\ mine[a] # 0 /\ mine[a] \in Conns /\ Reads(a)
        /\ Take(a) /\ Hears(a, Next1(a)) /\ Send(a, <<Next1(a)>>)
        /\ Says(a, <<Next1(a)>>) /\ UNCHANGED <<state, mine, live, relay>>
    BY <1>3, MineType DEF Serve
  <2>2. PICK n \in Frames : n = Next1(a)
    BY <2>1, HearsType
  <2>3. <<n>> \in Seq(Frames)
    OBVIOUS
  <2>4. /\ \A c \in Conns \ {mine[a]} : toRelay'[c] = toRelay[c]
        /\ toRelay[mine[a]] # <<>> => toRelay'[mine[a]] # <<>>
        /\ at[mine[a]] # "lost" =>
              toRelay'[mine[a]] = toRelay[mine[a]] \o <<n>>
    BY <2>1, <2>2, <2>3, SendLocal
  <2>5. /\ said'[a] = said[a] \o <<n>>
        /\ \A f \in Nodes \ {a} : said'[f] = said[f]
    BY <2>1, <2>2, <2>3, SaysLocal
  <2>6. /\ heard'[a] = Append(heard[a], Head(toNode[mine[a]]))
        /\ toNode'[mine[a]] = Tail(toNode[mine[a]])
        /\ \A f \in Nodes \ {a} : heard'[f] = heard[f]
        /\ \A c \in Conns \ {mine[a]} : toNode'[c] = toNode[c]
    BY <2>1, HearsLocal
  <2>7. Local(a)
    BY <2>1, <2>4, <2>5, <2>6 DEF Local
  <2>8. at[mine[a]] \notin Early
    BY <2>1, NotEarly
  <2>9. NodeInv(a)'
    BY <2>1, <2>8, PastOpening
  <2>10. at[mine[a]] = "bridged" => Speaks(a) /\ Listens(a)
    BY <2>1, <2>3, <2>4, <2>5, <2>6 DEF Speaks, Listens, Reads
  <2>11. QED
    BY <2>7, <2>9, <2>10, LocalWiring, LocalOrder
<1>4. QED
  BY <1>1, <1>2, <1>3 DEF AgentStep

\* To say nothing is to say the empty sequence.
LEMMA SaysNothing ==
  ASSUME TypeInv, NEW e \in Nodes, mine[e] # 0,
         said' = said, toRelay'[mine[e]] = toRelay[mine[e]]
  PROVE  Speaks(e)
<1>1. mine[e] \in Conns
  BY MineType
<1>2. said[e] \in Seq(Frames) /\ toRelay[mine[e]] \in Seq(Frames)
  BY <1>1 DEF TypeInv, NodeTypes, WireTypes
<1>3. /\ said[e] \o <<>> = said[e] /\ <<>> \in Seq(Frames)
      /\ toRelay[mine[e]] \o <<>> = toRelay[mine[e]]
  BY <1>2, ConcatEmptySeq, EmptySeq
<1>4. QED
  BY <1>3 DEF Speaks

LEMMA DialerStepInv ==
  ASSUME TypeInv, Wiring, OrderInv, NEW d \in Dialers,
         DialerStep(d) \/ Say(d) \/ HangUp(d)
  PROVE  Wiring' /\ OrderInv'
<1> d \in Nodes
  BY DEF Nodes
<1>1. CASE Ask(d)
  <2>1. PICK a \in Agents : Send(d, <<Requesting(a)>>)
    BY <1>1 DEF Ask, Requesting
  <2> DEFINE fs == <<Requesting(a)>>
  <2>2. fs \in Seq(Frames) /\ fs \o <<>> = fs
    BY FrameTypes
  <2>3. /\ state[d] = "dialing" /\ Goto(d, "asked") /\ Send(d, fs)
        /\ UNCHANGED <<mine, said, heard, live, toNode, relay>>
    BY <1>1, <2>1 DEF Ask
  <2>4. mine[d] # 0 /\ mine[d] \in Conns
    BY <2>3, MineType
  <2> HIDE DEF fs
  <2>5. /\ \A b \in Conns \ {mine[d]} : toRelay'[b] = toRelay[b]
        /\ toRelay[mine[d]] # <<>> => toRelay'[mine[d]] # <<>>
        /\ at[mine[d]] # "lost" => toRelay'[mine[d]] = toRelay[mine[d]] \o fs
    BY <2>2, <2>3, <2>4, SendLocal
  <2>6. state'[d] = "asked" /\ \A f \in Nodes \ {d} : state'[f] = state[f]
    BY <2>3, GotoLocal
  <2>7. Local(d)
    BY <2>3, <2>4, <2>5, <2>6 DEF Local
  <2>8. NodeInv(d)'
    <3>1. CASE at[mine[d]] \in Early
      <4>1. /\ heard[d] = <<>> /\ toNode[mine[d]] = <<>> /\ said[d] = <<>>
            /\ toRelay[mine[d]] = <<>> /\ at[mine[d]] = "backlog"
        BY <2>3, <2>4, <3>1 DEF OrderInv, NodeInv, Opening
      <4>2. toRelay'[mine[d]] = fs /\ fs = fs \o said'[d]
        BY <2>2, <2>3, <2>5, <4>1, ConcatEmptySeq
      <4>3. at'[mine'[d]] = "backlog" /\ mine'[d] = mine[d]
        BY <2>3, <4>1 DEF relay
      <4>4. Opening(d)'
        BY <2>3, <2>6, <4>1, <4>2, <4>3 DEF Opening, fs
      <4>5. QED
        BY <2>4, <2>6, <4>3, <4>4 DEF NodeInv
    <3>2. CASE at[mine[d]] \notin Early
      BY <2>3, <2>4, <2>6, <3>2, PastOpening
    <3>3. QED
      BY <3>1, <3>2
  <2>9. at[mine[d]] # "bridged"
    BY <2>3, <2>4 DEF OrderInv, NodeInv
  <2>10. QED
    BY <2>7, <2>8, <2>9, LocalWiring, LocalOrder
<1>6. CASE Greet(d)
  <2> DEFINE hs == <<Hello(d)>>
  <2>1. hs \in Seq(Frames) /\ Hello(d) \in Frames
    BY FrameTypes
  <2>2. /\ state[d] = "asked" /\ Goto(d, "waiting") /\ Send(d, hs)
        /\ Says(d, hs) /\ UNCHANGED <<mine, heard, live, toNode, relay>>
    BY <1>6 DEF Greet, Hello
  <2>3. mine[d] # 0 /\ mine[d] \in Conns
    BY <2>2, MineType
  <2>4. said[d] \in Seq(Frames) /\ said[d] \o hs # <<>>
    BY <2>1, SaidMore DEF TypeInv, NodeTypes
  <2> HIDE DEF hs
  <2>5. /\ \A b \in Conns \ {mine[d]} : toRelay'[b] = toRelay[b]
        /\ toRelay[mine[d]] # <<>> => toRelay'[mine[d]] # <<>>
        /\ at[mine[d]] # "lost" => toRelay'[mine[d]] = toRelay[mine[d]] \o hs
    BY <2>1, <2>2, <2>3, SendLocal
  <2>6. state'[d] = "waiting" /\ \A f \in Nodes \ {d} : state'[f] = state[f]
    BY <2>2, GotoLocal
  <2>7. said'[d] = said[d] \o hs /\ \A f \in Nodes \ {d} : said'[f] = said[f]
    BY <2>1, <2>2, SaysLocal
  <2>8. Local(d)
    BY <2>2, <2>3, <2>5, <2>6, <2>7 DEF Local
  <2>9. NodeInv(d)'
    <3>1. CASE at[mine[d]] \in Early
      <4>1. Opening(d) /\ d \notin Agents
        BY <2>3, <3>1, RelayAssumption DEF OrderInv, NodeInv
      <4>2. PICK a \in Agents :
                /\ toRelay[mine[d]] = <<Requesting(a)>> \o said[d]
                /\ heard[d] = <<>> /\ toNode[mine[d]] = <<>> /\ said[d] = <<>>
                /\ at[mine[d]] # "registered"
        BY <2>2, <4>1 DEF Opening
      <4>3. said'[d] = hs /\ toRelay'[mine[d]] = <<Requesting(a)>> \o said'[d]
        <5>1. <<>> \o hs = hs /\ <<Requesting(a)>> \o <<>> = <<Requesting(a)>>
          BY <2>1, FrameTypes, ConcatEmptySeq
        <5>2. QED
          BY <2>5, <2>7, <3>1, <4>2, <5>1 DEF Early
      <4>4. at'[mine'[d]] = at[mine[d]] /\ mine'[d] = mine[d]
        BY <2>2 DEF relay
      <4>5. Opening(d)'
        <5>1. heard'[d] = <<>> /\ toNode'[mine'[d]] = <<>>
          BY <2>2, <4>2, <4>4
        <5>2. d \in Dialers /\ at'[mine'[d]] # "registered"
          BY <4>2, <4>4
        <5>3. state'[d] = "waiting" /\ said'[d] = <<Hello(d)>>
          BY <2>6, <4>3 DEF hs
        <5>4. \E b \in Agents : toRelay'[mine'[d]] = <<Requesting(b)>> \o said'[d]
          BY <4>3, <4>4
        <5>5. QED
          BY <5>1, <5>2, <5>3, <5>4 DEF Opening
      <4>6. QED
        BY <2>3, <2>4, <2>7, <3>1, <4>4, <4>5 DEF NodeInv, Early
    <3>2. CASE at[mine[d]] \notin Early
      BY <2>2, <2>3, <2>4, <2>6, <2>7, <3>2, PastOpening
    <3>3. QED
      BY <3>1, <3>2
  <2>10. at[mine[d]] = "bridged" => Speaks(d) /\ Listens(d)
    BY <2>1, <2>2, <2>3, <2>5, <2>7 DEF Speaks, Listens
  <2>11. QED
    BY <2>8, <2>9, <2>10, LocalWiring, LocalOrder
<1>2. CASE ClientHandshake(d)
  <2>1. /\ UNCHANGED <<toRelay, relay>> /\ state[d] = "waiting" /\ Reads(d)
        /\ mine[d] # 0 /\ mine[d] \in Conns
    BY <1>2, MineType DEF ClientHandshake
  <2>2. CASE /\ Take(d) /\ Hears(d, Next1(d)) /\ Goto(d, "session")
             /\ UNCHANGED <<mine, said, expired, live>>
    <3>1. /\ heard'[d] = Append(heard[d], Head(toNode[mine[d]]))
          /\ toNode'[mine[d]] = Tail(toNode[mine[d]])
          /\ \A f \in Nodes \ {d} : heard'[f] = heard[f]
          /\ \A c \in Conns \ {mine[d]} : toNode'[c] = toNode[c]
      BY <2>1, <2>2, HearsLocal
    <3>2. state'[d] = "session" /\ \A f \in Nodes \ {d} : state'[f] = state[f]
      BY <2>2, GotoLocal
    <3>3. Local(d)
      BY <2>1, <2>2, <3>1, <3>2 DEF Local
    <3>4. at[mine[d]] \notin Early /\ said[d] # <<>>
      BY <2>1, NotEarly DEF OrderInv, NodeInv
    <3>5. NodeInv(d)'
      BY <2>1, <2>2, <3>2, <3>4, PastOpening
    <3>6. Speaks(d) /\ Listens(d)
      BY <2>1, <2>2, <3>1, SaysNothing DEF Listens, Reads
    <3>7. QED
      BY <3>3, <3>5, <3>6, LocalWiring, LocalOrder
  <2>3. CASE Drop(d)
    BY <2>1, <2>3, DropInv
  <2>4. QED
    BY <1>2, <2>2, <2>3 DEF ClientHandshake
<1>3. CASE Say(d)
  <2> DEFINE m == [kind |-> "data", of |-> d, n |-> Len(said[d])]
  <2>1. /\ state[d] = "session" /\ Len(said[d]) <= MaxSaid
        /\ Send(d, <<m>>) /\ Says(d, <<m>>) /\ mine[d] # 0 /\ mine[d] \in Conns
        /\ UNCHANGED <<state, mine, heard, live, toNode, relay>>
    BY <1>3, MineType DEF Say
  <2>2. said[d] \in Seq(Frames) /\ said[d] # <<>>
    BY <2>1 DEF TypeInv, NodeTypes, OrderInv, NodeInv
  <2>3. Len(said[d]) \in 1..MaxSaid
    BY <2>1, <2>2, EmptySeq, RelayAssumption
  <2>4. m \in Frames
    BY <2>3, FrameTypes
  <2> HIDE DEF m
  <2>5. PICK f \in Frames : f = m
    BY <2>4
  <2>6. <<f>> \in Seq(Frames)
    OBVIOUS
  <2>7. /\ \A c \in Conns \ {mine[d]} : toRelay'[c] = toRelay[c]
        /\ toRelay[mine[d]] # <<>> => toRelay'[mine[d]] # <<>>
        /\ at[mine[d]] # "lost" =>
              toRelay'[mine[d]] = toRelay[mine[d]] \o <<f>>
    BY <2>1, <2>5, <2>6, SendLocal
  <2>8. /\ said'[d] = said[d] \o <<f>>
        /\ \A e \in Nodes \ {d} : said'[e] = said[e]
    BY <2>1, <2>5, <2>6, SaysLocal
  <2>9. Local(d)
    BY <2>1, <2>7, <2>8 DEF Local
  <2>10. at[mine[d]] \notin Early
    BY <2>1, NotEarly
  <2>11. NodeInv(d)'
    BY <2>1, <2>2, <2>8, <2>10, SaidMore, PastOpening
  <2>12. at[mine[d]] = "bridged" => Speaks(d) /\ Listens(d)
    BY <2>1, <2>6, <2>7, <2>8 DEF Speaks, Listens
  <2>13. QED
    BY <2>9, <2>11, <2>12, LocalWiring, LocalOrder
<1>4. CASE Hear(d)
  <2>1. /\ state[d] = "session" /\ mine[d] # 0 /\ mine[d] \in Conns /\ Reads(d)
        /\ Take(d) /\ Hears(d, Next1(d))
        /\ UNCHANGED <<state, mine, said, live, toRelay, relay>>
    BY <1>4, MineType DEF Hear
  <2>2. /\ heard'[d] = Append(heard[d], Head(toNode[mine[d]]))
        /\ toNode'[mine[d]] = Tail(toNode[mine[d]])
        /\ \A f \in Nodes \ {d} : heard'[f] = heard[f]
        /\ \A c \in Conns \ {mine[d]} : toNode'[c] = toNode[c]
    BY <2>1, HearsLocal
  <2>3. Local(d)
    BY <2>1, <2>2 DEF Local
  <2>4. at[mine[d]] \notin Early /\ said[d] # <<>>
    BY <2>1, NotEarly DEF OrderInv, NodeInv
  <2>5. NodeInv(d)'
    BY <2>1, <2>4, PastOpening
  <2>6. Speaks(d) /\ Listens(d)
    BY <2>1, <2>2, SaysNothing DEF Listens, Reads
  <2>7. QED
    BY <2>3, <2>5, <2>6, LocalWiring, LocalOrder
<1>5. CASE HangUp(d)
  BY <1>5, MineType, DropInv DEF HangUp
<1>7. QED
  BY <1>1, <1>2, <1>3, <1>4, <1>5, <1>6 DEF DialerStep

-------------------------------------------------------------------------------
(* A new connection.                                                       *)

LEMMA ConnectWiring ==
  ASSUME TypeInv, Wiring, NEW e \in Nodes, Connect(e), NEW c \in Free,
         mine' = [mine EXCEPT ![e] = c], live' = [live EXCEPT ![c] = TRUE],
         at' = [at EXCEPT ![c] = "backlog"], backlog' = Append(backlog, c),
         toRelay' = [toRelay EXCEPT ![c] = <<>>]
  PROVE  Wiring'
<1>1. c \in Conns /\ at[c] \in {"out", "lost"} /\ c # 0
  BY RelayAssumption DEF Free
<1>2. at'[c] = "backlog" /\ \A b \in Conns \ {c} : at'[b] = at[b]
  BY <1>1 DEF TypeInv, RelayTypes
<1>3. mate' = mate /\ reg' = reg /\ toNode' = toNode /\ state[e] = "off"
  BY DEF Connect
<1>4. \A b \in Conns : at'[b] = "out" => ~live'[b]
  BY <1>1, <1>2 DEF Wiring, TypeInv, WireTypes
<1>5. /\ \A i \in DOMAIN backlog' : at'[backlog'[i]] = "backlog"
      /\ \A i, j \in DOMAIN backlog' : backlog'[i] = backlog'[j] => i = j
  <2> DEFINE n == Len(backlog)
  <2>1. /\ n \in Nat /\ DOMAIN backlog = 1..n /\ DOMAIN backlog' = 1..(n + 1)
        /\ \A i \in 1..n : backlog'[i] = backlog[i] /\ backlog[i] \in Conns
        /\ backlog'[n + 1] = c
    BY <1>1, AppendProperties DEF TypeInv, RelayTypes
  <2>2. \A i \in 1..n : backlog[i] # c /\ at'[backlog[i]] = "backlog"
    BY <1>1, <1>2, <2>1 DEF Wiring
  <2> HIDE DEF n
  <2>3. \A i \in 1..(n + 1) : i \in 1..n \/ i = n + 1
    BY <2>1
  <2>4. \A i \in DOMAIN backlog' : at'[backlog'[i]] = "backlog"
    BY <1>2, <2>1, <2>2, <2>3
  <2>5. \A i, j \in DOMAIN backlog' : backlog'[i] = backlog'[j] => i = j
    BY <2>1, <2>2, <2>3 DEF Wiring
  <2>6. QED
    BY <2>4, <2>5
<1>6. \A b \in Conns : at'[b] = "taken" => toRelay'[b] # <<>>
  BY <1>1, <1>2 DEF Wiring, TypeInv, WireTypes
<1>7. \A b \in Conns : at'[b] = "bridged" =>
          /\ mate[b] \in Conns /\ mate[b] # b
          /\ at'[mate[b]] = "bridged" /\ mate[mate[b]] = b
  BY <1>1, <1>2 DEF Wiring
<1>8. \A a \in Agents : reg[a] # 0 => at'[reg[a]] = "registered"
  BY <1>1, <1>2 DEF Wiring, TypeInv, RelayTypes
<1>9. \A b \in Conns : ~Held(b)' => toNode[b] = <<>>
  <2> SUFFICES ASSUME NEW b \in Conns, ~Held(b)' PROVE ~Held(b)
    BY DEF Wiring
  <2>1. mine[e] = 0
    BY <1>3, MineType
  <2>2. \A f \in Nodes : mine'[f] # b
    BY DEF Held
  <2>3. \A f \in Nodes : mine[f] # b
    BY <1>1, <2>1, <2>2, RelayAssumption DEF TypeInv, NodeTypes
  <2>4. QED
    BY <2>3 DEF Held
<1>10. \A a, b \in Agents : reg'[a] = reg'[b] /\ reg'[a] # 0 => a = b
  BY <1>3 DEF Wiring
<1>11. QED
  BY <1>3, <1>4, <1>5, <1>6, <1>7, <1>8, <1>9, <1>10 DEF Wiring

LEMMA ConnectOrder ==
  ASSUME TypeInv, Wiring, OrderInv, NEW e \in Nodes, Connect(e),
         NEW c \in Free, mine' = [mine EXCEPT ![e] = c],
         at' = [at EXCEPT ![c] = "backlog"],
         toRelay' = [toRelay EXCEPT ![c] = <<>>]
  PROVE  OrderInv'
<1>1. c \in Conns /\ at[c] \in {"out", "lost"} /\ c # 0
  BY RelayAssumption DEF Free
<1>2. at'[c] = "backlog" /\ \A b \in Conns \ {c} : at'[b] = at[b]
  BY <1>1 DEF TypeInv, RelayTypes
<1>3. toRelay'[c] = <<>> /\ \A b \in Conns \ {c} : toRelay'[b] = toRelay[b]
  BY <1>1 DEF TypeInv, WireTypes
<1>4. /\ state[e] = "off" /\ Goto(e, "dialing")
      /\ UNCHANGED <<said, heard, toNode, mate>>
  BY DEF Connect
<1>5. mine'[e] = c /\ \A f \in Nodes \ {e} : mine'[f] = mine[f]
  BY DEF TypeInv, NodeTypes
<1>6. state'[e] = "dialing" /\ \A f \in Nodes \ {e} : state'[f] = state[f]
  BY <1>4, GotoLocal
<1>7. \A f \in Nodes : mine[f] # c
  BY DEF Free, Held
<1>8. ASSUME NEW f \in Nodes PROVE NodeInv(f)'
  <2>1. CASE f = e
    <3>1. mine[e] = 0 /\ said[e] = <<>> /\ heard[e] = <<>>
      BY <1>4, MineType DEF OrderInv, NodeInv
    <3>2. toNode[c] = <<>>
      BY <1>1 DEF Free, Wiring
    <3>3. Opening(e)'
      BY <1>2, <1>3, <1>4, <1>5, <1>6, <3>1, <3>2 DEF Opening
    <3>4. QED
      BY <1>1, <1>2, <1>5, <1>6, <2>1, <3>3 DEF NodeInv
  <2>2. CASE f # e
    <3>1. NodeInv(f) /\ mine'[f] = mine[f] /\ state'[f] = state[f]
      BY <1>5, <1>6, <2>2 DEF OrderInv
    <3>2. mine[f] # 0 => /\ mine[f] \in Conns /\ at'[mine[f]] = at[mine[f]]
                         /\ toRelay'[mine[f]] = toRelay[mine[f]]
      BY <1>2, <1>3, <1>7, MineType
    <3>3. mine[f] # 0 /\ at[mine[f]] \in Early => Opening(f)'
      BY <1>4, <3>1, <3>2 DEF NodeInv, Opening
    <3>4. QED
      BY <1>4, <3>1, <3>2, <3>3 DEF NodeInv
  <2>3. QED
    BY <2>1, <2>2
<1>9. ASSUME NEW f \in Nodes, NEW g \in Nodes, Joined(f, g)'
      PROVE  Carried(f, g)'
  <2>1. f # e /\ mine'[f] = mine[f] /\ mine[f] # 0 /\ mine[f] \in Conns
    BY <1>2, <1>5, <1>9, MineType DEF Joined
  <2>2. at[mine[f]] = "bridged" /\ mate[mine[f]] = mine'[g]
    BY <1>2, <1>4, <1>7, <1>9, <2>1 DEF Joined
  <2>3. g # e /\ mine'[g] = mine[g] /\ mine[g] # 0 /\ mine[g] \in Conns
    BY <1>1, <1>5, <1>9, <2>1, <2>2, MineType DEF Joined, Wiring
  <2>4. Carried(f, g)
    BY <2>1, <2>2, <2>3 DEF OrderInv, Joined
  <2>5. QED
    BY <1>3, <1>4, <1>7, <2>1, <2>3, <2>4 DEF Carried
<1>10. QED
  BY <1>8, <1>9 DEF OrderInv

\* A step that moves nothing but clocks, counters and nodes that are gone.
LEMMA NothingMoves ==
  ASSUME TypeInv, Wiring, OrderInv,
         UNCHANGED <<mine, said, heard, wires, relay>>,
         \A e \in Nodes : mine[e] # 0 => state'[e] = state[e],
         \A e \in Nodes : mine[e] = 0 => state'[e] \in {"off", "dead"}
  PROVE  Wiring' /\ OrderInv'
<1>1. Wiring'
  BY DEF Wiring, Held, wires, relay
<1>2. ASSUME NEW e \in Nodes PROVE NodeInv(e)'
  <2>1. NodeInv(e)
    BY DEF OrderInv
  <2>2. CASE mine[e] = 0
    BY <2>1, <2>2 DEF NodeInv
  <2>3. CASE mine[e] # 0
    <3>1. state'[e] = state[e] /\ at' = at
      BY <2>3 DEF relay
    <3>2. Opening(e) => Opening(e)'
      BY <3>1 DEF Opening, wires
    <3>3. QED
      BY <2>1, <3>1, <3>2 DEF NodeInv
  <2>4. QED
    BY <2>2, <2>3
<1>3. ASSUME NEW e \in Nodes, NEW f \in Nodes, Joined(e, f)'
      PROVE  Carried(e, f)'
  BY <1>3 DEF OrderInv, Joined, Carried, wires, relay
<1>4. QED
  BY <1>1, <1>2, <1>3 DEF OrderInv

LEMMA NodeStepInv ==
  ASSUME TypeInv, Wiring, OrderInv, NEW e \in Nodes,
         Connect(e) \/ Ended(e) \/ Dies(e) \/ Starts(e)
  PROVE  Wiring' /\ OrderInv'
<1>1. CASE Connect(e)
  BY <1>1, Connects, ConnectWiring, ConnectOrder
<1>2. CASE Ended(e)
  BY <1>2, DropInv DEF Ended
<1>3. CASE Dies(e)
  BY <1>3, LeavesLocal, LocalWiring, LocalOrder DEF Dies
<1>4. CASE Starts(e)
  <2>1. /\ state[e] = "dead" /\ Goto(e, "off")
        /\ UNCHANGED <<mine, said, heard, wires, relay>>
    BY <1>4 DEF Starts
  <2>2. mine[e] = 0 /\ state'[e] = "off"
        /\ \A f \in Nodes \ {e} : state'[f] = state[f]
    BY <2>1, MineType, GotoLocal
  <2>3. \A f \in Nodes : mine[f] = 0 => state[f] \in {"off", "dead"}
    BY DEF TypeInv, NodeTypes
  <2>4. QED
    BY <2>1, <2>2, <2>3, NothingMoves
<1>5. QED
  BY <1>1, <1>2, <1>3, <1>4

LEMMA ExpireInv ==
  ASSUME TypeInv, Wiring, OrderInv, NEW a \in Agents, Expire(a)
  PROVE  Wiring' /\ OrderInv'
<1>1. UNCHANGED <<state, mine, said, heard, wires, relay>>
  BY DEF Expire
<1>2. \A e \in Nodes : mine[e] = 0 => state[e] \in {"off", "dead"}
  BY DEF TypeInv, NodeTypes
<1>3. QED
  BY <1>1, <1>2, NothingMoves

-------------------------------------------------------------------------------
(* The relay's steps.                                                      *)

\* A step of the relay leaves connection b alone, or lets go of it.
Kept(b) == /\ at'[b] = at[b] /\ mate'[b] = mate[b]
           /\ toRelay'[b] = toRelay[b] /\ toNode'[b] = toNode[b]
Gone(b) == at'[b] \in {"out", "lost"}

LEMMA RelayOrder ==
  ASSUME TypeInv, Wiring, OrderInv, Wiring', NEW c \in Conns,
         UNCHANGED <<state, mine, said, heard>>,
         \A b \in Conns : Gone(b) \/ Kept(b) \/ (b = c /\ at'[c] # "bridged"),
         \A e \in Nodes : mine[e] = c /\ ~Gone(c) => Opening(e)'
  PROVE  OrderInv'
<1>1. ASSUME NEW e \in Nodes PROVE NodeInv(e)'
  <2>1. NodeInv(e)
    BY DEF OrderInv
  <2>2. CASE mine[e] = 0
    BY <2>1, <2>2 DEF NodeInv
  <2>3. CASE mine[e] # 0 /\ Gone(mine[e])
    BY <2>1, <2>3 DEF NodeInv, Gone, Early
  <2>4. CASE mine[e] # 0 /\ Kept(mine[e])
    <3>1. Opening(e) => Opening(e)'
      BY <2>4 DEF Opening, Kept
    <3>2. QED
      BY <2>1, <2>4, <3>1 DEF NodeInv, Kept
  <2>5. CASE mine[e] = c /\ at'[c] # "bridged" /\ ~Gone(c)
    <3>1. Opening(e)'
      BY <2>5
    <3>2. QED
      BY <2>1, <2>5, <3>1, RelayAssumption DEF NodeInv
  <2>6. QED
    BY <2>2, <2>3, <2>4, <2>5, MineType
<1>2. ASSUME NEW e \in Nodes, NEW f \in Nodes, Joined(e, f)'
      PROVE  Carried(e, f)'
  <2>1. /\ mine[e] \in Conns /\ mine[f] \in Conns /\ mine[e] # 0 /\ mine[f] # 0
        /\ at'[mine[e]] = "bridged" /\ mate'[mine[e]] = mine[f]
    BY <1>2, MineType DEF Joined
  <2>2. at'[mine[f]] = "bridged"
    BY <2>1 DEF Wiring
  <2>3. Kept(mine[e]) /\ Kept(mine[f])
    BY <2>1, <2>2 DEF Gone
  <2>4. Joined(e, f)
    BY <2>1, <2>3 DEF Joined, Kept
  <2>5. Carried(e, f)
    BY <2>4 DEF OrderInv
  <2>6. QED
    BY <2>3, <2>5 DEF Carried, Kept
<1>3. QED
  BY <1>1, <1>2 DEF OrderInv

LEMMA ConnEndsInv ==
  ASSUME TypeInv, Wiring, OrderInv, NEW c \in Conns,
         IdleTimeout(c) \/ ConnLoss(c)
  PROVE  Wiring' /\ OrderInv'
<1>1. /\ UNCHANGED <<nodes, toRelay, toNode, relay>>
      /\ live' = [live EXCEPT ![c] = FALSE]
  BY DEF IdleTimeout, ConnLoss
<1>2. \A b \in Conns : live'[b] => live[b]
  BY <1>1 DEF TypeInv, WireTypes
<1>3. Wiring'
  BY <1>1, <1>2 DEF Wiring, Held, nodes, relay
<1>4. \A e \in Nodes : NodeInv(e)'
  <2> SUFFICES ASSUME NEW e \in Nodes PROVE NodeInv(e)'
    OBVIOUS
  <2>1. NodeInv(e) /\ (Opening(e) => Opening(e)')
    BY <1>1 DEF OrderInv, Opening, nodes, relay
  <2>2. QED
    BY <1>1, <2>1 DEF NodeInv, nodes, relay
<1>5. \A e, f \in Nodes : Joined(e, f)' => Carried(e, f)'
  BY <1>1 DEF OrderInv, Joined, Carried, nodes, relay
<1>6. QED
  BY <1>3, <1>4, <1>5 DEF OrderInv

LEMMA AcceptInv ==
  ASSUME TypeInv, Wiring, OrderInv, Accept
  PROVE  Wiring' /\ OrderInv'
<1>1. /\ backlog # <<>> /\ backlog' = Tail(backlog)
      /\ UNCHANGED <<nodes, live, toNode, mate, reg>>
  BY DEF Accept
<1>2. PICK c \in Conns : c = Head(backlog)
  BY <1>1, HeadTailProperties DEF TypeInv, RelayTypes
<1>3. \/ /\ toRelay[c] # <<>> /\ at' = [at EXCEPT ![c] = "taken"]
         /\ UNCHANGED toRelay
      \/ /\ ~live[c] /\ at' = [at EXCEPT ![c] = "out"]
         /\ toRelay' = [toRelay EXCEPT ![c] = <<>>]
  BY <1>2 DEF Accept
<1> DEFINE n == Len(backlog)
<1>4. /\ n \in Nat \ {0} /\ DOMAIN backlog = 1..n
      /\ DOMAIN backlog' = 1..(n - 1)
      /\ \A i \in 1..(n - 1) : backlog'[i] = backlog[i + 1]
      /\ backlog[1] = c /\ \A i \in 1..n : backlog[i] \in Conns
  BY <1>1, <1>2, HeadTailProperties, EmptySeq DEF TypeInv, RelayTypes
<1> HIDE DEF n
<1>5. /\ at'[c] \in {"taken", "out"} /\ at[c] = "backlog"
      /\ \A b \in Conns \ {c} : at'[b] = at[b] /\ toRelay'[b] = toRelay[b]
      /\ at'[c] = "taken" => toRelay[c] # <<>> /\ toRelay'[c] = toRelay[c]
      /\ at'[c] = "out" => ~live[c]
  <2>1. at[c] = "backlog"
    BY <1>4 DEF Wiring
  <2>2. CASE /\ toRelay[c] # <<>> /\ at' = [at EXCEPT ![c] = "taken"]
             /\ UNCHANGED toRelay
    BY <2>1, <2>2 DEF TypeInv, RelayTypes
  <2>3. CASE /\ ~live[c] /\ at' = [at EXCEPT ![c] = "out"]
             /\ toRelay' = [toRelay EXCEPT ![c] = <<>>]
    BY <2>1, <2>3 DEF TypeInv, RelayTypes, WireTypes
  <2>4. QED
    BY <1>3, <2>2, <2>3
<1>6. Wiring'
  <2>1. \A i \in 1..(n - 1) : i + 1 \in 1..n /\ 1 \in 1..n /\ i + 1 # 1
    BY <1>4
  <2>2. \A i \in 1..(n - 1) : backlog'[i] # c
    BY <1>4, <2>1 DEF Wiring
  <2>3. \A i \in DOMAIN backlog' : at'[backlog'[i]] = "backlog"
    BY <1>4, <1>5, <2>1, <2>2 DEF Wiring
  <2>4. \A i, j \in DOMAIN backlog' : backlog'[i] = backlog'[j] => i = j
    <3> SUFFICES ASSUME NEW i \in 1..(n - 1), NEW j \in 1..(n - 1),
                        backlog'[i] = backlog'[j]
                 PROVE  i = j
      BY <1>4
    <3>1. \A k, l \in 1..n : backlog[k] = backlog[l] => k = l
      BY <1>4 DEF Wiring
    <3>2. backlog[i + 1] = backlog[j + 1]
      BY <1>4
    <3>3. i + 1 = j + 1
      BY <2>1, <3>1, <3>2
    <3>4. QED
      BY <3>3
  <2>5. /\ \A b \in Conns : at'[b] = "out" => ~live'[b]
        /\ \A b \in Conns : at'[b] = "taken" => toRelay'[b] # <<>>
    BY <1>1, <1>5 DEF Wiring
  <2>6. \A b \in Conns : at'[b] = "bridged" =>
          /\ mate'[b] \in Conns /\ mate'[b] # b
          /\ at'[mate'[b]] = "bridged" /\ mate'[mate'[b]] = b
    BY <1>1, <1>5 DEF Wiring
  <2>7. \A a \in Agents : reg'[a] # 0 => at'[reg'[a]] = "registered"
    BY <1>1, <1>5 DEF Wiring, TypeInv, RelayTypes
  <2>8. \A a, b \in Agents : reg'[a] = reg'[b] /\ reg'[a] # 0 => a = b
    BY <1>1 DEF Wiring
  <2>9. \A b \in Conns : ~Held(b)' => toNode'[b] = <<>>
    BY <1>1 DEF Wiring, Held, nodes
  <2>10. QED
    BY <2>3, <2>4, <2>5, <2>6, <2>7, <2>8, <2>9 DEF Wiring
<1>7. \A b \in Conns : Gone(b) \/ Kept(b) \/ (b = c /\ at'[c] # "bridged")
  BY <1>1, <1>5 DEF Kept
<1>8. ASSUME NEW e \in Nodes, mine[e] = c, ~Gone(c) PROVE Opening(e)'
  <2>1. at'[c] = "taken" /\ toRelay[c] # <<>> /\ toRelay'[c] = toRelay[c]
    BY <1>5, <1>8 DEF Gone
  <2>2. Opening(e)
    BY <1>2, <1>5, <1>8, RelayAssumption DEF OrderInv, NodeInv, Early
  <2>3. UNCHANGED <<state, mine, said, heard, toNode>>
    BY <1>1 DEF nodes
  <2>4. QED
    BY <1>5, <1>8, <2>1, <2>2, <2>3 DEF Opening
<1>9. QED
  BY <1>1, <1>6, <1>7, <1>8, RelayOrder DEF nodes

LEMMA HandleRegisterInv ==
  ASSUME TypeInv, Wiring, OrderInv, NEW c \in Conns, HandleRegister(c)
  PROVE  Wiring' /\ OrderInv'
<1>1. /\ at[c] = "taken" /\ First(c).kind = "register" /\ toRelay[c] # <<>>
      /\ UNCHANGED <<nodes, toNode, mate, backlog>>
  BY DEF HandleRegister, Wiring
<1>2. PICK a \in Agents : a = First(c).node
  BY <1>1, FirstType
<1> DEFINE r == reg[a]
<1>3. /\ toRelay' = [toRelay EXCEPT ![c] = Tail(@)]
      /\ reg' = [reg EXCEPT ![a] = c]
      /\ at' = [b \in Conns |-> IF b = c THEN "registered"
                                ELSE IF b \in {r} \ {0} THEN "out" ELSE at[b]]
      /\ live' = [b \in Conns |-> live[b] /\ b \notin {r} \ {0}]
  BY <1>2 DEF HandleRegister, Rest
<1>4. /\ r # c /\ c # 0 /\ 0 \notin Conns
      /\ r # 0 => r \in Conns /\ at[r] = "registered"
  BY <1>1, RelayAssumption DEF Wiring, TypeInv, RelayTypes
<1> HIDE DEF r
<1>5. /\ at'[c] = "registered" /\ \A b \in Conns \ {c, r} : at'[b] = at[b]
      /\ r # 0 => at'[r] = "out" /\ ~live'[r]
      /\ \A b \in Conns : live'[b] => live[b]
      /\ \A b \in Conns \ {c} : toRelay'[b] = toRelay[b]
      /\ toRelay'[c] = Tail(toRelay[c])
  BY <1>3, <1>4 DEF TypeInv, RelayTypes, WireTypes
<1>6. Wiring'
  <2>1. \A b \in Conns : at'[b] = "out" => ~live'[b]
    <3> SUFFICES ASSUME NEW b \in Conns, at'[b] = "out" PROVE ~live'[b]
      OBVIOUS
    <3>1. CASE b = r
      BY <1>4, <1>5, <3>1
    <3>2. CASE b # r
      BY <1>5, <3>2 DEF Wiring
    <3>3. QED
      BY <3>1, <3>2
  <2>2. /\ \A i \in DOMAIN backlog' : at'[backlog'[i]] = "backlog"
        /\ \A i, j \in DOMAIN backlog' : backlog'[i] = backlog'[j] => i = j
    <3>1. \A i \in DOMAIN backlog : backlog[i] \in Conns \ {c, r}
      BY <1>1, <1>4, RelayAssumption DEF Wiring, TypeInv, RelayTypes
    <3>2. QED
      BY <1>1, <1>5, <3>1 DEF Wiring
  <2>3. \A b \in Conns : at'[b] = "taken" => toRelay'[b] # <<>>
    <3> SUFFICES ASSUME NEW b \in Conns, at'[b] = "taken"
                 PROVE  toRelay'[b] # <<>>
      OBVIOUS
    <3>1. b # c /\ b # r
      BY <1>4, <1>5
    <3>2. QED
      BY <1>5, <3>1 DEF Wiring
  <2>4. \A b \in Conns : at'[b] = "bridged" =>
          /\ mate'[b] \in Conns /\ mate'[b] # b
          /\ at'[mate'[b]] = "bridged" /\ mate'[mate'[b]] = b
    <3> SUFFICES ASSUME NEW b \in Conns, at'[b] = "bridged"
                 PROVE  /\ mate[b] \in Conns /\ mate[b] # b
                        /\ at'[mate[b]] = "bridged" /\ mate[mate[b]] = b
      BY <1>1
    <3>1. b \notin {c, r} /\ at[b] = "bridged"
      <4>1. b # c /\ b # r
        BY <1>4, <1>5
      <4>2. QED
        BY <1>5, <4>1
    <3>2. /\ mate[b] \in Conns /\ mate[b] # b
          /\ at[mate[b]] = "bridged" /\ mate[mate[b]] = b
      BY <3>1 DEF Wiring
    <3>3. mate[b] \notin {c, r}
      BY <1>1, <1>4, <3>2, RelayAssumption
    <3>4. QED
      BY <1>5, <3>2, <3>3
  <2>5. \A b \in Agents \ {a} : reg'[b] = reg[b] /\ (reg[b] # 0 => reg[b] # r)
    BY <1>3 DEF Wiring, TypeInv, RelayTypes, r
  <2>6. reg'[a] = c
    BY <1>3 DEF TypeInv, RelayTypes
  <2>7. \A b \in Agents : reg'[b] # 0 => at'[reg'[b]] = "registered"
    <3> SUFFICES ASSUME NEW b \in Agents, b # a, reg[b] # 0
                 PROVE  at'[reg[b]] = "registered"
      BY <1>5, <2>5, <2>6
    <3>1. reg[b] \in Conns \ {r} /\ at[reg[b]] = "registered"
      BY <2>5 DEF Wiring, TypeInv, RelayTypes
    <3>2. QED
      BY <1>1, <1>5, <3>1
  <2>8. \A b, d \in Agents : reg'[b] = reg'[d] /\ reg'[b] # 0 => b = d
    <3>1. \A b \in Agents : reg[b] # c
      BY <1>1, <1>4 DEF Wiring
    <3>2. QED
      BY <2>5, <2>6, <3>1 DEF Wiring
  <2>9. \A b \in Conns : ~Held(b)' => toNode'[b] = <<>>
    BY <1>1 DEF Wiring, Held, nodes
  <2>10. QED
    BY <2>1, <2>2, <2>3, <2>4, <2>7, <2>8, <2>9 DEF Wiring
<1>7. \A b \in Conns : Gone(b) \/ Kept(b) \/ (b = c /\ at'[c] # "bridged")
  <2> SUFFICES ASSUME NEW b \in Conns, b # c PROVE Gone(b) \/ Kept(b)
    BY <1>5
  <2>1. CASE b = r
    BY <1>4, <1>5, <2>1, RelayAssumption DEF Gone
  <2>2. CASE b # r
    BY <1>1, <1>5, <2>2 DEF Kept
  <2>3. QED
    BY <2>1, <2>2
<1>8. ASSUME NEW e \in Nodes, mine[e] = c, ~Gone(c) PROVE Opening(e)'
  <2>1. Opening(e)
    BY <1>1, <1>4, <1>8 DEF OrderInv, NodeInv, Early
  <2>2. /\ e \in Agents /\ state[e] = "waiting" /\ said[e] = <<>>
        /\ toRelay[c] = <<Registering(e)>>
    <3>1. \A x \in Agents : toRelay[c] # <<Requesting(x)>> \o said[e]
      <4> SUFFICES ASSUME NEW x \in Agents, toRelay[c] = <<Requesting(x)>> \o said[e]
                   PROVE  FALSE
        OBVIOUS
      <4>1. First(c) = Requesting(x)
        BY RequestsFirst DEF First
      <4>2. QED
        BY <1>1, <4>1 DEF Requesting
    <3>2. QED
      BY <1>1, <1>8, <2>1, <3>1 DEF Opening
  <2>3. toRelay'[c] = <<>>
    BY <1>5, <2>2
  <2>4. UNCHANGED <<state, mine, said, heard, toNode>>
    BY <1>1 DEF nodes
  <2>5. QED
    BY <1>5, <1>8, <2>1, <2>2, <2>3, <2>4 DEF Opening
<1>9. QED
  BY <1>1, <1>6, <1>7, <1>8, RelayOrder DEF nodes

LEMMA RefusesInv ==
  ASSUME TypeInv, Wiring, OrderInv, NEW c \in Conns, at[c] = "taken",
         toRelay' = [toRelay EXCEPT ![c] = <<>>],
         toNode' = IF Held(c)
             THEN [toNode EXCEPT ![c] = <<[kind |-> "error"]>>] ELSE toNode,
         at' = [at EXCEPT ![c] = "out"], live' = [live EXCEPT ![c] = FALSE],
         UNCHANGED <<nodes, mate, backlog, reg>>
  PROVE  Wiring' /\ OrderInv'
<1>1. /\ at'[c] = "out" /\ ~live'[c]
      /\ \A b \in Conns \ {c} : /\ at'[b] = at[b] /\ live'[b] = live[b]
                                /\ toRelay'[b] = toRelay[b]
                                /\ toNode'[b] = toNode[b]
      /\ ~Held(c) => toNode'[c] = toNode[c]
  BY DEF TypeInv, RelayTypes, WireTypes
<1>2. Wiring'
  <2>1. /\ \A b \in Conns : at'[b] = "out" => ~live'[b]
        /\ \A b \in Conns : at'[b] = "taken" => toRelay'[b] # <<>>
    BY <1>1 DEF Wiring
  <2>2. /\ \A i \in DOMAIN backlog' : at'[backlog'[i]] = "backlog"
        /\ \A i, j \in DOMAIN backlog' : backlog'[i] = backlog'[j] => i = j
    BY <1>1 DEF Wiring, TypeInv, RelayTypes
  <2>3. \A b \in Conns : at'[b] = "bridged" =>
          /\ mate'[b] \in Conns /\ mate'[b] # b
          /\ at'[mate'[b]] = "bridged" /\ mate'[mate'[b]] = b
    BY <1>1 DEF Wiring
  <2>4. /\ \A a \in Agents : reg'[a] # 0 => at'[reg'[a]] = "registered"
        /\ \A a, b \in Agents : reg'[a] = reg'[b] /\ reg'[a] # 0 => a = b
    BY <1>1 DEF Wiring, TypeInv, RelayTypes
  <2>5. \A b \in Conns : ~Held(b)' => toNode'[b] = <<>>
    BY <1>1 DEF Wiring, Held, nodes
  <2>6. QED
    BY <2>1, <2>2, <2>3, <2>4, <2>5 DEF Wiring
<1>3. \A b \in Conns : Gone(b) \/ Kept(b)
  BY <1>1 DEF Gone, Kept
<1>4. OrderInv'
  BY <1>1, <1>2, <1>3, RelayOrder DEF nodes, Gone
<1>5. QED
  BY <1>2, <1>4

\* A request that finds a registration: the two connections are bridged.
LEMMA BridgeInv ==
  ASSUME TypeInv, Wiring, OrderInv, NEW c \in Conns, NEW a \in Agents,
         at[c] = "taken", First(c).kind = "request", reg[a] # 0,
         Rest(c), Bridge(c, reg[a]), reg' = [reg EXCEPT ![a] = 0],
         UNCHANGED <<nodes, live, toNode, backlog>>
  PROVE  Wiring' /\ OrderInv'
<1>1. PICK r \in Conns : r = reg[a]
  BY DEF TypeInv, RelayTypes
<1>2. at[r] = "registered" /\ r # c /\ 0 \notin Conns
  BY <1>1, RelayAssumption DEF Wiring
<1>3. /\ at' = [at EXCEPT ![c] = "bridged", ![r] = "bridged"]
      /\ mate' = [mate EXCEPT ![c] = r, ![r] = c]
  BY <1>1 DEF Bridge
<1>4. /\ at'[c] = "bridged" /\ at'[r] = "bridged"
      /\ mate'[c] = r /\ mate'[r] = c
      /\ \A b \in Conns \ {c, r} : at'[b] = at[b] /\ mate'[b] = mate[b]
      /\ \A b \in Conns \ {c} : toRelay'[b] = toRelay[b]
      /\ toRelay'[c] = Tail(toRelay[c])
  BY <1>2, <1>3 DEF Rest, TypeInv, RelayTypes, WireTypes
<1>5. /\ reg'[a] = 0 /\ \A b \in Agents \ {a} : reg'[b] = reg[b] /\ reg[b] # r
  BY <1>1, <1>2, RelayAssumption DEF TypeInv, RelayTypes, Wiring
<1>6. Wiring'
  <2>1. /\ \A b \in Conns : at'[b] = "out" => ~live'[b]
        /\ \A b \in Conns : at'[b] = "taken" => toRelay'[b] # <<>>
    BY <1>4 DEF Wiring
  <2>2. /\ \A i \in DOMAIN backlog' : at'[backlog'[i]] = "backlog"
        /\ \A i, j \in DOMAIN backlog' : backlog'[i] = backlog'[j] => i = j
    <3>1. \A i \in DOMAIN backlog : backlog[i] \in Conns \ {c, r}
      BY <1>2 DEF Wiring, TypeInv, RelayTypes
    <3>2. QED
      BY <1>4, <3>1 DEF Wiring
  <2>3. ASSUME NEW b \in Conns, at'[b] = "bridged"
        PROVE  /\ mate'[b] \in Conns /\ mate'[b] # b
               /\ at'[mate'[b]] = "bridged" /\ mate'[mate'[b]] = b
    <3>1. CASE b \in {c, r}
      BY <1>2, <1>4, <3>1
    <3>2. CASE b \notin {c, r}
      <4>1. at[b] = "bridged" /\ mate'[b] = mate[b]
        BY <1>4, <2>3, <3>2
      <4>2. /\ mate[b] \in Conns /\ mate[b] # b
            /\ at[mate[b]] = "bridged" /\ mate[mate[b]] = b
        BY <4>1 DEF Wiring
      <4>3. mate[b] \notin {c, r}
        BY <1>2, <4>2
      <4>4. QED
        BY <1>4, <4>1, <4>2, <4>3
    <3>3. QED
      BY <3>1, <3>2
  <2>4. /\ \A b \in Agents : reg'[b] # 0 => at'[reg'[b]] = "registered"
        /\ \A b, d \in Agents : reg'[b] = reg'[d] /\ reg'[b] # 0 => b = d
    BY <1>4, <1>5 DEF Wiring, TypeInv, RelayTypes
  <2>5. \A b \in Conns : ~Held(b)' => toNode'[b] = <<>>
    BY DEF Wiring, Held, nodes
  <2>6. QED
    BY <2>1, <2>2, <2>3, <2>4, <2>5 DEF Wiring
<1>7. UNCHANGED <<state, mine, said, heard, toNode>>
  BY DEF nodes
\* what the dialer has sent beyond its request, and the agent that waits
<1>8. ASSUME NEW e \in Nodes, mine[e] = c
      PROVE  /\ (state[e] = "waiting" /\ said[e] # <<>>) \/ state[e] = "asked"
             /\ heard[e] = <<>> /\ toRelay'[c] = said[e]
             /\ toNode[c] = <<>>
  <2>1. Opening(e) /\ toRelay[c] # <<>>
    BY <1>2, <1>8 DEF OrderInv, NodeInv, Early, Wiring
  <2>2. toRelay[c] # <<Registering(e)>>
    BY DEF First, Registering
  <2>3. /\ (state[e] = "waiting" /\ said[e] # <<>>) \/ state[e] = "asked"
        /\ heard[e] = <<>> /\ toNode[c] = <<>>
        /\ \E x \in Agents : toRelay[c] = <<Requesting(x)>> \o said[e]
    <3>1. heard[e] = <<>> /\ toNode[c] = <<>>
      BY <1>8, <2>1 DEF Opening
    <3>2. /\ state[e] = "waiting" \/ (state[e] = "asked" /\ said[e] = <<>>)
          /\ state[e] = "waiting" => said[e] = <<Hello(e)>>
          /\ \E x \in Agents : toRelay[c] = <<Requesting(x)>> \o said[e]
      BY <1>2, <1>8, <2>1, <2>2 DEF Opening
    <3>3. <<Hello(e)>> # <<>>
      OBVIOUS
    <3>4. QED
      BY <3>1, <3>2, <3>3
  <2>4. toRelay'[c] = said[e]
    BY <1>4, <2>3, RequestsFirst
  <2>5. QED
    BY <2>3, <2>4
<1>9. ASSUME NEW e \in Nodes, mine[e] = r
      PROVE  /\ state[e] = "waiting" /\ said[e] = <<>> /\ heard[e] = <<>>
             /\ toRelay[r] = <<>> /\ toNode[r] = <<>> /\ e \notin Dialers
  <2>1. Opening(e)
    BY <1>2, <1>9 DEF OrderInv, NodeInv, Early
  <2>2. QED
    BY <1>2, <1>9, <2>1, RelayAssumption DEF Opening
<1>10. ASSUME NEW e \in Nodes PROVE NodeInv(e)'
  <2>1. NodeInv(e) /\ (mine[e] # 0 => mine[e] \in Conns)
    BY MineType DEF OrderInv
  <2>2. CASE mine[e] = c
    BY <1>2, <1>4, <1>7, <1>8, <2>2 DEF NodeInv, Early
  <2>3. CASE mine[e] = r
    BY <1>2, <1>4, <1>7, <1>9, <2>3 DEF NodeInv, Early
  <2>4. CASE mine[e] = 0
    BY <1>7, <2>1, <2>4 DEF NodeInv
  <2>5. CASE mine[e] \notin {c, r, 0}
    <3>1. at'[mine[e]] = at[mine[e]] /\ toRelay'[mine[e]] = toRelay[mine[e]]
      BY <1>4, <2>1, <2>5
    <3>2. Opening(e) => Opening(e)'
      BY <1>7, <3>1 DEF Opening
    <3>3. QED
      BY <1>7, <2>1, <3>1, <3>2 DEF NodeInv
  <2>6. QED
    BY <2>2, <2>3, <2>4, <2>5
<1>11. ASSUME NEW e \in Nodes, NEW f \in Nodes, Joined(e, f)'
       PROVE  Carried(e, f)'
  <2>1. /\ mine[e] \in Conns /\ mine[f] \in Conns /\ mine[f] # 0
        /\ at'[mine[e]] = "bridged" /\ mate'[mine[e]] = mine[f]
    BY <1>7, <1>11, MineType DEF Joined
  <2>2. CASE mine[e] = c
    <3>1. mine[f] = r
      BY <1>4, <2>1, <2>2
    <3>2. toRelay'[c] = said[e] /\ heard[f] = <<>> /\ toNode[r] = <<>>
      BY <1>8, <1>9, <2>2, <3>1
    <3>3. said[e] = (<<>> \o <<>>) \o said[e]
      BY ConcatEmptySeq DEF TypeInv, NodeTypes
    <3>4. QED
      BY <1>7, <2>2, <3>1, <3>2, <3>3 DEF Carried
  <2>3. CASE mine[e] = r
    <3>1. mine[f] = c
      BY <1>4, <2>1, <2>3
    <3>2. /\ said[e] = <<>> /\ toRelay'[r] = <<>>
          /\ heard[f] = <<>> /\ toNode[c] = <<>>
      BY <1>2, <1>4, <1>8, <1>9, <2>3, <3>1
    <3>3. QED
      BY <1>7, <2>3, <3>1, <3>2 DEF Carried
  <2>4. CASE mine[e] \notin {c, r}
    <3>1. at[mine[e]] = "bridged" /\ mate[mine[e]] = mine[f]
      BY <1>4, <2>1, <2>4
    <3>2. mine[e] # 0 /\ toRelay'[mine[e]] = toRelay[mine[e]]
      BY <1>2, <1>4, <2>1, <2>4
    <3>3. Carried(e, f)
      BY <2>1, <3>1, <3>2 DEF OrderInv, Joined
    <3>4. QED
      BY <1>7, <3>2, <3>3 DEF Carried
  <2>5. QED
    BY <2>2, <2>3, <2>4
<1>12. QED
  BY <1>6, <1>10, <1>11 DEF OrderInv

LEMMA HandleRequestInv ==
  ASSUME TypeInv, Wiring, OrderInv, NEW c \in Conns, HandleRequest(c)
  PROVE  Wiring' /\ OrderInv'
<1>1. at[c] = "taken" /\ First(c).kind = "request" /\ toRelay[c] # <<>>
      /\ UNCHANGED <<nodes, backlog>>
  BY DEF HandleRequest, Wiring
<1>2. PICK a \in Agents : a = First(c).node
  BY <1>1, FirstType
<1>3. CASE reg[a] # 0
  <2>1. /\ Rest(c) /\ Bridge(c, reg[a]) /\ reg' = [reg EXCEPT ![a] = 0]
        /\ UNCHANGED <<live, toNode>>
    BY <1>2, <1>3 DEF HandleRequest
  <2>2. QED
    BY <1>1, <1>3, <2>1, BridgeInv
<1>4. CASE reg[a] = 0
  <2>1. /\ toRelay' = [toRelay EXCEPT ![c] = <<>>]
        /\ toNode' = IF Held(c)
              THEN [toNode EXCEPT ![c] = <<[kind |-> "error"]>>] ELSE toNode
        /\ at' = [at EXCEPT ![c] = "out"]
        /\ live' = [live EXCEPT ![c] = FALSE]
        /\ UNCHANGED <<mate, reg>>
    BY <1>2, <1>4 DEF HandleRequest
  <2>2. QED
    BY <1>1, <2>1, RefusesInv
<1>5. QED
  BY <1>3, <1>4

LEMMA ForwardInv ==
  ASSUME TypeInv, Wiring, OrderInv, NEW c \in Conns, Forward(c)
  PROVE  Wiring' /\ OrderInv'
<1>1. /\ at[c] = "bridged" /\ toRelay[c] # <<>>
      /\ UNCHANGED <<nodes, live, relay>>
  BY DEF Forward
<1>2. PICK m \in Conns : m = mate[c]
  BY <1>1 DEF Wiring
<1>3. m # c /\ at[m] = "bridged" /\ mate[m] = c
  BY <1>1, <1>2 DEF Wiring
<1>4. /\ toRelay' = [toRelay EXCEPT ![c] = Tail(@)]
      /\ toNode' = IF Held(m)
            THEN [toNode EXCEPT ![m] = Append(@, Head(toRelay[c]))] ELSE toNode
  BY <1>2 DEF Forward, Rest, First
<1>5. /\ \A b \in Conns \ {c} : toRelay'[b] = toRelay[b]
      /\ toRelay'[c] = Tail(toRelay[c])
      /\ \A b \in Conns \ {m} : toNode'[b] = toNode[b]
      /\ Held(m) => toNode'[m] = Append(toNode[m], Head(toRelay[c]))
      /\ ~Held(m) => toNode'[m] = toNode[m]
  BY <1>4 DEF TypeInv, WireTypes
<1>6. /\ at' = at /\ mate' = mate /\ backlog' = backlog /\ reg' = reg
      /\ UNCHANGED <<state, mine, said, heard>>
  BY <1>1 DEF relay, nodes
<1>7. Wiring'
  <2>1. \A b \in Conns : at'[b] = "taken" => toRelay'[b] # <<>>
    BY <1>1, <1>5, <1>6 DEF Wiring
  <2>2. \A b \in Conns : ~Held(b)' => toNode'[b] = <<>>
    BY <1>5, <1>6 DEF Wiring, Held
  <2>3. QED
    BY <1>1, <1>6, <2>1, <2>2 DEF Wiring
<1>8. ASSUME NEW e \in Nodes PROVE NodeInv(e)'
  <2>1. NodeInv(e) /\ (mine[e] # 0 => mine[e] \in Conns)
    BY MineType DEF OrderInv
  <2>2. ASSUME mine[e] # 0, at[mine[e]] \in Early PROVE Opening(e)'
    <3>1. mine[e] \notin {c, m}
      BY <1>1, <1>3, <2>2 DEF Early
    <3>2. /\ toRelay'[mine[e]] = toRelay[mine[e]]
          /\ toNode'[mine[e]] = toNode[mine[e]]
      BY <1>5, <2>1, <2>2, <3>1
    <3>3. QED
      BY <1>6, <2>1, <2>2, <3>2 DEF NodeInv, Opening
  <2>3. QED
    BY <1>6, <2>1, <2>2 DEF NodeInv
<1>9. ASSUME NEW e \in Nodes, NEW f \in Nodes, Joined(e, f)'
      PROVE  Carried(e, f)'
  <2>1. /\ Joined(e, f) /\ mine[e] \in Conns /\ mine[f] \in Conns
        /\ mate[mine[e]] = mine[f] /\ at[mine[e]] = "bridged"
    BY <1>6, <1>9, MineType DEF Joined
  <2>2. Carried(e, f)
    BY <2>1 DEF OrderInv
  <2>3. CASE mine[e] = c
    <3>1. mine[f] = m /\ Held(m)
      BY <1>2, <2>1, <2>3 DEF Held
    <3>2. PICK t \in Seq(Frames), u \in Seq(Frames), v \in Seq(Frames) :
             t = heard[f] /\ u = toNode[m] /\ v = toRelay[c]
      BY DEF TypeInv, NodeTypes, WireTypes
    <3>3. v # <<>>
      BY <1>1, <3>2
    <3>4. PICK w \in Seq(Frames), x \in Seq(Frames) :
             w = Append(u, Head(v)) /\ x = Tail(v)
      BY <3>3, HeadTailProperties, AppendProperties
    <3>5. (t \o w) \o x = (t \o u) \o v
      <4>1. w \o x = u \o v
        BY <3>3, <3>4, MovesFirst
      <4>2. (t \o w) \o x = t \o (w \o x)
        BY ConcatAssociative
      <4>3. (t \o u) \o v = t \o (u \o v)
        BY ConcatAssociative
      <4>4. QED
        BY <4>1, <4>2, <4>3
    <3>6. /\ said'[e] = (t \o u) \o v /\ heard'[f] = t
          /\ toNode'[mine'[f]] = w /\ toRelay'[mine'[e]] = x
      BY <3>4, <1>5, <1>6, <2>2, <2>3, <3>1, <3>2 DEF Carried
    <3>7. QED
      BY <3>5, <3>6 DEF Carried
  <2>4. CASE mine[e] # c
    <3>1. mine[f] # m
      BY <1>3, <2>1, <2>4 DEF Wiring
    <3>2. QED
      BY <1>5, <1>6, <2>1, <2>2, <2>4, <3>1 DEF Carried
  <2>5. QED
    BY <2>3, <2>4
<1>10. QED
  BY <1>7, <1>8, <1>9 DEF OrderInv

LEMMA ProxyEndsInv ==
  ASSUME TypeInv, Wiring, OrderInv, NEW c \in Conns, ProxyEnds(c)
  PROVE  Wiring' /\ OrderInv'
<1>1. /\ at[c] = "bridged" /\ ~live[c]
      /\ UNCHANGED <<nodes, toNode, backlog, reg>>
  BY DEF ProxyEnds
<1>2. PICK m \in Conns : m = mate[c]
  BY <1>1 DEF Wiring
<1>3. m # c /\ at[m] = "bridged" /\ mate[m] = c
  BY <1>1, <1>2 DEF Wiring
<1>4. /\ at' = [at EXCEPT ![c] = "out", ![m] = "out"]
      /\ mate' = [mate EXCEPT ![c] = 0, ![m] = 0]
      /\ toRelay' = [toRelay EXCEPT ![c] = <<>>, ![m] = <<>>]
      /\ live' = [live EXCEPT ![m] = FALSE]
  BY <1>2 DEF ProxyEnds
<1>5. /\ at'[c] = "out" /\ at'[m] = "out" /\ ~live'[c] /\ ~live'[m]
      /\ \A b \in Conns \ {c, m} :
            /\ at'[b] = at[b] /\ mate'[b] = mate[b]
            /\ toRelay'[b] = toRelay[b] /\ live'[b] = live[b]
  BY <1>1, <1>3, <1>4 DEF TypeInv, RelayTypes, WireTypes
<1>6. Wiring'
  <2>1. /\ \A b \in Conns : at'[b] = "out" => ~live'[b]
        /\ \A b \in Conns : at'[b] = "taken" => toRelay'[b] # <<>>
    BY <1>5 DEF Wiring
  <2>2. /\ \A i \in DOMAIN backlog' : at'[backlog'[i]] = "backlog"
        /\ \A i, j \in DOMAIN backlog' : backlog'[i] = backlog'[j] => i = j
    <3>1. \A i \in DOMAIN backlog : backlog[i] \in Conns \ {c, m}
      BY <1>1, <1>3 DEF Wiring, TypeInv, RelayTypes
    <3>2. QED
      BY <1>1, <1>5, <3>1 DEF Wiring
  <2>3. ASSUME NEW b \in Conns, at'[b] = "bridged"
        PROVE  /\ mate'[b] \in Conns /\ mate'[b] # b
               /\ at'[mate'[b]] = "bridged" /\ mate'[mate'[b]] = b
    <3>1. b \notin {c, m} /\ at[b] = "bridged" /\ mate'[b] = mate[b]
      <4>1. b # c /\ b # m
        BY <1>5, <2>3
      <4>2. QED
        BY <1>5, <2>3, <4>1
    <3>2. /\ mate[b] \in Conns /\ mate[b] # b
          /\ at[mate[b]] = "bridged" /\ mate[mate[b]] = b
      BY <3>1 DEF Wiring
    <3>3. mate[b] \notin {c, m}
      BY <1>2, <1>3, <3>1, <3>2
    <3>4. QED
      BY <1>5, <3>1, <3>2, <3>3
  <2>4. /\ \A a \in Agents : reg'[a] # 0 => at'[reg'[a]] = "registered"
        /\ \A a, b \in Agents : reg'[a] = reg'[b] /\ reg'[a] # 0 => a = b
    BY <1>1, <1>3, <1>5 DEF Wiring, TypeInv, RelayTypes
  <2>5. \A b \in Conns : ~Held(b)' => toNode'[b] = <<>>
    BY <1>1 DEF Wiring, Held, nodes
  <2>6. QED
    BY <2>1, <2>2, <2>3, <2>4, <2>5 DEF Wiring
<1>7. \A b \in Conns : Gone(b) \/ Kept(b)
  BY <1>1, <1>5 DEF Gone, Kept
<1>8. QED
  BY <1>1, <1>5, <1>6, <1>7, RelayOrder DEF nodes, Gone

LEMMA RelayCrashInv ==
  ASSUME TypeInv, Wiring, OrderInv, RelayCrash
  PROVE  Wiring' /\ OrderInv'
<1>1. /\ at' = [c \in Conns |-> IF live[c] THEN "lost" ELSE "out"]
      /\ backlog' = <<>> /\ reg' = [a \in Agents |-> 0]
      /\ UNCHANGED <<state, mine, said, heard, live, toNode>>
  BY DEF RelayCrash, nodes
<1>2. Wiring'
  BY <1>1 DEF Wiring, Held
<1>3. ASSUME NEW e \in Nodes PROVE NodeInv(e)'
  <2>1. NodeInv(e) /\ (mine[e] # 0 => at'[mine[e]] \in {"lost", "out"})
    BY <1>1, MineType DEF OrderInv
  <2>2. QED
    BY <1>1, <2>1 DEF NodeInv, Early
<1>4. ASSUME NEW e \in Nodes, NEW f \in Nodes PROVE ~Joined(e, f)'
  BY <1>1, MineType DEF Joined
<1>5. QED
  BY <1>2, <1>3, <1>4 DEF OrderInv

-------------------------------------------------------------------------------
(* The theorems.                                                           *)

LEMMA NextInv == IInv /\ [Next]_vars => IInv'
<1> SUFFICES ASSUME IInv, [Next]_vars PROVE IInv'
  OBVIOUS
<1>1. TypeInv /\ Wiring /\ OrderInv
  BY DEF IInv
<1>2. TypeInv'
  BY NextType
<1>3. CASE UNCHANGED vars
  <2>1. UNCHANGED <<state, mine, said, heard, wires, relay>>
    BY <1>3 DEF vars, nodes
  <2>2. \A e \in Nodes : mine[e] = 0 => state[e] \in {"off", "dead"}
    BY <1>1 DEF TypeInv, NodeTypes
  <2>3. Wiring' /\ OrderInv'
    BY <1>1, <2>1, <2>2, NothingMoves
  <2>4. QED
    BY <1>2, <2>3 DEF IInv
<1>4. CASE Next
  <2>1. Wiring' /\ OrderInv'
    BY <1>1, <1>4, NodeStepInv, AgentStepInv, ExpireInv, DialerStepInv,
       HandleRegisterInv, HandleRequestInv, ForwardInv, ProxyEndsInv,
       ConnEndsInv, AcceptInv, RelayCrashInv
       DEF Next, RelayStep
  <2>2. QED
    BY <1>2, <2>1 DEF IInv
<1>5. QED
  BY <1>3, <1>4

\* What nodes, connections and the relay's tables can be, whatever is lost,
\* crashes or is timed out (gpumesh-relay/src/main.rs).
THEOREM TypeCorrect == Spec => []TypeOK
<1>1. IInv => TypeOK
  BY RelayAssumption DEF IInv, TypeInv, NodeTypes, WireTypes, RelayTypes,
     CountTypes, Wiring, TypeOK, States, Places
<1>2. QED
  BY <1>1, InitInv, NextInv, PTL DEF Spec

\* A relayed session delivers the beginning of what the other side said, in
\* order and from no other session (gpumesh-relay/src/main.rs:73-100).
THEOREM RelayedInOrderHolds == Spec => []RelayedInOrder
<1>1. IInv => RelayedInOrder
  <2> SUFFICES ASSUME IInv, NEW e \in Nodes, NEW f \in Nodes, Joined(e, f)
               PROVE  IsPrefix(heard[f], said[e])
    BY DEF RelayedInOrder, Joined
  <2>1. Carried(e, f) /\ mine[e] \in Conns /\ mine[f] \in Conns
    BY MineType DEF IInv, OrderInv, Joined
  <2>2. PICK t \in Seq(Frames), u \in Seq(Frames), v \in Seq(Frames) :
           t = heard[f] /\ u = toNode[mine[f]] /\ v = toRelay[mine[e]]
    BY <2>1 DEF IInv, TypeInv, NodeTypes, WireTypes
  <2>3. (t \o u) \o v = t \o (u \o v) /\ u \o v \in Seq(Frames)
    BY ConcatAssociative, ConcatProperties
  <2>4. IsPrefix(t, t \o (u \o v))
    BY <2>3, BeginningIsPrefix
  <2>5. QED
    BY <2>1, <2>2, <2>3, <2>4 DEF Carried
<1>2. QED
  BY <1>1, InitInv, NextInv, PTL DEF Spec
===============================================================================
