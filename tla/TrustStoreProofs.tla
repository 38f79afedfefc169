-------------------------- MODULE TrustStoreProofs --------------------------
(***************************************************************************)
(* Proofs about TrustStore, for any set of peers and of commands.          *)
(*                                                                         *)
(*   TypeCorrect        the files and every copy of them keep their shape  *)
(*   ListsConsistentHolds   no list ever both denies and grants            *)
(*   RightsImplemented  every step is one of Rights, but for two exceptions *)
(***************************************************************************)
EXTENDS TrustStore, TLAPS

-------------------------------------------------------------------------------
(* Types.                                                                  *)

FilesInv ==
    /\ list  \in Lists
    /\ known \in SUBSET Peers
    /\ proc  \in [Commands -> Procs]
    /\ agent \in Agents

SessionInv ==
    /\ session \in [Peers -> {"none", "open", "refused"}]
    /\ using   \in [Peers -> SUBSET {"job", "desktop", "cuda"}]
    /\ \A p \in Peers : /\ session[p] # "open" => using[p] = {}
                        /\ agent.at # "serving" => session[p] = "none"

\* A command that has read the allowlist and may write it back.
Carries(c) ==
    /\ proc[c].at \in {"listRead", "peersRead", "peersSaved"}
    /\ proc[c].op \in PeerOps

EditOps == {"pair", "allow", "desktop", "cuda", "deny"}

\* What a command carries is typed.
LEMMA CarriedType ==
    ASSUME FilesInv, NEW c \in Commands, Carries(c)
    PROVE  /\ proc[c].op \in PeerOps /\ proc[c].peer \in Peers
           /\ proc[c].list \in Lists
           /\ proc[c].at # "listRead" => proc[c].known \in SUBSET Peers
<1>1. proc[c] \in Procs
  BY DEF FilesInv
<1> QED
  BY <1>1 DEF Carries, Procs, Idle, PeerOps

\* Every edit of the allowlist yields a list.
LEMMA EditedType ==
    ASSUME NEW l \in Lists, NEW p \in Peers, NEW op \in EditOps
    PROVE  Edited(op, l, p) \in Lists
  BY DEF Lists, EditOps, Edited, Allow, AllowDesktop, AllowGpuRemote, Deny

\* Each step of a command keeps the types of the files and of its own copy.
LEMMA CommandType ==
    ASSUME FilesInv, NEW c \in Commands, CommandStep(c)
    PROVE  FilesInv'
<1> DEFINE q == proc[c]
<1>1. q \in Procs
  BY DEF FilesInv
<1>2. ASSUME NEW r \in Procs, Step(c, r) PROVE proc' \in [Commands -> Procs]
  BY <1>2 DEF Step, FilesInv
<1>3. Idle \in Procs
  BY DEF Procs
<1>4. CASE ReadList(c)
  <2>1. PICK p \in Peers, op \in PeerOps :
            Step(c, [at |-> "listRead", op |-> op, peer |-> p, list |-> list])
    BY <1>4, TrustConstants DEF ReadList
  <2>2. [at |-> "listRead", op |-> op, peer |-> p, list |-> list] \in Procs
    BY DEF Procs, FilesInv
  <2> QED BY <2>1, <2>2, <1>2, <1>4 DEF ReadList, AgentSide, FilesInv
<1>5. CASE ReadPeers(c)
  <2>1. Carries(c)
    BY <1>1, <1>5 DEF ReadPeers, Carries, Procs, Idle
  <2>2. Read("peersRead", q, known) \in Procs
    BY <2>1, CarriedType DEF Procs, Read, FilesInv
  <2> QED BY <2>2, <1>2, <1>5 DEF ReadPeers, AgentSide, FilesInv
<1>6. CASE NotFound(c)
  BY <1>6, <1>2, <1>3 DEF NotFound, AgentSide, FilesInv
<1>7. CASE SavePeers(c)
  <2>1. CASE q.op = "pair"
    <3>1. Carries(c) /\ q.at # "listRead"
      BY <1>7, <2>1 DEF SavePeers, Carries, PeerOps
    <3>2. q.peer \in Peers /\ q.list \in Lists /\ q.known \in SUBSET Peers
      BY <3>1, CarriedType
    <3>3. Read("peersSaved", q, q.known) \in Procs
      BY <3>1, <3>2, <2>1 DEF Procs, Read, PeerOps
    <3>4. /\ Step(c, Read("peersSaved", q, q.known))
          /\ known' = q.known \cup {q.peer}
      BY <1>7, <2>1 DEF SavePeers
    <3>5. known' \in SUBSET Peers /\ proc' \in [Commands -> Procs]
      BY <3>2, <3>3, <3>4, <1>2
    <3> QED BY <3>5, <1>7 DEF SavePeers, AgentSide, FilesInv
  <2>2. CASE q.op # "pair"
    <3>1. q.at = "peersRead" /\ Step(c, Idle) /\ known' = q.known
      BY <1>7, <2>2 DEF SavePeers
    <3>2. known' \in SUBSET Peers
      BY <3>1, <1>1 DEF Procs, Idle
    <3> QED BY <3>1, <3>2, <1>2, <1>3, <1>7 DEF SavePeers, AgentSide, FilesInv
  <2> QED BY <2>1, <2>2
<1>8. CASE SaveList(c)
  <2>1. Carries(c) /\ q.op \in EditOps
    BY <1>1, <1>8 DEF SaveList, Carries, EditOps, PeerOps, Procs, Idle
  <2> QED BY <2>1, CarriedType, EditedType, <1>2, <1>3, <1>8
          DEF SaveList, AgentSide, FilesInv
<1>9. CASE InitWipe(c)
  <2>1. NoList \in Lists
    BY DEF NoList, Lists
  <2>2. [at |-> "wiped", op |-> "init"] \in Procs
    BY DEF Procs
  <2> QED BY <2>1, <2>2, <1>2, <1>9 DEF InitWipe, AgentSide, FilesInv
<1>10. CASE InitReadPeers(c)
  <2>1. [at |-> "peersRead", op |-> "init", known |-> known] \in Procs
    BY DEF Procs, FilesInv
  <2> QED BY <2>1, <1>2, <1>10 DEF InitReadPeers, AgentSide, FilesInv
<1>11. CASE Abort(c)
  BY <1>11, <1>2, <1>3 DEF Abort, AgentSide, FilesInv
<1> QED
  BY <1>4, <1>5, <1>6, <1>7, <1>8, <1>9, <1>10, <1>11 DEF CommandStep

\* The agent's and the peers' steps keep the types of the files.
LEMMA AgentType ==
    ASSUME FilesInv,
           \/ BootReadList \/ BootReadPeers \/ ShareStop
           \/ \E p \in Dialers : PeerStep(p)
    PROVE  FilesInv'
<1>1. Down \in Agents
  BY DEF Down, Agents, NoList, Lists
<1>2. CASE BootReadList
  BY <1>2 DEF BootReadList, FilesInv, Agents
<1>3. CASE BootReadPeers
  BY <1>3 DEF BootReadPeers, FilesInv, Agents
<1>4. CASE ShareStop
  BY <1>1, <1>4 DEF ShareStop, FilesInv
<1>5. CASE \E p \in Dialers : PeerStep(p)
  <2>1. PICK p \in Dialers : PeerStep(p)
    BY <1>5
  <2>2. known' = known \/ known' = agent.known
    BY <2>1 DEF PeerStep, Inbound, RunJob, DesktopRequest, GpuRemoteOpen,
                Disconnect
  <2>3. UNCHANGED <<list, proc, agent>>
    BY <2>1 DEF PeerStep, Inbound, RunJob, DesktopRequest, GpuRemoteOpen,
                Disconnect
  <2>4. agent.known \in SUBSET Peers
    BY DEF FilesInv, Agents
  <2> QED BY <2>2, <2>3, <2>4 DEF FilesInv
<1> QED BY <1>2, <1>3, <1>4, <1>5

LEMMA FilesInvariant == Spec => []FilesInv
<1>1. Init => FilesInv
  <2>1. NoList \in Lists /\ Down \in Agents
    BY DEF Down, Agents, NoList, Lists
  <2>2. Idle \in Procs
    BY DEF Procs
  <2> QED BY <2>1, <2>2 DEF Init, FilesInv
<1>2. FilesInv /\ [Next]_vars => FilesInv'
  <2> SUFFICES ASSUME FilesInv, [Next]_vars PROVE FilesInv'
    OBVIOUS
  <2>1. CASE UNCHANGED vars
    BY <2>1 DEF vars, FilesInv
  <2>2. CASE Next
    BY <2>2, CommandType, AgentType DEF Next
  <2> QED BY <2>1, <2>2
<1> QED BY <1>1, <1>2, PTL DEF Spec

\* Sessions exist only while the agent serves, and only an open one is used.
LEMMA SessionStep == FilesInv /\ SessionInv /\ [Next]_vars => SessionInv'
<1> SUFFICES ASSUME FilesInv, SessionInv, [Next]_vars PROVE SessionInv'
  OBVIOUS
<1> USE DEF SessionInv
<1>1. CASE UNCHANGED <<agent, session, using>>
  BY <1>1
<1>2. CASE \E c \in Commands : CommandStep(c)
  BY <1>1, <1>2 DEF CommandStep, ReadList, ReadPeers, NotFound, SavePeers,
                    SaveList, InitWipe, InitReadPeers, Abort, AgentSide
<1>3. CASE BootReadList
  BY <1>3 DEF BootReadList, FilesInv, Agents
<1>4. CASE BootReadPeers
  BY <1>4 DEF BootReadPeers, FilesInv, Agents
<1>5. CASE ShareStop
  BY <1>5 DEF ShareStop, Down
<1>6. ASSUME NEW p \in Dialers, Inbound(p) PROVE SessionInv'
  BY <1>6, TrustConstants DEF Inbound
<1>7. ASSUME NEW p \in Dialers, RunJob(p) \/ DesktopRequest(p) \/ GpuRemoteOpen(p)
      PROVE SessionInv'
  <2>1. PICK r \in {"job", "desktop", "cuda"} : Open(p, r)
    BY <1>7 DEF RunJob, DesktopRequest, GpuRemoteOpen
  <2>2. session[p] = "open" /\ UNCHANGED <<agent, session>>
    BY <1>7 DEF RunJob, DesktopRequest, GpuRemoteOpen
  <2> QED BY <2>1, <2>2, TrustConstants DEF Open
<1>8. ASSUME NEW p \in Dialers, Disconnect(p) PROVE SessionInv'
  BY <1>8, TrustConstants DEF Disconnect
<1>9. CASE UNCHANGED vars
  BY <1>9 DEF vars
<1> QED
  BY <1>2, <1>3, <1>4, <1>5, <1>6, <1>7, <1>8, <1>9 DEF Next, PeerStep

\* The files, the copies of them held by commands and by the agent, and the
\* sessions keep their shape, whatever interleaves.
THEOREM TypeCorrect == Spec => []TypeOK
<1>1. Init => SessionInv
  BY DEF Init, SessionInv, Down
<1>2. SessionInv /\ FilesInv => TypeOK
  BY DEF SessionInv, FilesInv, TypeOK
<1> QED BY <1>1, <1>2, SessionStep, FilesInvariant, PTL DEF Spec

-------------------------------------------------------------------------------
(* Consistency of the lists.                                               *)

ConsistentInv ==
    /\ ListsConsistent
    /\ \A c \in Commands : Carries(c) => Consistent(proc[c].list)

\* Each edit keeps a list consistent: a grant lifts the denial, a denial takes
\* every grant away.
LEMMA EditedConsistent ==
    ASSUME NEW l \in Lists, NEW p \in Peers, NEW op \in EditOps, Consistent(l)
    PROVE  Consistent(Edited(op, l, p))
<1> USE DEF Lists, Consistent
<1>1. Consistent(Allow(l, p))
  BY DEF Allow
<1>2. Consistent(AllowDesktop(l, p))
  BY DEF AllowDesktop
<1>3. Consistent(AllowGpuRemote(l, p))
  BY DEF AllowGpuRemote
<1>4. Consistent(Deny(l, p))
  BY DEF Deny
<1> HIDE DEF Consistent, Lists
<1> QED BY <1>1, <1>2, <1>3, <1>4 DEF EditOps, Edited

\* What the steps of a command do to the list and to the copies.
LEMMA CommandEffect ==
    ASSUME FilesInv, NEW c \in Commands, CommandStep(c)
    PROVE  /\ \A d \in Commands \ {c} : proc'[d] = proc[d]
           /\ \/ /\ list' = list
                 /\ Carries(c)' => \/ proc'[c].list = list
                                   \/ Carries(c) /\ proc'[c].list = proc[c].list
              \/ /\ list' = NoList \/ /\ Carries(c) /\ proc[c].op \in EditOps
                                      /\ list' = Edited(proc[c].op, proc[c].list,
                                                        proc[c].peer)
                 /\ ~Carries(c)'
<1> USE DEF FilesInv
<1>1. CASE ReadList(c)
  BY <1>1 DEF ReadList, Step, Carries
<1>2. CASE ReadPeers(c)
  <2>1. proc[c] \in Procs /\ proc[c].at = "listRead"
    BY <1>2 DEF ReadPeers
  <2>2. Carries(c)
    BY <2>1 DEF Procs, Carries, Idle
  <2> QED BY <2>2, <1>2 DEF ReadPeers, Step, Read, Carries
<1>3. CASE NotFound(c) \/ Abort(c)
  BY <1>3 DEF NotFound, Abort, Step, Carries, Idle
<1>4. CASE SavePeers(c)
  <2>1. CASE proc[c].op = "pair"
    BY <1>4, <2>1 DEF SavePeers, Step, Read, Carries, PeerOps
  <2>2. CASE proc[c].op # "pair"
    BY <1>4, <2>2 DEF SavePeers, Step, Carries, Idle
  <2> QED BY <2>1, <2>2
<1>5. CASE SaveList(c)
  <2>1. proc[c] \in Procs
    OBVIOUS
  <2>2. Carries(c) /\ proc[c].op \in EditOps
    BY <2>1, <1>5 DEF SaveList, Carries, EditOps, PeerOps, Procs, Idle
  <2> QED BY <2>2, <1>5 DEF SaveList, Step, Carries, Idle
<1>6. CASE InitWipe(c)
  BY <1>6 DEF InitWipe, Step, Carries
<1>7. CASE InitReadPeers(c)
  BY <1>7 DEF InitReadPeers, Step, Carries, PeerOps
<1> QED BY <1>1, <1>2, <1>3, <1>4, <1>5, <1>6, <1>7 DEF CommandStep

LEMMA ConsistentStep == FilesInv /\ ConsistentInv /\ [Next]_vars => ConsistentInv'
<1> SUFFICES ASSUME FilesInv, ConsistentInv, [Next]_vars PROVE ConsistentInv'
  OBVIOUS
<1> USE DEF ConsistentInv, ListsConsistent
<1>1. Consistent(NoList)
  BY DEF Consistent, NoList
<1>2. CASE UNCHANGED <<list, proc, agent>>
  BY <1>2 DEF Carries
<1>3. ASSUME NEW c \in Commands, CommandStep(c) PROVE ConsistentInv'
  <2>1. agent' = agent
    BY <1>3 DEF CommandStep, ReadList, ReadPeers, NotFound, SavePeers,
                SaveList, InitWipe, InitReadPeers, Abort, AgentSide
  <2>2. Carries(c) /\ proc[c].op \in EditOps
        => Consistent(Edited(proc[c].op, proc[c].list, proc[c].peer))
    BY CarriedType, EditedConsistent
  <2>3. Consistent(list')
    BY <1>1, <1>3, <2>2, CommandEffect
  <2>4. ASSUME NEW d \in Commands, Carries(d)' PROVE Consistent(proc'[d].list)
    <3>1. CASE d = c
      BY <1>3, <2>4, <3>1, CommandEffect
    <3>2. CASE d # c
      <4>1. proc'[d] = proc[d]
        BY <1>3, <3>2, CommandEffect
      <4> QED BY <2>4, <4>1 DEF Carries
    <3> QED BY <3>1, <3>2
  <2> QED BY <2>1, <2>3, <2>4
<1>4. CASE BootReadList
  BY <1>4 DEF BootReadList, FilesInv, Agents, Carries
<1>5. CASE BootReadPeers
  BY <1>5 DEF BootReadPeers, FilesInv, Agents, Carries
<1>6. CASE ShareStop
  BY <1>1, <1>6 DEF ShareStop, Down, Carries
<1>7. ASSUME NEW p \in Dialers, PeerStep(p) PROVE ConsistentInv'
  BY <1>2, <1>7 DEF PeerStep, Inbound, RunJob, DesktopRequest, GpuRemoteOpen,
                    Disconnect
<1>8. CASE UNCHANGED vars
  BY <1>2, <1>8 DEF vars
<1> QED BY <1>3, <1>4, <1>5, <1>6, <1>7, <1>8 DEF Next

LEMMA ConsistentInvariant == Spec => []ConsistentInv
<1>1. Init => ConsistentInv
  BY DEF Init, ConsistentInv, ListsConsistent, Consistent, NoList, Down,
         Carries, Idle
<1> QED BY <1>1, ConsistentStep, FilesInvariant, PTL DEF Spec

\* No interleaving of commands makes allowlist.json, or the agent's copy of
\* it, deny and grant the same peer, or allow the desktop without jobs.
THEOREM ListsConsistentHolds == Spec => []ListsConsistent
<1>1. ConsistentInv => ListsConsistent
  BY DEF ConsistentInv
<1> QED BY <1>1, ConsistentInvariant, PTL

-------------------------------------------------------------------------------
(* The commands and the agent implement Rights.                            *)

\* The edits change the rights of one peer as Rights says; granting to a
\* denied peer does so only because the list is consistent.
LEMMA EditedRights ==
    ASSUME NEW l \in Lists, NEW p \in Peers, NEW op \in EditOps, Consistent(l)
    PROVE  \/ \E caps \in Promise!Grants :
                  RightsIn(Edited(op, l, p))
                      = [RightsIn(l) EXCEPT ![p] = @ \cup caps]
           \/ RightsIn(Edited(op, l, p)) = [RightsIn(l) EXCEPT ![p] = {}]
<1> USE DEF Consistent, Lists, RightsIn, IsAllowed, IsDesktopAllowed,
            IsGpuRemoteAllowed
<1>0. \A m \in Lists, S \in SUBSET {"job", "desktop", "cuda"} :
          (\A q \in Peers : RightsIn(m)[q] =
              IF q = p THEN RightsIn(l)[q] \cup S ELSE RightsIn(l)[q])
          => RightsIn(m) = [RightsIn(l) EXCEPT ![p] = @ \cup S]
  <2> TAKE m \in Lists, S \in SUBSET {"job", "desktop", "cuda"}
  <2> HAVE \A q \in Peers : RightsIn(m)[q] =
              IF q = p THEN RightsIn(l)[q] \cup S ELSE RightsIn(l)[q]
  <2> DEFINE f == RightsIn(m)
             h == RightsIn(l)
  <2>1. f = [q \in Peers |-> f[q]] /\ h = [q \in Peers |-> h[q]]
    OBVIOUS
  <2>2. \A q \in Peers : f[q] = IF q = p THEN h[q] \cup S ELSE h[q]
    OBVIOUS
  <2> HIDE DEF f, h
  <2>3. f = [h EXCEPT ![p] = @ \cup S]
    BY <2>1, <2>2
  <2>4. QED BY <2>3 DEF f, h
<1>1. RightsIn(Allow(l, p))
          = [RightsIn(l) EXCEPT ![p] = @ \cup {"job"}]
  <2>1. Allow(l, p) \in Lists
    BY DEF Allow
  <2>2. ASSUME NEW q \in Peers
        PROVE  RightsIn(Allow(l, p))[q] =
                   IF q = p THEN RightsIn(l)[q] \cup {"job"} ELSE RightsIn(l)[q]
    BY DEF Allow
  <2>3. QED BY <1>0, <2>1, <2>2
<1>2. RightsIn(AllowDesktop(l, p))
          = [RightsIn(l) EXCEPT ![p] = @ \cup {"job", "desktop"}]
  <2>1. AllowDesktop(l, p) \in Lists
    BY DEF AllowDesktop
  <2>2. ASSUME NEW q \in Peers
        PROVE  RightsIn(AllowDesktop(l, p))[q] =
                   IF q = p THEN RightsIn(l)[q] \cup {"job", "desktop"} ELSE RightsIn(l)[q]
    BY DEF AllowDesktop
  <2>3. QED BY <1>0, <2>1, <2>2
<1>3. RightsIn(AllowGpuRemote(l, p))
          = [RightsIn(l) EXCEPT ![p] = @ \cup {"cuda"}]
  <2>1. AllowGpuRemote(l, p) \in Lists
    BY DEF AllowGpuRemote
  <2>2. ASSUME NEW q \in Peers
        PROVE  RightsIn(AllowGpuRemote(l, p))[q] =
                   IF q = p THEN RightsIn(l)[q] \cup {"cuda"} ELSE RightsIn(l)[q]
    BY DEF AllowGpuRemote
  <2>3. QED BY <1>0, <2>1, <2>2
<1>4. RightsIn(Deny(l, p)) = [RightsIn(l) EXCEPT ![p] = {}]
  BY DEF Deny
<1> HIDE DEF Consistent, Lists, RightsIn
<1> QED BY <1>1, <1>2, <1>3, <1>4 DEF EditOps, Edited, Promise!Grants

LEMMA NoRights == RightsIn(NoList) = Promise!Nothing
  BY DEF RightsIn, NoList, IsAllowed, IsDesktopAllowed, IsGpuRemoteAllowed,
         Promise!Nothing

\* A peer with a right is exactly an authorized one.
LEMMA AuthorizedHasRights ==
    ASSUME NEW p \in Peers PROVE Authorized(p) <=> RightsIn(agent.list)[p] # {}
  BY DEF Authorized, RightsIn

\* Open sessions belong to peers that the agent's list gives a right, and a
\* stopped agent has no list.
AgentInv ==
    /\ \A p \in Peers : session[p] = "open" => RightsIn(agent.list)[p] # {}
    /\ agent.at = "down" => agent = Down

LEMMA AgentStep == FilesInv /\ SessionInv /\ AgentInv /\ [Next]_vars => AgentInv'
<1> SUFFICES ASSUME FilesInv, SessionInv, AgentInv, [Next]_vars PROVE AgentInv'
  OBVIOUS
<1> USE DEF AgentInv
<1>1. CASE UNCHANGED <<agent, session>>
  BY <1>1 DEF RightsIn, IsAllowed, IsDesktopAllowed, IsGpuRemoteAllowed
<1>2. CASE \E c \in Commands : CommandStep(c)
  BY <1>1, <1>2 DEF CommandStep, ReadList, ReadPeers, NotFound, SavePeers,
                    SaveList, InitWipe, InitReadPeers, Abort, AgentSide
<1>3. CASE BootReadList \/ ShareStop
  <2>1. \A p \in Peers : session'[p] = "none"
    <3>1. CASE ShareStop
      BY <3>1 DEF ShareStop
    <3>2. CASE BootReadList
      <4>1. agent.at # "serving" /\ session' = session
        BY <3>2 DEF BootReadList
      <4> QED BY <4>1 DEF SessionInv
    <3> QED BY <1>3, <3>1, <3>2
  <2>2. agent'.at = "down" => agent' = Down
    BY <1>3 DEF BootReadList, ShareStop, FilesInv, Agents
  <2> QED BY <2>1, <2>2
<1>4. CASE BootReadPeers
  <2>1. agent'.list = agent.list /\ agent'.at = "serving" /\ session' = session
    BY <1>4 DEF BootReadPeers, FilesInv, Agents
  <2> QED BY <2>1 DEF RightsIn, IsAllowed, IsDesktopAllowed, IsGpuRemoteAllowed
<1>5. ASSUME NEW p \in Dialers, PeerStep(p) PROVE AgentInv'
  <2>1. agent' = agent /\ RightsIn(agent.list)' = RightsIn(agent.list)
    BY <1>5 DEF PeerStep, Inbound, RunJob, DesktopRequest, GpuRemoteOpen,
                Disconnect, RightsIn, IsAllowed, IsDesktopAllowed,
                IsGpuRemoteAllowed
  <2>2. \A q \in Peers : session'[q] = "open"
                         => session[q] = "open" \/ Authorized(q)
    BY <1>5, TrustConstants
       DEF PeerStep, Inbound, RunJob, DesktopRequest, GpuRemoteOpen,
           Disconnect, SessionInv
  <2> QED BY <2>1, <2>2, AuthorizedHasRights
<1>6. CASE UNCHANGED vars
  BY <1>1, <1>6 DEF vars
<1> QED BY <1>2, <1>3, <1>4, <1>5, <1>6 DEF Next

\* A command's step changes the rights of its peer, or of nobody, or wipes
\* them all.
LEMMA RefineCommand ==
    ASSUME FilesInv, ConsistentInv, NEW c \in Commands, CommandStep(c)
    PROVE  StaleSave \/ [Promise!Next]_(Promise!vars)
<1>1. UNCHANGED <<agent, session, using>>
  BY DEF CommandStep, ReadList, ReadPeers, NotFound, SavePeers, SaveList,
         InitWipe, InitReadPeers, Abort, AgentSide
<1>2. RightsIn(agent.list)' = RightsIn(agent.list)
  BY <1>1 DEF RightsIn, IsAllowed, IsDesktopAllowed, IsGpuRemoteAllowed
<1>3. CASE list' = list
  <2>1. RightsIn(list)' = RightsIn(list)
    BY <1>3 DEF RightsIn, IsAllowed, IsDesktopAllowed, IsGpuRemoteAllowed
  <2> QED BY <1>1, <1>2, <2>1 DEF Promise!vars
<1>4. CASE list' = NoList
  <2>1. RightsIn(list)' = Promise!Nothing
    BY <1>4, NoRights DEF RightsIn, IsAllowed, IsDesktopAllowed,
                          IsGpuRemoteAllowed
  <2> QED BY <1>1, <1>2, <2>1 DEF Promise!Next, Promise!Forget
<1>5. CASE SaveList(c) /\ proc[c].list = list
  <2> DEFINE p == proc[c].peer
             new == Edited(proc[c].op, list, p)
  <2>0. Carries(c) /\ proc[c].op \in EditOps
    <3>1. proc[c] \in Procs
      BY DEF FilesInv
    <3> QED BY <3>1, <1>5 DEF SaveList, Carries, EditOps, PeerOps, Procs, Idle
  <2>1. p \in Peers
    BY <2>0, CarriedType
  <2>2. list' = new
    BY <1>5 DEF SaveList
  <2>3. RightsIn(list)' = RightsIn(new)
    <3> HIDE DEF new
    <3> QED BY <2>2 DEF RightsIn, IsAllowed, IsDesktopAllowed,
                        IsGpuRemoteAllowed
  <2>4. \/ \E caps \in Promise!Grants :
               RightsIn(new) = [RightsIn(list) EXCEPT ![p] = @ \cup caps]
        \/ RightsIn(new) = [RightsIn(list) EXCEPT ![p] = {}]
    BY <2>0, <2>1, EditedRights
       DEF FilesInv, ConsistentInv, ListsConsistent
  <2> HIDE DEF new, p
  <2>5. Promise!Grant(p) \/ Promise!Revoke(p)
    BY <1>1, <1>2, <2>3, <2>4 DEF Promise!Grant, Promise!Revoke
  <2> QED BY <2>1, <2>5 DEF Promise!Next
<1>6. CASE SaveList(c) /\ proc[c].list # list
  BY <1>6 DEF StaleSave
<1>7. SaveList(c) \/ list' = list \/ list' = NoList
  BY DEF CommandStep, ReadList, ReadPeers, NotFound, SavePeers, InitWipe,
         InitReadPeers, Abort
<1> QED BY <1>3, <1>4, <1>5, <1>6, <1>7

\* The steps of a peer at the agent.
LEMMA RefinePeer ==
    ASSUME FilesInv, SessionInv, AgentInv, ConsistentInv,
           NEW p \in Dialers, PeerStep(p)
    PROVE  UnallowedJob \/ [Promise!Next]_(Promise!vars)
<1>1. p \in Peers
  BY TrustConstants
<1>2. UNCHANGED <<list, agent>>
  BY DEF PeerStep, Inbound, RunJob, DesktopRequest, GpuRemoteOpen, Disconnect
<1>3. UNCHANGED <<RightsIn(list), RightsIn(agent.list)>>
  BY <1>2 DEF RightsIn, IsAllowed, IsDesktopAllowed, IsGpuRemoteAllowed
<1>4. CASE Inbound(p)
  BY <1>3, <1>4 DEF Inbound, Promise!vars
<1>5. CASE Disconnect(p)
  BY <1>1, <1>3, <1>5 DEF Disconnect, Promise!Next, Promise!Leave
<1>6. ASSUME NEW r \in RightsIn(agent.list)[p], Open(p, r)
      PROVE  Promise!Next
  <2>1. Promise!Use(p)
    BY <1>3, <1>6 DEF Open, Promise!Use
  <2> QED BY <1>1, <2>1 DEF Promise!Next
<1>7. CASE RunJob(p)
  <2>1. RightsIn(agent.list)[p] # {}
    BY <1>1, <1>7 DEF RunJob, AgentInv
  <2>2. CASE "job" \in RightsIn(agent.list)[p]
    BY <1>6, <1>7, <2>2 DEF RunJob
  <2>3. CASE "job" \notin RightsIn(agent.list)[p]
    <3>1. "desktop" \notin RightsIn(agent.list)[p]
      BY <1>1, <2>3 DEF RightsIn, IsAllowed, IsDesktopAllowed, ConsistentInv,
                        ListsConsistent, Consistent
    <3>2. RightsIn(agent.list)[p] \subseteq {"job", "desktop", "cuda"}
      BY <1>1 DEF RightsIn
    <3>3. RightsIn(agent.list)[p] = {"cuda"}
      BY <2>1, <2>3, <3>1, <3>2
    <3> QED BY <1>7, <3>3 DEF UnallowedJob
  <2> QED BY <2>2, <2>3
<1>8. CASE DesktopRequest(p)
  <2>1. "desktop" \in RightsIn(agent.list)[p]
    BY <1>1, <1>8 DEF DesktopRequest, RightsIn
  <2> QED BY <1>6, <1>8, <2>1 DEF DesktopRequest
<1>9. CASE GpuRemoteOpen(p)
  <2>1. "cuda" \in RightsIn(agent.list)[p]
    BY <1>1, <1>9 DEF GpuRemoteOpen, RightsIn
  <2> QED BY <1>6, <1>9, <2>1 DEF GpuRemoteOpen
<1> QED BY <1>4, <1>5, <1>7, <1>8, <1>9 DEF PeerStep

\* The start and the stop of the agent.
LEMMA RefineAgent ==
    ASSUME FilesInv, SessionInv, AgentInv,
           BootReadList \/ BootReadPeers \/ ShareStop
    PROVE  [Promise!Next]_(Promise!vars)
<1>1. RightsIn(list)' = RightsIn(list)
  BY DEF BootReadList, BootReadPeers, ShareStop, RightsIn, IsAllowed,
         IsDesktopAllowed, IsGpuRemoteAllowed
<1>2. CASE BootReadList
  <2>1. agent.list = NoList /\ \A p \in Peers : using[p] = {}
    <3>1. agent.at # "serving" /\ agent = Down
      BY <1>2 DEF BootReadList, AgentInv
    <3>2. \A p \in Peers : session[p] = "none"
      BY <3>1 DEF SessionInv
    <3> QED BY <3>1, <3>2 DEF SessionInv, Down
  <2>2. using = Promise!Nothing
    BY <2>1 DEF SessionInv, Promise!Nothing
  <2>3. RightsIn(agent.list) = Promise!Nothing
    BY <2>1, NoRights
  <2>4. agent'.list = list
    BY <1>2 DEF BootReadList, FilesInv, Agents
  <2>5. RightsIn(agent.list)' = RightsIn(list)
    BY <2>4 DEF RightsIn, IsAllowed, IsDesktopAllowed, IsGpuRemoteAllowed
  <2> QED BY <1>1, <1>2, <2>2, <2>3, <2>5
          DEF BootReadList, Promise!Next, Promise!Start
<1>3. CASE BootReadPeers
  <2>1. agent'.list = agent.list
    BY <1>3 DEF BootReadPeers, FilesInv, Agents
  <2>2. RightsIn(agent.list)' = RightsIn(agent.list)
    BY <2>1 DEF RightsIn, IsAllowed, IsDesktopAllowed, IsGpuRemoteAllowed
  <2> QED BY <1>1, <1>3, <2>2 DEF BootReadPeers, Promise!vars
<1>4. CASE ShareStop
  <2>1. agent'.list = NoList /\ using' = Promise!Nothing
    BY <1>4 DEF ShareStop, Down, Promise!Nothing
  <2>2. RightsIn(agent.list)' = Promise!Nothing
    BY <2>1, NoRights DEF RightsIn, IsAllowed, IsDesktopAllowed,
                          IsGpuRemoteAllowed
  <2> QED BY <1>1, <2>1, <2>2 DEF Promise!Next, Promise!Stop
<1> QED BY <1>2, <1>3, <1>4

\* Every step changes exactly the rights of the peer it names, or lets a peer do
\* what the agent found it allowed, but for the two named exceptions
\* (node.rs:267-374, 472-490; remote.rs:460).
THEOREM RightsImplemented == Spec => ImplementsRights
<1>1. Init => Promise!Init
  <2> SUFFICES ASSUME Init PROVE Promise!Init
    OBVIOUS
  <2>1. agent.list = NoList /\ list = NoList /\ using = Promise!Nothing
    BY DEF Init, Down, Promise!Nothing
  <2> QED BY <2>1, NoRights DEF Promise!Init
<1>2. Init => SessionInv /\ AgentInv
  BY DEF Init, SessionInv, AgentInv, Down
<1>3. FilesInv /\ SessionInv /\ AgentInv /\ ConsistentInv /\ [Next]_vars
         => [StaleSave \/ UnallowedJob \/ Promise!Next]_(Promise!vars)
  <2> SUFFICES ASSUME FilesInv, SessionInv, AgentInv, ConsistentInv,
                      [Next]_vars
               PROVE  [StaleSave \/ UnallowedJob
                          \/ Promise!Next]_(Promise!vars)
    OBVIOUS
  <2>1. CASE UNCHANGED vars
    BY <2>1 DEF vars, Promise!vars, RightsIn, IsAllowed, IsDesktopAllowed,
                IsGpuRemoteAllowed
  <2>2. CASE Next
    BY <2>2, RefineCommand, RefinePeer, RefineAgent DEF Next
  <2> QED BY <2>1, <2>2
<1> QED
  BY <1>1, <1>2, <1>3, SessionStep, AgentStep, FilesInvariant,
     ConsistentInvariant, PTL DEF Spec, ImplementsRights
=============================================================================
