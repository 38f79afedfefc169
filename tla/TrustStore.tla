----------------------------- MODULE TrustStore -----------------------------
(***************************************************************************)
(* Who may use a provider: allowlist.json and peers.json, the commands     *)
(* that rewrite them, and the agent that serves by its own copy of them.   *)
(*                                                                         *)
(*   command   one `gpumesh ...` invocation or one dashboard request: each *)
(*             bootstraps a MeshNode, i.e. reads both files, changes its   *)
(*             copy and writes whole files back                            *)
(*   agent     `gpumesh share`: bootstraps once, authorizes every inbound  *)
(*             peer by its copy, and writes its copy of peers.json         *)
(*                                                                         *)
(* Nothing locks the files.  A peer is named by its node id.  Desktop and  *)
(* CUDA sharing are switched on; the config file is not modelled here.     *)
(***************************************************************************)
EXTENDS FiniteSets

CONSTANTS Peers,      \* remote nodes
          Dialers,    \* the remote nodes that ever dial in
          Commands,   \* command processes that may run at the same time
    Tried       \* the commands that are given about each peer

VARIABLES
    list,      \* allowlist.json
    known,     \* peers.json: the peers it has a record of
    proc,      \* the command processes
    agent,     \* the agent process
    session,   \* how the peer's last connection to the agent was answered
    using      \* what the peer has opened in its session

vars == <<list, known, proc, agent, session, using>>

PeerOps == {"pair", "allow", "desktop", "cuda", "deny", "connect"}

ASSUME TrustConstants ==
    /\ Dialers \subseteq Peers
    /\ Tried \in [Peers -> SUBSET PeerOps]

Lists   == [allowed : SUBSET Peers, denied  : SUBSET Peers,
            desktop : SUBSET Peers, cuda    : SUBSET Peers]

\* AllowList::default()
NoList == [allowed |-> {}, denied |-> {}, desktop |-> {}, cuda |-> {}]
Idle   == [at |-> "idle"]
Down   == [at |-> "down", list |-> NoList, known |-> {}]

Procs ==
    {Idle}
    \cup [at : {"listRead"}, op : PeerOps, peer : Peers, list : Lists]
    \cup [at : {"peersRead"}, op : PeerOps, peer : Peers, list : Lists,
          known : SUBSET Peers]
    \cup [at : {"peersSaved"}, op : {"pair"}, peer : Peers, list : Lists,
          known : SUBSET Peers]
    \cup [at : {"wiped"}, op : {"init"}]
    \cup [at : {"peersRead"}, op : {"init"}, known : SUBSET Peers]

Agents == [at : {"down", "listRead", "serving"}, list : Lists,
           known : SUBSET Peers]

TypeOK ==
    /\ list    \in Lists
    /\ known   \in SUBSET Peers
    /\ proc    \in [Commands -> Procs]
    /\ agent   \in Agents
    /\ session \in [Peers -> {"none", "open", "refused"}]
    /\ using   \in [Peers -> SUBSET {"job", "desktop", "cuda"}]
    /\ \A p \in Peers : /\ session[p] # "open" => using[p] = {}
                        /\ agent.at # "serving" => session[p] = "none"

Init ==
    /\ list    = NoList
    /\ known   = {}
    /\ proc    = [c \in Commands |-> Idle]
    /\ agent   = Down
    /\ session = [p \in Peers |-> "none"]
    /\ using   = [p \in Peers |-> {}]

-------------------------------------------------------------------------------
(* AllowList                                                               *)

IsAllowed(l, p)          == p \in l.allowed \ l.denied
IsDesktopAllowed(l, p)   == p \in l.desktop \ l.denied
IsGpuRemoteAllowed(l, p) == p \in l.cuda \ l.denied

Allow(l, p) == [l EXCEPT !.denied = @ \ {p}, !.allowed = @ \cup {p}]

\* Mutant of AllowDesktop: the denial is kept.
AllowDesktopKeepsDenial(l, p) ==
    [l EXCEPT !.desktop = @ \cup {p}, !.allowed = @ \cup {p}]

AllowDesktop(l, p) ==
    [l EXCEPT !.denied = @ \ {p}, !.desktop = @ \cup {p},
              !.allowed = @ \cup {p}]

AllowGpuRemote(l, p) == [l EXCEPT !.denied = @ \ {p}, !.cuda = @ \cup {p}]

\* Mutant of Deny: the CUDA entry stays, hidden behind the denial, until the
\* next allow lifts the denial.
DenyKeepsCuda(l, p) ==
    [allowed |-> l.allowed \ {p}, denied |-> l.denied \cup {p},
     desktop |-> l.desktop \ {p}, cuda   |-> l.cuda]

Deny(l, p) ==
    [allowed |-> l.allowed \ {p}, denied |-> l.denied \cup {p},
     desktop |-> l.desktop \ {p}, cuda   |-> l.cuda \ {p}]

\* The list a command writes back, from the one it read.
Edited(op, l, p) ==
    CASE op \in {"pair", "allow"} -> Allow(l, p)
      [] op = "desktop"           -> AllowDesktop(l, p)
      [] op = "cuda"              -> AllowGpuRemote(l, p)
      [] op = "deny"              -> Deny(l, p)

-------------------------------------------------------------------------------
(* Command processes.                                                      *)

Step(c, r)  == proc' = [proc EXCEPT ![c] = r]
\* A command's state once it has read peers.json as k.
Read(at, r, k) == [at |-> at, op |-> r.op, peer |-> r.peer, list |-> r.list,
                   known |-> k]
AgentSide   == <<agent, session, using>>

\* MeshNode::bootstrap reads the two files one after the other.
ReadList(c) ==
    /\ proc[c].at = "idle"
    /\ \E p \in Peers : \E op \in Tried[p] :
           Step(c, [at |-> "listRead", op |-> op, peer |-> p, list |-> list])
    /\ UNCHANGED <<list, known, AgentSide>>

ReadPeers(c) ==
    /\ proc[c].at = "listRead"
    /\ Step(c, Read("peersRead", proc[c], known))
    /\ UNCHANGED <<list, known, AgentSide>>

\* Every command but pair looks its peer up first: PeerNotFound.
NotFound(c) ==
    /\ proc[c].at = "peersRead" /\ proc[c].op \in PeerOps \ {"pair"}
    /\ proc[c].peer \notin proc[c].known
    /\ Step(c, Idle)
    /\ UNCHANGED <<list, known, AgentSide>>

\* pair_with_code upserts the record and saves peers.json, then goes on to the
\* allowlist; connect_peer saves its copy once the dial succeeded.
SavePeers(c) ==
    /\ proc[c].at = "peersRead"
    /\ \/ /\ proc[c].op = "pair"
          /\ known' = proc[c].known \cup {proc[c].peer}
          /\ Step(c, Read("peersSaved", proc[c], proc[c].known))
       \/ /\ proc[c].op = "connect" /\ proc[c].peer \in proc[c].known
          /\ known' = proc[c].known
          /\ Step(c, Idle)
       \/ /\ proc[c].op = "init"
          /\ known' = proc[c].known
          /\ Step(c, Idle)
    /\ UNCHANGED <<list, AgentSide>>

\* allow_peer, allow_desktop_peer, allow_gpu_remote_peer, deny_peer, and the
\* second half of pair_with_code.
SaveList(c) ==
    /\ \/ proc[c].at = "peersSaved"
       \/ /\ proc[c].at = "peersRead"
          /\ proc[c].op \in {"allow", "desktop", "cuda", "deny"}
          /\ proc[c].peer \in proc[c].known
    /\ list' = Edited(proc[c].op, proc[c].list, proc[c].peer)
    /\ Step(c, Idle)
    /\ UNCHANGED <<known, AgentSide>>

\* `gpumesh init`, also on a node that has been initialized before: a default
\* allowlist is written, peers.json is read and written back.
InitWipe(c) ==
    /\ proc[c].at = "idle"
    /\ list' = NoList
    /\ Step(c, [at |-> "wiped", op |-> "init"])
    /\ UNCHANGED <<known, AgentSide>>

InitReadPeers(c) ==
    /\ proc[c].at = "wiped"
    /\ Step(c, [at |-> "peersRead", op |-> "init", known |-> known])
    /\ UNCHANGED <<list, known, AgentSide>>

\* The command is interrupted.  A connect whose dial fails ends the same way.
Abort(c) ==
    /\ proc[c].at # "idle"
    /\ Step(c, Idle)
    /\ UNCHANGED <<list, known, AgentSide>>

-------------------------------------------------------------------------------
(* The agent.                                                              *)

BootReadList ==
    /\ agent.at = "down"
    /\ agent' = [agent EXCEPT !.at = "listRead", !.list = list]
    /\ UNCHANGED <<list, known, proc, session, using>>

BootReadPeers ==
    /\ agent.at = "listRead"
    /\ agent' = [agent EXCEPT !.at = "serving", !.known = known]
    /\ UNCHANGED <<list, known, proc, session, using>>

\* authorize_inbound: any right admits.
Authorized(p) ==
    \/ IsAllowed(agent.list, p)
    \/ IsDesktopAllowed(agent.list, p)
    \/ IsGpuRemoteAllowed(agent.list, p)

\* handle_inbound: an authorized peer's session begins with a save of the
\* agent's copy of peers.json; another peer is told Error and closed.
Inbound(p) ==
    /\ agent.at = "serving" /\ session[p] # "open"
    /\ IF Authorized(p)
       THEN /\ session' = [session EXCEPT ![p] = "open"]
            /\ known'   = agent.known
       ELSE /\ session' = [session EXCEPT ![p] = "refused"]
            /\ UNCHANGED known
    /\ UNCHANGED <<list, proc, agent, using>>

Open(p, capability) == using' = [using EXCEPT ![p] = @ \cup {capability}]

\* RunJob asks nothing more of the peer than its session.
RunJob(p) ==
    /\ session[p] = "open"
    /\ Open(p, "job")
    /\ UNCHANGED <<list, known, proc, agent, session>>

DesktopRequest(p) ==
    /\ session[p] = "open" /\ IsDesktopAllowed(agent.list, p)
    /\ Open(p, "desktop")
    /\ UNCHANGED <<list, known, proc, agent, session>>

GpuRemoteOpen(p) ==
    /\ session[p] = "open" /\ IsGpuRemoteAllowed(agent.list, p)
    /\ Open(p, "cuda")
    /\ UNCHANGED <<list, known, proc, agent, session>>

Disconnect(p) ==
    /\ session[p] # "none"
    /\ session' = [session EXCEPT ![p] = "none"]
    /\ using'   = [using EXCEPT ![p] = {}]
    /\ UNCHANGED <<list, known, proc, agent>>

ShareStop ==
    /\ agent.at = "serving"
    /\ agent'   = Down
    /\ session' = [p \in Peers |-> "none"]
    /\ using'   = [p \in Peers |-> {}]
    /\ UNCHANGED <<list, known, proc>>

-------------------------------------------------------------------------------

CommandStep(c) ==
    \/ ReadList(c)  \/ ReadPeers(c) \/ NotFound(c)      \/ SavePeers(c)
    \/ SaveList(c)  \/ InitWipe(c)  \/ InitReadPeers(c) \/ Abort(c)

PeerStep(p) ==
    \/ Inbound(p) \/ RunJob(p) \/ DesktopRequest(p) \/ GpuRemoteOpen(p)
    \/ Disconnect(p)

Next ==
    \/ \E c \in Commands : CommandStep(c)
    \/ \E p \in Dialers : PeerStep(p)
    \/ BootReadList \/ BootReadPeers \/ ShareStop

Spec == Init /\ [][Next]_vars

-------------------------------------------------------------------------------
(* Properties.                                                             *)

RightsIn(l) ==
    [p \in Peers |-> {r \in {"job", "desktop", "cuda"} :
        \/ r = "job"     /\ IsAllowed(l, p)
        \/ r = "desktop" /\ IsDesktopAllowed(l, p)
        \/ r = "cuda"    /\ IsGpuRemoteAllowed(l, p)}]

Consistent(l) ==
    /\ l.denied \cap (l.allowed \cup l.desktop \cup l.cuda) = {}
    /\ l.desktop \subseteq l.allowed

\* However commands overlap, no list on disk or in the agent holds a peer
\* both as denied and as granted (so lifting a denial cannot bring an old
\* right back), and a desktop peer is always a job peer
\* (gpumesh-security/src/lib.rs:371-398).
ListsConsistent == Consistent(list) /\ Consistent(agent.list)

Promise == INSTANCE Rights WITH
    rights   <- RightsIn(list),
    enforced <- RightsIn(agent.list)

\* A command writes back a list that another one has replaced since it read it.
StaleSave == \E c \in Commands : SaveList(c) /\ proc[c].list # list

\* A peer that was allowed CUDA only runs a job.
UnallowedJob ==
    \E p \in Dialers : RunJob(p) /\ RightsIn(agent.list)[p] = {"cuda"}

\* Whatever commands, interruptions, peers and agent restarts do in between,
\* every step changes exactly the rights of the peer it names, or lets a peer
\* do what the agent found it allowed when it started; with two exceptions:
\* commands that overlap undo each other (node.rs:267-374), and a peer that is
\* allowed CUDA only may run jobs as well (remote.rs:460; node.rs:350 says
\* "jobs still require job allow separately").
ImplementsRights ==
    Promise!Init /\ [][StaleSave \/ UnallowedJob \/ Promise!Next]_(Promise!vars)

\* README.md:217 says of deny "Revoke access (jobs, desktop, CUDA remoting)":
\* a peer that is denied on disk is not admitted.
DenyRevokes ==
    [][\A p \in Peers : session[p] # "open" /\ session'[p] = "open"
                        => p \notin list.denied]_vars

=============================================================================
