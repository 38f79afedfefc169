-------------------------------- MODULE Groups --------------------------------
(***************************************************************************)
(* Groups of nodes: the `gpumesh group` commands, invites, and the join    *)
(* notices that members send to the owner's agent.                         *)
(*                                                                         *)
(*   gpumesh-storage/src/groups.rs       groups.json and what edits it     *)
(*   gpumesh-cli/src/group.rs            the commands                      *)
(*   gpumesh-core/src/remote.rs          the owner's handler of a notice   *)
(*                                                                         *)
(* Every node has a file of its own with the groups it knows; a command or *)
(* a handler reads the whole file, edits its copy and writes it back, and  *)
(* nothing locks the file.  The id of a group is made of its owner and its *)
(* name, and the file has one group per name, whoever owns it.             *)
(***************************************************************************)
EXTENDS Naturals

CONSTANTS
    Nodes,
    Names,        \* names of groups, different also in lower case
    PairedWith,   \* the peers each node has a record of
    Workers,      \* commands and handlers that may be at work on one node
    Overlaps,     \* whether they overlap, or the two possibilities
    MaxCommands   \* bound: commands that are started, by overlap

ASSUME GroupsAssumption ==
    /\ PairedWith \in [Nodes -> SUBSET Nodes]
    /\ Overlaps \subseteq BOOLEAN
    /\ MaxCommands \in [BOOLEAN -> Nat]
    /\ "none" \notin Nodes

VARIABLES
    overlap,   \* do the workers of a node overlap in this behaviour?
    file,      \* groups.json of each node
    proc,      \* the workers of each node, with their copies of the file
    invites,   \* invites that are still valid, as <<owner, name>>
    notices,   \* join notices on their way
    used,      \* history: <<m, n, g>> if m has used an invite for n's g
    added,     \* history: <<n, g, m>> if m was added to g by a command on n
    commands   \* commands so far

vars == <<overlap, file, proc, invites, notices, used, added, commands>>

Group   == [owner : Nodes, members : SUBSET Nodes]
NoGroup == [owner |-> "none", members |-> {}]
File    == [Names -> Group \cup {NoGroup}]
Notice  == [from : Nodes, owner : Nodes, name : Names]

Ops  == {"create", "add", "remove", "delete", "join", "notice"}
Idle == [at |-> "idle"]
\* The file was read; a deletion has looked who the owner is; the owner of a
\* group that was joined is to be notified.
Loaded  == [at : {"loaded"}, op : Ops, name : Names, who : Nodes, copy : File]
Checked == [at : {"checked"}, name : Names]
Joined  == [at : {"joined"}, name : Names, who : Nodes]

TypeOK ==
    /\ overlap \in Overlaps
    /\ file \in [Nodes -> File]
    /\ proc \in [Nodes -> [Workers -> {Idle} \cup Loaded \cup Checked \cup Joined]]
    /\ invites \subseteq Nodes \X Names
    /\ notices \subseteq Notice
    /\ used \subseteq Nodes \X Nodes \X Names
    /\ added \subseteq Nodes \X Names \X Nodes
    /\ commands \in 0..MaxCommands[overlap]

Init ==
    /\ overlap \in Overlaps
    /\ file = [n \in Nodes |-> [g \in Names |-> NoGroup]]
    /\ proc = [n \in Nodes |-> [w \in Workers |-> Idle]]
    /\ invites = {} /\ notices = {} /\ used = {} /\ added = {}
    /\ commands = 0

-------------------------------------------------------------------------------
(* Reading the file.                                                       *)

Goes(n, w, p) == proc' = [proc EXCEPT ![n][w] = p]
MayStart(n, w) ==
    /\ proc[n][w] = Idle
    /\ overlap \/ \A v \in Workers : proc[n][v] = Idle
Counted == commands < MaxCommands[overlap] /\ commands' = commands + 1

Loads(n, w, op, g, m) ==
    Goes(n, w, [at |-> "loaded", op |-> op, name |-> g, who |-> m,
                copy |-> file[n]])

StartCreate(n, w, g) ==
    /\ MayStart(n, w) /\ Counted
    /\ Loads(n, w, "create", g, n)
    /\ UNCHANGED <<overlap, file, invites, notices, used, added>>

\* The peer must be paired; the group may be anybody's.
StartAdd(n, w, g, m) ==
    /\ MayStart(n, w) /\ Counted /\ m \in PairedWith[n]
    /\ Loads(n, w, "add", g, m)
    /\ added' = added \cup {<<n, g, m>>}
    /\ UNCHANGED <<overlap, file, invites, notices, used>>

StartRemove(n, w, g, m) ==
    /\ MayStart(n, w) /\ Counted
    /\ Loads(n, w, "remove", g, m)
    /\ UNCHANGED <<overlap, file, invites, notices, used, added>>

\* Only the owner deletes: the command looks, and then reads the file again.
StartDelete(n, w, g) ==
    /\ MayStart(n, w) /\ Counted
    /\ file[n][g].owner = n
    /\ Goes(n, w, [at |-> "checked", name |-> g])
    /\ UNCHANGED <<overlap, file, invites, notices, used, added>>

ReloadDelete(n, w) ==
    /\ proc[n][w].at = "checked"
    /\ Loads(n, w, "delete", proc[n][w].name, n)
    /\ UNCHANGED <<overlap, file, invites, notices, used, added, commands>>

\* An invite is signed for the group as it is now; nothing is written.
Invite(n, g) ==
    /\ Counted
    /\ file[n][g].owner = n
    /\ invites' = invites \cup {<<n, g>>}
    /\ UNCHANGED <<overlap, file, proc, notices, used, added>>

ExpireInvite(i) ==
    /\ invites' = invites \ {i}
    /\ UNCHANGED <<overlap, file, proc, notices, used, added, commands>>

\* `group join`: the invite is decoded and verified, then the file is read.
StartJoin(n, w, i) ==
    /\ MayStart(n, w) /\ Counted
    /\ Loads(n, w, "join", i[2], i[1])
    /\ used' = used \cup {<<n, i[1], i[2]>>}
    /\ UNCHANGED <<overlap, file, invites, notices, added>>

\* The owner's agent gets a notice that the member has signed.
ReceiveNotice(x, w) ==
    /\ MayStart(x.owner, w)
    /\ notices' = notices \ {x}
    /\ Loads(x.owner, w, "notice", x.name, x.from)
    /\ UNCHANGED <<overlap, file, invites, used, added, commands>>

-------------------------------------------------------------------------------
(* Editing the copy and writing it back.                                   *)

Busy(n, w, op) == proc[n][w].at = "loaded" /\ proc[n][w].op = op

\* Write group r in the place of the worker's group, with the rest of its copy.
Writes(n, w, r) ==
    file' = [file EXCEPT ![n] = [proc[n][w].copy EXCEPT ![proc[n][w].name] = r]]
Found(n, w)   == proc[n][w].copy[proc[n][w].name]
With(r, m)    == [r EXCEPT !.members = @ \cup {m}]
Without(r, m) == [r EXCEPT !.members = @ \ {m}]

\* A group of that name, or its absence, is an error; a member that is there
\* already is none, but then nothing is written.
Create(n, w) ==
    /\ Busy(n, w, "create")
    /\ IF Found(n, w) = NoGroup
       THEN Writes(n, w, [owner |-> n, members |-> {n}]) ELSE UNCHANGED file
    /\ Goes(n, w, Idle)
    /\ UNCHANGED <<overlap, invites, notices, used, added, commands>>

AddMember(n, w) ==
    /\ Busy(n, w, "add")
    /\ IF Found(n, w) # NoGroup /\ proc[n][w].who \notin Found(n, w).members
       THEN Writes(n, w, With(Found(n, w), proc[n][w].who)) ELSE UNCHANGED file
    /\ Goes(n, w, Idle)
    /\ UNCHANGED <<overlap, invites, notices, used, added, commands>>

RemoveMember(n, w) ==
    /\ Busy(n, w, "remove")
    /\ IF Found(n, w) # NoGroup /\ proc[n][w].who # Found(n, w).owner
       THEN Writes(n, w, Without(Found(n, w), proc[n][w].who)) ELSE UNCHANGED file
    /\ Goes(n, w, Idle)
    /\ UNCHANGED <<overlap, invites, notices, used, added, commands>>

Delete(n, w) ==
    /\ Busy(n, w, "delete")
    /\ IF Found(n, w) # NoGroup THEN Writes(n, w, NoGroup) ELSE UNCHANGED file
    /\ Goes(n, w, Idle)
    /\ UNCHANGED <<overlap, invites, notices, used, added, commands>>

Joining(n, w) == [owner |-> proc[n][w].who, members |-> {proc[n][w].who, n}]
AfterJoin(n, w) ==
    IF proc[n][w].who \in PairedWith[n]
    THEN [at |-> "joined", name |-> proc[n][w].name, who |-> proc[n][w].who]
    ELSE Idle

\* Mutant: the record of the invite replaces what is known of the name.
JoinReplaces(n, w) ==
    /\ Busy(n, w, "join")
    /\ Writes(n, w, Joining(n, w))
    /\ Goes(n, w, AfterJoin(n, w))
    /\ UNCHANGED <<overlap, invites, notices, used, added, commands>>

\* Mutant: what the invite says is merged into the group that is known.
JoinMerges(n, w) ==
    /\ Busy(n, w, "join")
    /\ IF Found(n, w) = NoGroup THEN Writes(n, w, Joining(n, w))
       ELSE Writes(n, w, With(With(Found(n, w), n), proc[n][w].who))
    /\ Goes(n, w, AfterJoin(n, w))
    /\ UNCHANGED <<overlap, invites, notices, used, added, commands>>

\* The node enters itself into the group of that name that it knows, whoever
\* owns it, or else stores the group of the invite.
Join(n, w) ==
    /\ Busy(n, w, "join")
    /\ \/ /\ Found(n, w) # NoGroup /\ n \in Found(n, w).members
          /\ UNCHANGED file
       \/ /\ Found(n, w) # NoGroup /\ n \notin Found(n, w).members
          /\ Writes(n, w, With(Found(n, w), n))
       \/ /\ Found(n, w) = NoGroup
          /\ Writes(n, w, Joining(n, w))
    /\ Goes(n, w, AfterJoin(n, w))
    /\ UNCHANGED <<overlap, invites, notices, used, added, commands>>

\* The owner is dialled and told; it may not be there.
NotifyOwner(n, w) ==
    /\ proc[n][w].at = "joined"
    /\ \/ notices' = notices \cup {[from |-> n, owner |-> proc[n][w].who,
                                    name |-> proc[n][w].name]}
       \/ UNCHANGED notices
    /\ Goes(n, w, Idle)
    /\ UNCHANGED <<overlap, file, invites, used, added, commands>>

\* The connection is closed behind the notice, or the owner does not admit the
\* member.
LoseNotice(x) ==
    /\ notices' = notices \ {x}
    /\ UNCHANGED <<overlap, file, proc, invites, used, added, commands>>

\* Mutant: a notice brings back a group that was deleted.
HandleNoticeRevives(n, w) ==
    /\ Busy(n, w, "notice")
    /\ IF Found(n, w) = NoGroup
       THEN Writes(n, w, [owner |-> n, members |-> {n, proc[n][w].who}])
       ELSE IF Found(n, w).owner = n
       THEN Writes(n, w, With(Found(n, w), proc[n][w].who)) ELSE UNCHANGED file
    /\ Goes(n, w, Idle)
    /\ UNCHANGED <<overlap, invites, notices, used, added, commands>>

HandleNotice(n, w) ==
    /\ Busy(n, w, "notice")
    /\ IF Found(n, w).owner = n /\ proc[n][w].who \notin Found(n, w).members
       THEN Writes(n, w, With(Found(n, w), proc[n][w].who)) ELSE UNCHANGED file
    /\ Goes(n, w, Idle)
    /\ UNCHANGED <<overlap, invites, notices, used, added, commands>>

\* The process is interrupted.
Abort(n, w) ==
    /\ proc[n][w] # Idle
    /\ Goes(n, w, Idle)
    /\ UNCHANGED <<overlap, file, invites, notices, used, added, commands>>

-------------------------------------------------------------------------------
Start(n, w) ==
    \/ \E g \in Names : StartCreate(n, w, g) \/ StartDelete(n, w, g)
    \/ \E g \in Names, m \in Nodes : StartAdd(n, w, g, m) \/ StartRemove(n, w, g, m)
    \/ \E i \in invites : StartJoin(n, w, i)

Finish(n, w) ==
    \/ Create(n, w) \/ AddMember(n, w) \/ RemoveMember(n, w) \/ Delete(n, w)
    \/ Join(n, w) \/ HandleNotice(n, w)

Next ==
    \/ \E n \in Nodes, w \in Workers :
          \/ Start(n, w) \/ ReloadDelete(n, w) \/ Finish(n, w)
          \/ NotifyOwner(n, w) \/ Abort(n, w)
    \/ \E n \in Nodes, g \in Names : Invite(n, g)
    \/ \E i \in invites : ExpireInvite(i)
    \/ \E x \in notices : LoseNotice(x) \/ \E w \in Workers : ReceiveNotice(x, w)

Spec == Init /\ [][Next]_vars

-------------------------------------------------------------------------------
(* Properties.                                                             *)

\* Why m may be in group r, called g, in the file of n: it is the owner; or a
\* command on n added it; or it has used an invite, and r is known to be its
\* own or its owner's record.
Reason(m, n, g, r) ==
    \/ m = r.owner
    \/ <<n, g, m>> \in added
    \/ m = n /\ <<n, r.owner, g>> \in used
    \/ n = r.owner /\ <<m, n, g>> \in used

\* However notices, commands, deletions and new groups of the same name
\* interleave, a group has its owner in it and nobody without one of these
\* reasons: late notices and stale copies put nobody into a group of somebody
\* else (group.rs:137-219, groups.rs:158-165, remote.rs:553-568).
OnlyInvited ==
    \A n \in Nodes, g \in Names : file[n][g] # NoGroup =>
        /\ file[n][g].owner \in file[n][g].members
        /\ \A m \in file[n][g].members : Reason(m, n, g, file[n][g])

\* A node keeps what it knows of another node's group, whatever it joins,
\* creates or deletes, if its commands do not overlap (group.rs:137-169,
\* 220-234).
JoinedStays ==
    [][\A n \in Nodes, g \in Names :
          ~overlap /\ file[n][g].owner \in Nodes \ {n}
          => file'[n][g].owner = file[n][g].owner]_vars

\* To its owner, a group is what Membership says, if the owner's commands and
\* handlers do not overlap.
OwnMembers ==
    [n \in Nodes |-> [g \in Names |->
        IF file[n][g].owner = n THEN file[n][g].members ELSE {}]]
Promise == INSTANCE Membership WITH
    members <- OwnMembers, open <- invites, accepted <- used, chosen <- added
GroupStepsAreMembership ==
    [][overlap \/ Promise!Next \/ UNCHANGED Promise!vars]_vars
===============================================================================
