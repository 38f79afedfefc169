----------------------------- MODULE GroupsProofs -----------------------------
(***************************************************************************)
(* Theorems about Groups, for any nodes, names, workers and number of      *)
(* commands.                                                               *)
(***************************************************************************)
EXTENDS Groups, TLAPS

Groups0 == Group \cup {NoGroup}
WorkerStates == {Idle} \cup Loaded \cup Checked \cup Joined

-------------------------------------------------------------------------------
(* Types.                                                                  *)

\* What a worker is, by where it stands.
LEMMA WorkerType ==
  ASSUME TypeOK, NEW n \in Nodes, NEW w \in Workers
  PROVE  /\ proc[n][w] \in WorkerStates
         /\ proc[n][w].at = "loaded" => proc[n][w] \in Loaded
         /\ proc[n][w].at = "checked" => proc[n][w].name \in Names
         /\ proc[n][w].at = "joined" => /\ proc[n][w].name \in Names
                                        /\ proc[n][w].who \in Nodes
<1>1. proc[n][w] \in WorkerStates
  BY DEF TypeOK, WorkerStates
<1>2. QED
  BY <1>1 DEF WorkerStates, Loaded, Checked, Joined, Idle

LEMMA LoadedFields ==
  ASSUME TypeOK, NEW n \in Nodes, NEW w \in Workers, proc[n][w].at = "loaded"
  PROVE  /\ proc[n][w].name \in Names /\ proc[n][w].who \in Nodes
         /\ proc[n][w].copy \in File /\ Found(n, w) \in Groups0
         /\ proc[n][w].op \in Ops
<1>1. proc[n][w] \in Loaded
  BY WorkerType
<1>2. QED
  BY <1>1 DEF Loaded, File, Found, Groups0

\* A step of a worker to a state of workers keeps the type of proc.
LEMMA GoesType ==
  ASSUME TypeOK, NEW n \in Nodes, NEW w \in Workers, NEW p \in WorkerStates,
         Goes(n, w, p)
  PROVE  proc' \in [Nodes -> [Workers -> WorkerStates]]
BY DEF Goes, TypeOK, WorkerStates

LEMMA LoadsType ==
  ASSUME TypeOK, NEW n \in Nodes, NEW w \in Workers, NEW op \in Ops,
         NEW g \in Names, NEW m \in Nodes, Loads(n, w, op, g, m)
  PROVE  proc' \in [Nodes -> [Workers -> WorkerStates]]
<1>1. [at |-> "loaded", op |-> op, name |-> g, who |-> m, copy |-> file[n]]
        \in WorkerStates
  BY DEF WorkerStates, Loaded, TypeOK
<1>2. QED
  BY <1>1, GoesType DEF Loads

\* What is put into the place of a worker's group.
LEMMA NewGroupType ==
  ASSUME TypeOK, NEW n \in Nodes, NEW w \in Workers, proc[n][w].at = "loaded"
  PROVE  /\ [owner |-> n, members |-> {n}] \in Group
         /\ Joining(n, w) \in Group
         /\ Found(n, w) # NoGroup =>
              /\ Found(n, w) \in Group
              /\ \A m \in Nodes : /\ With(Found(n, w), m) \in Group
                                  /\ Without(Found(n, w), m) \in Group
<1>1. proc[n][w].who \in Nodes /\ Found(n, w) \in Groups0
  BY LoadedFields
<1>2. QED
  BY <1>1 DEF Group, Groups0, Joining, With, Without

LEMMA WritesType ==
  ASSUME TypeOK, NEW n \in Nodes, NEW w \in Workers, proc[n][w].at = "loaded",
         NEW r \in Groups0, Writes(n, w, r)
  PROVE  file' \in [Nodes -> File]
<1>1. proc[n][w].copy \in File /\ proc[n][w].name \in Names
  BY LoadedFields
<1>2. [proc[n][w].copy EXCEPT ![proc[n][w].name] = r] \in File
  BY <1>1 DEF File, Groups0
<1>3. QED
  BY <1>2 DEF Writes, TypeOK

\* All that an edit does: it writes one group of its copy, or nothing.
LEMMA FinishWrites ==
  ASSUME TypeOK, NEW n \in Nodes, NEW w \in Workers, Finish(n, w)
  PROVE  /\ proc[n][w].at = "loaded"
         /\ \/ UNCHANGED file
            \/ \E r \in Groups0 : Writes(n, w, r)
         /\ \/ Goes(n, w, Idle)
            \/ proc[n][w].op = "join" /\ Goes(n, w, AfterJoin(n, w))
         /\ UNCHANGED <<overlap, invites, notices, used, added, commands>>
<1>1. proc[n][w].at = "loaded"
  BY DEF Finish, Create, AddMember, RemoveMember, Delete, Join, HandleNotice, Busy
<1>2. Found(n, w) \in Groups0 /\ proc[n][w].who \in Nodes
  BY <1>1, LoadedFields
<1>3. Found(n, w) = NoGroup \/ Found(n, w) \in Group
  BY <1>2 DEF Groups0
<1>4. Found(n, w).owner = n => Found(n, w) # NoGroup
  BY GroupsAssumption DEF NoGroup
<1> HIDE DEF NoGroup
<1>5. CASE Create(n, w)
  <2>1. [owner |-> n, members |-> {n}] \in Groups0
    BY <1>1, NewGroupType DEF Groups0
  <2>2. QED BY <1>1, <1>5, <2>1 DEF Create
<1>6. CASE AddMember(n, w)
  <2>1. Found(n, w) # NoGroup => With(Found(n, w), proc[n][w].who) \in Groups0
    BY <1>1, <1>2, NewGroupType DEF Groups0
  <2>2. QED BY <1>1, <1>6, <2>1 DEF AddMember
<1>7. CASE RemoveMember(n, w)
  <2>1. Found(n, w) # NoGroup => Without(Found(n, w), proc[n][w].who) \in Groups0
    BY <1>1, <1>2, NewGroupType DEF Groups0
  <2>2. QED BY <1>1, <1>7, <2>1 DEF RemoveMember
<1>8. CASE Delete(n, w)
  <2>1. NoGroup \in Groups0
    BY DEF Groups0
  <2>2. QED BY <1>1, <1>8, <2>1 DEF Delete
<1>9. CASE Join(n, w)
  <2>1. /\ Joining(n, w) \in Groups0
        /\ Found(n, w) # NoGroup => With(Found(n, w), n) \in Groups0
    BY <1>1, NewGroupType DEF Groups0
  <2>2. QED BY <1>1, <1>9, <2>1 DEF Join, Busy
<1>10. CASE HandleNotice(n, w)
  <2>1. Found(n, w) # NoGroup => With(Found(n, w), proc[n][w].who) \in Groups0
    BY <1>1, <1>2, NewGroupType DEF Groups0
  <2>2. QED BY <1>1, <1>4, <1>10, <2>1 DEF HandleNotice
<1>11. QED
  BY <1>5, <1>6, <1>7, <1>8, <1>9, <1>10 DEF Finish

LEMMA StartType ==
  ASSUME TypeOK, NEW n \in Nodes, NEW w \in Workers, Start(n, w)
  PROVE  TypeOK'
<1> USE GroupsAssumption
<1>1. UNCHANGED <<overlap, file, invites, notices>>
  BY DEF Start, StartCreate, StartAdd, StartRemove, StartDelete, StartJoin
<1>2. commands' \in 0..MaxCommands[overlap]
  <2>1. Counted
    BY DEF Start, StartCreate, StartAdd, StartRemove, StartDelete, StartJoin
  <2>2. QED BY <2>1 DEF Counted, TypeOK
<1>3. used' \subseteq Nodes \X Nodes \X Names
      /\ added' \subseteq Nodes \X Names \X Nodes
  <2>1. \/ UNCHANGED used
        \/ \E i \in invites : used' = used \cup {<<n, i[1], i[2]>>}
    BY DEF Start, StartCreate, StartAdd, StartRemove, StartDelete, StartJoin
  <2>2. \/ UNCHANGED added
        \/ \E g \in Names, m \in Nodes : added' = added \cup {<<n, g, m>>}
    BY DEF Start, StartCreate, StartAdd, StartRemove, StartDelete, StartJoin
  <2>3. used \subseteq Nodes \X Nodes \X Names /\ added \subseteq Nodes \X Names \X Nodes
        /\ \A i \in invites : i[1] \in Nodes /\ i[2] \in Names
    BY DEF TypeOK
  <2>4. QED BY <2>1, <2>2, <2>3
<1>4. proc' \in [Nodes -> [Workers -> WorkerStates]]
  <2>1. ASSUME NEW g \in Names, StartCreate(n, w, g)
        PROVE  proc' \in [Nodes -> [Workers -> WorkerStates]]
    BY <2>1, LoadsType DEF StartCreate, Ops
  <2>2. ASSUME NEW g \in Names, NEW m \in Nodes,
               StartAdd(n, w, g, m) \/ StartRemove(n, w, g, m)
        PROVE  proc' \in [Nodes -> [Workers -> WorkerStates]]
    BY <2>2, LoadsType DEF StartAdd, StartRemove, Ops
  <2>3. ASSUME NEW g \in Names, StartDelete(n, w, g)
        PROVE  proc' \in [Nodes -> [Workers -> WorkerStates]]
    <3>1. [at |-> "checked", name |-> g] \in WorkerStates
      BY DEF WorkerStates, Checked
    <3>2. QED BY <2>3, <3>1, GoesType DEF StartDelete
  <2>4. ASSUME NEW i \in invites, StartJoin(n, w, i)
        PROVE  proc' \in [Nodes -> [Workers -> WorkerStates]]
    <3>1. i[1] \in Nodes /\ i[2] \in Names
      BY DEF TypeOK
    <3>2. QED BY <2>4, <3>1, LoadsType DEF StartJoin, Ops
  <2>5. QED BY <2>1, <2>2, <2>3, <2>4 DEF Start
<1>5. QED
  BY <1>1, <1>2, <1>3, <1>4 DEF TypeOK, WorkerStates

LEMMA InitType == Init => TypeOK
BY GroupsAssumption DEF Init, TypeOK, File, NoGroup

\* The steps that neither start nor finish an edit.
LEMMA OtherType ==
  ASSUME TypeOK,
         \/ \E n \in Nodes, w \in Workers :
               ReloadDelete(n, w) \/ NotifyOwner(n, w) \/ Abort(n, w)
         \/ \E n \in Nodes, g \in Names : Invite(n, g)
         \/ \E i \in invites : ExpireInvite(i)
         \/ \E x \in notices : LoseNotice(x) \/ \E w \in Workers : ReceiveNotice(x, w)
  PROVE  TypeOK'
<1>1. ASSUME NEW n \in Nodes, NEW w \in Workers, ReloadDelete(n, w) PROVE TypeOK'
  <2>1. proc' \in [Nodes -> [Workers -> WorkerStates]]
    BY <1>1, WorkerType, LoadsType DEF ReloadDelete, Ops
  <2>2. QED BY <1>1, <2>1 DEF ReloadDelete, TypeOK, WorkerStates
<1>2. ASSUME NEW n \in Nodes, NEW w \in Workers, NotifyOwner(n, w) PROVE TypeOK'
  <2>1. proc' \in [Nodes -> [Workers -> WorkerStates]]
    BY <1>2, GoesType DEF NotifyOwner, WorkerStates
  <2>2. notices' \subseteq Notice
    <3> DEFINE x == [from |-> n, owner |-> proc[n][w].who, name |-> proc[n][w].name]
    <3>1. proc[n][w].name \in Names /\ proc[n][w].who \in Nodes
      BY <1>2, WorkerType DEF NotifyOwner
    <3>2. x \in Notice
      BY <3>1 DEF Notice
    <3>3. notices' = notices \cup {x} \/ notices' = notices
      BY <1>2 DEF NotifyOwner
    <3> HIDE DEF x
    <3>4. QED BY <3>2, <3>3 DEF TypeOK
  <2>3. QED BY <1>2, <2>1, <2>2 DEF NotifyOwner, TypeOK, WorkerStates
<1>3. ASSUME NEW n \in Nodes, NEW w \in Workers, Abort(n, w) PROVE TypeOK'
  <2>1. proc' \in [Nodes -> [Workers -> WorkerStates]]
    BY <1>3, GoesType DEF Abort, WorkerStates
  <2>2. QED BY <1>3, <2>1 DEF Abort, TypeOK, WorkerStates
<1>4. ASSUME NEW n \in Nodes, NEW g \in Names, Invite(n, g) PROVE TypeOK'
  BY <1>4, GroupsAssumption DEF Invite, Counted, TypeOK
<1>5. ASSUME NEW i \in invites, ExpireInvite(i) PROVE TypeOK'
  BY <1>5 DEF ExpireInvite, TypeOK
<1>6. ASSUME NEW x \in notices, LoseNotice(x) PROVE TypeOK'
  BY <1>6 DEF LoseNotice, TypeOK
<1>7. ASSUME NEW x \in notices, NEW w \in Workers, ReceiveNotice(x, w) PROVE TypeOK'
  <2>1. x.owner \in Nodes /\ x.from \in Nodes /\ x.name \in Names
    BY DEF TypeOK, Notice
  <2>2. proc' \in [Nodes -> [Workers -> WorkerStates]]
    BY <1>7, <2>1, LoadsType DEF ReceiveNotice, Ops
  <2>3. QED BY <1>7, <2>2 DEF ReceiveNotice, TypeOK, WorkerStates
<1>8. QED BY <1>1, <1>2, <1>3, <1>4, <1>5, <1>6, <1>7

LEMMA StepType == TypeOK /\ [Next]_vars => TypeOK'
<1> SUFFICES ASSUME TypeOK, [Next]_vars PROVE TypeOK'
  OBVIOUS
<1>1. ASSUME NEW n \in Nodes, NEW w \in Workers, Finish(n, w) PROVE TypeOK'
  <2>1. file' \in [Nodes -> File]
    BY <1>1, FinishWrites, WritesType DEF TypeOK
  <2>2. AfterJoin(n, w) \in WorkerStates
    <3>1. proc[n][w].name \in Names /\ proc[n][w].who \in Nodes
      BY <1>1, FinishWrites, LoadedFields
    <3>2. QED BY <3>1 DEF AfterJoin, WorkerStates, Joined
  <2>3. Idle \in WorkerStates
    BY DEF WorkerStates
  <2>4. proc' \in [Nodes -> [Workers -> WorkerStates]]
    BY <1>1, <2>2, <2>3, FinishWrites, GoesType
  <2>5. QED BY <1>1, <2>1, <2>4, FinishWrites DEF TypeOK, WorkerStates
<1>2. CASE UNCHANGED vars
  BY <1>2 DEF vars, TypeOK
<1>3. QED
  BY <1>1, <1>2, StartType, OtherType DEF Next

\* Files, copies, invites and notices keep their shape.
THEOREM TypeCorrect == Spec => []TypeOK
BY InitType, StepType, PTL DEF Spec

-------------------------------------------------------------------------------
(* Why every member is in its group.                                       *)

\* Group r, called g and known to n, is whole and all in it have a reason to
\* be there, when U and A are used and added.
SoundGroup(n, g, r, U, A) ==
    r # NoGroup =>
       /\ r.owner \in r.members
       /\ r.owner # n => <<n, r.owner, g>> \in U
       /\ \A m \in r.members : \/ m = r.owner \/ m = n \/ <<n, g, m>> \in A
                               \/ n = r.owner /\ <<m, n, g>> \in U
Sound(n, f, U, A) == \A g \in Names : SoundGroup(n, g, f[g], U, A)

\* Worker p of n has a sound copy, and is entitled to the edit it will do.
SoundWorker(n, p, U, A) ==
    /\ p.at = "loaded" =>
          /\ Sound(n, p.copy, U, A)
          /\ p.op = "add" => <<n, p.name, p.who>> \in A
          /\ p.op = "join" => <<n, p.who, p.name>> \in U
          /\ p.op = "notice" => <<p.who, n, p.name>> \in U
    /\ p.at = "joined" => <<n, p.who, p.name>> \in U

FilesSound   == \A n \in Nodes : Sound(n, file[n], used, added)
WorkersSound ==
    \A n \in Nodes, w \in Workers : SoundWorker(n, proc[n][w], used, added)
NoticesSound == \A x \in notices : <<x.from, x.owner, x.name>> \in used
SoundInv == FilesSound /\ WorkersSound /\ NoticesSound

\* More invites and more additions give more reasons.
LEMMA MoreReasons ==
  ASSUME NEW n, NEW f, NEW p, NEW U, NEW A, NEW V, NEW B, U \subseteq V, A \subseteq B
  PROVE  /\ Sound(n, f, U, A) => Sound(n, f, V, B)
         /\ SoundWorker(n, p, U, A) => SoundWorker(n, p, V, B)
<1>1. ASSUME NEW h, Sound(n, h, U, A) PROVE Sound(n, h, V, B)
  BY <1>1 DEF Sound, SoundGroup
<1>2. QED
  BY <1>1 DEF SoundWorker

\* A step of one worker that leaves the file alone.
LEMMA GoesSound ==
  ASSUME TypeOK, SoundInv, NEW n \in Nodes, NEW w \in Workers, NEW p,
         Goes(n, w, p), UNCHANGED file,
         used \subseteq used', added \subseteq added',
         SoundWorker(n, p, used', added'), NoticesSound'
  PROVE  SoundInv'
<1>1. FilesSound'
  BY MoreReasons DEF SoundInv, FilesSound
<1>2. WorkersSound'
  <2> SUFFICES ASSUME NEW k \in Nodes, NEW v \in Workers
               PROVE  SoundWorker(k, proc'[k][v], used', added')
    BY DEF WorkersSound
  <2>1. SoundWorker(k, proc[k][v], used', added')
    BY MoreReasons DEF SoundInv, WorkersSound
  <2>2. proc'[k][v] = IF k = n /\ v = w THEN p ELSE proc[k][v]
    BY DEF Goes, TypeOK
  <2>3. QED BY <2>1, <2>2
<1>3. QED
  BY <1>1, <1>2 DEF SoundInv

\* A worker that has just read the file.
LEMMA LoadsSound ==
  ASSUME TypeOK, SoundInv, NEW n \in Nodes, NEW w \in Workers, NEW op, NEW g, NEW m,
         Loads(n, w, op, g, m), UNCHANGED file,
         used \subseteq used', added \subseteq added',
         op = "add" => <<n, g, m>> \in added',
         op = "join" => <<n, m, g>> \in used',
         op = "notice" => <<m, n, g>> \in used',
         NoticesSound'
  PROVE  SoundInv'
<1> DEFINE p == [at |-> "loaded", op |-> op, name |-> g, who |-> m, copy |-> file[n]]
<1>1. Sound(n, file[n], used', added')
  BY MoreReasons DEF SoundInv, FilesSound
<1>2. SoundWorker(n, p, used', added')
  BY <1>1 DEF SoundWorker
<1>3. Goes(n, w, p)
  BY DEF Loads
<1> HIDE DEF p
<1>4. QED
  BY <1>2, <1>3, GoesSound

\* The groups that edits make are sound, if what they start from is.
LEMMA NewGroupSound ==
  ASSUME TypeOK, SoundInv, NEW n \in Nodes, NEW w \in Workers,
         proc[n][w].at = "loaded"
  PROVE  LET g == proc[n][w].name
             r == Found(n, w)
             ok(s) == SoundGroup(n, g, s, used, added)
         IN  /\ ok(r) /\ ok(NoGroup) /\ ok([owner |-> n, members |-> {n}])
             /\ r # NoGroup =>
                  /\ proc[n][w].op = "add" => ok(With(r, proc[n][w].who))
                  /\ proc[n][w].op = "notice" /\ r.owner = n
                        => ok(With(r, proc[n][w].who))
                  /\ proc[n][w].who # r.owner => ok(Without(r, proc[n][w].who))
                  /\ ok(With(r, n))
             /\ proc[n][w].op = "join" => ok(Joining(n, w))
<1> DEFINE g == proc[n][w].name
           m == proc[n][w].who
           r == Found(n, w)
           ok(s) == SoundGroup(n, g, s, used, added)
<1>1. SoundWorker(n, proc[n][w], used, added)
  BY DEF SoundInv, WorkersSound
<1>2. g \in Names /\ m \in Nodes /\ r \in Groups0
  BY LoadedFields
<1>3. ok(r)
  BY <1>1, <1>2 DEF SoundWorker, Sound, Found
<1>4. ok(NoGroup) /\ ok([owner |-> n, members |-> {n}])
  BY DEF SoundGroup
<1>5. ASSUME r # NoGroup
      PROVE  /\ proc[n][w].op = "add" => ok(With(r, m))
             /\ proc[n][w].op = "notice" /\ r.owner = n => ok(With(r, m))
             /\ m # r.owner => ok(Without(r, m))
             /\ ok(With(r, n))
  <2>1. r \in Group
    BY <1>2, <1>5 DEF Groups0
  <2>2. \A k \in Nodes : /\ With(r, k).owner = r.owner
                         /\ With(r, k).members = r.members \cup {k}
                         /\ Without(r, k).owner = r.owner
                         /\ Without(r, k).members = r.members \ {k}
    BY <2>1 DEF With, Without, Group
  <2>3. /\ proc[n][w].op = "add" => <<n, g, m>> \in added
        /\ proc[n][w].op = "notice" => <<m, n, g>> \in used
    BY <1>1 DEF SoundWorker
  <2> HIDE DEF g, m, r
  <2>4. QED BY <1>2, <1>3, <1>5, <2>2, <2>3 DEF SoundGroup
<1>6. ASSUME proc[n][w].op = "join" PROVE ok(Joining(n, w))
  <2>1. <<n, m, g>> \in used
    BY <1>1, <1>6 DEF SoundWorker
  <2>2. QED BY <2>1 DEF SoundGroup, Joining
<1>7. QED
  BY <1>3, <1>4, <1>5, <1>6

\* What is written is sound.
LEMMA FinishSound ==
  ASSUME TypeOK, SoundInv, NEW n \in Nodes, NEW w \in Workers, Finish(n, w)
  PROVE  \/ UNCHANGED file
         \/ \E r \in Groups0 : /\ Writes(n, w, r)
                               /\ SoundGroup(n, proc[n][w].name, r, used, added)
<1>1. proc[n][w].at = "loaded"
  BY FinishWrites
<1>2. Found(n, w).owner = n => Found(n, w) # NoGroup
  BY GroupsAssumption DEF NoGroup
<1>3. /\ Found(n, w) \in Groups0 /\ proc[n][w].who \in Nodes
      /\ NoGroup \in Groups0 /\ \A r \in Group : r \in Groups0
  BY <1>1, LoadedFields DEF Groups0
<1> HIDE DEF NoGroup
<1>4. CASE Create(n, w)
  BY <1>1, <1>3, <1>4, NewGroupType, NewGroupSound DEF Create
<1>5. CASE AddMember(n, w)
  BY <1>1, <1>3, <1>5, NewGroupType, NewGroupSound DEF AddMember, Busy
<1>6. CASE RemoveMember(n, w)
  BY <1>1, <1>3, <1>6, NewGroupType, NewGroupSound DEF RemoveMember
<1>7. CASE Delete(n, w)
  BY <1>1, <1>3, <1>7, NewGroupSound DEF Delete
<1>8. CASE Join(n, w)
  BY <1>1, <1>3, <1>8, NewGroupType, NewGroupSound DEF Join, Busy
<1>9. CASE HandleNotice(n, w)
  BY <1>1, <1>2, <1>3, <1>9, NewGroupType, NewGroupSound DEF HandleNotice, Busy
<1>10. QED
  BY <1>4, <1>5, <1>6, <1>7, <1>8, <1>9 DEF Finish

LEMMA WritesSound ==
  ASSUME TypeOK, SoundInv, NEW n \in Nodes, NEW w \in Workers, Finish(n, w)
  PROVE  FilesSound'
<1>1. UNCHANGED <<used, added>> /\ proc[n][w].at = "loaded"
  BY FinishWrites
<1>2. CASE UNCHANGED file
  BY <1>1, <1>2 DEF SoundInv, FilesSound
<1>3. CASE \E r \in Groups0 : /\ Writes(n, w, r)
                              /\ SoundGroup(n, proc[n][w].name, r, used, added)
  <2>1. PICK r \in Groups0 : /\ Writes(n, w, r)
                             /\ SoundGroup(n, proc[n][w].name, r, used, added)
    BY <1>3
  <2>2. Sound(n, proc[n][w].copy, used, added)
    BY <1>1 DEF SoundInv, WorkersSound, SoundWorker
  <2>3. proc[n][w].copy \in File /\ proc[n][w].name \in Names
    BY <1>1, LoadedFields
  <2>4. Sound(n, [proc[n][w].copy EXCEPT ![proc[n][w].name] = r], used, added)
    BY <2>1, <2>2, <2>3 DEF Sound, File
  <2>5. \A k \in Nodes : file'[k] =
            IF k = n THEN [proc[n][w].copy EXCEPT ![proc[n][w].name] = r] ELSE file[k]
    BY <2>1 DEF Writes, TypeOK
  <2>6. \A k \in Nodes : Sound(k, file[k], used, added)
    BY DEF SoundInv, FilesSound
  <2>7. \A k \in Nodes : Sound(k, file'[k], used, added)
    BY <2>4, <2>5, <2>6
  <2>8. QED BY <1>1, <2>7 DEF FilesSound
<1>4. QED
  BY <1>2, <1>3, FinishSound

LEMMA FinishStep ==
  ASSUME TypeOK, SoundInv, NEW n \in Nodes, NEW w \in Workers, Finish(n, w)
  PROVE  SoundInv'
<1>1. /\ UNCHANGED <<used, added, notices>> /\ proc[n][w].at = "loaded"
      /\ \/ Goes(n, w, Idle)
         \/ proc[n][w].op = "join" /\ Goes(n, w, AfterJoin(n, w))
  BY FinishWrites
<1>2. SoundWorker(n, Idle, used, added)
  BY DEF SoundWorker, Idle
<1>3. proc[n][w].op = "join" => SoundWorker(n, AfterJoin(n, w), used, added)
  BY <1>1 DEF SoundInv, WorkersSound, SoundWorker, AfterJoin, Idle
<1>4. PICK p : Goes(n, w, p) /\ SoundWorker(n, p, used, added)
  BY <1>1, <1>2, <1>3
<1>5. \A k \in Nodes, v \in Workers :
          proc'[k][v] = IF k = n /\ v = w THEN p ELSE proc[k][v]
  BY <1>4 DEF Goes, TypeOK
<1>6. \A k \in Nodes, v \in Workers : SoundWorker(k, proc[k][v], used, added)
  BY DEF SoundInv, WorkersSound
<1>7. \A k \in Nodes, v \in Workers : SoundWorker(k, proc'[k][v], used, added)
  BY <1>4, <1>5, <1>6
<1>8. QED
  BY <1>1, <1>7, WritesSound DEF SoundInv, WorkersSound, NoticesSound

LEMMA StartSound ==
  ASSUME TypeOK, SoundInv, NEW n \in Nodes, NEW w \in Workers, Start(n, w)
  PROVE  SoundInv'
<1>1. ASSUME NEW g \in Names, NEW m \in Nodes,
             StartCreate(n, w, g) \/ StartAdd(n, w, g, m) \/ StartRemove(n, w, g, m)
      PROVE  SoundInv'
  <2>1. /\ UNCHANGED <<file, notices, used>> /\ added \subseteq added'
        /\ \/ Loads(n, w, "create", g, n) \/ Loads(n, w, "remove", g, m)
           \/ Loads(n, w, "add", g, m) /\ <<n, g, m>> \in added'
    BY <1>1 DEF StartCreate, StartAdd, StartRemove
  <2>2. NoticesSound'
    BY <2>1 DEF SoundInv, NoticesSound
  <2>3. QED BY <2>1, <2>2, LoadsSound
<1>2. ASSUME NEW g \in Names, StartDelete(n, w, g) PROVE SoundInv'
  <2>1. SoundWorker(n, [at |-> "checked", name |-> g], used', added')
    BY DEF SoundWorker
  <2>2. NoticesSound'
    BY <1>2 DEF StartDelete, SoundInv, NoticesSound
  <2>3. QED BY <1>2, <2>1, <2>2, GoesSound DEF StartDelete
<1>3. ASSUME NEW i \in invites, StartJoin(n, w, i) PROVE SoundInv'
  <2>1. NoticesSound'
    BY <1>3 DEF StartJoin, SoundInv, NoticesSound
  <2>2. /\ UNCHANGED <<file, added>> /\ used \subseteq used'
        /\ <<n, i[1], i[2]>> \in used' /\ Loads(n, w, "join", i[2], i[1])
    BY <1>3 DEF StartJoin
  <2>3. QED BY <2>1, <2>2, LoadsSound
<1>4. QED
  BY <1>1, <1>2, <1>3 DEF Start

LEMMA OtherSound ==
  ASSUME TypeOK, SoundInv,
         \/ \E n \in Nodes, w \in Workers :
               ReloadDelete(n, w) \/ NotifyOwner(n, w) \/ Abort(n, w)
         \/ \E n \in Nodes, g \in Names : Invite(n, g)
         \/ \E i \in invites : ExpireInvite(i)
         \/ \E x \in notices : LoseNotice(x) \/ \E w \in Workers : ReceiveNotice(x, w)
  PROVE  SoundInv'
<1>1. ASSUME NEW n \in Nodes, NEW w \in Workers, ReloadDelete(n, w) PROVE SoundInv'
  <2>1. NoticesSound'
    BY <1>1 DEF ReloadDelete, SoundInv, NoticesSound
  <2>2. QED BY <1>1, <2>1, LoadsSound DEF ReloadDelete
<1>2. ASSUME NEW n \in Nodes, NEW w \in Workers, NotifyOwner(n, w) PROVE SoundInv'
  <2>1. <<n, proc[n][w].who, proc[n][w].name>> \in used
    BY <1>2 DEF NotifyOwner, SoundInv, WorkersSound, SoundWorker
  <2>2. NoticesSound'
    <3> DEFINE x == [from |-> n, owner |-> proc[n][w].who, name |-> proc[n][w].name]
    <3>1. notices' \subseteq notices \cup {x} /\ UNCHANGED used
      BY <1>2 DEF NotifyOwner
    <3>2. <<x.from, x.owner, x.name>> \in used
      BY <2>1
    <3> HIDE DEF x
    <3>3. QED BY <3>1, <3>2 DEF SoundInv, NoticesSound
  <2>3. SoundWorker(n, Idle, used', added')
    BY DEF SoundWorker, Idle
  <2>4. QED BY <1>2, <2>2, <2>3, GoesSound DEF NotifyOwner
<1>3. ASSUME NEW n \in Nodes, NEW w \in Workers, Abort(n, w) PROVE SoundInv'
  <2>1. NoticesSound'
    BY <1>3 DEF Abort, SoundInv, NoticesSound
  <2>2. SoundWorker(n, Idle, used', added')
    BY DEF SoundWorker, Idle
  <2>3. QED BY <1>3, <2>1, <2>2, GoesSound DEF Abort
<1>4. ASSUME UNCHANGED <<file, proc, used, added>>, notices' \subseteq notices
      PROVE  SoundInv'
  BY <1>4 DEF SoundInv, FilesSound, WorkersSound, NoticesSound
<1>5. ASSUME NEW x \in notices, NEW w \in Workers, ReceiveNotice(x, w) PROVE SoundInv'
  <2>1. x.owner \in Nodes
    BY DEF TypeOK, Notice
  <2>2. NoticesSound'
    BY <1>5 DEF ReceiveNotice, SoundInv, NoticesSound
  <2>3. <<x.from, x.owner, x.name>> \in used'
    BY <1>5 DEF ReceiveNotice, SoundInv, NoticesSound
  <2>4. QED BY <1>5, <2>1, <2>2, <2>3, LoadsSound DEF ReceiveNotice
<1>6. QED
  BY <1>1, <1>2, <1>3, <1>4, <1>5 DEF Invite, ExpireInvite, LoseNotice

LEMMA SoundStep == TypeOK /\ SoundInv /\ [Next]_vars => SoundInv'
<1> SUFFICES ASSUME TypeOK, SoundInv, [Next]_vars PROVE SoundInv'
  OBVIOUS
<1>1. CASE UNCHANGED vars
  BY <1>1 DEF vars, SoundInv, FilesSound, WorkersSound, NoticesSound
<1>2. QED
  BY <1>1, StartSound, FinishStep, OtherSound DEF Next

LEMMA SoundInit == Init => SoundInv
<1> SUFFICES ASSUME Init PROVE SoundInv
  OBVIOUS
<1>1. FilesSound
  BY DEF Init, FilesSound, Sound, SoundGroup
<1>2. WorkersSound
  BY DEF Init, WorkersSound, SoundWorker, Idle
<1>3. QED BY <1>1, <1>2 DEF Init, SoundInv, NoticesSound

LEMMA AlwaysSound == Spec => []SoundInv
BY InitType, StepType, SoundInit, SoundStep, PTL DEF Spec

\* A group has its owner in it and nobody without a reason, however commands and
\* handlers overlap and wherever they are interrupted.
THEOREM OnlyInvitedHolds == Spec => []OnlyInvited
<1>1. SoundInv => OnlyInvited
  BY DEF SoundInv, FilesSound, Sound, SoundGroup, OnlyInvited, Reason
<1>2. QED BY <1>1, AlwaysSound, PTL

-------------------------------------------------------------------------------
(* Nodes whose commands do not overlap.                                    *)

\* What worker p of n knows of file f is still so.
UpToDate(n, p, f) ==
    /\ p.at = "loaded" => p.copy = f /\ (p.op = "delete" => f[p.name].owner = n)
    /\ p.at = "checked" => f[p.name].owner = n
OneAtATime ==
    \A n \in Nodes, w, v \in Workers : w = v \/ proc[n][w] = Idle \/ proc[n][v] = Idle
AllUpToDate ==
    \A n \in Nodes, w \in Workers : UpToDate(n, proc[n][w], file[n])
SerialInv == ~overlap => OneAtATime /\ AllUpToDate

\* A step of one worker, the others of its node being idle.
LEMMA GoesSerial ==
  ASSUME TypeOK, SerialInv, UNCHANGED overlap, NEW n \in Nodes, NEW w \in Workers,
         NEW p, Goes(n, w, p),
         ~overlap => \A v \in Workers \ {w} : proc[n][v] = Idle,
         \A k \in Nodes \ {n} : file'[k] = file[k],
         UpToDate(n, p, file'[n])
  PROVE  SerialInv'
<1> SUFFICES ASSUME ~overlap PROVE OneAtATime' /\ AllUpToDate'
  BY DEF SerialInv
<1>1. \A k \in Nodes, v \in Workers :
          proc'[k][v] = IF k = n /\ v = w THEN p ELSE proc[k][v]
  BY DEF Goes, TypeOK
<1>2. OneAtATime'
  BY <1>1 DEF SerialInv, OneAtATime
<1>3. \A f : UpToDate(n, Idle, f)
  BY DEF UpToDate, Idle
<1>4. AllUpToDate'
  BY <1>1, <1>3 DEF SerialInv, AllUpToDate
<1>5. QED BY <1>2, <1>4

\* Who is at work on a node is alone.
LEMMA Alone ==
  ASSUME SerialInv, NEW n \in Nodes, NEW w \in Workers,
         MayStart(n, w) \/ proc[n][w] # Idle, ~overlap
  PROVE  \A v \in Workers \ {w} : proc[n][v] = Idle
BY DEF SerialInv, OneAtATime, MayStart

LEMMA NotIdle ==
  ASSUME NEW n \in Nodes, NEW w \in Workers, proc[n][w].at # "idle"
  PROVE  proc[n][w] # Idle
BY DEF Idle

\* A worker that reads the file and may delete the group if it is to.
LEMMA LoadsSerial ==
  ASSUME TypeOK, SerialInv, UNCHANGED <<overlap, file>>,
         NEW n \in Nodes, NEW w \in Workers, NEW op, NEW g, NEW m,
         Loads(n, w, op, g, m), MayStart(n, w) \/ proc[n][w] # Idle,
         ~overlap /\ op = "delete" => file[n][g].owner = n
  PROVE  SerialInv'
<1> DEFINE p == [at |-> "loaded", op |-> op, name |-> g, who |-> m, copy |-> file[n]]
<1>1. CASE overlap
  BY <1>1 DEF SerialInv
<1>2. CASE ~overlap
  <2>1. UpToDate(n, p, file'[n])
    BY <1>2 DEF UpToDate
  <2>2. Goes(n, w, p)
    BY DEF Loads
  <2> HIDE DEF p
  <2>3. QED BY <1>2, <2>1, <2>2, Alone, GoesSerial
<1>3. QED BY <1>1, <1>2

\* A worker that ends its work on the file, or stops.
LEMMA EndsSerial ==
  ASSUME TypeOK, SerialInv, UNCHANGED overlap, NEW n \in Nodes, NEW w \in Workers,
         proc[n][w] # Idle, Goes(n, w, Idle) \/ Goes(n, w, AfterJoin(n, w)),
         \A k \in Nodes \ {n} : file'[k] = file[k]
  PROVE  SerialInv'
<1>1. UpToDate(n, Idle, file'[n]) /\ UpToDate(n, AfterJoin(n, w), file'[n])
  BY DEF UpToDate, Idle, AfterJoin
<1>2. QED
  BY <1>1, Alone, GoesSerial

LEMMA SerialStep == TypeOK /\ SerialInv /\ [Next]_vars => SerialInv'
<1> SUFFICES ASSUME TypeOK, SerialInv, [Next]_vars PROVE SerialInv'
  OBVIOUS
<1>1. ASSUME NEW n \in Nodes, NEW w \in Workers, Start(n, w) PROVE SerialInv'
  <2>1. ASSUME NEW g \in Names, NEW m \in Nodes,
               StartCreate(n, w, g) \/ StartAdd(n, w, g, m) \/ StartRemove(n, w, g, m)
        PROVE  SerialInv'
    BY <2>1, LoadsSerial DEF StartCreate, StartAdd, StartRemove
  <2>2. ASSUME NEW g \in Names, StartDelete(n, w, g) PROVE SerialInv'
    <3>1. UpToDate(n, [at |-> "checked", name |-> g], file'[n])
      BY <2>2 DEF StartDelete, UpToDate
    <3>2. QED BY <2>2, <3>1, Alone, GoesSerial DEF StartDelete
  <2>3. ASSUME NEW i \in invites, StartJoin(n, w, i) PROVE SerialInv'
    BY <2>3, LoadsSerial DEF StartJoin
  <2>4. QED BY <1>1, <2>1, <2>2, <2>3 DEF Start
<1>2. ASSUME NEW n \in Nodes, NEW w \in Workers, ReloadDelete(n, w) PROVE SerialInv'
  <2>1. ~overlap => file[n][proc[n][w].name].owner = n
    BY <1>2 DEF ReloadDelete, SerialInv, AllUpToDate, UpToDate
  <2>2. proc[n][w] # Idle
    BY <1>2, NotIdle DEF ReloadDelete
  <2>3. QED BY <1>2, <2>1, <2>2, LoadsSerial DEF ReloadDelete
<1>3. ASSUME NEW n \in Nodes, NEW w \in Workers, Finish(n, w) PROVE SerialInv'
  <2>1. /\ proc[n][w] # Idle /\ UNCHANGED overlap
        /\ Goes(n, w, Idle) \/ Goes(n, w, AfterJoin(n, w))
    BY <1>3, FinishWrites, NotIdle
  <2>2. \A k \in Nodes \ {n} : file'[k] = file[k]
    BY <1>3, FinishWrites DEF Writes, TypeOK
  <2>3. QED BY <2>1, <2>2, EndsSerial
<1>4. ASSUME NEW n \in Nodes, NEW w \in Workers, NotifyOwner(n, w) \/ Abort(n, w)
      PROVE  SerialInv'
  <2>1. /\ proc[n][w] # Idle /\ UNCHANGED <<overlap, file>> /\ Goes(n, w, Idle)
    BY <1>4, NotIdle DEF NotifyOwner, Abort
  <2>2. QED BY <2>1, EndsSerial
<1>5. ASSUME NEW x \in notices, NEW w \in Workers, ReceiveNotice(x, w) PROVE SerialInv'
  <2>1. x.owner \in Nodes
    BY DEF TypeOK, Notice
  <2>2. QED BY <1>5, <2>1, LoadsSerial DEF ReceiveNotice
<1>6. ASSUME UNCHANGED <<overlap, file, proc>> PROVE SerialInv'
  BY <1>6 DEF SerialInv, OneAtATime, AllUpToDate
<1>7. QED
  BY <1>1, <1>2, <1>3, <1>4, <1>5, <1>6
  DEF Next, Invite, ExpireInvite, LoseNotice, vars

LEMMA SerialInit == Init => SerialInv
BY DEF Init, SerialInv, OneAtATime, AllUpToDate, UpToDate, Idle

-------------------------------------------------------------------------------
(* What every finishing step does to the group it is about, if the worker's *)
(* copy is up to date.                                                     *)
\* What an edit puts in the place of r, n's group g, for member m.
Edit(n, g, m, r, q) ==
    \/ r = NoGroup /\ q = [owner |-> n, members |-> {n}]
    \/ r = NoGroup /\ q.owner # n
    \/ r.owner = n /\ q = NoGroup
    \/ r # NoGroup /\ r.owner # n /\ q.owner = r.owner
    \/ r.owner = n /\ q = With(r, m)
          /\ (<<n, g, m>> \in added \/ <<m, n, g>> \in used)
    \/ r.owner = n /\ q = Without(r, m) /\ m # n

\* What a finishing step writes, by who owns the group that was found.
LEMMA FinishKinds ==
  ASSUME TypeOK, SoundInv, SerialInv, ~overlap,
         NEW n \in Nodes, NEW w \in Workers, Finish(n, w)
  PROVE  LET g == proc[n][w].name
             m == proc[n][w].who
             r == file[n][g]
         IN  /\ g \in Names /\ m \in Nodes
             /\ \/ UNCHANGED file
                \/ \E q \in Groups0 :
                     /\ file' = [file EXCEPT ![n] = [file[n] EXCEPT ![g] = q]]
                     /\ Edit(n, g, m, r, q)
<1> DEFINE g == proc[n][w].name
           m == proc[n][w].who
           r == file[n][g]
           Result == \/ UNCHANGED file
                     \/ \E q \in Groups0 :
                           /\ file' = [file EXCEPT ![n] = [file[n] EXCEPT ![g] = q]]
                           /\ Edit(n, g, m, r, q)
<1>1. /\ proc[n][w].at = "loaded" /\ proc[n][w].copy = file[n]
      /\ proc[n][w].op = "delete" => r.owner = n
  BY FinishWrites DEF SerialInv, AllUpToDate, UpToDate
<1>2. g \in Names /\ m \in Nodes /\ r \in Groups0 /\ Found(n, w) = r
  BY <1>1, LoadedFields DEF Found
<1>3. \A q : Writes(n, w, q) => file' = [file EXCEPT ![n] = [file[n] EXCEPT ![g] = q]]
  BY <1>1 DEF Writes
<1>4. SoundWorker(n, proc[n][w], used, added) /\ SoundGroup(n, g, r, used, added)
  BY <1>2 DEF SoundInv, WorkersSound, FilesSound, Sound
<1>5. r # NoGroup => /\ r \in Group
                     /\ With(r, m) \in Group /\ With(r, n) \in Group
                     /\ Without(r, m) \in Group
                     /\ With(r, m).owner = r.owner /\ With(r, n).owner = r.owner
                     /\ Without(r, m).owner = r.owner
  BY <1>2 DEF Groups0, Group, With, Without
<1>6. r.owner = n => r # NoGroup /\ n \in r.members
  BY <1>4, GroupsAssumption DEF NoGroup, SoundGroup
<1>7. /\ NoGroup \in Groups0 /\ \A q \in Group : q \in Groups0
      /\ [owner |-> n, members |-> {n}] \in Group
      /\ Joining(n, w) \in Group /\ Joining(n, w) = [owner |-> m, members |-> {m, n}]
  BY <1>1, NewGroupType DEF Groups0, Joining
<1>8. /\ proc[n][w].op = "add" => <<n, g, m>> \in added
      /\ proc[n][w].op = "notice" => <<m, n, g>> \in used
  BY <1>1, <1>4 DEF SoundWorker
<1>9. [owner |-> n, members |-> {n}] \in Groups0
  BY <1>7
<1>10. ASSUME NEW q \in Groups0, Writes(n, w, q), Edit(n, g, m, r, q) PROVE Result
  BY <1>3, <1>10
<1>11. UNCHANGED file => Result
  OBVIOUS
<1> HIDE DEF g, m, r, Result
<1>12. ASSUME Create(n, w) PROVE Result
  <2> DEFINE q == [owner |-> n, members |-> {n}]
  <2>1. UNCHANGED file \/ (Writes(n, w, q) /\ r = NoGroup)
    BY <1>2, <1>12 DEF Create
  <2>2. q \in Groups0 /\ (r = NoGroup => Edit(n, g, m, r, q))
    BY <1>9 DEF Edit
  <2> HIDE DEF q
  <2>3. QED BY <1>10, <1>11, <2>1, <2>2
<1>13. ASSUME AddMember(n, w) PROVE Result
  <2>1. <<n, g, m>> \in added
    BY <1>8, <1>13 DEF AddMember, Busy
  <2>2. UNCHANGED file \/ (Writes(n, w, With(r, m)) /\ r # NoGroup)
    BY <1>2, <1>13 DEF AddMember, m
  <2>3. r # NoGroup => With(r, m) \in Groups0 /\ Edit(n, g, m, r, With(r, m))
    BY <1>5, <1>7, <2>1 DEF Edit
  <2>4. QED BY <1>10, <1>11, <2>2, <2>3
<1>14. ASSUME RemoveMember(n, w) PROVE Result
  <2>1. \/ UNCHANGED file
        \/ Writes(n, w, Without(r, m)) /\ r # NoGroup /\ m # r.owner
    BY <1>2, <1>14 DEF RemoveMember, m
  <2>2. r # NoGroup /\ m # r.owner
        => Without(r, m) \in Groups0 /\ Edit(n, g, m, r, Without(r, m))
    BY <1>5, <1>7 DEF Edit
  <2>3. QED BY <1>10, <1>11, <2>1, <2>2
<1>15. ASSUME Delete(n, w) PROVE Result
  <2>1. r.owner = n /\ (UNCHANGED file \/ Writes(n, w, NoGroup))
    BY <1>1, <1>15 DEF Delete, Busy, r, g
  <2>2. NoGroup \in Groups0 /\ Edit(n, g, m, r, NoGroup)
    BY <1>7, <2>1 DEF Edit
  <2>3. QED BY <1>10, <1>11, <2>1, <2>2
<1>16. ASSUME Join(n, w) PROVE Result
  <2>1. \/ UNCHANGED file
        \/ Writes(n, w, With(r, n)) /\ r # NoGroup /\ r.owner # n
        \/ Writes(n, w, Joining(n, w)) /\ r = NoGroup
    BY <1>2, <1>6, <1>16 DEF Join
  <2>2. r # NoGroup /\ r.owner # n => With(r, n) \in Groups0 /\ Edit(n, g, m, r, With(r, n))
    BY <1>5, <1>7 DEF Edit
  <2>3. Joining(n, w) \in Groups0 /\ (r = NoGroup => Edit(n, g, m, r, Joining(n, w)))
    <3>1. CASE m = n
      BY <1>7, <3>1 DEF Edit
    <3>2. CASE m # n
      BY <1>7, <3>2 DEF Edit
    <3>3. QED BY <3>1, <3>2
  <2>4. QED BY <1>10, <1>11, <2>1, <2>2, <2>3
<1>17. ASSUME HandleNotice(n, w) PROVE Result
  <2>1. <<m, n, g>> \in used
    BY <1>8, <1>17 DEF HandleNotice, Busy
  <2>2. UNCHANGED file \/ (Writes(n, w, With(r, m)) /\ r.owner = n)
    BY <1>2, <1>17 DEF HandleNotice, m
  <2>3. r.owner = n => With(r, m) \in Groups0 /\ Edit(n, g, m, r, With(r, m))
    BY <1>5, <1>6, <1>7, <2>1 DEF Edit
  <2>4. QED BY <1>10, <1>11, <2>2, <2>3
<1>18. Result
  BY <1>12, <1>13, <1>14, <1>15, <1>16, <1>17 DEF Finish
<1>19. QED
  BY <1>2, <1>18 DEF Result, g, m, r

LEMMA Invariants == Spec => [](TypeOK /\ SoundInv /\ SerialInv)
BY InitType, StepType, SoundInit, SoundStep, SerialInit, SerialStep, PTL DEF Spec

\* Only finishing steps write the file.
LEMMA OthersKeepFile ==
  ASSUME [Next]_vars, ~\E n \in Nodes, w \in Workers : Finish(n, w)
  PROVE  UNCHANGED file
<1>1. ASSUME NEW n \in Nodes, NEW w \in Workers, Start(n, w)
      PROVE  UNCHANGED file
  <2>1. ASSUME NEW g \in Names, StartCreate(n, w, g) PROVE UNCHANGED file
    BY <2>1 DEF StartCreate
  <2>2. ASSUME NEW g \in Names, StartDelete(n, w, g) PROVE UNCHANGED file
    BY <2>2 DEF StartDelete
  <2>3. ASSUME NEW g \in Names, NEW m \in Nodes, StartAdd(n, w, g, m)
        PROVE  UNCHANGED file
    BY <2>3 DEF StartAdd
  <2>4. ASSUME NEW g \in Names, NEW m \in Nodes, StartRemove(n, w, g, m)
        PROVE  UNCHANGED file
    BY <2>4 DEF StartRemove
  <2>5. ASSUME NEW i \in invites, StartJoin(n, w, i) PROVE UNCHANGED file
    BY <2>5 DEF StartJoin
  <2>6. QED BY <1>1, <2>1, <2>2, <2>3, <2>4, <2>5 DEF Start
<1>2. ASSUME NEW n \in Nodes, NEW w \in Workers, ReloadDelete(n, w)
      PROVE  UNCHANGED file
  BY <1>2 DEF ReloadDelete
<1>3. ASSUME NEW n \in Nodes, NEW w \in Workers, NotifyOwner(n, w)
      PROVE  UNCHANGED file
  BY <1>3 DEF NotifyOwner
<1>4. ASSUME NEW n \in Nodes, NEW w \in Workers, Abort(n, w)
      PROVE  UNCHANGED file
  BY <1>4 DEF Abort
<1>5. ASSUME NEW n \in Nodes, NEW g \in Names, Invite(n, g)
      PROVE  UNCHANGED file
  BY <1>5 DEF Invite
<1>6. ASSUME NEW i \in invites, ExpireInvite(i) PROVE UNCHANGED file
  BY <1>6 DEF ExpireInvite
<1>7. ASSUME NEW x \in notices, LoseNotice(x) PROVE UNCHANGED file
  BY <1>7 DEF LoseNotice
<1>8. ASSUME NEW x \in notices, NEW w \in Workers, ReceiveNotice(x, w)
      PROVE  UNCHANGED file
  BY <1>8 DEF ReceiveNotice
<1>9. ASSUME UNCHANGED vars PROVE UNCHANGED file
  BY <1>9 DEF vars
<1>10. QED
  BY <1>1, <1>2, <1>3, <1>4, <1>5, <1>6, <1>7, <1>8, <1>9 DEF Next

\* What a node knows of another node's group stays, whatever it joins, creates
\* or deletes, if its commands do not overlap.
THEOREM JoinedStaysHolds == Spec => JoinedStays
<1> DEFINE Stays == \A n \in Nodes, g \in Names :
                        ~overlap /\ file[n][g].owner \in Nodes \ {n}
                        => file'[n][g].owner = file[n][g].owner
<1>1. ASSUME TypeOK, SoundInv, SerialInv, [Next]_vars PROVE Stays
  <2> SUFFICES ASSUME NEW n \in Nodes, NEW g \in Names, ~overlap,
                      file[n][g].owner \in Nodes \ {n}
               PROVE  file'[n][g].owner = file[n][g].owner
    OBVIOUS
  <2>1. ASSUME NEW k \in Nodes, NEW w \in Workers, Finish(k, w)
        PROVE  file'[n][g].owner = file[n][g].owner
    <3> DEFINE h == proc[k][w].name
               m == proc[k][w].who
    <3>1. \/ UNCHANGED file
          \/ \E q \in Groups0 :
                /\ file' = [file EXCEPT ![k] = [file[k] EXCEPT ![h] = q]]
                /\ Edit(k, h, m, file[k][h], q)
      BY <1>1, <2>1, FinishKinds
    <3> HIDE DEF h, m
    <3>2. ASSUME NEW q \in Groups0,
                 file' = [file EXCEPT ![k] = [file[k] EXCEPT ![h] = q]],
                 Edit(k, h, m, file[k][h], q)
          PROVE  file'[n][g].owner = file[n][g].owner
      <4>1. file'[n][g] = IF n = k /\ g = h THEN q ELSE file[n][g]
        BY <1>1, <3>2 DEF TypeOK, File
      <4>2. n = k /\ g = h => q.owner = file[n][g].owner
        BY <3>2, GroupsAssumption DEF Edit, NoGroup
      <4>3. QED BY <4>1, <4>2
    <3>3. QED BY <3>1, <3>2
  <2>2. QED BY <1>1, <2>1, OthersKeepFile
<1>2. QED
  BY <1>1, Invariants, PTL DEF Spec, JoinedStays

-------------------------------------------------------------------------------
(* Membership.                                                             *)

Own(n, r) == IF r.owner = n THEN r.members ELSE {}

LEMMA OwnMembersOf ==
  ASSUME NEW n \in Nodes, NEW g \in Names
  PROVE  OwnMembers[n][g] = Own(n, file[n][g])
BY DEF OwnMembers, Own

\* One group of n's file changes.
LEMMA OwnMembersStep ==
  ASSUME TypeOK, NEW n \in Nodes, NEW g \in Names, NEW q,
         file' = [file EXCEPT ![n] = [file[n] EXCEPT ![g] = q]]
  PROVE  OwnMembers' = [OwnMembers EXCEPT ![n][g] = Own(n, q)]
<1>1. \A k \in Nodes, h \in Names :
          file'[k][h] = IF k = n /\ h = g THEN q ELSE file[k][h]
  BY DEF TypeOK, File
<1>2. /\ OwnMembers = [k \in Nodes |-> [h \in Names |-> Own(k, file[k][h])]]
      /\ OwnMembers' = [k \in Nodes |-> [h \in Names |-> Own(k, file'[k][h])]]
  BY DEF OwnMembers, Own
<1>3. ASSUME NEW k \in Nodes
      PROVE  OwnMembers'[k] = IF k = n THEN [OwnMembers[n] EXCEPT ![g] = Own(n, q)]
                              ELSE OwnMembers[k]
  <2>1. CASE k = n
    BY <1>1, <1>2, <2>1
  <2>2. CASE k # n
    BY <1>1, <1>2, <2>2
  <2>3. QED BY <2>1, <2>2
<1>4. QED
  BY <1>2, <1>3

LEMMA OwnMembersKept ==
  ASSUME TypeOK, NEW n \in Nodes, NEW g \in Names, NEW q,
         file' = [file EXCEPT ![n] = [file[n] EXCEPT ![g] = q]],
         Own(n, q) = Own(n, file[n][g])
  PROVE  UNCHANGED OwnMembers
<1>1. \A k \in Nodes, h \in Names :
          file'[k][h] = IF k = n /\ h = g THEN q ELSE file[k][h]
  BY DEF TypeOK, File
<1>2. /\ OwnMembers = [k \in Nodes |-> [h \in Names |-> Own(k, file[k][h])]]
      /\ OwnMembers' = [k \in Nodes |-> [h \in Names |-> Own(k, file'[k][h])]]
  BY DEF OwnMembers, Own
<1>3. \A k \in Nodes, h \in Names : Own(k, file'[k][h]) = Own(k, file[k][h])
  BY <1>1
<1>4. QED
  BY <1>2, <1>3

\* Own groups have their owner in them.
LEMMA OwnIsFounded ==
  ASSUME SoundInv, NEW n \in Nodes, NEW g \in Names, file[n][g].owner = n
  PROVE  n \in OwnMembers[n][g]
<1>1. file[n][g] # NoGroup
  BY GroupsAssumption DEF NoGroup
<1>2. QED
  BY <1>1 DEF SoundInv, FilesSound, Sound, SoundGroup, OwnMembers

\* An edit of an up-to-date copy is a step of Membership.
LEMMA EditIsMembership ==
  ASSUME TypeOK, SoundInv, NEW n \in Nodes, NEW g \in Names, NEW m \in Nodes,
         NEW q \in Groups0,
         file' = [file EXCEPT ![n] = [file[n] EXCEPT ![g] = q]],
         Edit(n, g, m, file[n][g], q), UNCHANGED <<invites, used, added>>
  PROVE  Promise!Next \/ UNCHANGED Promise!vars
<1> DEFINE r == file[n][g]
<1>1. OwnMembers' = [OwnMembers EXCEPT ![n][g] = Own(n, q)]
  BY OwnMembersStep
<1>2. OwnMembers[n][g] = Own(n, r)
  BY OwnMembersOf
<1>3. UNCHANGED <<invites, used, added>>
  OBVIOUS
<1>4. r.owner = n => r # NoGroup /\ r \in Group /\ n \in Own(n, r)
  <2>1. r \in Groups0
    BY DEF TypeOK, File, Groups0
  <2>2. r.owner = n => n \in Own(n, r)
    BY <1>2, OwnIsFounded
  <2>3. r.owner = n => r # NoGroup
    BY GroupsAssumption DEF NoGroup
  <2>4. QED BY <2>1, <2>2, <2>3 DEF Groups0
<1>5. Own(n, NoGroup) = {}
  BY DEF Own, NoGroup
<1>6. CASE OwnMembers' = OwnMembers
  BY <1>3, <1>6 DEF Promise!vars
<1>7. CASE r = NoGroup /\ q = [owner |-> n, members |-> {n}]
  <2>1. Own(n, q) = {n}
    BY <1>7 DEF Own
  <2>2. Promise!Found(n, g)
    BY <1>1, <1>2, <1>3, <1>5, <1>7, <2>1 DEF Promise!Found
  <2>3. QED BY <2>2 DEF Promise!Next
<1>8. CASE r.owner = n /\ q = NoGroup
  <2>1. Promise!Dissolve(n, g)
    BY <1>1, <1>3, <1>5, <1>8 DEF Promise!Dissolve
  <2>2. QED BY <2>1 DEF Promise!Next
<1>9. CASE /\ r.owner = n /\ q = With(r, m)
           /\ \/ <<n, g, m>> \in added
              \/ <<m, n, g>> \in used
  <2>1. Own(n, q) = OwnMembers[n][g] \cup {m}
    BY <1>2, <1>4, <1>9 DEF Own, With, Group
  <2>2. Promise!Enter(m, n, g)
    BY <1>1, <1>2, <1>3, <1>4, <1>9, <2>1 DEF Promise!Enter
  <2>3. QED BY <2>2 DEF Promise!Next
<1>10. CASE r.owner = n /\ q = Without(r, m) /\ m # n
  <2>1. Own(n, q) = OwnMembers[n][g] \ {m}
    BY <1>2, <1>4, <1>10 DEF Own, Without, Group
  <2>2. Promise!Leave(m, n, g)
    BY <1>1, <1>3, <1>10, <2>1 DEF Promise!Leave
  <2>3. QED BY <2>2 DEF Promise!Next
<1>11. CASE r.owner # n /\ q.owner # n
  <2>1. Own(n, q) = OwnMembers[n][g]
    BY <1>2, <1>11 DEF Own
  <2>2. OwnMembers' = OwnMembers
    BY <1>2, <2>1, OwnMembersKept
  <2>3. QED BY <1>6, <2>2
<1>12. QED
  BY <1>7, <1>8, <1>9, <1>10, <1>11, GroupsAssumption DEF Edit, NoGroup

\* To its owner, a group is what Membership says, if the owner's commands and
\* handlers do not overlap.
THEOREM GroupStepsAreMembershipHolds == Spec => GroupStepsAreMembership
<1>1. ASSUME TypeOK, SoundInv, SerialInv, [Next]_vars
      PROVE  overlap \/ Promise!Next \/ UNCHANGED Promise!vars
  <2> SUFFICES ASSUME ~overlap PROVE Promise!Next \/ UNCHANGED Promise!vars
    OBVIOUS
  <2>1. ASSUME UNCHANGED <<file, invites, used, added>>
        PROVE  UNCHANGED Promise!vars
    BY <2>1 DEF Promise!vars, OwnMembers
  <2>2. ASSUME NEW n \in Nodes, NEW w \in Workers, Finish(n, w)
        PROVE  Promise!Next \/ UNCHANGED Promise!vars
    <3>1. UNCHANGED <<invites, used, added>>
      BY <1>1, <2>2, FinishWrites
    <3>2. QED BY <1>1, <2>1, <2>2, <3>1, FinishKinds, EditIsMembership
  <2>3. ASSUME NEW n \in Nodes, NEW g \in Names, NEW w \in Workers, NEW m \in Nodes,
               StartAdd(n, w, g, m)
        PROVE  Promise!Next
    <3>1. Promise!Choose(m, n, g)
      BY <2>3 DEF StartAdd, Promise!Choose, OwnMembers
    <3>2. QED BY <3>1 DEF Promise!Next
  <2>4. ASSUME NEW n \in Nodes, NEW w \in Workers, NEW i \in invites, StartJoin(n, w, i)
        PROVE  Promise!Next
    <3>1. i[1] \in Nodes /\ i[2] \in Names /\ i = <<i[1], i[2]>>
      BY <1>1 DEF TypeOK
    <3>2. Promise!Accept(n, i[1], i[2])
      BY <2>4, <3>1 DEF StartJoin, Promise!Accept, OwnMembers
    <3>3. QED BY <3>1, <3>2 DEF Promise!Next
  <2>5. ASSUME NEW n \in Nodes, NEW g \in Names, Invite(n, g) PROVE Promise!Next
    <3>1. Promise!Invite(n, g)
      BY <1>1, <2>5, OwnIsFounded DEF Invite, Promise!Invite, OwnMembers
    <3>2. QED BY <3>1 DEF Promise!Next
  <2>6. ASSUME NEW i \in invites, ExpireInvite(i) PROVE Promise!Next
    <3>1. i[1] \in Nodes /\ i[2] \in Names /\ i = <<i[1], i[2]>>
      BY <1>1 DEF TypeOK
    <3>2. Promise!Expire(i[1], i[2])
      BY <2>6, <3>1 DEF ExpireInvite, Promise!Expire, OwnMembers
    <3>3. QED BY <3>1, <3>2 DEF Promise!Next
  <2>7. ASSUME NEW n \in Nodes, NEW w \in Workers,
               ReloadDelete(n, w) \/ NotifyOwner(n, w) \/ Abort(n, w)
        PROVE  UNCHANGED Promise!vars
    BY <2>1, <2>7 DEF ReloadDelete, NotifyOwner, Abort
  <2>8. ASSUME NEW n \in Nodes, NEW w \in Workers, Start(n, w)
        PROVE  Promise!Next \/ UNCHANGED Promise!vars
    BY <2>1, <2>3, <2>4, <2>8 DEF Start, StartCreate, StartDelete, StartRemove
  <2>9. ASSUME NEW x \in notices, NEW w \in Workers, LoseNotice(x) \/ ReceiveNotice(x, w)
        PROVE  UNCHANGED Promise!vars
    BY <2>1, <2>9 DEF LoseNotice, ReceiveNotice
  <2>10. CASE UNCHANGED vars
    BY <2>1, <2>10 DEF vars
  <2>11. QED
    BY <1>1, <2>1, <2>2, <2>5, <2>6, <2>7, <2>8, <2>9, <2>10 DEF Next, LoseNotice
<1>2. QED
  BY <1>1, Invariants, PTL DEF Spec, GroupStepsAreMembership
===============================================================================
