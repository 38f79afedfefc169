------------------------------ MODULE JobProofs ------------------------------
(***************************************************************************)
(* Theorems about JobRuntime, Scheduler and JobDispatch, for every set of  *)
(* jobs and peers, limit and bound: the provider of jobs and its consumer; *)
(* whatever the peers answer, the choice is a best one; the provider of a  *)
(* command is a provider of JobRuntime, and what is proved there holds of  *)
(* it; and what a command's attempts and its history have to do with each  *)
(* other.                                                                  *)
(***************************************************************************)
EXTENDS JobDispatch, FiniteSetTheorems, TLAPS

-------------------------------------------------------------------------------
(* Type correctness.                                                       *)

\* The types are inductive once a task that waits for its log tasks is known to
\* have seen its child exit.
TypeInv ==
    /\ TypeOK
    /\ \A j \in Jobs : task[j] = "draining" => Exited(j)

LEMMA TypeInit == Init => TypeInv
  BY OtherConstants, LogCapType DEF Init, Exited, TypeInv, TypeOK,
     ClientStates, Frames,
     TaskStates, Verdicts, CliStates, ContainerStates

\* A send keeps the frames on the wire frames.
LEMMA SendType ==
  ASSUME wire \in [Jobs -> Seq(Frames)], NEW j \in Jobs, NEW m \in Frames,
         Push(j, m) \/ TrySend(j, m)
  PROVE  wire' \in [Jobs -> Seq(Frames)]
<1>1. Append(wire[j], m) \in Seq(Frames)
  OBVIOUS
<1>2. QED
  BY <1>1 DEF Push, TrySend

LEMMA TypeConsumer ==
  ASSUME TypeInv, NEW j \in Jobs,
         Submit(j) \/ ClientReads(j) \/ ClientEnds(j) \/ ClientLost(j)
           \/ ConnDrop(j)
  PROVE  TypeInv'
<1> USE OtherConstants, LogCapType DEF TypeInv, TypeOK, Exited, consumerVars,
netVars,
        agentVars, taskVars, dockerVars, logVars
<1>1. CASE Submit(j)
  BY <1>1 DEF Submit, ClientStates
<1>2. CASE ClientReads(j)
  <2>1. wire[j] # <<>> /\ Tail(wire[j]) \in Seq(Frames)
    BY <1>2 DEF ClientReads
  <2>2. wire' \in [Jobs -> Seq(Frames)]
    BY <1>2, <2>1 DEF ClientReads
  <2>3. CASE Head(wire[j]) = "log"
    <3>1. unread' = [unread EXCEPT ![j] = @ - 1] /\ UNCHANGED client
      BY <1>2, <2>3 DEF ClientReads
    <3>2. unread' \in [Jobs -> Int]
      BY <3>1
    <3>3. QED
      BY <1>2, <2>2, <3>1, <3>2 DEF ClientReads
  <2>4. CASE Head(wire[j]) # "log"
    <3>1. client' = [client EXCEPT ![j] = Head(wire[j])]
          /\ Head(wire[j]) \in ClientStates
      BY <1>2, <2>4 DEF ClientReads, ClientStates
    <3>2. client' \in [Jobs -> ClientStates]
      BY <3>1
    <3>3. QED
      BY <1>2, <2>2, <2>4, <3>2 DEF ClientReads
  <2>5. QED
    BY <2>3, <2>4
<1>3. CASE ClientEnds(j)
  BY <1>3 DEF ClientEnds, ClientStates, Terminal
<1>4. CASE ClientLost(j)
  BY <1>4 DEF ClientLost, ClientStates
<1>5. CASE ConnDrop(j)
  <2>1. PICK e \in 0..Len(wire[j]) :
              wire' = [wire EXCEPT ![j] = SubSeq(@, 1, e)]
    BY <1>5 DEF ConnDrop
  <2>2. SubSeq(wire[j], 1, e) \in Seq(Frames)
    OBVIOUS
  <2>3. QED
    BY <1>5, <2>1, <2>2 DEF ConnDrop
<1>6. QED
  BY <1>1, <1>2, <1>3, <1>4, <1>5

LEMMA TypeSession ==
  ASSUME TypeInv, NEW j \in Jobs,
         HandleRunJob(j) \/ CancelRemove(j) \/ CancelRetain(j)
  PROVE  TypeInv'
<1> USE OtherConstants, LogCapType DEF TypeInv, TypeOK, Exited, consumerVars,
netVars,
        agentVars, taskVars, dockerVars, logVars
<1>1. CASE HandleRunJob(j)
  <2>1. wire' \in [Jobs -> Seq(Frames)]
    BY <1>1, SendType DEF HandleRunJob, Frames
  <2>2. task' \in [Jobs -> TaskStates] /\ connUp' \in [Jobs -> BOOLEAN]
    BY <1>1 DEF HandleRunJob, Goto, TaskStates
  <2>3. \A i \in Jobs : task'[i] = "draining" => task[i] = "draining"
    BY <1>1 DEF HandleRunJob, Goto
  <2>4. QED
    BY <1>1, <2>1, <2>2, <2>3 DEF HandleRunJob
<1>2. CASE CancelRemove(j)
  BY <1>2 DEF CancelRemove, CliStates, ContainerStates
<1>3. CASE CancelRetain(j)
  BY <1>3 DEF CancelRetain, Retain
<1>4. QED
  BY <1>1, <1>2, <1>3

LEMMA TypeTask ==
  ASSUME TypeInv, NEW j \in Jobs, TaskStep(j)
  PROVE  TypeInv'
<1> USE OtherConstants, LogCapType DEF TypeInv, TypeOK, Exited, consumerVars,
netVars,
        agentVars, taskVars, dockerVars, logVars, At, Goto, TaskStates
<1>1. CASE AcceptJob(j)
  <2>1. wire' \in [Jobs -> Seq(Frames)]
    BY <1>1, SendType DEF AcceptJob, Frames
  <2>2. /\ task' \in [Jobs -> TaskStates]
        /\ \A i \in Jobs : task'[i] = "draining" => task[i] = "draining"
    BY <1>1 DEF AcceptJob
  <2>3. QED
    BY <1>1, <2>1, <2>2 DEF AcceptJob
<1>2. CASE PrepareJob(j)
  <2>1. wire' \in [Jobs -> Seq(Frames)]
    BY <1>2, SendType DEF PrepareJob, Frames
  <2>2. /\ task' \in [Jobs -> TaskStates]
        /\ \A i \in Jobs : task'[i] = "draining" => task[i] = "draining"
    BY <1>2 DEF PrepareJob
  <2>3. QED
    BY <1>2, <2>1, <2>2 DEF PrepareJob
<1>3. CASE AdmitJob(j)
  <2>1. active' \in SUBSET Jobs
    BY <1>3 DEF AdmitJob
  <2>2. task' \in [Jobs -> TaskStates]
        /\ \A i \in Jobs : task'[i] = "draining" => task[i] = "draining"
    BY <1>3 DEF AdmitJob
  <2>3. QED
    BY <1>3, <2>1, <2>2 DEF AdmitJob
<1>4. CASE SpawnDocker(j)
  <2>1. chan' \in [Jobs -> 0..LogCap] /\ unread' \in [Jobs -> Int]
    BY <1>4 DEF SpawnDocker, SaysLine
  <2>2. /\ task' \in [Jobs -> TaskStates] /\ active' \in SUBSET Jobs
        /\ cli' \in [Jobs -> CliStates]
        /\ \A i \in Jobs : task'[i] = "draining" => task[i] = "draining"
        /\ \A i \in Jobs : cli'[i] = cli[i] \/ task'[i] # "draining"
    BY <1>4 DEF SpawnDocker, Retain, CliStates
  <2>3. QED
    BY <1>4, <2>1, <2>2 DEF SpawnDocker, SaysLine
<1>5. CASE ChildExit(j)
  BY <1>5 DEF ChildExit, Verdicts
<1>6. CASE JoinLogTasks(j)
  BY <1>6 DEF JoinLogTasks, Verdicts
<1>7. CASE Timeout(j)
  BY <1>7 DEF Timeout, Verdicts, CliStates
<1>13. CASE ReportTimeout(j)
  <2>1. chan' \in [Jobs -> 0..LogCap] /\ unread' \in [Jobs -> Int]
    BY <1>13 DEF ReportTimeout, SaysLine
  <2>2. QED
    BY <1>13, <2>1 DEF ReportTimeout, SaysLine
<1>8. CASE ReleaseSlot(j)
  BY <1>8 DEF ReleaseSlot, Retain
<1>9. CASE RemoveContainer(j)
  BY <1>9 DEF RemoveContainer, ContainerStates
<1>10. CASE PackOutputs(j)
  BY <1>10 DEF PackOutputs
<1>11. CASE SendTerminal(j)
  <2>1. wire' \in [Jobs -> Seq(Frames)]
    BY <1>11, SendType DEF SendTerminal, ResultState, Frames, Terminal
  <2>2. QED
    BY <1>11, <2>1 DEF SendTerminal
<1>12. QED
  BY <1>1, <1>2, <1>3, <1>4, <1>5, <1>6, <1>7, <1>8, <1>9, <1>10, <1>11,
     <1>13 DEF TaskStep

LEMMA TypeDocker ==
  ASSUME TypeInv, NEW j \in Jobs,
         \/ ReadPipe(j) \/ ForwardLog(j) \/ DockerStart(j)
         \/ ContainerPrints(j) \/ ContainerExits(j)
         \/ ReaderQuits(j) \/ ClientDies(j)
  PROVE  TypeInv'
<1> USE OtherConstants, LogCapType DEF TypeInv, TypeOK, Exited, consumerVars,
        netVars, agentVars, taskVars, dockerVars, logVars
<1>1. CASE ReadPipe(j)
  BY <1>1 DEF ReadPipe
<1>2. CASE ForwardLog(j)
  <2>1. wire' \in [Jobs -> Seq(Frames)]
    BY <1>2, SendType DEF ForwardLog, Frames
  <2>2. chan' \in [Jobs -> 0..LogCap]
    BY <1>2 DEF ForwardLog
  <2>3. QED
    BY <1>2, <2>1, <2>2 DEF ForwardLog
<1>3. CASE DockerStart(j)
  BY <1>3 DEF DockerStart, CliStates, ContainerStates
<1>4. CASE ContainerPrints(j)
  BY <1>4 DEF ContainerPrints
<1>5. CASE ContainerExits(j)
  <2>1. PICK code \in {"ok", "nonzero"} :
             /\ container' = [container EXCEPT ![j] = code]
             /\ cli' = [cli EXCEPT ![j] = IF @ = "attached" THEN code ELSE @]
    BY <1>5 DEF ContainerExits
  <2>2. container' \in [Jobs -> ContainerStates] /\ cli' \in [Jobs -> CliStates]
    BY <2>1 DEF CliStates, ContainerStates
  <2>3. \A i \in Jobs : cli[i] \in {"ok", "nonzero"} => cli'[i] = cli[i]
    BY <2>1
  <2>4. QED
    BY <1>5, <2>2, <2>3 DEF ContainerExits
<1>6. CASE ReaderQuits(j)
  BY <1>6 DEF ReaderQuits
<1>7. CASE ClientDies(j)
  BY <1>7 DEF ClientDies, CliStates
<1>8. QED
  BY <1>1, <1>2, <1>3, <1>4, <1>5, <1>6, <1>7

LEMMA TypeAgent ==
  ASSUME TypeInv, AgentCrash \/ AgentRestart
  PROVE  TypeInv'
<1> USE OtherConstants, LogCapType DEF TypeInv, TypeOK, Exited, consumerVars,
        netVars, agentVars, taskVars, dockerVars, logVars
<1>1. CASE AgentCrash
  <2>1. /\ task' \in [Jobs -> TaskStates] /\ active' \in SUBSET Jobs
        /\ cancel' \in [Jobs -> {"none", "tried", "over"}]
    BY <1>1 DEF AgentCrash, TaskStates
  <2>2. /\ connUp' \in [Jobs -> BOOLEAN] /\ request' \in [Jobs -> BOOLEAN]
        /\ pipe' \in [Jobs -> Nat] /\ chan' \in [Jobs -> 0..LogCap]
    BY <1>1 DEF AgentCrash
  <2>3. up' \in BOOLEAN
    BY <1>1 DEF AgentCrash
  <2>4. crashes' \in 0..MaxCrashes
    <3>1. crashes \in 0..MaxCrashes /\ crashes < MaxCrashes
          /\ crashes' = crashes + 1 /\ MaxCrashes \in Nat
      BY <1>1 DEF AgentCrash
    <3> HIDE DEF TypeInv, TypeOK
    <3>2. QED
      BY <3>1
  <2>5. \A i \in Jobs : task'[i] # "draining"
    BY <1>1 DEF AgentCrash
  <2>6. QED
    BY <1>1, <2>1, <2>2, <2>3, <2>4, <2>5 DEF AgentCrash
<1>2. CASE AgentRestart
  BY <1>2 DEF AgentRestart
<1>3. QED
  BY <1>1, <1>2

LEMMA TypeStep == TypeInv /\ [Next]_vars => TypeInv'
<1> SUFFICES ASSUME TypeInv, [Next]_vars PROVE TypeInv'
  OBVIOUS
<1>1. CASE UNCHANGED vars
  BY <1>1 DEF vars, TypeInv, TypeOK, Exited
<1>2. CASE Next
  BY <1>2, TypeConsumer, TypeSession, TypeTask, TypeDocker, TypeAgent
     DEF Next, ClientStep
<1>3. QED
  BY <1>1, <1>2

LEMMA TypeInvariant == Spec => []TypeInv
  BY TypeInit, TypeStep, PTL DEF Spec

\* Every variable keeps its type, whatever consumers, docker, the network and
\* crashes of the agent do.
THEOREM TypeCorrect == Spec => []TypeOK
<1>1. TypeInv => TypeOK
  BY DEF TypeInv
<1>2. QED
  BY <1>1, TypeInvariant, PTL

-------------------------------------------------------------------------------
(* The concurrency limit.                                                  *)

\* Of all the steps only AdmitJob makes `active` grow, and by one entry.
LEMMA ActiveGrowth ==
  ASSUME [Next]_vars
  PROVE  active' \subseteq active \/ \E j \in Jobs : AdmitJob(j)
<1>1. CASE UNCHANGED vars
  BY <1>1 DEF vars
<1>2. ASSUME NEW j \in Jobs, TaskStep(j), ~AdmitJob(j)
      PROVE  active' \subseteq active
  BY <1>2 DEF TaskStep, AcceptJob, PrepareJob, SpawnDocker, ChildExit,
     JoinLogTasks, Timeout, ReportTimeout, SaysLine, ReleaseSlot,
     RemoveContainer, PackOutputs,
     SendTerminal, Retain
<1>3. ASSUME NEW j \in Jobs,
             \/ Submit(j) \/ ClientStep(j) \/ ConnDrop(j) \/ HandleRunJob(j)
             \/ CancelRemove(j) \/ CancelRetain(j) \/ ReadPipe(j)
             \/ ForwardLog(j) \/ DockerStart(j) \/ ContainerPrints(j)
             \/ ContainerExits(j) \/ ReaderQuits(j) \/ ClientDies(j)
      PROVE  active' \subseteq active
  BY <1>3 DEF Submit, ClientStep, ClientReads, ClientEnds, ClientLost,
     ConnDrop, HandleRunJob, CancelRemove, CancelRetain, Retain, ReadPipe,
     ForwardLog, DockerStart, ContainerPrints, ContainerExits, ReaderQuits,
     ClientDies
<1>4. CASE AgentCrash \/ AgentRestart
  BY <1>4 DEF AgentCrash, AgentRestart
<1>5. QED
  BY <1>1, <1>2, <1>3, <1>4 DEF Next

LEMMA LimitStep ==
  ASSUME TypeOK, SlotLimit, [Next]_vars
  PROVE  SlotLimit'
<1>1. IsFiniteSet(active)
  BY JobsFinite, FS_Subset DEF TypeOK
<1>2. CASE active' \subseteq active
  <2>1. IsFiniteSet(active') /\ Cardinality(active') <= Cardinality(active)
    BY <1>1, <1>2, FS_Subset
  <2>2. Cardinality(active') \in Nat /\ Cardinality(active) \in Nat
    BY <1>1, <2>1, FS_CardinalityType
  <2>3. QED
    BY <2>1, <2>2, LimitType DEF SlotLimit
<1>3. CASE \E j \in Jobs : AdmitJob(j)
  <2>1. PICK j \in Jobs : AdmitJob(j)
    BY <1>3
  <2>2. CASE HasSlot
    <3>1. active' = active \cup {j}
      BY <2>1, <2>2 DEF AdmitJob
    <3>2. Cardinality(active) \in Nat
      BY <1>1, FS_CardinalityType
    <3>3. Cardinality(active')
            \in {Cardinality(active), Cardinality(active) + 1}
      BY <1>1, <3>1, FS_AddElement
    <3>4. QED
      BY <2>2, <3>2, <3>3, LimitType DEF HasSlot, SlotLimit
  <2>3. CASE ~HasSlot
    BY <2>1, <2>3 DEF AdmitJob, SlotLimit
  <2>4. QED
    BY <2>2, <2>3
<1>4. QED
  BY <1>2, <1>3, ActiveGrowth

\* DockerRuntime never holds more than max_concurrent_jobs slots.
THEOREM SlotLimitHolds == Spec => []SlotLimit
<1>1. Init => SlotLimit
  BY FS_EmptySet, LimitType DEF Init, SlotLimit
<1>2. TypeOK /\ SlotLimit /\ [Next]_vars => SlotLimit'
  BY LimitStep
<1>3. QED
  BY <1>1, <1>2, TypeCorrect, PTL DEF Spec

-------------------------------------------------------------------------------
(* A job is submitted once.                                                *)

\* While the RunJob frame of a job travels, the job has no task.
RequestInv ==
    \A j \in Jobs :
        /\ client[j] = "idle" => ~request[j] /\ task[j] = "none"
        /\ request[j] => task[j] = "none"

LEMMA RequestStep == TypeOK /\ RequestInv /\ [Next]_vars => RequestInv'
<1> SUFFICES ASSUME TypeOK, RequestInv, [Next]_vars PROVE RequestInv'
  OBVIOUS
<1> USE DEF RequestInv
<1>1. CASE UNCHANGED vars
  BY <1>1 DEF vars
<1>2. ASSUME NEW j \in Jobs, TaskStep(j)
      PROVE  RequestInv'
  <2>1. UNCHANGED <<client, request>> /\ task[j] # "none"
        /\ \E s \in TaskStates : Goto(j, s)
    BY <1>2 DEF TaskStep, AcceptJob, PrepareJob, AdmitJob, SpawnDocker,
       ChildExit, JoinLogTasks, Timeout, ReportTimeout, SaysLine, ReleaseSlot,
       RemoveContainer,
       PackOutputs, SendTerminal, At, consumerVars, netVars, TaskStates
  <2>2. QED
    BY <2>1 DEF Goto, TypeOK
<1>3. ASSUME NEW j \in Jobs, Submit(j) \/ ClientStep(j) \/ ConnDrop(j)
      PROVE  RequestInv'
  <2>1. UNCHANGED task
    BY <1>3 DEF Submit, ClientStep, ClientReads, ClientEnds, ClientLost,
       ConnDrop, taskVars
  <2>2. CASE Submit(j)
    BY <2>1, <2>2 DEF Submit, TypeOK
  <2>3. CASE ClientReads(j)
    <3>1. client[j] # "idle" /\ UNCHANGED request
          /\ (UNCHANGED client \/ \E s : client' = [client EXCEPT ![j] = s])
          /\ client'[j] # "idle"
      BY <2>3 DEF ClientReads, Listening, TypeOK
    <3>2. QED
      BY <2>1, <3>1 DEF TypeOK
  <2>4. CASE ClientEnds(j)
    BY <2>1, <2>4 DEF ClientEnds, Listening, Terminal, TypeOK
  <2>5. CASE ClientLost(j)
    BY <2>1, <2>5 DEF ClientLost, Listening, netVars, TypeOK
  <2>6. CASE ConnDrop(j)
    BY <2>1, <2>6 DEF ConnDrop, consumerVars, TypeOK
  <2>7. QED
    BY <1>3, <2>2, <2>3, <2>4, <2>5, <2>6 DEF ClientStep
<1>4. ASSUME NEW j \in Jobs, HandleRunJob(j)
      PROVE  RequestInv'
  BY <1>4 DEF HandleRunJob, Goto, consumerVars, TypeOK
<1>5. ASSUME NEW j \in Jobs,
             \/ CancelRemove(j) \/ CancelRetain(j) \/ ReadPipe(j)
             \/ ForwardLog(j) \/ DockerStart(j) \/ ContainerPrints(j)
             \/ ContainerExits(j) \/ ReaderQuits(j) \/ ClientDies(j)
      PROVE  RequestInv'
  BY <1>5 DEF CancelRemove, CancelRetain, ReadPipe, ForwardLog, DockerStart,
     ContainerPrints, ContainerExits, ReaderQuits, ClientDies, consumerVars,
     netVars, taskVars
<1>6. CASE AgentCrash \/ AgentRestart
  BY <1>6 DEF AgentCrash, AgentRestart, consumerVars, netVars, taskVars
<1>7. QED
  BY <1>1, <1>2, <1>3, <1>4, <1>5, <1>6 DEF Next

LEMMA RequestInvariant == Spec => []RequestInv
<1>1. Init => RequestInv
  BY DEF Init, RequestInv
<1>2. QED
  BY <1>1, RequestStep, TypeCorrect, PTL DEF Spec

-------------------------------------------------------------------------------
(* Slots and containers.                                                   *)

\* Where a task stands tells what its docker client and its container can be.
BeforeDocker(j) ==
    task[j] \in {"none", "spawned", "accepted", "prepared", "admitted",
    "aborted"}

DockerInv ==
    \A j \in Jobs :
        /\ BeforeDocker(j) => cli[j] = "none" /\ container[j] = "none"
        /\ cli[j] = "starting" => task[j] \in {"waiting", "gone"}
        /\ cli[j] = "starting" => container[j] = "none"
        /\ task[j] = "draining" => Exited(j)
        /\ cli[j] = "ok" => container[j] = "ok"
        /\ verdict[j] = "ok" => cli[j] = "ok"
        /\ container[j] = "left" => task[j]
                \in {"cleaned", "packed", "done", "gone"}

\* The inductive invariant behind the accounting of slots and containers.
AccountInv ==
    /\ DockerInv
    /\ SlotsAccounted
    /\ ContainersAccounted

LEMMA AccountInit == Init => AccountInv
  BY DEF Init, AccountInv, DockerInv, BeforeDocker, Exited, SlotsAccounted,
     HoldsSlot, ContainersAccounted, Runs

\* Steps of consumers, of the network and of the log tasks touch nothing the
\* accounting reads.
LEMMA AccountOutside ==
  ASSUME AccountInv, NEW j \in Jobs,
         \/ Submit(j) \/ ClientStep(j) \/ ConnDrop(j) \/ ReadPipe(j)
         \/ ForwardLog(j) \/ ContainerPrints(j)
               \/ ReaderQuits(j)
  PROVE  AccountInv'
<1>1. UNCHANGED <<task, verdict, active, cancel, cli, container>>
  BY DEF Submit, ClientStep, ClientReads, ClientEnds, ClientLost, ConnDrop,
     ReadPipe, ForwardLog, ContainerPrints, ReaderQuits, taskVars, dockerVars
<1>2. QED
  BY <1>1 DEF AccountInv, DockerInv, BeforeDocker, Exited,
     SlotsAccounted, HoldsSlot, ContainersAccounted, Runs

\* A task moves between stages that hold no slot and have no docker client.
LEMMA EarlyMove ==
  ASSUME TypeOK, AccountInv, NEW j \in Jobs,
         task[j] \in {"none", "spawned", "accepted", "prepared"},
         NEW s \in {"spawned", "accepted", "prepared", "aborted"}, Goto(j, s),
         UNCHANGED <<verdict, active, cancel, cli, container>>
  PROVE  AccountInv'
<1>1. task'[j] = s /\ \A i \in Jobs \ {j} : task'[i] = task[i]
  BY DEF Goto, TypeOK
<1>2. cli[j] = "none" /\ container[j] = "none"
  BY DEF AccountInv, DockerInv, BeforeDocker
<1>7. DockerInv'
  BY <1>1, <1>2 DEF AccountInv, DockerInv, BeforeDocker, Exited
<1>8. ASSUME NEW i \in Jobs, Runs(i)' PROVE i # j /\ Runs(i)
  BY <1>2, <1>8 DEF Runs
<1>3. ContainersAccounted'
  BY <1>1, <1>8 DEF AccountInv, HoldsSlot, Runs, ContainersAccounted
<1>4. ~HoldsSlot(j) /\ j \notin active
  BY DEF AccountInv, HoldsSlot, SlotsAccounted
<1>5. SlotsAccounted'
  BY <1>1, <1>4 DEF AccountInv, SlotsAccounted, HoldsSlot, TypeOK
<1>6. QED
  BY <1>3, <1>5, <1>7 DEF AccountInv

LEMMA AccountSession ==
  ASSUME TypeOK, RequestInv, AccountInv, NEW j \in Jobs,
         HandleRunJob(j) \/ CancelRemove(j) \/ CancelRetain(j)
  PROVE  AccountInv'
<1>1. CASE HandleRunJob(j)
  <2>1. task[j] = "none"
    BY <1>1 DEF HandleRunJob, RequestInv
  <2>2. UNCHANGED <<verdict, active, cancel, cli, container>>
    BY <1>1 DEF HandleRunJob, dockerVars
  <2>3. CASE Goto(j, "spawned")
    BY <2>1, <2>2, <2>3, EarlyMove
  <2>4. CASE UNCHANGED task
    BY <2>2, <2>4 DEF AccountInv, DockerInv, BeforeDocker, Exited,
       SlotsAccounted, HoldsSlot, ContainersAccounted, Runs
  <2>5. QED
    BY <1>1, <2>3, <2>4 DEF HandleRunJob
<1> USE DEF TypeOK, AccountInv, DockerInv, BeforeDocker, Exited,
SlotsAccounted,
        HoldsSlot, ContainersAccounted, Runs, taskVars,
        dockerVars
<1>2. CASE CancelRemove(j)
  BY <1>2 DEF CancelRemove
<1>3. CASE CancelRetain(j)
  BY <1>3 DEF CancelRetain, Retain
<1>4. QED
  BY <1>1, <1>2, <1>3

LEMMA AccountTask ==
  ASSUME TypeOK, AccountInv, NEW j \in Jobs, TaskStep(j)
  PROVE  AccountInv'
<1>1. CASE AcceptJob(j)
  <2>1. UNCHANGED <<verdict, active, cancel, cli, container>>
        /\ task[j] = "spawned" /\ (Goto(j, "accepted") \/ Goto(j, "aborted"))
    BY <1>1 DEF AcceptJob, At, dockerVars
  <2>2. QED
    BY <2>1, EarlyMove
<1>2. CASE PrepareJob(j)
  <2>1. UNCHANGED <<verdict, active, cancel, cli, container>>
        /\ task[j] = "accepted" /\ (Goto(j, "prepared") \/ Goto(j, "aborted"))
    BY <1>2 DEF PrepareJob, At, dockerVars
  <2>2. QED
    BY <2>1, EarlyMove
<1>3. CASE AdmitJob(j)
  <2>1. task[j] = "prepared" /\ UNCHANGED <<verdict, cancel, cli, container>>
    BY <1>3 DEF AdmitJob, At, dockerVars
  <2>2. CASE Goto(j, "aborted") /\ UNCHANGED active
    BY <2>1, <2>2, EarlyMove
  <2>3. CASE Goto(j, "admitted") /\ active' = active \cup {j}
    <3>1. task'[j] = "admitted" /\ \A i \in Jobs \ {j} : task'[i] = task[i]
      BY <2>3 DEF Goto, TypeOK
    <3>2. cli[j] = "none" /\ container[j] = "none"
      BY <2>1 DEF AccountInv, DockerInv, BeforeDocker
    <3>3. DockerInv'
      BY <2>1, <3>1, <3>2 DEF AccountInv, DockerInv, BeforeDocker, Exited
    <3>4. SlotsAccounted' /\ ContainersAccounted'
      BY <2>1, <2>3, <3>1, <3>2 DEF AccountInv, SlotsAccounted, HoldsSlot,
         ContainersAccounted, Runs, TypeOK
    <3>5. QED
      BY <3>3, <3>4 DEF AccountInv
  <2>4. QED
    BY <1>3, <2>2, <2>3 DEF AdmitJob
<1> USE DEF TypeOK, AccountInv, DockerInv, BeforeDocker, Exited,
SlotsAccounted,
        HoldsSlot, ContainersAccounted, Runs, dockerVars,
        At, Goto
<1>4. CASE SpawnDocker(j)
  <2>1. CASE Goto(j, "waiting") /\ cli' = [cli EXCEPT ![j] = "starting"]
             /\ UNCHANGED active
    BY <1>4, <2>1 DEF SpawnDocker
  <2>2. CASE Goto(j, "aborted") /\ active' = active \ {j} /\ UNCHANGED cli
    BY <1>4, <2>2 DEF SpawnDocker
  <2>3. QED
    BY <1>4, <2>1, <2>2 DEF SpawnDocker, Retain
<1>5. CASE ChildExit(j)
  <2>1. UNCHANGED <<active, cancel, cli, container>>
        /\ task[j] = "waiting" /\ Exited(j)
    BY <1>5 DEF ChildExit
  <2>2. CASE task' = [task EXCEPT ![j] = "draining"] /\ UNCHANGED verdict
    BY <2>1, <2>2
  <2>3. CASE /\ task' = [task EXCEPT ![j] = "reaped"]
             /\ verdict' = [verdict EXCEPT ![j] = "error"]
    <3>1. DockerInv'
      BY <2>1, <2>3
    <3>2. SlotsAccounted' /\ ContainersAccounted'
      BY <2>1, <2>3
    <3>3. QED BY <3>1, <3>2
  <2>4. QED
    BY <1>5, <2>2, <2>3 DEF ChildExit
<1>6. CASE JoinLogTasks(j)
  BY <1>6 DEF JoinLogTasks
<1>7. CASE Timeout(j)
  BY <1>7 DEF Timeout
<1>13. CASE ReportTimeout(j)
  BY <1>13 DEF ReportTimeout
<1>8. CASE ReleaseSlot(j)
  <2>1. /\ task[j] = "reaped" /\ task' = [task EXCEPT ![j] = "released"]
        /\ active' = active \ {j}
        /\ UNCHANGED <<verdict, cancel, cli, container>>
    BY <1>8 DEF ReleaseSlot, Retain
  <2>2. DockerInv'
    BY <2>1
  <2>3. ~HoldsSlot(j)' /\ j \notin active'
    BY <2>1
  <2>4. \A i \in Jobs \ {j} :
            task'[i] = task[i] /\ (i \in active' <=> i \in active)
    BY <2>1
  <2>5. SlotsAccounted'
    BY <2>1, <2>3, <2>4
  <2>6. Runs(j) => verdict[j] # "ok"
    BY <2>1
  <2>7. ContainersAccounted'
    BY <2>1, <2>4, <2>6
  <2>8. QED BY <2>2, <2>5, <2>7
<1>9. CASE RemoveContainer(j)
  BY <1>9 DEF RemoveContainer
<1>10. CASE PackOutputs(j)
  BY <1>10 DEF PackOutputs
<1>11. CASE SendTerminal(j)
  BY <1>11 DEF SendTerminal
<1>12. QED
  BY <1>1, <1>2, <1>3, <1>4, <1>5, <1>6, <1>7, <1>8, <1>9, <1>10, <1>11,
     <1>13 DEF TaskStep

LEMMA AccountDocker ==
  ASSUME TypeOK, AccountInv, NEW j \in Jobs,
         DockerStart(j) \/ ContainerExits(j) \/ ClientDies(j)
  PROVE  AccountInv'
<1> USE DEF TypeOK, AccountInv, DockerInv, BeforeDocker, Exited,
SlotsAccounted,
        HoldsSlot, ContainersAccounted, Runs, taskVars
<1>1. CASE DockerStart(j)
  <2>1. CASE /\ cli' = [cli EXCEPT ![j] = "attached"]
             /\ container' = [container EXCEPT ![j] = "running"]
    BY <1>1, <2>1 DEF DockerStart
  <2>2. CASE cli' = [cli EXCEPT ![j] = "nonzero"] /\ UNCHANGED container
    BY <1>1, <2>2 DEF DockerStart
  <2>3. QED
    BY <1>1, <2>1, <2>2 DEF DockerStart
<1>2. CASE ContainerExits(j)
  BY <1>2 DEF ContainerExits
<1>3. CASE ClientDies(j)
  BY <1>3 DEF ClientDies
<1>4. QED
  BY <1>1, <1>2, <1>3

LEMMA AccountAgent ==
  ASSUME TypeOK, AccountInv, AgentCrash \/ AgentRestart
  PROVE  AccountInv'
<1> USE DEF TypeOK, AccountInv, DockerInv, BeforeDocker, Exited,
SlotsAccounted,
        HoldsSlot, ContainersAccounted, Runs, taskVars,
        dockerVars
<1>1. CASE AgentCrash
  BY <1>1 DEF AgentCrash
<1>2. CASE AgentRestart
  BY <1>2 DEF AgentRestart
<1>3. QED
  BY <1>1, <1>2

LEMMA AccountStep ==
  TypeOK /\ RequestInv /\ AccountInv /\ [Next]_vars => AccountInv'
<1> SUFFICES ASSUME TypeOK, RequestInv, AccountInv, [Next]_vars
             PROVE  AccountInv'
  OBVIOUS
<1>1. CASE UNCHANGED vars
  BY <1>1 DEF vars, AccountInv, DockerInv, BeforeDocker, Exited,
     SlotsAccounted, HoldsSlot, ContainersAccounted, Runs
<1>2. CASE Next
  BY <1>2, AccountOutside, AccountSession, AccountTask, AccountDocker,
     AccountAgent DEF Next
<1>3. QED
  BY <1>1, <1>2

LEMMA AccountInvariant == Spec => []AccountInv
  BY AccountInit, AccountStep, TypeCorrect, RequestInvariant, PTL DEF Spec

\* Every slot in use has a task that gives it back, and a task loses its slot
\* early only to a cancel.
THEOREM SlotsAccountedHolds == Spec => []SlotsAccounted
<1>1. AccountInv => SlotsAccounted
  BY DEF AccountInv
<1>2. QED
  BY <1>1, AccountInvariant, PTL

\* A container runs without a slot only after a cancel, between the release of a
\* slot and the removal, after a removal that failed, or when its agent died.
THEOREM ContainersAccountedHolds == Spec => []ContainersAccounted
<1>1. AccountInv => ContainersAccounted
  BY DEF AccountInv
<1>2. QED
  BY <1>1, AccountInvariant, PTL

-------------------------------------------------------------------------------
(* What consumers are told.                                                *)

\* m has reached the consumer of j or is on its way there.
Says(j, m) == client[j] = m \/ \E i \in 1..Len(wire[j]) : wire[j][i] = m

\* The task is over and the docker client can start no container any more.
Settled(j) ==
    /\ task[j] \in {"done", "gone"}
    /\ outputs[j] # "none"
    /\ container[j] # "running" /\ cli[j] # "starting"

\* What lies between the exit of the docker client and the report of its job.
Tidy(j) ==
    /\ verdict[j] \in {"ok", "nonzero"} => cli[j] = verdict[j]
    /\ task[j] \in {"killed", "reaped", "released", "cleaned", "packed", "done"}
          => verdict[j] # "none"
    /\ task[j] \in {"packed", "done"} => outputs[j] # "none"

\* Which end that is, as far as m tells.
Agrees(j, m) ==
    /\ m = "succeeded" => container[j] = "ok"
    /\ m = "failed" => verdict[j] \in {"timeout", "error"} \/ cli[j] = "nonzero"

ResultInv ==
    \A j \in Jobs :
        /\ Tidy(j)
        /\ \A m \in Terminal : Says(j, m) => Settled(j) /\ Agrees(j, m)

LEMMA ResultInit == Init => ResultInv
  BY DEF Init, ResultInv, Tidy, Says, Terminal

\* What a consumer has heard or will hear of the end of its job grows only by
\* what the task sends at its end, or by a refusal.
LEMMA SaysGrowth ==
  ASSUME TypeOK, [Next]_vars, NEW j \in Jobs,
         NEW m \in Terminal \cup {"rejected"}, Says(j, m)'
  PROVE  \/ Says(j, m)
         \/ SendTerminal(j) /\ m = ResultState(j)
         \/ HandleRunJob(j) /\ m = "rejected" /\ UNCHANGED task
<1> USE DEF Says, Terminal
<1>1. CASE UNCHANGED <<client, wire>>
  BY <1>1
<1>2. ASSUME NEW i \in Jobs, NEW f \in Frames, UNCHANGED client,
             Push(i, f) \/ TrySend(i, f), i # j \/ f # m
      PROVE  Says(j, m)
  <2>1. CASE UNCHANGED wire
    BY <1>2, <2>1
  <2>2. CASE wire' = [wire EXCEPT ![i] = Append(@, f)]
    <3>1. CASE i # j
      BY <1>2, <2>2, <3>1 DEF TypeOK
    <3>2. CASE i = j
      <4>1. wire'[j] = Append(wire[j], f) /\ wire[j] \in Seq(Frames) /\ f # m
        BY <1>2, <2>2, <3>2 DEF TypeOK
      <4>2. CASE client'[j] = m
        BY <1>2, <4>2
      <4>3. CASE \E k \in 1..Len(wire'[j]) : wire'[j][k] = m
        <5>1. PICK k \in 1..Len(wire'[j]) : wire'[j][k] = m
          BY <4>3
        <5>2. k \in 1..Len(wire[j]) /\ wire[j][k] = m
          BY <4>1, <5>1
        <5>3. QED
          BY <5>2
      <4>4. QED
        BY <4>2, <4>3
    <3>3. QED
      BY <3>1, <3>2
  <2>3. QED
    BY <1>2, <2>1, <2>2 DEF Push, TrySend
<1>3. ASSUME NEW i \in Jobs, Submit(i) \/ ClientLost(i)
      PROVE  Says(j, m)
  BY <1>3 DEF Submit, ClientLost, netVars, TypeOK
<1>4. ASSUME NEW i \in Jobs, ClientReads(i)
      PROVE  Says(j, m)
  <2>1. /\ wire[i] # <<>> /\ wire[i] \in Seq(Frames)
        /\ wire' = [wire EXCEPT ![i] = Tail(@)]
        /\ client' = client \/ client' = [client EXCEPT ![i] = Head(wire[i])]
        /\ Head(wire[i]) = wire[i][1] /\ 1 \in 1..Len(wire[i])
    BY <1>4 DEF ClientReads, TypeOK
  <2>2. CASE i # j
    BY <2>1, <2>2 DEF TypeOK
  <2>3. CASE i = j
    <3>1. wire'[j] = Tail(wire[j])
      BY <2>1, <2>3 DEF TypeOK
    <3>2. CASE client'[j] = m
      BY <2>1, <2>3, <3>2 DEF TypeOK
    <3>3. CASE \E k \in 1..Len(wire'[j]) : wire'[j][k] = m
      <4>1. PICK k \in 1..Len(wire'[j]) : wire'[j][k] = m
        BY <3>3
      <4>2. ASSUME NEW s \in Seq(Frames), s # <<>>, NEW l \in 1..Len(Tail(s))
            PROVE  l + 1 \in 1..Len(s) /\ Tail(s)[l] = s[l + 1]
        OBVIOUS
      <4>3. k + 1 \in 1..Len(wire[j]) /\ wire[j][k + 1] = m
        BY <2>1, <2>3, <3>1, <4>1, <4>2
      <4>4. QED
        BY <4>3
    <3>4. QED
      BY <3>2, <3>3
  <2>4. QED
    BY <2>2, <2>3
<1>5. ASSUME NEW i \in Jobs, ClientEnds(i)
      PROVE  Says(j, m)
  <2>1. /\ wire[i] # <<>> /\ wire[i] \in Seq(Frames)
        /\ wire' = [wire EXCEPT ![i] = <<>>]
        /\ client' = [client EXCEPT ![i] = Head(wire[i])]
        /\ Head(wire[i]) = wire[i][1] /\ 1 \in 1..Len(wire[i])
    BY <1>5 DEF ClientEnds, TypeOK
  <2>2. QED
    BY <2>1 DEF TypeOK
<1>6. ASSUME NEW i \in Jobs, ConnDrop(i)
      PROVE  Says(j, m)
  <2>1. PICK e \in 0..Len(wire[i]) :
              wire' = [wire EXCEPT ![i] = SubSeq(@, 1, e)]
    BY <1>6 DEF ConnDrop
  <2>2. client' = client /\ wire[i] \in Seq(Frames)
    BY <1>6 DEF ConnDrop, consumerVars, TypeOK
  <2>3. \A k \in 1..Len(SubSeq(wire[i], 1, e)) :
            k \in 1..Len(wire[i]) /\ SubSeq(wire[i], 1, e)[k] = wire[i][k]
    BY <2>2
  <2>4. QED
    BY <2>1, <2>2, <2>3 DEF TypeOK
<1>7. ASSUME NEW i \in Jobs, AcceptJob(i) \/ PrepareJob(i) \/ ForwardLog(i)
      PROVE  Says(j, m)
  <2>1. UNCHANGED client
        /\ (UNCHANGED wire \/ \E f \in {"accepted", "running", "log"} :
               Push(i, f) \/ TrySend(i, f))
    BY <1>7 DEF AcceptJob, PrepareJob, ForwardLog, consumerVars
  <2>2. QED
    BY <1>1, <1>2, <2>1 DEF Frames
<1>8. ASSUME NEW i \in Jobs, SendTerminal(i)
      PROVE  Says(j, m) \/ (SendTerminal(j) /\ m = ResultState(j))
  <2>1. UNCHANGED client /\ TrySend(i, ResultState(i))
          /\ ResultState(i) \in Frames
    BY <1>8 DEF SendTerminal, consumerVars, ResultState, Frames
  <2>2. QED
    BY <1>2, <1>8, <2>1
<1>9. ASSUME NEW i \in Jobs,
             \/ CancelRemove(i) \/ CancelRetain(i) \/ ReadPipe(i)
             \/ DockerStart(i) \/ ContainerPrints(i) \/ ContainerExits(i)
             \/ ReaderQuits(i) \/ ClientDies(i)
             \/ AdmitJob(i) \/ SpawnDocker(i) \/ ChildExit(i)
             \/ JoinLogTasks(i)
             \/ Timeout(i) \/ ReportTimeout(i) \/ ReleaseSlot(i)
             \/ RemoveContainer(i)
             \/ PackOutputs(i)
      PROVE  Says(j, m)
  BY <1>1, <1>9 DEF CancelRemove, CancelRetain, ReadPipe, DockerStart,
     ContainerPrints, ContainerExits, ReaderQuits, ClientDies, AdmitJob,
     SpawnDocker, ChildExit,
     JoinLogTasks, Timeout, ReportTimeout, SaysLine, ReleaseSlot,
     RemoveContainer, PackOutputs,
     consumerVars, netVars
<1>10. CASE AgentCrash \/ AgentRestart
  BY <1>1, <1>10 DEF AgentCrash, AgentRestart, consumerVars, netVars
<1>11. CASE UNCHANGED vars
  BY <1>1, <1>11 DEF vars
<1>12. ASSUME NEW i \in Jobs, HandleRunJob(i)
       PROVE  Says(j, m) \/ (HandleRunJob(j) /\ m = "rejected" /\ UNCHANGED task)
  <2>1. client' = client
        /\ (UNCHANGED wire \/ (TrySend(i, "rejected") /\ UNCHANGED task))
    BY <1>12 DEF HandleRunJob, consumerVars
  <2>2. QED
    BY <1>1, <1>2, <1>12, <2>1 DEF Frames
<1>13. QED
  BY <1>3, <1>4, <1>5, <1>6, <1>7, <1>8, <1>9, <1>10, <1>11, <1>12
     DEF Next, ClientStep, TaskStep

\* Nothing disturbs a job that is settled.
LEMMA SettledStays ==
  ASSUME TypeOK, RequestInv, [Next]_vars, NEW j \in Jobs, Settled(j)
  PROVE  /\ Settled(j)' /\ verdict'[j] = verdict[j]
         /\ container[j] = "ok" => container'[j] = "ok"
         /\ cli[j] = "nonzero" => cli'[j] = "nonzero"
<1> DEFINE Keeps == /\ Settled(j)' /\ verdict'[j] = verdict[j]
                    /\ container[j] = "ok" => container'[j] = "ok"
                    /\ cli[j] = "nonzero" => cli'[j] = "nonzero"
<1> USE DEF Settled, TypeOK
<1>1. ASSUME NEW i \in Jobs, TaskStep(i)
      PROVE  Keeps
  <2>1. i # j
    BY <1>1 DEF TaskStep, AcceptJob, PrepareJob, AdmitJob, SpawnDocker,
       ChildExit, JoinLogTasks, Timeout, ReportTimeout, SaysLine, ReleaseSlot,
       RemoveContainer,
       PackOutputs, SendTerminal, At
  <2>2. /\ task'[j] = task[j] /\ outputs'[j] = outputs[j]
        /\ container'[j] = container[j] /\ cli'[j] = cli[j]
        /\ verdict'[j] = verdict[j]
    BY <1>1, <2>1 DEF TaskStep, AcceptJob, PrepareJob, AdmitJob, SpawnDocker,
       ChildExit, JoinLogTasks, Timeout, ReportTimeout, SaysLine, ReleaseSlot,
       RemoveContainer,
       PackOutputs, SendTerminal, Goto, dockerVars
  <2>3. QED
    BY <2>2
<1>2. ASSUME NEW i \in Jobs, HandleRunJob(i)
      PROVE  Keeps
  <2>1. i # j
    BY <1>2 DEF HandleRunJob, RequestInv
  <2>2. QED
    BY <1>2, <2>1 DEF HandleRunJob, Goto, dockerVars
<1>3. ASSUME NEW i \in Jobs,
             \/ Submit(i) \/ ClientStep(i) \/ ConnDrop(i) \/ CancelRetain(i)
             \/ ReadPipe(i) \/ ForwardLog(i) \/ ContainerPrints(i)
               \/ ReaderQuits(i)
      PROVE  Keeps
  BY <1>3 DEF Submit, ClientStep, ClientReads, ClientEnds, ClientLost,
     ConnDrop, CancelRetain, ReadPipe, ForwardLog, ContainerPrints,
     ReaderQuits, taskVars,
     dockerVars
<1>4. ASSUME NEW i \in Jobs, CancelRemove(i) \/ DockerStart(i)
             \/ ContainerExits(i) \/ ClientDies(i)
      PROVE  Keeps
  BY <1>4 DEF CancelRemove, DockerStart, ContainerExits, ClientDies,
     Runs, taskVars, dockerVars
<1>5. CASE AgentCrash \/ AgentRestart
  BY <1>5 DEF AgentCrash, AgentRestart, taskVars, dockerVars
<1>6. CASE UNCHANGED vars
  BY <1>6 DEF vars
<1>7. QED
  BY <1>1, <1>2, <1>3, <1>4, <1>5, <1>6 DEF Next

LEMMA TidyStep ==
  ASSUME TypeOK, RequestInv, DockerInv, [Next]_vars, \A i \in Jobs : Tidy(i),
         NEW j \in Jobs
  PROVE  Tidy(j)'
<1> USE DEF Tidy, TypeOK
<1>1. ASSUME NEW i \in Jobs,
             AcceptJob(i) \/ PrepareJob(i) \/ AdmitJob(i) \/ ReleaseSlot(i)
      PROVE  Tidy(j)'
  BY <1>1 DEF AcceptJob, PrepareJob, AdmitJob, ReleaseSlot, At, Goto,
     dockerVars
<1>2. ASSUME NEW i \in Jobs, SpawnDocker(i)
      PROVE  Tidy(j)'
  BY <1>2 DEF SpawnDocker, At, Goto, DockerInv, BeforeDocker
<1>3. ASSUME NEW i \in Jobs, JoinLogTasks(i) \/ Timeout(i) \/ ReportTimeout(i)
             \/ RemoveContainer(i) \/ ChildExit(i)
      PROVE  Tidy(j)'
  BY <1>3 DEF JoinLogTasks, Timeout, ReportTimeout, RemoveContainer, ChildExit,
     At, Goto, dockerVars, DockerInv, Exited
<1>4. ASSUME NEW i \in Jobs, PackOutputs(i) \/ SendTerminal(i)
      PROVE  Tidy(j)'
  BY <1>4 DEF PackOutputs, SendTerminal, At, Goto, dockerVars
<1>5. ASSUME NEW i \in Jobs, HandleRunJob(i)
      PROVE  Tidy(j)'
  BY <1>5 DEF HandleRunJob, Goto, dockerVars
<1>6. ASSUME NEW i \in Jobs,
             \/ Submit(i) \/ ClientStep(i) \/ ConnDrop(i) \/ CancelRetain(i)
             \/ ReadPipe(i) \/ ForwardLog(i) \/ ContainerPrints(i)
               \/ ReaderQuits(i)
      PROVE  Tidy(j)'
  BY <1>6 DEF Submit, ClientStep, ClientReads, ClientEnds, ClientLost,
     ConnDrop, CancelRetain, ReadPipe, ForwardLog, ContainerPrints,
     ReaderQuits, taskVars,
     dockerVars
<1>7. ASSUME NEW i \in Jobs, CancelRemove(i) \/ DockerStart(i)
             \/ ContainerExits(i) \/ ClientDies(i)
      PROVE  Tidy(j)'
  BY <1>7 DEF CancelRemove, DockerStart, ContainerExits, ClientDies,
     Runs, taskVars, dockerVars
<1>8. CASE AgentCrash \/ AgentRestart
  BY <1>8 DEF AgentCrash, AgentRestart, taskVars, dockerVars
<1>9. CASE UNCHANGED vars
  BY <1>9 DEF vars
<1>10. QED
  BY <1>1, <1>2, <1>3, <1>4, <1>5, <1>6, <1>7, <1>8, <1>9
     DEF Next, TaskStep

LEMMA ResultStep ==
  ASSUME TypeOK, RequestInv, AccountInv, ResultInv, [Next]_vars
  PROVE  ResultInv'
<1>1. DockerInv /\ ContainersAccounted /\ SlotsAccounted
      /\ \A i \in Jobs : Tidy(i)
  BY DEF AccountInv, ResultInv
<1>2. \A j \in Jobs : Tidy(j)'
  BY <1>1, TidyStep
<1>3. ASSUME NEW j \in Jobs, NEW m \in Terminal, Says(j, m)'
      PROVE  Settled(j)' /\ Agrees(j, m)'
  <2>1. CASE Says(j, m)
    <3>1. Settled(j) /\ Agrees(j, m)
      BY <2>1 DEF ResultInv
    <3>2. QED
      BY <3>1, SettledStays DEF Agrees
  <2>2. CASE SendTerminal(j) /\ m = ResultState(j)
    <3>1. /\ task[j] = "packed" /\ task'[j] = "done" /\ verdict' = verdict
          /\ outputs' = outputs /\ container' = container /\ cli' = cli
      BY <2>2 DEF SendTerminal, At, Goto, dockerVars, TypeOK
    <3>2. outputs[j] # "none" /\ container[j] # "running" /\ cli[j] # "starting"
      BY <1>1, <3>1 DEF Tidy, ContainersAccounted, SlotsAccounted, HoldsSlot,
         Runs, DockerInv
    <3>3. Agrees(j, m)
      BY <1>1, <2>2, <3>1 DEF ResultState, Tidy, Agrees, DockerInv, TypeOK,
         Verdicts
    <3>4. QED
      BY <3>1, <3>2, <3>3 DEF Settled, Agrees
  <2>3. QED
    BY <1>3, <2>1, <2>2, SaysGrowth DEF Terminal
<1>4. QED
  BY <1>2, <1>3 DEF ResultInv

LEMMA ResultInvariant == Spec => []ResultInv
  BY ResultInit, ResultStep, TypeCorrect, RequestInvariant, AccountInvariant,
     PTL DEF Spec

\* A consumer is told the end of its job when its outputs were packed and the
\* removal of its container was tried, and told of a success when the program
\* ended with 0.
THEOREM ReportIsTrueHolds == Spec => []ReportIsTrue
<1>1. ResultInv => ReportIsTrue
  BY DEF ResultInv, Says, Settled, Agrees, ReportIsTrue, Reported, Terminal
<1>2. QED
  BY <1>1, ResultInvariant, PTL

-------------------------------------------------------------------------------
(* JobRuntime implements JobPromise.                                       *)

OnlyLogs(w) == \A i \in 1..Len(w) : w[i] = "log"
Without(w, S) == \A i \in 1..Len(w) : w[i] \notin S

\* The frames w on their way to a consumer at stage c come in order: each one
\* finds the stage before it reached, by c or by a frame in front of it.
Legal(c, w) == \A i \in 1..Len(w) :
    /\ w[i] \in {"accepted", "rejected"} =>
          /\ c = "requested"
          /\ \A k \in 1..(i - 1) : w[k] = "log"
    /\ w[i] = "running" =>
          /\ c = "accepted" \/ \E k \in 1..(i - 1) : w[k] = "accepted"
          /\ \A k \in 1..(i - 1) : w[k] \in {"log", "accepted"}
    /\ w[i] \in Terminal =>
          /\ c = "running" \/ \E k \in 1..(i - 1) : w[k] = "running"
          /\ \A k \in 1..(i - 1) : w[k] \in {"log", "accepted", "running"}

LEMMA LegalTail ==
  ASSUME NEW c, NEW w \in Seq(Frames), w # <<>>, Legal(c, w)
  PROVE  /\ Head(w) = "log" => Legal(c, Tail(w))
         /\ Head(w) = "accepted" => c = "requested"
         /\ Head(w) = "running" => c = "accepted"
         /\ Head(w) = "rejected" => c = "requested"
         /\ Head(w) \in Terminal => c = "running"
         /\ Head(w) \in {"accepted", "running"} => Legal(Head(w), Tail(w))
<1> USE DEF Legal, Terminal
<1>1. /\ Head(w) = w[1] /\ 1 \in 1..Len(w)
      /\ Tail(w) \in Seq(Frames) /\ Len(Tail(w)) = Len(w) - 1 /\ Len(w) \in Nat
      /\ \A i \in 1..Len(Tail(w)) : Tail(w)[i] = w[i + 1] /\ i + 1 \in 1..Len(w)
  OBVIOUS
<1>2. /\ Head(w) \in {"accepted", "rejected"} => c = "requested"
      /\ Head(w) = "running" => c = "accepted"
      /\ Head(w) \in Terminal => c = "running"
  BY <1>1
<1>3. ASSUME NEW d, NEW i \in 1..Len(Tail(w)),
             \/ Head(w) = "log" /\ d = c
             \/ Head(w) \in {"accepted", "running"} /\ d = Head(w)
      PROVE  /\ Tail(w)[i] \in {"accepted", "rejected"} =>
                   /\ d = "requested"
                   /\ \A k \in 1..(i - 1) : Tail(w)[k] = "log"
             /\ Tail(w)[i] = "running" =>
                   /\ d = "accepted" \/ \E k \in 1..(i - 1) : Tail(w)[k] = "accepted"
                   /\ \A k \in 1..(i - 1) : Tail(w)[k] \in {"log", "accepted"}
             /\ Tail(w)[i] \in Terminal =>
                   /\ d = "running" \/ \E k \in 1..(i - 1) : Tail(w)[k] = "running"
                   /\ \A k \in 1..(i - 1) : Tail(w)[k]
                           \in {"log", "accepted", "running"}
  <2>1. /\ i + 1 \in 1..Len(w) /\ Tail(w)[i] = w[i + 1] /\ i \in Nat
        /\ 1 \in 1..((i + 1) - 1)
        /\ \A k \in 1..(i - 1) : Tail(w)[k] = w[k + 1] /\ k + 1 \in 1..((i + 1) - 1)
    BY <1>1
  <2>2. \A k \in 1..((i + 1) - 1) : k = 1 \/ (k - 1 \in 1..(i - 1) /\ Tail(w)[k - 1] = w[k])
    BY <1>1
  <2>3. CASE w[i + 1] \in {"accepted", "rejected"}
    BY <1>1, <1>3, <2>1, <2>3
  <2>4. CASE w[i + 1] = "running"
    <3>1. \A k \in 1..((i + 1) - 1) : w[k] \in {"log", "accepted"}
      BY <2>1, <2>4, SMTT(30)
    <3>2. c = "accepted" \/ \E k \in 1..((i + 1) - 1) : w[k] = "accepted"
      BY <2>1, <2>4
    <3>3. d = "accepted" \/ \E k \in 1..(i - 1) : Tail(w)[k] = "accepted"
      <4>1. Head(w) # "running"
        BY <1>1, <2>1, <3>1
      <4>2. CASE c = "accepted"
        BY <1>3, <4>1, <4>2
      <4>3. CASE \E k \in 1..((i + 1) - 1) : w[k] = "accepted"
        <5>1. PICK k \in 1..((i + 1) - 1) : w[k] = "accepted"
          BY <4>3
        <5>2. CASE k = 1
          BY <1>1, <1>2, <1>3, <5>1, <5>2
        <5>3. CASE k # 1
          <6>1. k - 1 \in 1..(i - 1) /\ Tail(w)[k - 1] = w[k]
            BY <2>2, <5>3, Zenon
          <6>2. QED
            BY <5>1, <6>1, Zenon
        <5>4. QED
          BY <5>2, <5>3
      <4>4. QED
        BY <3>2, <4>2, <4>3
    <3>4. QED
      BY <2>1, <2>4, <3>1, <3>3
  <2>5. CASE w[i + 1] \in Terminal
    <3>1. \A k \in 1..((i + 1) - 1) : w[k] \in {"log", "accepted", "running"}
      BY <2>1, <2>5
    <3>2. c = "running" \/ \E k \in 1..((i + 1) - 1) : w[k] = "running"
      BY <2>1, <2>5
    <3>3. d = "running" \/ \E k \in 1..(i - 1) : Tail(w)[k] = "running"
      <4>1. CASE c = "running"
        BY <1>1, <1>2, <1>3, <4>1
      <4>2. CASE \E k \in 1..((i + 1) - 1) : w[k] = "running"
        <5>1. PICK k \in 1..((i + 1) - 1) : w[k] = "running"
          BY <4>2
        <5>2. CASE k = 1
          BY <1>1, <1>2, <1>3, <5>1, <5>2
        <5>3. CASE k # 1
          <6>1. k - 1 \in 1..(i - 1) /\ Tail(w)[k - 1] = w[k]
            BY <2>2, <5>3, Zenon
          <6>2. QED
            BY <5>1, <6>1, Zenon
        <5>4. QED
          BY <5>2, <5>3
      <4>3. QED
        BY <3>2, <4>1, <4>2
    <3>4. QED
      BY <2>1, <2>5, <3>1, <3>3
  <2>6. QED
    BY <2>1, <2>3, <2>4, <2>5
<1>4. QED
  BY <1>2, <1>3

LEMMA LegalPrefix ==
  ASSUME NEW c, NEW w \in Seq(Frames), NEW e \in 0..Len(w), Legal(c, w)
  PROVE  Legal(c, SubSeq(w, 1, e))
<1>1. /\ Len(SubSeq(w, 1, e)) = e /\ e \in Nat
      /\ \A i \in 1..e : SubSeq(w, 1, e)[i] = w[i] /\ i \in 1..Len(w)
                         /\ \A k \in 1..(i - 1) : k \in 1..e
  OBVIOUS
<1>2. QED
  BY <1>1 DEF Legal

\* What may follow the frames on the way.
LEMMA LegalAppend ==
  ASSUME NEW c, NEW w \in Seq(Frames), NEW m \in Frames, Legal(c, w),
         \/ m = "log"
         \/ m \in {"accepted", "rejected"} /\ c = "requested" /\ OnlyLogs(w)
         \/ /\ m = "running"
                 /\ Without(w, {"running", "rejected"} \cup Terminal)
            /\ c = "accepted" \/ \E k \in 1..Len(w) : w[k] = "accepted"
         \/ /\ m \in Terminal /\ Without(w, {"rejected"} \cup Terminal)
            /\ c = "running" \/ \E k \in 1..Len(w) : w[k] = "running"
  PROVE  Legal(c, Append(w, m))
<1> DEFINE v == Append(w, m)
<1>1. /\ Len(v) = Len(w) + 1 /\ Len(w) \in Nat /\ v[Len(w) + 1] = m
      /\ \A i \in 1..Len(w) : v[i] = w[i] /\ w[i] \in Frames
  OBVIOUS
<1>2. ASSUME NEW i \in 1..Len(v)
      PROVE  /\ v[i] \in {"accepted", "rejected"} =>
                   c = "requested" /\ \A k \in 1..(i - 1) : v[k] = "log"
             /\ v[i] = "running" =>
                   /\ c = "accepted" \/ \E k \in 1..(i - 1) : v[k] = "accepted"
                   /\ \A k \in 1..(i - 1) : v[k] \in {"log", "accepted"}
             /\ v[i] \in Terminal =>
                   /\ c = "running" \/ \E k \in 1..(i - 1) : v[k] = "running"
                   /\ \A k \in 1..(i - 1) : v[k]
                           \in {"log", "accepted", "running"}
  <2>1. CASE i \in 1..Len(w)
    <3>1. v[i] = w[i] /\ \A k \in 1..(i - 1) : k \in 1..Len(w) /\ v[k] = w[k]
      BY <1>1, <2>1
    <3> HIDE DEF v
    <3>2. QED
      BY <2>1, <3>1 DEF Legal
  <2>2. CASE i = Len(w) + 1
    <3>1. v[i] = m /\ 1..(i - 1) = 1..Len(w)
          /\ \A k \in 1..Len(w) : v[k] = w[k] /\ w[k] \in Frames
      BY <1>1, <2>2
    <3> HIDE DEF v
    <3>2. QED
      BY <3>1 DEF Frames, Terminal, OnlyLogs, Without
  <2>3. QED
    BY <1>1, <2>1, <2>2
<1>3. QED
  BY <1>2 DEF Legal

Late == {"prepared", "admitted", "waiting", "draining", "killed", "reaped",
         "released", "cleaned", "packed"}

\* How far a task is tells what its consumer has heard, as long as they are
\* connected; a connection ends with the consumer's loop.
Ordered(j) ==
    /\ Legal(client[j], wire[j])
    /\ connUp[j] => Listening(j)
    /\ request[j] => connUp[j]
    /\ client[j] = "idle" => wire[j] = <<>>
    /\ request[j] \/ (connUp[j] /\ task[j] = "spawned") =>
          client[j] = "requested" /\ OnlyLogs(wire[j])
    /\ connUp[j] /\ task[j] = "accepted" =>
          /\ Says(j, "accepted")
          /\ Without(wire[j], {"running", "rejected"} \cup Terminal)
    /\ connUp[j] /\ task[j] \in Late =>
          /\ Says(j, "running")
          /\ Without(wire[j], {"rejected"} \cup Terminal)

OrderInv == \A j \in Jobs : Ordered(j)

LEMMA OrderInit == Init => OrderInv
  BY DEF Init, OrderInv, Ordered, Legal, Late

\* An append of a frame that may follow, read element by element.
LEMMA AppendFacts ==
  ASSUME NEW w \in Seq(Frames), NEW m \in Frames
  PROVE  /\ OnlyLogs(w) /\ m = "log" => OnlyLogs(Append(w, m))
         /\ \A S : Without(w, S) /\ m \notin S => Without(Append(w, m), S)
         /\ \A k \in 1..Len(w) : k \in 1..Len(Append(w, m))
                 /\ Append(w, m)[k] = w[k]
         /\ Len(w) + 1 \in 1..Len(Append(w, m)) /\ Append(w, m)[Len(w) + 1] = m
<1>1. /\ Len(Append(w, m)) = Len(w) + 1 /\ Append(w, m)[Len(w) + 1] = m
      /\ Len(w) \in Nat
      /\ \A i \in 1..Len(w) : Append(w, m)[i] = w[i]
  OBVIOUS
<1>2. \A i \in 1..Len(Append(w, m)) : i \in 1..Len(w) \/ i = Len(w) + 1
  BY <1>1
<1>3. QED
  BY <1>1, <1>2 DEF OnlyLogs, Without

\* The job of another consumer.
LEMMA OrderElsewhere ==
  ASSUME NEW j \in Jobs, Ordered(j),
         client'[j] = client[j], wire'[j] = wire[j], connUp'[j] = connUp[j],
         request'[j] = request[j], task'[j] = task[j]
  PROVE  Ordered(j)'
  BY DEF Ordered, Listening, Says

LEMMA OrderConsumer ==
  ASSUME TypeOK, RequestInv, OrderInv, NEW j \in Jobs,
         Submit(j) \/ ClientStep(j) \/ ConnDrop(j)
  PROVE  Ordered(j)'
<1> USE DEF TypeOK
<1>1. Ordered(j) /\ wire[j] \in Seq(Frames) /\ task' = task
  BY DEF OrderInv, Submit, ClientStep, ClientReads, ClientEnds, ClientLost,
     ConnDrop, taskVars
<1>2. CASE Submit(j)
  <2>1. client'[j] = "requested" /\ wire'[j] = <<>> /\ task'[j] = "none"
        /\ connUp'[j]
    BY <1>1, <1>2 DEF Submit, Ordered, RequestInv
  <2>2. QED
    BY <2>1 DEF Ordered, Legal, Listening, OnlyLogs, Late
<1>3. CASE ClientReads(j)
  <2>1. /\ wire[j] # <<>> /\ wire'[j] = Tail(wire[j]) /\ Listening(j)
        /\ Head(wire[j]) \in {"accepted", "running", "log"}
        /\ Head(wire[j]) = "log" => client'[j] = client[j]
        /\ Head(wire[j]) # "log" => client'[j] = Head(wire[j])
        /\ connUp'[j] = connUp[j] /\ request'[j] = request[j]
    BY <1>3 DEF ClientReads
  <2>2. /\ Head(wire[j]) = wire[j][1] /\ 1 \in 1..Len(wire[j])
        /\ \A i \in 1..Len(Tail(wire[j])) :
              Tail(wire[j])[i] = wire[j][i + 1] /\ i + 1 \in 1..Len(wire[j])
        /\ \A i \in 1..Len(wire[j]) : i = 1 \/
              (i - 1 \in 1..Len(Tail(wire[j])) /\ Tail(wire[j])[i - 1] = wire[j][i])
    BY <1>1, <2>1
  <2>3. Legal(client'[j], wire'[j])
    <3>1. Legal(client[j], wire[j])
      BY <1>1 DEF Ordered
    <3>2. /\ Head(wire[j]) = "log" => Legal(client[j], Tail(wire[j]))
          /\ Head(wire[j]) \in {"accepted", "running"}
                => Legal(Head(wire[j]), Tail(wire[j]))
      BY <1>1, <2>1, <3>1, LegalTail, Zenon
    <3>3. QED
      BY <2>1, <3>2
  <2>4. Listening(j)' /\ client'[j] # "idle"
    <3>1. client'[j] \in {"accepted", "running", client[j]}
      BY <2>1
    <3>2. Listening(j)
      BY <2>1
    <3>3. QED
      BY <3>1, <3>2, Zenon DEF Listening
  <2>5. OnlyLogs(wire[j]) => client'[j] = client[j] /\ OnlyLogs(wire'[j])
    BY <2>1, <2>2 DEF OnlyLogs
  <2>6. \A S : Without(wire[j], S) =>
            Head(wire[j]) \notin S /\ Without(wire'[j], S)
    BY <2>1, <2>2 DEF Without
  <2>7. ASSUME NEW m \in {"accepted", "running"}, Says(j, m)
        PROVE  Says(j, m)' \/ (client[j] = m /\ client'[j] # m)
    <3>1. CASE client[j] = m
      BY <3>1 DEF Says
    <3>2. CASE \E i \in 1..Len(wire[j]) : wire[j][i] = m
      <4>1. PICK i \in 1..Len(wire[j]) : wire[j][i] = m
        BY <3>2
      <4>2. CASE i = 1
        BY <2>1, <2>2, <4>1, <4>2 DEF Says
      <4>3. CASE i # 1
        <5>1. i - 1 \in 1..Len(wire'[j]) /\ wire'[j][i - 1] = m
          BY <2>1, <2>2, <4>1, <4>3
        <5>2. QED
          BY <5>1 DEF Says
      <4>4. QED
        BY <4>2, <4>3
    <3>3. QED
      BY <2>7, <3>1, <3>2 DEF Says
  <2>8. CASE connUp[j] /\ task[j] = "accepted"
    <3>1. Says(j, "accepted") /\ Head(wire[j]) # "running"
          /\ Without(wire'[j], {"running", "rejected"} \cup Terminal)
      BY <1>1, <2>6, <2>8 DEF Ordered
    <3>2. client[j] = "accepted" => client'[j] = "accepted"
      BY <2>1, <3>1
    <3>3. Says(j, "accepted")'
      BY <2>7, <3>1, <3>2
    <3>4. QED
      BY <1>1, <2>1, <2>3, <2>4, <2>5, <2>8, <3>1, <3>3 DEF Ordered, Late
  <2>9. CASE connUp[j] /\ task[j] \in Late
    <3>1. Says(j, "running") /\ Without(wire'[j], {"rejected"} \cup Terminal)
      BY <1>1, <2>6, <2>9 DEF Ordered
    <3>2. client[j] = "running" => Head(wire[j]) = "log"
      BY <1>1, <2>1, LegalTail DEF Ordered
    <3>3. Says(j, "running")'
      BY <2>1, <2>7, <3>1, <3>2
    <3>4. QED
      BY <1>1, <2>1, <2>3, <2>4, <2>5, <2>9, <3>1, <3>3 DEF Ordered, Late
  <2>10. QED
    BY <1>1, <2>1, <2>3, <2>4, <2>5, <2>8, <2>9 DEF Ordered
<1>4. CASE ClientEnds(j)
  <2>1. /\ wire[j] # <<>> /\ wire'[j] = <<>> /\ ~connUp'[j]
        /\ Head(wire[j]) = wire[j][1] /\ 1 \in 1..Len(wire[j])
        /\ Head(wire[j]) \in Terminal \cup {"rejected"}
        /\ client'[j] = Head(wire[j]) /\ request'[j] = request[j]
    BY <1>1, <1>4 DEF ClientEnds
  <2>2. ~request[j]
    BY <1>1, <2>1 DEF Ordered, OnlyLogs, Terminal
  <2>3. QED
    BY <2>1, <2>2 DEF Ordered, Legal
<1>5. CASE ClientLost(j)
  <2>1. wire'[j] = <<>> /\ ~connUp'[j] /\ request'[j] = request[j]
        /\ client'[j] = "lost"
    BY <1>5 DEF ClientLost, netVars
  <2>2. CASE request[j]
    <3>1. connUp[j] \/ ~request[j]
      BY <1>1, <2>2 DEF Ordered
    <3>2. QED
      BY <1>5, <2>2, <3>1 DEF ClientLost
  <2>3. QED
    BY <2>1, <2>2 DEF Ordered, Legal
<1>6. CASE ConnDrop(j)
  <2>1. PICK e \in 0..Len(wire[j]) :
              wire' = [wire EXCEPT ![j] = SubSeq(@, 1, e)]
    BY <1>6 DEF ConnDrop
  <2>2. /\ wire'[j] = SubSeq(wire[j], 1, e) /\ client'[j] = client[j]
        /\ ~connUp'[j] /\ ~request'[j]
    BY <1>6, <2>1 DEF ConnDrop, consumerVars
  <2>3. Legal(client'[j], wire'[j])
    BY <1>1, <2>2, LegalPrefix DEF Ordered
  <2>4. wire[j] = <<>> => wire'[j] = <<>>
    BY <2>2
  <2>5. QED
    BY <1>1, <2>2, <2>3, <2>4 DEF Ordered
<1>7. QED
  BY <1>2, <1>3, <1>4, <1>5, <1>6 DEF ClientStep

\* What a push onto a live connection does to the job's place in the order.
LEMMA OrderPush ==
  ASSUME TypeOK, NEW j \in Jobs, Ordered(j), NEW m \in Frames, TrySend(j, m),
         connUp' = connUp, client' = client, request'[j] => request[j],
         NEW s, task'[j] = s,
         \/ m = "log" /\ s = task[j]
         \/ m = "rejected" /\ request[j] /\ ~request'[j] /\ s = "none"
         \/ m = "accepted" /\ task[j] = "spawned" /\ s = "accepted" /\ ~request[j]
         \/ m = "running" /\ task[j] = "accepted" /\ s = "prepared" /\ ~request[j]
         \/ m \in Terminal /\ task[j] = "packed" /\ s = "done" /\ ~request[j]
  PROVE  Ordered(j)'
<1>1. CASE ~connUp[j]
  BY <1>1 DEF Ordered, TrySend
<1>2. CASE connUp[j]
  <2>1. wire'[j] = Append(wire[j], m) /\ wire[j] \in Seq(Frames)
    BY <1>2 DEF TrySend, Push, TypeOK
  <2>2. Listening(j)' /\ client'[j] # "idle" /\ connUp'[j] /\ client'[j] = client[j]
    BY <1>2 DEF Ordered, Listening
  <2>3. \A f : Says(j, f) => Says(j, f)'
    BY <2>1, <2>2, AppendFacts DEF Says
  <2>4. Says(j, m)'
    BY <2>1, AppendFacts DEF Says
  <2>5. \A S : Without(wire[j], S) /\ m \notin S => Without(wire'[j], S)
    BY <2>1, AppendFacts
  <2>6. OnlyLogs(wire[j])
          => Without(wire[j], {"running", "rejected"} \cup Terminal)
    BY DEF OnlyLogs, Without, Terminal
  <2>7. Without(wire[j], {"running", "rejected"} \cup Terminal) =>
            Without(wire[j], {"rejected"} \cup Terminal)
    BY DEF Without
  <2>8. CASE m = "log" /\ s = task[j]
    <3>1. Legal(client'[j], wire'[j])
      BY <2>1, <2>2, <2>8, LegalAppend DEF Ordered
    <3>2. OnlyLogs(wire[j]) => OnlyLogs(wire'[j])
      BY <2>1, <2>8, AppendFacts
    <3>3. m \notin {"running", "rejected"} \cup Terminal
      BY <2>8 DEF Terminal
    <3>4. QED
      BY <1>2, <2>2, <2>3, <2>5, <2>8, <3>1, <3>2, <3>3 DEF Ordered
  <2>9. CASE m = "rejected" /\ request[j] /\ ~request'[j] /\ s = "none"
    <3>1. Legal(client'[j], wire'[j])
      BY <2>1, <2>2, <2>9, LegalAppend DEF Ordered
    <3>2. QED
      BY <1>2, <2>2, <2>9, <3>1 DEF Ordered, Late
  <2>10. CASE m = "accepted" /\ task[j] = "spawned" /\ s = "accepted" /\ ~request[j]
    <3>1. client[j] = "requested" /\ OnlyLogs(wire[j])
      BY <1>2, <2>10 DEF Ordered
    <3>2. Legal(client'[j], wire'[j])
      BY <2>1, <2>2, <2>10, <3>1, LegalAppend DEF Ordered
    <3>3. Without(wire'[j], {"running", "rejected"} \cup Terminal)
      BY <2>5, <2>6, <2>10, <3>1 DEF Terminal
    <3>4. QED
      BY <1>2, <2>2, <2>4, <2>10, <3>2, <3>3 DEF Ordered, Late
  <2>11. CASE m = "running" /\ task[j] = "accepted" /\ s = "prepared" /\ ~request[j]
    <3>1. Says(j, "accepted")
          /\ Without(wire[j], {"running", "rejected"} \cup Terminal)
      BY <1>2, <2>11 DEF Ordered
    <3>2. Legal(client'[j], wire'[j])
      BY <2>1, <2>2, <2>11, <3>1, LegalAppend DEF Ordered, Says
    <3>3. Without(wire'[j], {"rejected"} \cup Terminal)
      BY <2>5, <2>7, <2>11, <3>1 DEF Terminal
    <3>4. QED
      BY <1>2, <2>2, <2>4, <2>11, <3>2, <3>3 DEF Ordered, Late
  <2>12. CASE m \in Terminal /\ task[j] = "packed" /\ s = "done" /\ ~request[j]
    <3>1. Says(j, "running") /\ Without(wire[j], {"rejected"} \cup Terminal)
      BY <1>2, <2>12 DEF Ordered, Late
    <3>2. Legal(client'[j], wire'[j])
      BY <2>1, <2>2, <2>12, <3>1, LegalAppend DEF Ordered, Says
    <3>3. QED
      BY <1>2, <2>2, <2>12, <3>2 DEF Ordered, Late
  <2>13. QED
    BY <2>8, <2>9, <2>10, <2>11, <2>12
<1>3. QED
  BY <1>1, <1>2 DEF TypeOK

LEMMA OrderProvider ==
  ASSUME TypeOK, RequestInv, OrderInv, NEW j \in Jobs,
         HandleRunJob(j) \/ TaskStep(j) \/ ForwardLog(j)
  PROVE  Ordered(j)'
<1>1. Ordered(j)
  BY DEF OrderInv
<1>2. CASE HandleRunJob(j)
  <2>1. /\ request[j] /\ ~request'[j] /\ client' = client /\ task[j] = "none"
        /\ client[j] = "requested" /\ OnlyLogs(wire[j])
    BY <1>1, <1>2 DEF HandleRunJob, consumerVars, TypeOK, RequestInv, Ordered
  <2>2. CASE TrySend(j, "rejected") /\ UNCHANGED <<connUp, task>>
    BY <1>1, <2>1, <2>2, OrderPush DEF Frames
  <2>3. CASE ~connUp'[j] /\ UNCHANGED <<wire, task>>
    BY <1>1, <2>1, <2>3 DEF Ordered
  <2>4. CASE Goto(j, "spawned") /\ UNCHANGED <<connUp, wire>>
    <3>1. task'[j] = "spawned"
      BY <2>4 DEF Goto, TypeOK
    <3>2. QED
      BY <1>1, <2>1, <2>4, <3>1 DEF Ordered, Late, Listening
  <2>5. QED
    BY <1>2, <2>2, <2>3, <2>4 DEF HandleRunJob, TypeOK
<1>3. CASE ForwardLog(j)
  BY <1>1, <1>3, OrderPush DEF ForwardLog, Frames, consumerVars, taskVars
<1>4. ASSUME TaskStep(j)
      PROVE  ~request[j] /\ client' = client /\ connUp' = connUp /\ request' = request
  BY <1>4 DEF TaskStep, AcceptJob, PrepareJob, AdmitJob, SpawnDocker,
     ChildExit,
     JoinLogTasks, Timeout, ReportTimeout, SaysLine, ReleaseSlot,
     RemoveContainer, PackOutputs,
     SendTerminal, At, RequestInv, consumerVars, netVars
<1>5. CASE AcceptJob(j)
  <2>1. ~request[j] /\ client' = client /\ connUp' = connUp /\ request' = request
    BY <1>4, <1>5 DEF TaskStep
  <2>2. CASE connUp[j]
    BY <1>1, <1>5, <2>1, <2>2, OrderPush
       DEF AcceptJob, At, Goto, TrySend, Frames, TypeOK
  <2>3. CASE ~connUp[j]
    BY <1>1, <1>5, <2>1, <2>3 DEF AcceptJob, Ordered
  <2>4. QED
    BY <2>2, <2>3
<1>6. CASE PrepareJob(j)
  <2>1. ~request[j] /\ client' = client /\ connUp' = connUp /\ request' = request
    BY <1>4, <1>6 DEF TaskStep
  <2>2. CASE Goto(j, "prepared") /\ TrySend(j, "running")
    BY <1>1, <1>6, <2>1, <2>2, OrderPush DEF PrepareJob, At, Goto, Frames,
       TypeOK
  <2>3. CASE Goto(j, "aborted") /\ UNCHANGED wire
    <3>1. task'[j] = "aborted"
      BY <2>3 DEF Goto, TypeOK
    <3>2. QED
      BY <1>1, <2>1, <2>3, <3>1 DEF Ordered, Late, Listening
  <2>4. QED
    BY <1>6, <2>2, <2>3 DEF PrepareJob
<1>7. CASE SendTerminal(j)
  <2>1. ~request[j] /\ client' = client /\ connUp' = connUp /\ request' = request
    BY <1>4, <1>7 DEF TaskStep
  <2>2. ResultState(j) \in Terminal /\ ResultState(j) \in Frames
    BY DEF ResultState, Terminal, Frames
  <2>3. QED
    BY <1>1, <1>7, <2>1, <2>2, OrderPush DEF SendTerminal, At, Goto, TypeOK
<1>8. ASSUME \/ AdmitJob(j) \/ SpawnDocker(j) \/ ChildExit(j) \/ JoinLogTasks(j)
             \/ Timeout(j) \/ ReportTimeout(j) \/ ReleaseSlot(j)
             \/ RemoveContainer(j) \/ PackOutputs(j)
      PROVE  Ordered(j)'
  <2>1. ~request[j] /\ client' = client /\ connUp' = connUp /\ request' = request
    BY <1>4, <1>8 DEF TaskStep
  <2>2. /\ wire' = wire /\ task[j] \in Late
        /\ task'[j] \in Late \cup {"aborted"}
    BY <1>8 DEF AdmitJob, SpawnDocker, ChildExit, JoinLogTasks, Timeout,
       ReportTimeout, SaysLine,
       ReleaseSlot, RemoveContainer, PackOutputs, At, Goto, netVars, TypeOK,
       Late
  <2>3. task'[j] # "spawned" /\ task'[j] # "accepted"
    BY <2>2 DEF Late
  <2>4. QED
    BY <1>1, <2>1, <2>2, <2>3 DEF Ordered, Listening, Says
<1>9. QED
  BY <1>2, <1>3, <1>5, <1>6, <1>7, <1>8 DEF TaskStep

LEMMA OrderStep == TypeOK /\ RequestInv /\ OrderInv /\ [Next]_vars => OrderInv'
<1> SUFFICES ASSUME TypeOK, RequestInv, OrderInv, [Next]_vars, NEW i \in Jobs
             PROVE  Ordered(i)'
  BY DEF OrderInv
<1>1. Ordered(i)
  BY DEF OrderInv
<1>2. ASSUME NEW j \in Jobs,
             \/ Submit(j) \/ ClientStep(j) \/ ConnDrop(j)
             \/ HandleRunJob(j) \/ TaskStep(j) \/ ForwardLog(j)
      PROVE  Ordered(i)'
  <2>1. CASE i = j
    BY <1>2, <2>1, OrderConsumer, OrderProvider
  <2>2. CASE i # j
    <3>1. /\ client'[i] = client[i] /\ wire'[i] = wire[i] /\ connUp'[i] = connUp[i]
          /\ request'[i] = request[i] /\ task'[i] = task[i]
      BY <1>2, <2>2 DEF Submit, ClientStep, ClientReads, ClientEnds,
         ClientLost,
         ConnDrop, HandleRunJob, ForwardLog, TaskStep, AcceptJob, PrepareJob,
         AdmitJob, SpawnDocker, ChildExit, JoinLogTasks, Timeout,
         ReportTimeout, SaysLine, ReleaseSlot,
         RemoveContainer, PackOutputs, SendTerminal, Goto, Push, TrySend,
         consumerVars, netVars, taskVars, TypeOK
    <3>2. QED
      BY <1>1, <3>1, OrderElsewhere
  <2>3. QED
    BY <2>1, <2>2
<1>3. ASSUME NEW j \in Jobs,
             \/ CancelRemove(j) \/ CancelRetain(j) \/ ReadPipe(j)
             \/ DockerStart(j) \/ ContainerPrints(j) \/ ContainerExits(j)
             \/ ReaderQuits(j) \/ ClientDies(j)
      PROVE  Ordered(i)'
  BY <1>1, <1>3, OrderElsewhere DEF CancelRemove, CancelRetain, ReadPipe,
     DockerStart, ContainerPrints, ContainerExits, ReaderQuits, ClientDies,
     consumerVars, netVars, taskVars
<1>4. CASE AgentCrash
  <2>1. /\ client' = client /\ wire' = wire /\ ~connUp'[i] /\ ~request'[i]
    BY <1>4 DEF AgentCrash, consumerVars
  <2>2. QED
    BY <1>1, <2>1 DEF Ordered
<1>5. CASE AgentRestart \/ UNCHANGED vars
  BY <1>1, <1>5, OrderElsewhere DEF AgentRestart, vars, consumerVars, netVars,
     taskVars
<1>6. QED
  BY <1>2, <1>3, <1>4, <1>5 DEF Next

LEMMA OrderInvariant == Spec => []OrderInv
  BY OrderInit, OrderStep, TypeCorrect, RequestInvariant, PTL DEF Spec

\* A job that is refused never has a task.
RefusedInv == \A j \in Jobs :
    Says(j, "rejected") => task[j] = "none" /\ ~request[j]

LEMMA RefusedStep ==
  ASSUME TypeOK, RequestInv, OrderInv, RefusedInv, [Next]_vars
  PROVE  RefusedInv'
<1> SUFFICES ASSUME NEW j \in Jobs, Says(j, "rejected")'
             PROVE  task'[j] = "none" /\ ~request'[j]
  BY DEF RefusedInv
<1> USE DEF TypeOK
<1>1. CASE HandleRunJob(j) /\ UNCHANGED task
  BY <1>1 DEF HandleRunJob, RequestInv
<1>2. CASE Says(j, "rejected")
  <2>1. task[j] = "none" /\ ~request[j]
    BY <1>2 DEF RefusedInv
  <2>2. client[j] # "idle"
    BY <1>2 DEF OrderInv, Ordered, Says
  <2>3. ASSUME NEW i \in Jobs, Submit(i) \/ HandleRunJob(i)
        PROVE  task'[j] = "none" /\ ~request'[j]
    BY <2>1, <2>2, <2>3 DEF Submit, HandleRunJob, Goto, taskVars
  <2>4. ASSUME NEW i \in Jobs, TaskStep(i)
        PROVE  task'[j] = "none" /\ ~request'[j]
    BY <2>1, <2>4 DEF TaskStep, AcceptJob, PrepareJob, AdmitJob, SpawnDocker,
       ChildExit, JoinLogTasks, Timeout, ReportTimeout, SaysLine, ReleaseSlot,
       RemoveContainer,
       PackOutputs, SendTerminal, At, Goto, netVars
  <2>5. ASSUME NEW i \in Jobs,
               \/ ClientStep(i) \/ ConnDrop(i) \/ CancelRemove(i)
               \/ CancelRetain(i) \/ ReadPipe(i) \/ ForwardLog(i)
               \/ DockerStart(i) \/ ContainerPrints(i)
               \/ ContainerExits(i) \/ ReaderQuits(i) \/ ClientDies(i)
        PROVE  task'[j] = "none" /\ ~request'[j]
    BY <2>1, <2>5 DEF ClientStep, ClientReads, ClientEnds, ClientLost,
       ConnDrop,
       CancelRemove, CancelRetain, ReadPipe, ForwardLog, DockerStart,
       ContainerPrints, ContainerExits, ReaderQuits, ClientDies, taskVars,
       netVars
  <2>6. CASE AgentCrash \/ AgentRestart \/ UNCHANGED vars
    BY <2>1, <2>6 DEF AgentCrash, AgentRestart, vars, taskVars, netVars
  <2>7. QED
    BY <2>3, <2>4, <2>5, <2>6 DEF Next
<1>3. ~(SendTerminal(j) /\ "rejected" = ResultState(j))
  BY DEF ResultState
<1>4. QED
  BY <1>1, <1>2, <1>3, SaysGrowth

LEMMA RefusedInvariant == Spec => []RefusedInv
<1>1. Init => RefusedInv
  BY DEF Init, RefusedInv, Says
<1>2. QED
  BY <1>1, RefusedStep, TypeCorrect, RequestInvariant, OrderInvariant, PTL
     DEF Spec

\* What JobPromise sees of a step that touches neither the consumers, nor the
\* ends of containers, nor the outputs.
LEMMA PromiseStutters ==
  ASSUME client' = client, outputs' = outputs,
         \A j \in Jobs : container'[j] = container[j] \/
             {container[j], container'[j]} \cap {"ok", "nonzero"} = {}
  PROVE  UNCHANGED Promise!vars
  BY DEF Promise!vars

LEMMA PromiseConsumer ==
  ASSUME TypeOK, ResultInv, OrderInv, NEW j \in Jobs, Submit(j) \/ ClientStep(j)
  PROVE  [Promise!Next]_(Promise!vars)
<1> USE DEF TypeOK
<1>1. outputs' = outputs /\ container' = container
  BY DEF Submit, ClientStep, ClientReads, ClientEnds, ClientLost, taskVars,
     dockerVars
<1>2. Legal(client[j], wire[j]) /\ wire[j] \in Seq(Frames)
  BY DEF OrderInv, Ordered
<1>3. CASE Submit(j)
  <2>1. client[j] = "idle" /\ client' = [client EXCEPT ![j] = "requested"]
    BY <1>3 DEF Submit
  <2>2. Promise!Advance(j)
    BY <1>1, <2>1 DEF Promise!Advance, Promise!Stages
  <2>3. QED
    BY <2>2 DEF Promise!Next
<1>4. CASE ClientReads(j)
  <2>1. /\ wire[j] # <<>> /\ Head(wire[j]) \in {"accepted", "running", "log"}
        /\ Head(wire[j]) = "log" => client' = client
        /\ Head(wire[j]) # "log" =>
              client' = [client EXCEPT ![j] = Head(wire[j])]
    BY <1>4 DEF ClientReads
  <2>2. CASE Head(wire[j]) = "log"
    BY <1>1, <2>1, <2>2, PromiseStutters
  <2>3. CASE Head(wire[j]) # "log"
    <3>1. <<client[j], Head(wire[j])>> \in Promise!Stages
      BY <1>2, <2>1, <2>3, LegalTail DEF Promise!Stages
    <3>2. Promise!Advance(j)
      BY <1>1, <2>1, <2>3, <3>1 DEF Promise!Advance
    <3>3. QED
      BY <3>2 DEF Promise!Next
  <2>4. QED
    BY <2>2, <2>3
<1>5. CASE ClientEnds(j)
  <2>1. /\ wire[j] # <<>> /\ Head(wire[j]) \in Terminal \cup {"rejected"}
        /\ client' = [client EXCEPT ![j] = Head(wire[j])]
        /\ Head(wire[j]) = wire[j][1] /\ 1 \in 1..Len(wire[j])
    BY <1>2, <1>5 DEF ClientEnds
  <2>2. CASE Head(wire[j]) = "rejected"
    <3>1. client[j] = "requested"
      BY <1>2, <2>1, <2>2, LegalTail
    <3>2. Promise!Advance(j)
      BY <1>1, <2>1, <2>2, <3>1 DEF Promise!Advance, Promise!Stages
    <3>3. QED
      BY <3>2 DEF Promise!Next
  <2>3. CASE Head(wire[j]) \in Terminal
    <3>1. client[j] = "running"
      BY <1>2, <2>1, <2>3, LegalTail
    <3>2. Says(j, Head(wire[j]))
      BY <2>1 DEF Says
    <3>3. outputs[j] # "none"
          /\ (Head(wire[j]) = "succeeded" => container[j] = "ok")
      BY <2>3, <3>2 DEF ResultInv, Settled, Agrees
    <3>4. Promise!Report(j)
      BY <1>1, <2>1, <2>3, <3>1, <3>3 DEF Promise!Report, Terminal
    <3>5. QED
      BY <3>4 DEF Promise!Next
  <2>4. QED
    BY <2>1, <2>2, <2>3
<1>6. CASE ClientLost(j)
  <2>1. client' = [client EXCEPT ![j] = "lost"] /\ Listening(j)
    BY <1>6 DEF ClientLost
  <2>2. Promise!Lose(j)
    BY <1>1, <2>1 DEF Promise!Lose, Promise!Open, Listening
  <2>3. QED
    BY <2>2 DEF Promise!Next
<1>7. QED
  BY <1>3, <1>4, <1>5, <1>6 DEF ClientStep

LEMMA PromiseStep ==
  ASSUME TypeOK, AccountInv, ResultInv, OrderInv, [Next]_vars
  PROVE  [Promise!Next]_(Promise!vars)
<1> USE DEF TypeOK
<1>1. ASSUME NEW j \in Jobs, Submit(j) \/ ClientStep(j)
      PROVE  [Promise!Next]_(Promise!vars)
  BY <1>1, PromiseConsumer
<1>2. ASSUME NEW j \in Jobs, ContainerExits(j)
      PROVE  [Promise!Next]_(Promise!vars)
  <2>1. PICK code \in {"ok", "nonzero"} :
             container' = [container EXCEPT ![j] = code]
    BY <1>2 DEF ContainerExits
  <2>2. Runs(j) /\ client' = client /\ outputs' = outputs
    BY <1>2 DEF ContainerExits, consumerVars, taskVars
  <2>3. Promise!ProgramEnds(j)
    BY <2>1, <2>2 DEF Promise!ProgramEnds, Runs
  <2>4. QED
    BY <2>3 DEF Promise!Next
<1>3. ASSUME NEW j \in Jobs, PackOutputs(j)
      PROVE  [Promise!Next]_(Promise!vars)
  <2>1. PICK r \in {"packed", "failed"} : outputs' = [outputs EXCEPT ![j] = r]
    BY <1>3 DEF PackOutputs
  <2>2. client' = client /\ container' = container
    BY <1>3 DEF PackOutputs, consumerVars, dockerVars
  <2>3. Promise!OutputsReady(j)
    BY <2>1, <2>2 DEF Promise!OutputsReady
  <2>4. QED
    BY <2>3 DEF Promise!Next
<1>4. ASSUME NEW j \in Jobs,
             CancelRemove(j) \/ DockerStart(j) \/ RemoveContainer(j)
      PROVE  [Promise!Next]_(Promise!vars)
  <2>1. client' = client /\ outputs' = outputs
    BY <1>4 DEF CancelRemove, DockerStart, RemoveContainer, consumerVars,
       taskVars
  <2>2. \A i \in Jobs : container'[i] = container[i] \/
            {container[i], container'[i]} \cap {"ok", "nonzero"} = {}
    BY <1>4 DEF CancelRemove, DockerStart, RemoveContainer, Runs, dockerVars,
       AccountInv, DockerInv
  <2>3. QED
    BY <2>1, <2>2, PromiseStutters
<1>5. ASSUME NEW j \in Jobs,
             \/ ConnDrop(j) \/ HandleRunJob(j) \/ CancelRetain(j)
             \/ ReadPipe(j)
             \/ ForwardLog(j) \/ ContainerPrints(j) \/ ReaderQuits(j)
             \/ ClientDies(j) \/ AcceptJob(j) \/ PrepareJob(j)
             \/ AdmitJob(j) \/ SpawnDocker(j) \/ ChildExit(j)
             \/ JoinLogTasks(j) \/ Timeout(j) \/ ReportTimeout(j)
             \/ ReleaseSlot(j) \/ SendTerminal(j)
      PROVE  [Promise!Next]_(Promise!vars)
  <2>1. client' = client /\ outputs' = outputs /\ container' = container
    BY <1>5 DEF ConnDrop, HandleRunJob, CancelRetain, ReadPipe, ForwardLog,
       ContainerPrints, ReaderQuits, ClientDies, AcceptJob, PrepareJob,
       AdmitJob, SpawnDocker, ChildExit, JoinLogTasks, Timeout, ReportTimeout,
       SaysLine, ReleaseSlot, SendTerminal, consumerVars, taskVars,
       dockerVars
  <2>2. QED
    BY <2>1, PromiseStutters
<1>6. CASE AgentCrash \/ AgentRestart \/ UNCHANGED vars
  <2>1. client' = client /\ outputs' = outputs /\ container' = container
    BY <1>6 DEF AgentCrash, AgentRestart, vars, consumerVars, taskVars,
       dockerVars
  <2>2. QED
    BY <2>1, PromiseStutters
<1>7. QED
  BY <1>1, <1>2, <1>3, <1>4, <1>5, <1>6 DEF Next, TaskStep

\* Consumers see what JobPromise promises: stages in order, one end, success
\* only of a program that ended with 0, and outputs before the report.
THEOREM PromiseImplemented == Spec => ImplementsPromise
<1>1. ASSUME Init PROVE Promise!Init
  <2>1. client = [j \in Jobs |-> "idle"]
    BY <1>1 DEF Init
  <2>2. \A j \in Jobs : container[j] = "none" /\ outputs[j] = "none"
    BY <1>1 DEF Init
  <2>3. \A j \in Jobs : container[j] \notin {"ok", "nonzero"}
                        /\ ~(outputs[j] # "none")
    BY <2>2
  <2>4. [j \in Jobs |-> IF container[j] \in {"ok", "nonzero"}
                        THEN container[j] ELSE "unknown"]
            = [j \in Jobs |-> "unknown"]
    BY <2>3
  <2>5. [j \in Jobs |-> outputs[j] # "none"] = [j \in Jobs |-> FALSE]
    BY <2>3
  <2>6. QED
    BY <2>1, <2>4, <2>5, Zenon DEF Promise!Init
<1>2. TypeOK /\ AccountInv /\ ResultInv /\ OrderInv /\ [Next]_vars
         => [Promise!Next]_(Promise!vars)
  BY PromiseStep, Zenon
<1>3. QED
  BY <1>1, <1>2, TypeCorrect, AccountInvariant, ResultInvariant,
     OrderInvariant,
     PTL DEF Spec, ImplementsPromise, Promise!Spec

-------------------------------------------------------------------------------
(* No line comes from nowhere, none is overtaken by the verdict, and a       *)
(* consumer that stays gets them all.                                        *)

Line(m) == IF m = "log" THEN 1 ELSE 0

\* f[i]: lines among the first i frames of w.
Count(f, w) ==
    /\ f \in [0..Len(w) -> Nat]
    /\ f[0] = 0
    /\ \A i \in 1..Len(w) : f[i] = f[i - 1] + Line(w[i])
    /\ \A i, k \in 0..Len(w) : i <= k => f[i] <= f[k]

\* w holds c lines.
Holds(w, c) == \E f : Count(f, w) /\ f[Len(w)] = c

\* The lines the consumer of j has not read are on the wire, in the channel and
\* in the pipe, or were lost with a connection or a reader; a job that never had
\* a task has none.
Balance(j, c) ==
    /\ c + (pipe[j] + chan[j]) <= unread[j]
    /\ connUp[j] /\ j \notin quit => c + (pipe[j] + chan[j]) = unread[j]

LineInvOf(j) ==
    /\ \E c \in Nat : Holds(wire[j], c) /\ Balance(j, c)
    /\ task[j] = "none" => unread[j] = 0 /\ pipe[j] = 0 /\ chan[j] = 0
    /\ verdict[j] \in {"ok", "nonzero"} => pipe[j] = 0

LineInv == \A j \in Jobs : LineInvOf(j)

LEMMA LineIsNat == \A m : Line(m) \in {0, 1}
BY DEF Line

LEMMA CountEmpty ==
  ASSUME NEW c
  PROVE  Holds(<<>>, c) <=> c = 0
<1>1. Holds(<<>>, 0)
  <2>1. Count([i \in 0..0 |-> 0], <<>>)
    BY DEF Count
  <2>2. [i \in 0..0 |-> 0][Len(<<>>)] = 0
    OBVIOUS
  <2>3. QED
    BY <2>1, <2>2 DEF Holds
<1>2. ASSUME Holds(<<>>, c) PROVE c = 0
  BY <1>2 DEF Holds, Count
<1>3. QED
  BY <1>1, <1>2

\* The consumer reads the head.
LEMMA CountTail ==
  ASSUME NEW w \in Seq(Frames), w # <<>>, NEW c \in Nat, Holds(w, c)
  PROVE  /\ c - Line(Head(w)) \in Nat
         /\ Holds(Tail(w), c - Line(Head(w)))
<1>1. PICK f : Count(f, w) /\ f[Len(w)] = c
  BY DEF Holds
<1> DEFINE v == Tail(w)
           d == Line(Head(w))
           h == [i \in 0..Len(v) |-> f[i + 1] - d]
<1>2. /\ Len(w) \in Nat \ {0} /\ Len(v) = Len(w) - 1 /\ Head(w) = w[1]
      /\ \A i \in 1..Len(v) : v[i] = w[i + 1]
  OBVIOUS
<1>3. /\ Len(v) \in Nat /\ Len(v) + 1 = Len(w) /\ Len(v) \in 0..Len(v)
      /\ \A i \in 0..Len(v) : i + 1 \in 0..Len(w) /\ i + 1 \in 1..Len(w)
                              /\ 1 <= i + 1
      /\ \A i \in 1..Len(v) : i - 1 \in 0..Len(v) /\ i \in 0..Len(v)
                              /\ (i - 1) + 1 = i /\ (i + 1) - 1 = i
      /\ \A i, k \in 0..Len(v) : i <= k => i + 1 <= k + 1
      /\ 0 \in 0..Len(v) /\ 0 + 1 = 1 /\ 1 - 1 = 0
      /\ 1 \in 0..Len(w) /\ 1 \in 1..Len(w)
  BY <1>2
<1>4. /\ \A i \in 0..Len(w) : f[i] \in Nat
      /\ f[0] = 0
      /\ \A i \in 1..Len(w) : f[i] = f[i - 1] + Line(w[i])
      /\ \A i, k \in 0..Len(w) : i <= k => f[i] <= f[k]
  BY <1>1 DEF Count
<1>5. d \in {0, 1} /\ f[1] = d
  <2>1. f[1] = f[1 - 1] + Line(w[1])
    BY <1>3, <1>4, Zenon
  <2>2. d \in {0, 1} /\ d = Line(w[1])
    BY <1>2, LineIsNat, Zenon
  <2> HIDE DEF d
  <2>3. QED
    BY <1>3, <1>4, <2>1, <2>2
<1> HIDE DEF d, v
<1>6. \A i \in 0..Len(v) : f[i + 1] \in Nat /\ d <= f[i + 1]
  BY <1>3, <1>4, <1>5
<1>7. \A i \in 0..Len(v) : f[i + 1] - d \in Nat
  BY <1>5, <1>6
<1>8. h \in [0..Len(v) -> Nat]
  BY <1>7
<1>9. \A i \in 0..Len(v) : h[i] = f[i + 1] - d
  OBVIOUS
<1> HIDE DEF h
<1>10. h[0] = 0
  BY <1>3, <1>5, <1>9
<1>11. \A i \in 1..Len(v) : h[i] = h[i - 1] + Line(v[i])
  <2>1. TAKE i \in 1..Len(v)
  <2>2. h[i - 1] = f[i] - d /\ h[i] = f[i + 1] - d
    BY <1>3, <1>9
  <2>3. f[i + 1] = f[i] + Line(v[i])
    BY <1>2, <1>3, <1>4 DEF v
  <2>4. f[i] \in Nat /\ Line(v[i]) \in {0, 1}
    BY <1>3, <1>6, LineIsNat
  <2>5. QED
    BY <1>5, <2>2, <2>3, <2>4
<1>12. \A i, k \in 0..Len(v) : i <= k => h[i] <= h[k]
  <2>1. TAKE i, k \in 0..Len(v)
  <2>2. HAVE i <= k
  <2>3. f[i + 1] <= f[k + 1]
    BY <1>3, <1>4, <2>2
  <2>4. QED
    BY <1>5, <1>6, <1>9, <2>3
<1>13. Count(h, v)
  BY <1>8, <1>10, <1>11, <1>12 DEF Count
<1>14. h[Len(v)] = c - d /\ c - d \in Nat
  BY <1>1, <1>3, <1>7, <1>9
<1>15. QED
  BY <1>13, <1>14 DEF Holds, v, d

\* A frame is pushed.
LEMMA CountAppend ==
  ASSUME NEW w \in Seq(Frames), NEW m \in Frames, NEW c \in Nat, Holds(w, c)
  PROVE  Holds(Append(w, m), c + Line(m))
<1>1. PICK f : Count(f, w) /\ f[Len(w)] = c
  BY DEF Holds
<1> DEFINE v == Append(w, m)
           L == Len(w)
           d == Line(m)
           h == [i \in 0..Len(v) |-> IF i = L + 1 THEN c + d ELSE f[i]]
<1>2. /\ L \in Nat /\ Len(v) = L + 1 /\ v[L + 1] = m
      /\ \A i \in 1..L : v[i] = w[i]
  OBVIOUS
<1>3. d \in {0, 1}
  BY LineIsNat
<1>4. /\ \A i \in 0..L : f[i] \in Nat
      /\ f[0] = 0 /\ f[L] = c
      /\ \A i \in 1..L : f[i] = f[i - 1] + Line(w[i])
      /\ \A i, k \in 0..L : i <= k => f[i] <= f[k]
  BY <1>1 DEF Count
<1> HIDE DEF v, L, d
<1>5. /\ \A i \in 0..(L + 1) : i = L + 1 \/ (i \in 0..L /\ i # L + 1)
      /\ \A i \in 1..(L + 1) : i = L + 1 \/ i \in 1..L
      /\ \A i \in 1..L : /\ i # L + 1 /\ i - 1 # L + 1 /\ i - 1 \in 0..L
                         /\ i \in 0..(L + 1) /\ i - 1 \in 0..(L + 1)
      /\ \A i \in 0..L : i <= L /\ i \in 0..(L + 1) /\ i # L + 1
      /\ L \in 0..L /\ (L + 1) - 1 = L /\ L + 1 \in 0..(L + 1)
      /\ 0 \in 0..L /\ L + 1 \in 1..(L + 1)
      /\ \A i \in 0..L : ~(L + 1 <= i)
  BY <1>2
<1>6. h \in [0..(L + 1) -> Nat]
  BY <1>2, <1>3, <1>4, <1>5
<1>7. h[L + 1] = c + d /\ \A i \in 0..L : h[i] = f[i]
  BY <1>2, <1>5
<1> HIDE DEF h
<1>8. h[0] = 0 /\ h[L] = c
  BY <1>4, <1>5, <1>7
<1>9. \A i \in 1..(L + 1) : h[i] = h[i - 1] + Line(v[i])
  <2>1. ASSUME NEW i \in 1..L PROVE h[i] = h[i - 1] + Line(v[i])
    <3>1. h[i - 1] = f[i - 1] /\ h[i] = f[i] /\ v[i] = w[i]
      BY <1>2, <1>5, <1>7
    <3>2. QED
      BY <1>4, <3>1
  <2>2. h[L + 1] = h[(L + 1) - 1] + Line(v[L + 1])
    BY <1>2, <1>5, <1>7, <1>8, Zenon DEF d
  <2>3. QED
    BY <1>5, <2>1, <2>2
<1>10. \A i, k \in 0..(L + 1) : i <= k => h[i] <= h[k]
  <2>1. TAKE i, k \in 0..(L + 1)
  <2>2. HAVE i <= k
  <2>3. CASE k = L + 1 /\ i = L + 1
    <3>1. c + d <= c + d
      BY <1>3
    <3>2. QED
      BY <1>7, <2>3, <3>1
  <2>4. CASE k = L + 1 /\ i \in 0..L
    <3>1. f[i] <= c /\ f[i] \in Nat /\ h[i] = f[i] /\ h[k] = c + d
      BY <1>4, <1>5, <1>7, <2>4
    <3>2. QED
      BY <1>3, <3>1
  <2>5. CASE k \in 0..L
    <3>1. i \in 0..L
      BY <1>5, <2>2, <2>5
    <3>2. QED
      BY <1>4, <1>7, <2>2, <2>5, <3>1
  <2>6. QED
    BY <1>5, <2>3, <2>4, <2>5
<1>11. Count(h, v)
  BY <1>2, <1>6, <1>8, <1>9, <1>10 DEF Count
<1>12. QED
  BY <1>2, <1>7, <1>11 DEF Holds, v, d

\* The wire is cut.
LEMMA CountPrefix ==
  ASSUME NEW w \in Seq(Frames), NEW e \in 0..Len(w), NEW c \in Nat, Holds(w, c)
  PROVE  \E d \in Nat : d <= c /\ Holds(SubSeq(w, 1, e), d)
<1>1. PICK f : Count(f, w) /\ f[Len(w)] = c
  BY DEF Holds
<1> DEFINE v == SubSeq(w, 1, e)
           h == [i \in 0..e |-> f[i]]
<1>2. /\ Len(w) \in Nat /\ e \in Nat /\ Len(v) = e
      /\ \A i \in 1..e : v[i] = w[i]
  OBVIOUS
<1> HIDE DEF v
<1>3. /\ \A i \in 0..e : i \in 0..Len(w)
      /\ \A i \in 1..e : i \in 1..Len(w) /\ i \in 0..e /\ i - 1 \in 0..e
      /\ 0 \in 0..e /\ e \in 0..e /\ Len(w) \in 0..Len(w) /\ e <= Len(w)
  BY <1>2
<1>4. /\ \A i \in 0..Len(w) : f[i] \in Nat
      /\ f[0] = 0
      /\ \A i \in 1..Len(w) : f[i] = f[i - 1] + Line(w[i])
      /\ \A i, k \in 0..Len(w) : i <= k => f[i] <= f[k]
  BY <1>1 DEF Count
<1>5. h \in [0..e -> Nat] /\ \A i \in 0..e : h[i] = f[i]
  BY <1>3, <1>4
<1> HIDE DEF h
<1>6. \A i \in 1..e : h[i] = h[i - 1] + Line(v[i])
  BY <1>2, <1>3, <1>4, <1>5
<1>7. Count(h, v)
  BY <1>2, <1>3, <1>4, <1>5, <1>6 DEF Count
<1>8. h[e] <= c /\ h[e] \in Nat
  BY <1>1, <1>3, <1>4, <1>5
<1>9. QED
  BY <1>2, <1>7, <1>8 DEF Holds, v

LEMMA LineInit == Init => LineInv
<1> SUFFICES ASSUME Init, NEW j \in Jobs PROVE LineInvOf(j)
  BY DEF LineInv
<1>1. /\ wire[j] = <<>> /\ pipe[j] = 0 /\ chan[j] = 0 /\ unread[j] = 0
      /\ verdict[j] = "none"
  BY DEF Init
<1>2. Balance(j, 0)
  BY <1>1 DEF Balance
<1>3. QED
  BY <1>1, <1>2, CountEmpty DEF LineInvOf

\* Nothing of j moves, or its connection only ends.
LEMMA LineAside ==
  ASSUME NEW j \in Jobs, LineInvOf(j), wire'[j] = wire[j],
         unread'[j] = unread[j], pipe'[j] = pipe[j], chan'[j] = chan[j],
         quit' = quit, connUp'[j] => connUp[j],
         task'[j] = "none" => task[j] = "none",
         verdict'[j] \in {"ok", "nonzero"} =>
             verdict[j] = verdict'[j] \/ pipe[j] = 0
  PROVE  LineInvOf(j)'
<1>1. PICK c \in Nat : Holds(wire[j], c) /\ Balance(j, c)
  BY DEF LineInvOf
<1>2. Balance(j, c)'
  BY <1>1 DEF Balance
<1>3. QED
  BY <1>1, <1>2 DEF LineInvOf

\* A frame that is no line.
LEMMA LinePush ==
  ASSUME TypeOK, NEW j \in Jobs, LineInvOf(j), NEW m \in Frames \ {"log"},
         wire'[j] = Append(wire[j], m),
         unread'[j] = unread[j], pipe'[j] = pipe[j], chan'[j] = chan[j],
         quit' = quit, connUp'[j] => connUp[j], verdict'[j] = verdict[j],
         task'[j] = "none" => task[j] = "none"
  PROVE  LineInvOf(j)'
<1>1. PICK c \in Nat : Holds(wire[j], c) /\ Balance(j, c)
  BY DEF LineInvOf
<1>2. wire[j] \in Seq(Frames) /\ c + Line(m) = c
  BY DEF TypeOK, Line
<1>3. Holds(wire'[j], c)
  BY <1>1, <1>2, CountAppend
<1>4. Balance(j, c)'
  BY <1>1 DEF Balance
<1>5. QED
  BY <1>3, <1>4 DEF LineInvOf

LEMMA TakeOne ==
  ASSUME NEW c \in Int, NEW d \in Int, NEW r \in Int, NEW u \in Int,
         c + r <= u
  PROVE  /\ (c - d) + r <= u - d
         /\ c + r = u => (c - d) + r = u - d
  OBVIOUS

\* The consumer, the network and a crash take from what is there.
LEMMA LineConsumer ==
  ASSUME TypeOK, RequestInv, OrderInv, NEW j \in Jobs, LineInvOf(j),
         Submit(j) \/ ClientStep(j) \/ ConnDrop(j) \/ AgentCrash
  PROVE  LineInvOf(j)'
<1>1. PICK c \in Nat : Holds(wire[j], c) /\ Balance(j, c)
  BY DEF LineInvOf
<1>2. /\ wire[j] \in Seq(Frames) /\ unread[j] \in Int /\ pipe[j] \in Nat
      /\ chan[j] \in Nat /\ wire \in [Jobs -> Seq(Frames)]
      /\ unread \in [Jobs -> Int] /\ pipe[j] + chan[j] \in Nat
  BY LogCapType DEF TypeOK
<1> DEFINE r == pipe[j] + chan[j]
<1>r. r \in Nat /\ (UNCHANGED <<pipe, chan>> => pipe'[j] + chan'[j] = r)
  BY <1>2
<1>b. c + r <= unread[j]
      /\ (connUp[j] /\ j \notin quit => c + r = unread[j])
  BY <1>1 DEF Balance
<1>p. ASSUME NEW d \in Nat, pipe'[j] = 0, chan'[j] = 0, d <= c
      PROVE  d + (pipe'[j] + chan'[j]) <= unread[j]
  BY <1>2, <1>p, <1>b
<1> HIDE DEF r
<1>3. CASE Submit(j)
  <2>1. client[j] = "idle" /\ task[j] = "none" /\ wire[j] = <<>>
    BY <1>3 DEF Submit, RequestInv, OrderInv, Ordered
  <2>2. unread[j] = 0 /\ pipe[j] = 0 /\ chan[j] = 0 /\ c = 0
    BY <1>1, <2>1, CountEmpty DEF LineInvOf
  <2>3. /\ wire' = wire /\ unread' = unread /\ pipe' = pipe /\ chan' = chan
        /\ verdict' = verdict /\ task' = task
    BY <1>3 DEF Submit, taskVars, logVars
  <2>4. Balance(j, c)'
    BY <2>2, <2>3 DEF Balance
  <2>5. QED
    BY <1>1, <2>2, <2>3, <2>4 DEF LineInvOf
<1>4. CASE ClientReads(j)
  <2>1. /\ wire[j] # <<>> /\ wire'[j] = Tail(wire[j])
        /\ UNCHANGED <<pipe, chan, quit, connUp, verdict, task>>
    BY <1>2, <1>4 DEF ClientReads, logVars, taskVars
  <2>2. unread'[j] = unread[j] - Line(Head(wire[j]))
    BY <1>2, <1>4 DEF ClientReads, Line
  <2>3. PICK d \in {0, 1} : d = Line(Head(wire[j]))
    BY LineIsNat
  <2>4. c - d \in Nat /\ Holds(Tail(wire[j]), c - d)
    BY <1>1, <1>2, <2>1, <2>3, CountTail
  <2>5. PICK e \in Nat : e = c - d
    BY <2>4
  <2>6. Balance(j, e)'
    <3>1. e + r <= unread[j] - d
          /\ (c + r = unread[j] => e + r = unread[j] - d)
      BY <1>2, <1>r, <1>b, <2>5, TakeOne
    <3>2. unread'[j] = unread[j] - d /\ pipe'[j] + chan'[j] = r
          /\ connUp' = connUp /\ quit' = quit
      BY <1>r, <2>1, <2>2, <2>3
    <3>3. QED
      BY <1>b, <3>1, <3>2 DEF Balance
  <2>7. ASSUME task'[j] = "none" PROVE unread'[j] = 0
    <3>1. unread[j] = 0
      BY <2>1, <2>7 DEF LineInvOf
    <3>2. d = 0
      BY <1>r, <1>b, <2>5, <3>1
    <3>3. QED
      BY <2>2, <2>3, <3>1, <3>2
  <2>8. /\ task'[j] = "none" => pipe'[j] = 0 /\ chan'[j] = 0
        /\ verdict'[j] \in {"ok", "nonzero"} => pipe'[j] = 0
    BY <2>1 DEF LineInvOf
  <2>9. Holds(wire'[j], e)
    BY <2>1, <2>4, <2>5
  <2>10. QED
    BY <2>6, <2>7, <2>8, <2>9 DEF LineInvOf
<1>5. CASE ClientLost(j)
  BY <1>5, LineAside DEF ClientLost, netVars, logVars, taskVars
<1>6. ASSUME NEW e \in 0..Len(wire[j]), wire'[j] = SubSeq(wire[j], 1, e),
             ~connUp'[j], unread'[j] = unread[j], verdict'[j] = verdict[j],
             \/ pipe'[j] = pipe[j] /\ chan'[j] = chan[j]
             \/ pipe'[j] = 0 /\ chan'[j] = 0,
             task'[j] = "none" => task[j] = "none"
      PROVE  LineInvOf(j)'
  <2>1. PICK d \in Nat : d <= c /\ Holds(wire'[j], d)
    BY <1>1, <1>2, <1>6, CountPrefix
  <2>2. Balance(j, d)'
    <3>1. CASE pipe'[j] = pipe[j] /\ chan'[j] = chan[j]
      <4>1. d + r <= unread[j]
        BY <1>2, <1>r, <1>b, <2>1
      <4>2. pipe'[j] + chan'[j] = r
        BY <3>1 DEF r
      <4>3. QED
        BY <1>6, <4>1, <4>2 DEF Balance
    <3>2. CASE pipe'[j] = 0 /\ chan'[j] = 0
      BY <1>6, <1>p, <2>1, <3>2 DEF Balance
    <3>3. QED
      BY <1>6, <3>1, <3>2
  <2>3. QED
    BY <1>6, <2>1, <2>2 DEF LineInvOf
<1>7. CASE ClientEnds(j)
  <2>1. /\ wire'[j] = <<>> /\ 0 \in 0..Len(wire[j]) /\ ~connUp'[j]
        /\ UNCHANGED <<unread, pipe, chan, verdict, task>>
    BY <1>2, <1>7 DEF ClientEnds, logVars, taskVars, TypeOK
  <2>2. SubSeq(wire[j], 1, 0) = <<>>
    BY <1>2
  <2>3. QED
    BY <1>6, <2>1, <2>2
<1>8. CASE ConnDrop(j)
  <2>1. PICK e \in 0..Len(wire[j]) :
              wire' = [wire EXCEPT ![j] = SubSeq(@, 1, e)]
    BY <1>8 DEF ConnDrop
  <2>2. /\ wire'[j] = SubSeq(wire[j], 1, e) /\ ~connUp'[j]
        /\ UNCHANGED <<unread, pipe, chan, verdict, task>>
    BY <1>2, <1>8, <2>1 DEF ConnDrop, logVars, taskVars, TypeOK
  <2>3. QED
    BY <1>6, <2>2
<1>9. CASE AgentCrash
  <2>1. Len(wire[j]) \in 0..Len(wire[j])
        /\ SubSeq(wire[j], 1, Len(wire[j])) = wire[j]
    BY <1>2
  <2>2. /\ wire' = wire /\ ~connUp'[j] /\ UNCHANGED <<unread, verdict>>
        /\ pipe'[j] = 0 /\ chan'[j] = 0
        /\ task'[j] = "none" => task[j] = "none"
    BY <1>9 DEF AgentCrash
  <2>3. QED
    BY <1>6, <2>1, <2>2
<1>10. QED
  BY <1>3, <1>4, <1>5, <1>7, <1>8, <1>9 DEF ClientStep

\* A line moves on, is lost with its reader or its connection, or a new one is
\* printed.
LEMMA LineMoves ==
  ASSUME TypeOK, AccountInv, NEW j \in Jobs, Tidy(j), LineInvOf(j),
         \/ ReadPipe(j) \/ ReaderQuits(j) \/ ForwardLog(j)
         \/ ContainerPrints(j)
  PROVE  LineInvOf(j)'
<1>1. PICK c \in Nat : Holds(wire[j], c) /\ Balance(j, c)
  BY DEF LineInvOf
<1>2. /\ wire[j] \in Seq(Frames) /\ unread[j] \in Int /\ pipe[j] \in Nat
      /\ chan[j] \in Nat
  BY LogCapType DEF TypeOK
<1>3. /\ c + (pipe[j] + chan[j]) <= unread[j]
      /\ connUp[j] /\ j \notin quit => c + (pipe[j] + chan[j]) = unread[j]
  BY <1>1 DEF Balance
<1> USE DEF TypeOK, consumerVars, netVars, taskVars, dockerVars
<1>4. CASE ReadPipe(j)
  <2>1. /\ pipe'[j] = pipe[j] - 1 /\ chan'[j] = chan[j] + 1 /\ pipe[j] > 0
        /\ UNCHANGED <<wire, unread, quit, connUp, task, verdict>>
    BY <1>4 DEF ReadPipe
  <2>2. pipe'[j] + chan'[j] = pipe[j] + chan[j]
    BY <1>2, <2>1
  <2>3. Balance(j, c)'
    BY <1>3, <2>1, <2>2 DEF Balance
  <2>4. task[j] # "none" /\ verdict[j] \notin {"ok", "nonzero"}
    BY <2>1 DEF LineInvOf
  <2>5. QED
    BY <1>1, <2>1, <2>3, <2>4 DEF LineInvOf
<1>5. CASE ReaderQuits(j)
  <2>1. /\ pipe'[j] = 0 /\ j \in quit' /\ pipe[j] > 0
        /\ UNCHANGED <<wire, unread, chan, task, verdict>>
    BY <1>5 DEF ReaderQuits
  <2>2. c + (0 + chan[j]) <= unread[j]
    BY <1>2, <1>3
  <2>3. Balance(j, c)'
    BY <2>1, <2>2 DEF Balance
  <2>4. task[j] # "none"
    BY <2>1 DEF LineInvOf
  <2>5. QED
    BY <1>1, <2>1, <2>3, <2>4 DEF LineInvOf
<1>6. CASE ForwardLog(j)
  <2>1. /\ chan'[j] = chan[j] - 1 /\ chan[j] > 0
        /\ UNCHANGED <<unread, quit, pipe, connUp, task, verdict>>
        /\ \/ connUp[j] /\ wire'[j] = Append(wire[j], "log")
           \/ ~connUp[j] /\ wire'[j] = wire[j]
    BY <1>6 DEF ForwardLog, TrySend, Push
  <2>2. task[j] # "none"
    BY <2>1 DEF LineInvOf
  <2>3. CASE ~connUp[j]
    <3>1. c + (pipe[j] + (chan[j] - 1)) <= unread[j]
      BY <1>2, <1>3
    <3>2. Balance(j, c)'
      BY <2>1, <2>3, <3>1 DEF Balance
    <3>3. QED
      BY <1>1, <2>1, <2>2, <2>3, <3>2 DEF LineInvOf
  <2>4. CASE connUp[j]
    <3>1. "log" \in Frames /\ Line("log") = 1
      BY DEF Frames, Line
    <3>6. Holds(Append(wire[j], "log"), c + Line("log"))
      BY <1>1, <1>2, <3>1, CountAppend
    <3>7. c + Line("log") = c + 1 /\ c + 1 \in Nat
      BY <3>1
    <3>8. wire'[j] = Append(wire[j], "log")
      BY <2>1, <2>4, Zenon
    <3>2. Holds(wire'[j], c + 1) /\ c + 1 \in Nat
      BY <3>6, <3>7, <3>8, Zenon
    <3>3. (c + 1) + (pipe[j] + (chan[j] - 1)) = c + (pipe[j] + chan[j])
      BY <1>2
    <3>4. Balance(j, c + 1)'
      BY <1>3, <2>1, <3>3 DEF Balance
    <3>5. QED
      BY <2>1, <2>2, <3>2, <3>4 DEF LineInvOf
  <2>5. QED
    BY <2>3, <2>4
<1>7. CASE ContainerPrints(j)
  <2>1. /\ pipe'[j] = pipe[j] + 1 /\ unread'[j] = unread[j] + 1
        /\ cli[j] = "attached"
        /\ UNCHANGED <<wire, quit, chan, connUp, task, verdict>>
    BY <1>7 DEF ContainerPrints
  <2>2. /\ c + ((pipe[j] + 1) + chan[j]) <= unread[j] + 1
        /\ c + (pipe[j] + chan[j]) = unread[j] =>
              c + ((pipe[j] + 1) + chan[j]) = unread[j] + 1
    BY <1>2, <1>3
  <2>3. Balance(j, c)'
    BY <1>3, <2>1, <2>2 DEF Balance
  <2>4. task[j] # "none" /\ verdict[j] \notin {"ok", "nonzero"}
    BY <2>1 DEF Tidy, AccountInv, DockerInv, BeforeDocker
  <2>5. QED
    BY <1>1, <2>1, <2>3, <2>4 DEF LineInvOf
<1>8. QED
  BY <1>4, <1>5, <1>6, <1>7

\* The provider's part: the frames that are no lines, the lines of its own, and
\* the verdict.
LEMMA LineProvider ==
  ASSUME TypeOK, RequestInv, NEW j \in Jobs, LineInvOf(j),
         HandleRunJob(j) \/ TaskStep(j)
  PROVE  LineInvOf(j)'
<1> USE DEF TypeOK, consumerVars, netVars, taskVars, dockerVars, logVars, At,
        Goto
<1>1. CASE HandleRunJob(j)
  <2>1. /\ UNCHANGED <<unread, pipe, chan, quit, verdict>>
        /\ connUp'[j] => connUp[j]
        /\ task'[j] = "none" => task[j] = "none"
        /\ wire'[j] = wire[j] \/ wire'[j] = Append(wire[j], "rejected")
    BY <1>1 DEF HandleRunJob, TrySend, Push, RequestInv
  <2>2. "rejected" \in Frames \ {"log"}
    BY DEF Frames
  <2>3. QED
    BY <2>1, <2>2, LineAside, LinePush
<1>2. CASE AcceptJob(j) \/ PrepareJob(j) \/ SendTerminal(j)
  <2>1. /\ UNCHANGED <<unread, pipe, chan, quit, verdict, connUp>>
        /\ task'[j] # "none"
    BY <1>2 DEF AcceptJob, PrepareJob, SendTerminal
  <2>2. \E m \in Frames \ {"log"} :
            wire'[j] = wire[j] \/ wire'[j] = Append(wire[j], m)
    <3>1. {"accepted", "running", "succeeded", "failed"} \subseteq Frames \ {"log"}
      BY DEF Frames, Terminal
    <3>2. CASE AcceptJob(j)
      BY <3>1, <3>2 DEF AcceptJob, Push
    <3>3. CASE PrepareJob(j)
      <4>1. wire'[j] = wire[j] \/ wire'[j] = Append(wire[j], "running")
        BY <3>3 DEF PrepareJob, TrySend, Push
      <4>2. QED
        BY <3>1, <4>1
    <3>4. CASE SendTerminal(j)
      <4>1. ResultState(j) \in {"succeeded", "failed"}
        BY DEF ResultState
      <4>2. wire'[j] = wire[j] \/ wire'[j] = Append(wire[j], ResultState(j))
        BY <3>4 DEF SendTerminal, TrySend, Push
      <4>3. QED
        BY <3>1, <4>1, <4>2
    <3>5. QED
      BY <1>2, <3>2, <3>3, <3>4
  <2>3. QED
    BY <2>1, <2>2, LineAside, LinePush
<1>3. CASE SpawnDocker(j) \/ ReportTimeout(j)
  <2>1. /\ chan'[j] = chan[j] + 1 /\ unread'[j] = unread[j] + 1
        /\ UNCHANGED <<wire, quit, pipe, connUp, verdict>>
        /\ task'[j] # "none"
    BY <1>3 DEF SpawnDocker, ReportTimeout, SaysLine
  <2>2. PICK c \in Nat : Holds(wire[j], c) /\ Balance(j, c)
    BY DEF LineInvOf
  <2>3. unread[j] \in Int /\ pipe[j] \in Nat /\ chan[j] \in Nat
    BY LogCapType
  <2>4. /\ c + (pipe[j] + chan[j]) <= unread[j]
        /\ connUp[j] /\ j \notin quit => c + (pipe[j] + chan[j]) = unread[j]
    BY <2>2 DEF Balance
  <2>5. /\ c + (pipe[j] + (chan[j] + 1)) <= unread[j] + 1
        /\ c + (pipe[j] + chan[j]) = unread[j] =>
              c + (pipe[j] + (chan[j] + 1)) = unread[j] + 1
    BY <2>3, <2>4
  <2>6. Balance(j, c)'
    BY <2>1, <2>4, <2>5 DEF Balance
  <2>7. QED
    BY <2>1, <2>2, <2>6 DEF LineInvOf
<1>4. CASE \/ AdmitJob(j) \/ ChildExit(j) \/ JoinLogTasks(j) \/ Timeout(j)
           \/ ReleaseSlot(j) \/ RemoveContainer(j) \/ PackOutputs(j)
  <2>1. /\ UNCHANGED <<wire, unread, pipe, chan, quit, connUp>>
        /\ task'[j] # "none"
    BY <1>4 DEF AdmitJob, ChildExit, JoinLogTasks, Timeout, ReleaseSlot,
       RemoveContainer, PackOutputs
  <2>2. verdict'[j] \in {"ok", "nonzero"} =>
            verdict[j] = verdict'[j] \/ pipe[j] = 0
    BY <1>4 DEF AdmitJob, ChildExit, JoinLogTasks, Timeout, ReleaseSlot,
       RemoveContainer, PackOutputs, Drained
  <2>3. QED
    BY <2>1, <2>2, LineAside
<1>5. QED
  BY <1>1, <1>2, <1>3, <1>4 DEF TaskStep

\* The steps of other jobs.
LEMMA LineElsewhere ==
  ASSUME TypeOK, NEW j \in Jobs, NEW i \in Jobs, i # j, LineInvOf(i),
         \/ Submit(j) \/ ClientStep(j) \/ ConnDrop(j) \/ HandleRunJob(j)
         \/ TaskStep(j) \/ ReadPipe(j) \/ ReaderQuits(j) \/ ForwardLog(j)
         \/ ContainerPrints(j)
  PROVE  LineInvOf(i)'
<1> USE DEF TypeOK, consumerVars, netVars, agentVars, taskVars, dockerVars,
        logVars
<1> DEFINE Same == /\ wire'[i] = wire[i] /\ unread'[i] = unread[i]
                   /\ pipe'[i] = pipe[i] /\ chan'[i] = chan[i]
                   /\ (i \in quit' <=> i \in quit) /\ connUp'[i] = connUp[i]
                   /\ task'[i] = task[i] /\ verdict'[i] = verdict[i]
<1>1. CASE Submit(j) \/ ClientStep(j) \/ ConnDrop(j) \/ HandleRunJob(j)
  <2>1. Same
    BY <1>1 DEF Submit, ClientStep, ClientReads, ClientEnds, ClientLost,
       ConnDrop, HandleRunJob, TrySend, Push, Goto
  <2>2. QED
    BY <2>1 DEF LineInvOf, Balance
<1>2. CASE \/ ReadPipe(j) \/ ReaderQuits(j) \/ ForwardLog(j)
           \/ ContainerPrints(j)
  <2>1. Same
    BY <1>2 DEF ReadPipe, ReaderQuits, ForwardLog, ContainerPrints, TrySend,
       Push
  <2>2. QED
    BY <2>1 DEF LineInvOf, Balance
<1>3. CASE TaskStep(j)
  <2>1. Same
    BY <1>3 DEF TaskStep, AcceptJob, PrepareJob, AdmitJob, SpawnDocker,
       ChildExit, JoinLogTasks, Timeout, ReportTimeout, SaysLine, ReleaseSlot,
       RemoveContainer, PackOutputs, SendTerminal, TrySend, Push, Goto
  <2>2. QED
    BY <2>1 DEF LineInvOf, Balance
<1>4. QED
  BY <1>1, <1>2, <1>3

LEMMA LineStep ==
  TypeOK /\ RequestInv /\ OrderInv /\ AccountInv /\ ResultInv /\ LineInv
    /\ [Next]_vars => LineInv'
<1> SUFFICES ASSUME TypeOK, RequestInv, OrderInv, AccountInv, ResultInv,
                    LineInv, [Next]_vars, NEW i \in Jobs
             PROVE  LineInvOf(i)'
  BY DEF LineInv
<1>1. LineInvOf(i) /\ Tidy(i)
  BY DEF LineInv, ResultInv
<1>2. CASE AgentCrash
  BY <1>1, <1>2, LineConsumer
<1>3. CASE AgentRestart \/ UNCHANGED vars
  BY <1>1, <1>3, LineAside DEF AgentRestart, vars, netVars, taskVars, logVars
<1>4. ASSUME NEW j \in Jobs,
             \/ CancelRemove(j) \/ CancelRetain(j) \/ DockerStart(j)
             \/ ContainerExits(j) \/ ClientDies(j)
      PROVE  LineInvOf(i)'
  BY <1>1, <1>4, LineAside DEF CancelRemove, CancelRetain, DockerStart,
     ContainerExits, ClientDies, netVars, taskVars, logVars
<1>5. ASSUME NEW j \in Jobs,
             \/ Submit(j) \/ ClientStep(j) \/ ConnDrop(j) \/ HandleRunJob(j)
             \/ TaskStep(j) \/ ReadPipe(j) \/ ReaderQuits(j) \/ ForwardLog(j)
             \/ ContainerPrints(j)
      PROVE  LineInvOf(i)'
  <2>1. CASE i # j
    BY <1>1, <1>5, <2>1, LineElsewhere
  <2>2. CASE i = j /\ (Submit(j) \/ ClientStep(j) \/ ConnDrop(j))
    BY <1>1, <2>2, LineConsumer
  <2>3. CASE i = j /\ (HandleRunJob(j) \/ TaskStep(j))
    BY <1>1, <2>3, LineProvider
  <2>4. CASE i = j /\ (\/ ReadPipe(j) \/ ReaderQuits(j) \/ ForwardLog(j)
                       \/ ContainerPrints(j))
    BY <1>1, <2>4, LineMoves
  <2>5. QED
    BY <1>5, <2>1, <2>2, <2>3, <2>4
<1>6. QED
  BY <1>2, <1>3, <1>4, <1>5 DEF Next

LEMMA LineInvariant == Spec => []LineInv
  BY LineInit, LineStep, TypeCorrect, RequestInvariant, OrderInvariant,
     AccountInvariant, ResultInvariant, PTL DEF Spec

\* A consumer reads no line twice and none that nobody printed; a verdict of
\* docker comes when the pipes are empty (docker.rs:243-244); and a consumer
\* that is connected gets every line, unless a reader met a bad one.
THEOREM LinesDrainedHolds == Spec => []LinesDrained
<1>1. TypeOK /\ LineInv => LinesDrained
  <2> SUFFICES ASSUME TypeOK, LineInv, NEW j \in Jobs
               PROVE  /\ pipe[j] + chan[j] <= unread[j]
                      /\ verdict[j] \in {"ok", "nonzero"} => pipe[j] = 0
                      /\ connUp[j] /\ j \notin quit /\ pipe[j] + chan[j] = 0
                           /\ wire[j] = <<>> => unread[j] = 0
    BY DEF LinesDrained
  <2>1. PICK c \in Nat : Holds(wire[j], c) /\ Balance(j, c)
    BY DEF LineInv, LineInvOf
  <2>2. /\ pipe[j] \in Nat /\ chan[j] \in Nat /\ unread[j] \in Int
        /\ pipe[j] + chan[j] \in Nat
    BY LogCapType DEF TypeOK
  <2>3. pipe[j] + chan[j] <= unread[j]
    BY <2>1, <2>2 DEF Balance
  <2>4. ASSUME connUp[j], j \notin quit, pipe[j] + chan[j] = 0, wire[j] = <<>>
        PROVE  unread[j] = 0
    <3>1. c = 0
      BY <2>1, <2>4, CountEmpty
    <3>2. QED
      BY <2>1, <2>4, <3>1 DEF Balance
  <2>5. QED
    BY <2>3, <2>4 DEF LineInv, LineInvOf
<1>2. QED
  BY <1>1, LineInvariant, TypeCorrect, PTL

-------------------------------------------------------------------------------
(* The choice of a peer: the score.                                        *)

\* The two constants of the score.
Idle(a)       == IF a.status = "idle" THEN 10000 ELSE 0
Favour(p, r)  == IF p \in r.prefer THEN 50000 ELSE 0

LEMMA ScoreParts ==
  ASSUME NEW p \in Peers, NEW a \in Info, NEW r \in Request
  PROVE  /\ Score(p, a, r)
          = a.free + Idle(a) + (100 - a.util) * 10 + Favour(p, r)
         /\ a.free \in Nat /\ a.util \in 0..100
         /\ Idle(a) \in {0, 10000} /\ Favour(p, r) \in {0, 50000}
         /\ Score(p, a, r) \in Int
<1>1. a.free \in Nat /\ a.util \in 0..100
  BY DEF Info
<1>2. Score(p, a, r) = a.free + Idle(a) + (100 - a.util) * 10 + Favour(p, r)
  BY DEF Score, Idle, Favour
<1>3. Idle(a) \in {0, 10000} /\ Favour(p, r) \in {0, 50000}
  BY DEF Idle, Favour
<1>4. QED
  BY <1>1, <1>2, <1>3

\* To be at least as good in every respect and better in one is to score more.
LEMMA OutdoingScoresMore ==
  ASSUME NEW p \in Peers, NEW q \in Peers, NEW a \in Info, NEW b \in Info,
         NEW r \in Request,
         q \in r.prefer => p \in r.prefer,
         b.status = "idle" => a.status = "idle",
         a.free >= b.free, a.util <= b.util,
         \/ p \in r.prefer /\ q \notin r.prefer
         \/ a.status = "idle" /\ b.status # "idle"
         \/ a.free > b.free
         \/ a.util < b.util
  PROVE  Score(p, a, r) > Score(q, b, r)
<1>1. Idle(a) >= Idle(b) /\ Favour(p, r) >= Favour(q, r)
  BY DEF Idle, Favour
<1>2. \/ Favour(p, r) > Favour(q, r) \/ Idle(a) > Idle(b)
      \/ a.free > b.free \/ a.util < b.util
  BY DEF Idle, Favour
<1>3. /\ Score(p, a, r) = a.free + Idle(a) + (100 - a.util) * 10 + Favour(p, r)
      /\ a.free \in Int /\ a.util \in Int
      /\ Idle(a) \in {0, 10000} /\ Favour(p, r) \in {0, 50000}
  BY ScoreParts
<1>4. /\ Score(q, b, r) = b.free + Idle(b) + (100 - b.util) * 10 + Favour(q, r)
      /\ b.free \in Int /\ b.util \in Int
      /\ Idle(b) \in {0, 10000} /\ Favour(q, r) \in {0, 50000}
  BY ScoreParts
<1>5. QED
  BY <1>1, <1>2, <1>3, <1>4

\* What a preference is worth.
LEMMA PreferenceIsWorth ==
  ASSUME NEW p \in Peers, NEW q \in Peers, NEW a \in Info, NEW b \in Info,
         NEW r \in Request,
         p \in r.prefer, q \notin r.prefer, Score(p, a, r) <= Score(q, b, r)
  PROVE  b.free >= a.free + 39000
<1>1. Favour(p, r) = 50000 /\ Favour(q, r) = 0
  BY DEF Favour
<1>2. QED
  BY <1>1, ScoreParts

-------------------------------------------------------------------------------
(* The invariant.                                                          *)

\* p is on the list of the fit.
Listed(p) == \E i \in DOMAIN scored : scored[i] = p

\* Who answered was asked, once, and for being a candidate; the list holds
\* exactly the peers whose answer was fit.
ProbeInv ==
    /\ ScheduleTypeOK
    /\ todo \subseteq Candidates(req)
    /\ \A p \in Peers : heard[p].sharing => p \in Candidates(req) \ todo
    /\ \A p \in Peers : Listed(p) <=> Fits(heard[p], req)

ChoiceInv ==
    /\ phase = "idle" => \A p \in Peers : heard[p] = Silent
    /\ phase = "failed" => scored = <<>>
    /\ phase = "chosen" =>
           \E i \in DOMAIN scored : IsWinner(i) /\ choice = scored[i]

LEMMA SilentIsInfo == Silent \in Info /\ ~Silent.sharing
BY DEF Silent, Info

LEMMA NoRequestIsRequest == NoRequest \in Request
BY DEF NoRequest, Request

LEMMA ScheduleStarts == ScheduleInit => ProbeInv /\ ChoiceInv
<1> SUFFICES ASSUME ScheduleInit PROVE ProbeInv /\ ChoiceInv
  OBVIOUS
<1>1. ScheduleTypeOK
  <2>1. heard \in [Peers -> Info]
    BY SilentIsInfo DEF ScheduleInit
  <2>2. QED
    BY <2>1, NoRequestIsRequest DEF ScheduleInit, ScheduleTypeOK, Phases
<1>2. todo = {} /\ \A p \in Peers : heard[p] = Silent /\ ~Listed(p)
  BY DEF ScheduleInit, Listed
<1>3. ProbeInv
  BY <1>1, <1>2, SilentIsInfo DEF ProbeInv, Fits
<1>4. ChoiceInv
  BY <1>2 DEF ScheduleInit, ChoiceInv
<1>5. QED
  BY <1>3, <1>4

\* An answer of a peer that was not asked before.
LEMMA ProbeStep ==
  ASSUME ProbeInv, ChoiceInv, NEW p \in Peers, Probe(p)
  PROVE  ProbeInv' /\ ChoiceInv'
<1>1. PICK a \in Answers :
          /\ heard' = [heard EXCEPT ![p] = a]
          /\ scored' = IF Fits(a, req) THEN Append(scored, p) ELSE scored
  BY DEF Probe
<1>2. /\ a \in Info /\ p \in todo /\ todo' = todo \ {p} /\ phase = "probing"
      /\ phase' = phase /\ req' = req /\ choice' = choice /\ target' = target
  BY <1>1, AnswerType DEF Probe, IsNext
<1>3. /\ phase \in Phases /\ req \in Request /\ todo \in SUBSET Peers
      /\ heard \in [Peers -> Info] /\ scored \in Seq(Peers)
      /\ choice \in Peers \cup {NoPeer} /\ target \in Peers \cup {NoPeer}
  BY DEF ProbeInv, ScheduleTypeOK
<1>4. scored' \in Seq(Peers) /\ heard' \in [Peers -> Info]
  BY <1>1, <1>2, <1>3
<1>5. heard'[p] = a /\ \A q \in Peers \ {p} : heard'[q] = heard[q]
  BY <1>1, <1>3
<1>6. ~Listed(p)
  BY <1>2 DEF ProbeInv, Fits
<1>7. Candidates(req') = Candidates(req)
  BY <1>2
<1>8. \A q \in Peers : Listed(q)' <=> Fits(heard'[q], req')
  <2>1. CASE Fits(a, req)
    <3>1. /\ DOMAIN scored' = 1..(Len(scored) + 1) /\ DOMAIN scored = 1..Len(scored)
          /\ scored'[Len(scored) + 1] = p
          /\ \A i \in 1..Len(scored) : scored'[i] = scored[i]
          /\ Len(scored) \in Nat
      BY <1>1, <1>3, <2>1
    <3>2. /\ Len(scored) + 1 \in DOMAIN scored'
          /\ \A i \in DOMAIN scored' :
                i \in DOMAIN scored \/ i = Len(scored) + 1
          /\ \A i \in DOMAIN scored : i \in DOMAIN scored'
      BY <3>1
    <3>3. \A q \in Peers : Listed(q)' <=> (Listed(q) \/ q = p)
      BY <3>1, <3>2 DEF Listed
    <3>4. QED
      BY <1>2, <1>5, <2>1, <3>3 DEF ProbeInv
  <2>2. CASE ~Fits(a, req)
    <3>1. \A q \in Peers : Listed(q)' <=> Listed(q)
      BY <1>1, <2>2 DEF Listed
    <3>2. QED
      BY <1>2, <1>5, <1>6, <2>2, <3>1 DEF ProbeInv
  <2>3. QED
    BY <2>1, <2>2
<1>9. ScheduleTypeOK'
  BY <1>2, <1>3, <1>4 DEF ScheduleTypeOK
<1>10. todo' \subseteq Candidates(req')
       /\ \A q \in Peers : heard'[q].sharing => q \in Candidates(req') \ todo'
  BY <1>2, <1>5, <1>7 DEF ProbeInv
<1>11. ProbeInv'
  BY <1>8, <1>9, <1>10 DEF ProbeInv
<1>12. QED
  BY <1>2, <1>11 DEF ChoiceInv

\* Steps that leave what was heard alone.
LEMMA QuietStep ==
  ASSUME ProbeInv, ChoiceInv, req' = req, heard' = heard, scored' = scored,
         todo' \subseteq todo, phase' \in Phases,
         choice' \in Peers \cup {NoPeer},
         target' \in Peers \cup {NoPeer}
  PROVE  ProbeInv'
<1>1. ScheduleTypeOK'
  BY DEF ProbeInv, ScheduleTypeOK
<1>2. Candidates(req') = Candidates(req) /\ \A p \in Peers : Listed(p)' = Listed(p)
  BY DEF Listed
<1>3. QED
  BY <1>1, <1>2 DEF ProbeInv

LEMMA ScheduleInvStep ==
  ProbeInv /\ ChoiceInv /\ [ScheduleNext]_schedVars => ProbeInv' /\ ChoiceInv'
<1> SUFFICES ASSUME ProbeInv, ChoiceInv, [ScheduleNext]_schedVars
             PROVE  ProbeInv' /\ ChoiceInv'
  OBVIOUS
<1>1. /\ phase \in Phases /\ req \in Request /\ scored \in Seq(Peers)
      /\ choice \in Peers \cup {NoPeer} /\ target \in Peers \cup {NoPeer}
  BY DEF ProbeInv, ScheduleTypeOK
<1>2. CASE StartSchedule
  <2>1. /\ phase = "idle" /\ req' \in Request /\ todo' = Candidates(req')
        /\ phase' \in {"probing", "failed"}
        /\ heard' = heard /\ scored' = scored /\ choice' = choice
        /\ target' = target
    BY <1>2, RequestType DEF StartSchedule
  <2>2. \A p \in Peers : heard[p] = Silent
    BY <2>1 DEF ChoiceInv
  <2>3. \A p \in Peers : ~Listed(p) /\ ~Listed(p)' /\ ~Fits(heard'[p], req')
    BY <2>1, <2>2, SilentIsInfo DEF ProbeInv, Listed, Fits
  <2>4. ScheduleTypeOK'
    BY <2>1 DEF ProbeInv, ScheduleTypeOK, Phases, Candidates
  <2>5. ProbeInv'
    BY <2>1, <2>2, <2>3, <2>4, SilentIsInfo DEF ProbeInv
  <2>6. scored = <<>>
    BY <1>1, <2>3 DEF Listed
  <2>7. QED
    BY <2>1, <2>5, <2>6 DEF ChoiceInv
<1>3. ASSUME NEW p \in Peers, Probe(p) PROVE ProbeInv' /\ ChoiceInv'
  BY <1>3, ProbeStep
<1>4. ASSUME NEW p \in Peers, ProbeFails(p) PROVE ProbeInv' /\ ChoiceInv'
  BY <1>1, <1>4, QuietStep DEF ProbeFails, ChoiceInv
<1>5. CASE Choose
  <2>1. PICK i \in DOMAIN scored : IsWinner(i) /\ choice' = scored[i]
    BY <1>5 DEF Choose
  <2>2. choice' \in Peers
    BY <1>1, <2>1
  <2>3. ProbeInv'
    BY <1>1, <1>5, <2>2, QuietStep DEF Choose, Phases
  <2>4. \E k \in DOMAIN scored' : IsWinner(k)' /\ choice' = scored'[k]
    BY <1>5, <2>1 DEF Choose, IsWinner, ScoreAt
  <2>5. QED
    BY <1>5, <2>3, <2>4 DEF Choose, ChoiceInv
<1>6. CASE NoneFits
  BY <1>1, <1>6, QuietStep DEF NoneFits, ChoiceInv, Phases
<1>7. CASE Resolve
  <2>1. target' \in Peers
    BY <1>7 DEF Resolve, Bearers
  <2>2. QED
    BY <1>1, <1>7, <2>1, QuietStep DEF Resolve, ChoiceInv, Phases
<1>8. CASE ScheduleReturns
  <2>1. ScheduleInit'
    BY <1>8 DEF ScheduleReturns, ScheduleInit
  <2>2. QED
    BY <2>1, ScheduleStarts, PTL
<1>9. CASE UNCHANGED schedVars
  <2>1. ProbeInv'
    BY <1>1, <1>9, QuietStep DEF schedVars
  <2>2. QED
    BY <1>9, <2>1 DEF schedVars, ChoiceInv, IsWinner, ScoreAt
<1>10. QED
  BY <1>2, <1>3, <1>4, <1>5, <1>6, <1>7, <1>8, <1>9
  DEF ScheduleNext, ScheduleStep

-------------------------------------------------------------------------------
(* The theorems.                                                           *)

LEMMA ChoiceIsBest == ProbeInv /\ ChoiceInv => ChosenIsBest
<1> SUFFICES ASSUME ProbeInv, ChoiceInv PROVE ChosenIsBest
  OBVIOUS
<1>1. /\ req \in Request /\ heard \in [Peers -> Info] /\ scored \in Seq(Peers)
      /\ \A p \in Peers : heard[p] \in Info
  BY DEF ProbeInv, ScheduleTypeOK
<1>2. \A p \in Peers : FitAnswer(p) <=> Fits(heard[p], req)
  BY <1>1 DEF FitAnswer, Fits, Info
<1>3. \A p \in Peers : FitAnswer(p) <=> Listed(p)
  BY <1>2 DEF ProbeInv
<1>4. ASSUME phase = "chosen"
      PROVE  /\ choice \in Candidates(req) /\ FitAnswer(choice)
             /\ \A p \in Peers : FitAnswer(p) => ~Outdoes(p, choice)
             /\ PreferredWins
  <2>1. PICK i \in DOMAIN scored : IsWinner(i) /\ choice = scored[i]
    BY <1>4 DEF ChoiceInv
  <2>2. choice \in Peers /\ Listed(choice)
    BY <1>1, <2>1 DEF Listed
  <2>3. FitAnswer(choice)
    BY <1>3, <2>2
  <2>4. choice \in Candidates(req)
    BY <2>2, <2>3 DEF ProbeInv, FitAnswer
  <2>5. \A p \in Peers : FitAnswer(p) =>
            Score(p, heard[p], req) <= Score(choice, heard[choice], req)
    BY <1>3, <2>1 DEF Listed, IsWinner, ScoreAt
  <2>6. ASSUME NEW p \in Peers, FitAnswer(p), Outdoes(p, choice) PROVE FALSE
    <3>1. Score(p, heard[p], req) > Score(choice, heard[choice], req)
      BY <1>1, <2>2, <2>6, OutdoingScoresMore DEF Outdoes
    <3>2. /\ Score(p, heard[p], req) \in Int
          /\ Score(choice, heard[choice], req) \in Int
      BY <1>1, <2>2, ScoreParts
    <3>3. QED
      BY <2>5, <2>6, <3>1, <3>2
  <2>7. PreferredWins
    <3>1. SUFFICES ASSUME choice \notin req.prefer, NEW p \in req.prefer,
                          FitAnswer(p)
                   PROVE  heard[choice].free >= heard[p].free + 39000
      BY DEF PreferredWins
    <3>2. p \in Peers
      BY <1>1 DEF Request
    <3>3. QED
      BY <1>1, <2>2, <2>5, <3>1, <3>2, PreferenceIsWorth
  <2>8. QED
    BY <2>3, <2>4, <2>6, <2>7
<1>5. ASSUME phase = "failed" PROVE \A p \in Peers : ~FitAnswer(p)
  <2>1. DOMAIN scored = {}
    BY <1>5 DEF ChoiceInv
  <2>2. QED
    BY <1>3, <2>1 DEF Listed
<1>6. QED
  BY <1>4, <1>5 DEF ChosenIsBest

LEMMA ScheduleInvariant == ScheduleSpec => [](ProbeInv /\ ChoiceInv)
BY ScheduleStarts, ScheduleInvStep, PTL DEF ScheduleSpec

\* For any peers, requests and answers, the probing keeps its types
\* (scheduler.rs:32-109).
THEOREM ScheduleTypeCorrect == ScheduleSpec => []ScheduleTypeOK
<1>1. ProbeInv => ScheduleTypeOK
  BY DEF ProbeInv
<1>2. QED
  BY <1>1, ScheduleInvariant, PTL

\* For any peers, requests and answers, the winner is a fit candidate that no
\* other fit one outdoes; a preferred peer loses only to 39 000 MB more of free
\* VRAM; and scheduling fails only when nobody fit answered
\* (scheduler.rs:32-109).
THEOREM ChosenIsBestHolds == ScheduleSpec => []ChosenIsBest
BY ChoiceIsBest, ScheduleInvariant, PTL

-------------------------------------------------------------------------------
(* The attempts of a command.                                              *)

CommandInv ==
    /\ CommandTypeOK
    /\ n <= retries + 1
    /\ at \in {"dial", "docker", "wait"} => n >= 1
    /\ at = "shell" => n = 0
    /\ told # "none" <=> at = "over"

LEMMA RetriesType ==
  ASSUME NEW N, NEW flag \in N, NEW file \in N, NEW default \in N,
  N \subseteq Nat
  PROVE  Retries(flag, file, default) \in N
<1> DEFINE Picks(r) == \/ r = flag /\ flag > 0
                       \/ r = file /\ flag = 0 /\ file > 0
                       \/ r = default /\ flag = 0 /\ file = 0
<1>1. \E r \in {flag, file, default} : Picks(r)
  <2>1. CASE flag > 0
    BY <2>1
  <2>2. CASE flag = 0 /\ file > 0
    BY <2>2
  <2>3. CASE flag = 0 /\ file = 0
    BY <2>3
  <2>4. QED
    BY <2>1, <2>2, <2>3
<1>2. Retries(flag, file, default) \in {flag, file, default}
  <2> HIDE DEF Picks
  <2>1. (CHOOSE r \in {flag, file, default} : Picks(r))
          \in {flag, file, default}
    BY <1>1
  <2>2. QED
    BY <2>1 DEF Retries, Picks
<1>3. QED
  BY <1>2

LEMMA CommandInit == DispatchInit => CommandInv
<1> SUFFICES ASSUME DispatchInit PROVE CommandInv
  OBVIOUS
<1>1. Len(Attempt) \in Nat \ {0}
  BY AttemptType
<1>2. 0 \in 0..(Len(Attempt) - 1) /\ 0 \in 0..Len(Attempt)
  BY <1>1
<1>3. CommandTypeOK
  BY <1>2 DEF DispatchInit, CommandTypeOK, Places
<1>4. n = 0 /\ retries = 0 /\ at = "shell" /\ told = "none"
  BY DEF DispatchInit
<1>5. QED
  BY <1>3, <1>4 DEF CommandInv

\* The end of an attempt.
LEMMA EndsFacts ==
  ASSUME CommandInv, n >= 1, NEW ok \in BOOLEAN, AttemptEnds(ok)
  PROVE  /\ record' = [record EXCEPT ![Current] =
                          IF ok THEN "succeeded" ELSE "failed"]
         /\ kind' = kind /\ retries' = retries /\ n' = n
         /\ \/ ok /\ at' = "over" /\ told' = "success"
            \/ ~ok /\ n <= retries /\ at' = "next" /\ told' = told
            \/ ~ok /\ ~(n <= retries) /\ at' = "over" /\ told' = "failure"
  BY DEF AttemptEnds, Record, End

\* A command that starts has made no attempt.
LEMMA StartFacts ==
  ASSUME CommandInv, at = "shell", n' = n, NEW l \in Nat,
  retries' \in 0..(l - 1)
  PROVE  n' = 0 /\ n' <= retries' + 1
<1>1. n' = 0
  BY DEF CommandInv
<1>2. retries' \in Nat
  OBVIOUS
<1>3. \A x \in Nat : 0 <= x + 1
  OBVIOUS
<1>4. 0 <= retries' + 1
  BY <1>2, <1>3, Zenon
<1>5. QED
  BY <1>1, <1>4, Zenon

LEMMA CommandStep ==
  ASSUME CommandInv, [DispatchNext]_dispatchVars
  PROVE  CommandInv'
<1> USE DEF CommandInv, CommandTypeOK
<1>1. /\ Len(Attempt) \in Nat \ {0} /\ n \in Nat /\ retries \in Nat
      /\ \A i \in 1..Len(Attempt) : Attempt[i] \in Jobs
      /\ n >= 1 => Current \in Jobs
  BY AttemptType DEF Current
<1>2. CASE UNCHANGED commandVars
  BY <1>2 DEF commandVars
<1>3. ASSUME NEW k \in Kinds, StartCommand(k)
      PROVE  CommandInv'
  <2>1. /\ at = "shell" /\ at' = "next" /\ kind' = k /\ n' = n /\ told' = told
        /\ record' = record /\ dialer' = dialer
    BY <1>3 DEF StartCommand
  <2>2. retries' \in 0..(Len(Attempt) - 1)
    <3>1. CASE k \in {"run", "local"}
      <4>1. PICK flag, file, default \in 0..(Len(Attempt) - 1) :
                    retries' = Retries(flag, file, default)
        BY <1>3, <3>1 DEF StartCommand
      <4>2. 0..(Len(Attempt) - 1) \subseteq Nat
        BY <1>1
      <4>3. QED
        BY <4>1, <4>2, RetriesType
    <3>2. CASE k \notin {"run", "local"}
      BY <1>1, <1>3, <3>2 DEF StartCommand
    <3>3. QED
      BY <3>1, <3>2
  <2>3. n' = 0 /\ n' <= retries' + 1
    BY <1>1, <2>1, <2>2, StartFacts
  <2>4. QED
    BY <2>1, <2>2, <2>3 DEF Places
<1>4. ASSUME NEW k \in Kinds, StartScheduled(k)
      PROVE  CommandInv'
  <2>1. /\ at = "shell" /\ kind' = k /\ n' = n /\ record' = record
        /\ retries' \in 0..(Len(Attempt) - 1)
        /\ \/ at' = "scheduling" /\ dialer' = TRUE /\ told' = told
           \/ at' = "over" /\ told' = "failure" /\ dialer' = dialer
    BY <1>1, <1>4 DEF StartScheduled, End
  <2>2. n' = 0 /\ n' <= retries' + 1
    BY <1>1, <2>1, StartFacts
  <2>3. QED
    BY <2>1, <2>2 DEF Places
<1>5. CASE Scheduled
  <2>1. /\ at = "scheduling"
        /\ UNCHANGED <<kind, retries, dialer, n, record>>
        /\ \/ at' = "next" /\ told' = told
           \/ at' = "over" /\ told' = "failure"
    BY <1>5 DEF Scheduled, End
  <2>2. QED
    BY <2>1 DEF Places
<1>6. CASE NextAttempt
  <2>1. /\ at = "next" /\ n <= retries /\ n' = n + 1
        /\ at' \in {"docker", "dial"}
                /\ UNCHANGED <<kind, retries, dialer, told>>
        /\ \E s \in {"pending", "running"} :
              record' = [record EXCEPT ![Attempt[n + 1]] = s]
    BY <1>6 DEF NextAttempt, Record
  <2>2. record' \in [Jobs -> {"none", "pending", "running"} \cup Terminal]
    BY <2>1
  <2>3. QED
    BY <1>1, <2>1, <2>2 DEF Places
<1>7. CASE NoDialer
  <2>1. /\ at' = "over" /\ told' = "failure" /\ at \in {"next", "dial"}
        /\ UNCHANGED <<kind, retries, dialer, n>>
        /\ record' = record \/ record' = [record EXCEPT ![Current] = "failed"]
    BY <1>7 DEF NoDialer, End, Record
  <2>2. record' \in [Jobs -> {"none", "pending", "running"} \cup Terminal]
    BY <2>1 DEF Terminal
  <2>3. QED
    BY <1>1, <2>1, <2>2 DEF Places
<1>8. ASSUME NEW ok \in BOOLEAN, AttemptEnds(ok), n >= 1, dialer' \in BOOLEAN,
             at \in {"dial", "docker", "wait"}
      PROVE  CommandInv'
  <2>1. record' \in [Jobs -> {"none", "pending", "running"} \cup Terminal]
    BY <1>8, EndsFacts DEF Terminal
  <2>2. /\ UNCHANGED <<kind, retries, n>>
        /\ \/ at' = "over" /\ told' \in {"success", "failure"}
           \/ at' = "next" /\ told' = told
    BY <1>8, EndsFacts
  <2>3. QED
    BY <1>8, <2>1, <2>2 DEF Places
<1>9. CASE SendFails \/ LocalEnds \/ RemoteEnds
  BY <1>8, <1>9 DEF SendFails, LocalEnds, RemoteEnds
<1>10. CASE Send
  BY <1>1, <1>10 DEF Send, Places
<1>11. CASE Interrupt
  BY <1>1, <1>11 DEF Interrupt, End, Places
<1>12. CASE Scheduling \/ RuntimeStep
  BY <1>2, <1>12 DEF Scheduling, RuntimeStep, Aside
<1>13. QED
  BY <1>2, <1>3, <1>4, <1>5, <1>6, <1>7, <1>9, <1>10, <1>11, <1>12
     DEF DispatchNext, Progress, dispatchVars

LEMMA CommandInvariant == DispatchSpec => []CommandInv
  BY CommandInit, CommandStep, PTL DEF DispatchSpec

\* The types of a command: also that --retries and its defaults never ask for
\* more attempts than there are.
THEOREM CommandTypeCorrect == DispatchSpec => []CommandTypeOK
<1>1. CommandInv => CommandTypeOK
  BY DEF CommandInv
<1>2. QED
  BY <1>1, CommandInvariant, PTL

\* An attempt of the command in hand is a job.
LEMMA AttemptIsJob ==
  ASSUME CommandInv
  PROVE  /\ \A i \in 1..Len(Attempt) : Attempt[i] \in Jobs
         /\ n \in 0..Len(Attempt) /\ Len(Attempt) \in Nat
         /\ n >= 1 => Current \in Jobs
         /\ \A i, k \in 1..Len(Attempt) : Attempt[i] = Attempt[k] => i = k
  BY AttemptType DEF CommandInv, CommandTypeOK, Current

-------------------------------------------------------------------------------
(* The provider under a command is JobRuntime.                             *)

LEMMA DispatchStepIsStep ==
  ASSUME CommandInv, [DispatchNext]_dispatchVars
  PROVE  [Next]_vars
<1>1. CASE UNCHANGED dispatchVars
  BY <1>1 DEF dispatchVars
<1>2. ASSUME NEW k \in Kinds, StartCommand(k) \/ StartScheduled(k)
      PROVE  UNCHANGED vars
  BY <1>2 DEF StartCommand, StartScheduled
<1>3. CASE Send
  BY <1>3, AttemptIsJob DEF Send, Next, CommandInv
<1>4. CASE Scheduling \/ Scheduled \/ NextAttempt \/ NoDialer \/ SendFails
           \/ LocalEnds \/ RemoteEnds
  BY <1>4 DEF Scheduling, Scheduled, NextAttempt, NoDialer, SendFails,
     LocalEnds, RemoteEnds
<1>5. CASE Interrupt
  BY <1>5, AttemptIsJob DEF Interrupt, Next, CommandInv
<1>6. CASE RuntimeStep
  BY <1>6 DEF RuntimeStep, Next
<1>7. QED
  BY <1>1, <1>2, <1>3, <1>4, <1>5, <1>6 DEF DispatchNext, Progress

\* Whatever commands, schedules and retries do, their provider behaves as one of
\* JobRuntime.
THEOREM DispatchIsRuntime == DispatchSpec => Spec
<1>1. DispatchInit => Init
  BY DEF DispatchInit
<1>2. CommandInv /\ [DispatchNext]_dispatchVars => [Next]_vars
  BY DispatchStepIsStep
<1>3. QED
  BY <1>1, <1>2, CommandInvariant, PTL DEF DispatchSpec, Spec

\* So a provider keeps its limit and its accounts, and consumers are told the
\* truth, when the jobs are the attempts of a command.
THEOREM DispatchedJobsAreSafe ==
  DispatchSpec => [](/\ SlotLimit /\ SlotsAccounted /\ ContainersAccounted
                     /\ ReportIsTrue /\ LinesDrained)
  BY DispatchIsRuntime, SlotLimitHolds, SlotsAccountedHolds,
     ContainersAccountedHolds, ReportIsTrueHolds, LinesDrainedHolds, PTL

-------------------------------------------------------------------------------
(* The schedule of a command is Scheduler.                                 *)

LEMMA DispatchStepIsSchedule ==
  ASSUME [DispatchNext]_dispatchVars
  PROVE  [ScheduleNext]_schedVars
<1>1. CASE UNCHANGED dispatchVars
  BY <1>1 DEF dispatchVars
<1>2. ASSUME NEW k \in Kinds, StartCommand(k) \/ StartScheduled(k)
      PROVE  [ScheduleNext]_schedVars
  BY <1>2 DEF StartCommand, StartScheduled, ScheduleNext
<1>3. CASE Scheduling \/ Scheduled
  BY <1>3 DEF Scheduling, Scheduled, ScheduleNext
<1>4. CASE NextAttempt \/ NoDialer \/ SendFails \/ Send \/ LocalEnds
           \/ RemoteEnds \/ Interrupt
  BY <1>4 DEF NextAttempt, NoDialer, SendFails, Send, LocalEnds, RemoteEnds,
     Interrupt, AttemptEnds
<1>5. CASE RuntimeStep
  BY <1>5 DEF RuntimeStep, Aside
<1>6. QED
  BY <1>1, <1>2, <1>3, <1>4, <1>5 DEF DispatchNext, Progress

\* Whatever the command does with it, its schedule behaves as Scheduler, so the
\* peer it runs at was a best one when it answered (scheduler.rs:32-109), up to
\* the second resolution of its name.
THEOREM DispatchChoosesBest == DispatchSpec => []ChosenIsBest
<1>1. DispatchInit => ScheduleInit
  BY DEF DispatchInit
<1>2. [DispatchNext]_dispatchVars => [ScheduleNext]_schedVars
  BY DispatchStepIsSchedule
<1>3. DispatchSpec => ScheduleSpec
  BY <1>1, <1>2, PTL DEF DispatchSpec, ScheduleSpec
<1>4. QED
  BY <1>3, ChosenIsBestHolds

-------------------------------------------------------------------------------
(* Attempts and their records.                                             *)

\* What the i-th attempt, its consumer and its record can be at each place of
\* the command: not begun, behind, in hand, or the one the command ended with.
Entry(i) ==
    LET j == Attempt[i] IN
    /\ i > n => client[j] = "idle" /\ record[j] = "none"
    /\ i < n \/ (i = n /\ at = "next") => ~Listening(j) /\ record[j] = "failed"
    /\ i = n /\ at \in {"dial", "docker"} => client[j] = "idle"
    /\ i = n /\ at \in {"dial", "docker", "wait"} =>
          record[j] \in {"pending", "running"}
    /\ i = n /\ at = "over" /\ record[j] \in {"pending", "running"} =>
          told = "interrupted" \/ (kind = "run" /\ client[j] = "idle")
    /\ record[j] = "succeeded" =>
          told = "success" /\ (kind = "local" \/ client[j] = "succeeded")
    /\ record[j] = "failed" =>
          \/ client[j] \in {"idle", "rejected", "failed", "lost"}
          \/ kind = "app" /\ client[j] = "succeeded"
    /\ i = n /\ told = "success" => record[j] = "succeeded"

Ending ==
    /\ at \in {"shell", "scheduling"} => n = 0
    /\ at = "docker" => kind = "local"
    /\ told = "success" => n > 0
    /\ told = "failure" /\ n > 0 => n = retries + 1 \/ ~dialer

AttemptInv == CommandInv /\ Ending /\ \A i \in 1..Len(Attempt) : Entry(i)

LEMMA AttemptInit == DispatchInit => AttemptInv
<1> SUFFICES ASSUME DispatchInit PROVE AttemptInv
  OBVIOUS
<1>1. CommandInv
  BY CommandInit
<1>2. Ending
  BY DEF DispatchInit, Ending
<1>3. ASSUME NEW i \in 1..Len(Attempt)
      PROVE  Entry(i)
  <2>1. i > 0 /\ i # 0 /\ ~(i < 0) /\ Attempt[i] \in Jobs
    BY AttemptType
  <2>2. /\ n = 0 /\ at = "shell" /\ told = "none"
        /\ client[Attempt[i]] = "idle" /\ record[Attempt[i]] = "none"
    BY <2>1 DEF DispatchInit, Init
  <2>3. QED
    BY <2>1, <2>2 DEF Entry
<1>4. QED
  BY <1>1, <1>2, <1>3 DEF AttemptInv

\* The steps in which the command itself stands still.
LEMMA EntryAside ==
  ASSUME TypeOK, AttemptInv, UNCHANGED commandVars,
         \A j \in Jobs : ~Listening(j) => client'[j] = client[j],
         NEW i \in 1..Len(Attempt)
  PROVE  Entry(i)'
<1> DEFINE j == Attempt[i]
<1>1. Entry(i) /\ j \in Jobs /\ UNCHANGED <<kind, at, dialer, n, told, record>>
  BY AttemptType DEF AttemptInv, commandVars
<1>2. CASE ~Listening(j)
  <2>1. client'[j] = client[j]
    BY <1>1, <1>2
  <2>2. QED
    BY <1>1, <2>1 DEF Entry, Listening
<1>3. CASE Listening(j)
  <2>1. client[j] \notin {"idle", "rejected", "failed", "lost", "succeeded"}
    BY <1>3 DEF Listening
  <2>2. ~(i > n) /\ ~(i < n \/ (i = n /\ at = "next"))
        /\ ~(i = n /\ at \in {"dial", "docker"}) /\ record[j] # "failed"
    BY <1>1, <1>3, <2>1 DEF Entry
  <2>3. record[j] = "succeeded" => told = "success" /\ kind = "local"
    BY <1>1, <2>1 DEF Entry
  <2>4. QED
    BY <1>1, <2>1, <2>2, <2>3 DEF Entry
<1>4. QED
  BY <1>2, <1>3

\* An attempt that is not in hand is not touched by the end of the one that is.
LEMMA EntryEnds ==
  ASSUME TypeOK, AttemptInv, n >= 1, at \in {"dial", "docker", "wait"},
         NEW ok \in BOOLEAN, AttemptEnds(ok), client' = client,
         NEW i \in 1..Len(Attempt),
         ok => kind = "local" \/ client[Current] = "succeeded",
         ~ok => \/ client[Current] \in {"idle", "rejected", "failed", "lost"}
                \/ kind = "app" /\ client[Current] = "succeeded"
  PROVE  Entry(i)'
<1> DEFINE j == Attempt[i]
<1>1. /\ Entry(i) /\ j \in Jobs /\ Current \in Jobs /\ n \in Nat /\ i \in Nat
      /\ (i = n <=> j = Current)
      /\ told # "none" <=> at = "over"
  BY AttemptIsJob DEF AttemptInv, Current, CommandInv
<1>2. /\ record' = [record EXCEPT ![Current] =
                       IF ok THEN "succeeded" ELSE "failed"]
      /\ record \in [Jobs -> {"none", "pending", "running"} \cup Terminal]
      /\ kind' = kind /\ retries' = retries /\ n' = n
      /\ \/ ok /\ at' = "over" /\ told' = "success"
         \/ ~ok /\ at' = "next" /\ told' = told
         \/ ~ok /\ at' = "over" /\ told' = "failure"
  BY EndsFacts DEF AttemptInv, CommandInv, CommandTypeOK
<1>3. CASE i = n
  <2>1. record'[j] = IF ok THEN "succeeded" ELSE "failed"
    BY <1>1, <1>2, <1>3
  <2>2. client'[j] = client[Current] /\ told = "none"
    BY <1>1, <1>3
  <2>3. QED
    BY <1>1, <1>2, <1>3, <2>1, <2>2 DEF Entry, Listening
<1>4. CASE i # n
  <2>1. record'[j] = record[j] /\ client'[j] = client[j] /\ told = "none"
    BY <1>1, <1>2, <1>4
  <2>2. record[j] # "succeeded"
    BY <1>1, <2>1 DEF Entry
  <2>3. QED
    BY <1>1, <1>2, <1>4, <2>1, <2>2 DEF Entry, Listening
<1>5. QED
  BY <1>3, <1>4

\* An attempt begins, or the command moves without one in hand.
LEMMA EntryBegins ==
  ASSUME TypeOK, AttemptInv, NEW i \in 1..Len(Attempt),
         \/ \E k \in Kinds : StartCommand(k) \/ StartScheduled(k)
         \/ Scheduled \/ NextAttempt
  PROVE  Entry(i)'
<1> DEFINE j == Attempt[i]
<1>1. /\ Entry(i) /\ j \in Jobs /\ n \in Nat /\ i \in Nat /\ i > 0
      /\ told # "none" <=> at = "over"
      /\ record \in [Jobs -> {"none", "pending", "running"} \cup Terminal]
      /\ at \in {"shell", "scheduling"} => n = 0
      /\ n \in 0..Len(Attempt) /\ Len(Attempt) \in Nat
      /\ n < Len(Attempt) => (Attempt[n + 1] = j <=> i = n + 1)
  BY AttemptIsJob DEF AttemptInv, CommandInv, CommandTypeOK, Ending
<1>2. client' = client
  BY DEF StartCommand, StartScheduled, Scheduled, NextAttempt, vars
<1>3. CASE \/ \E k \in Kinds : StartCommand(k) \/ StartScheduled(k)
           \/ Scheduled
  <2>1. /\ n = 0 /\ n' = n /\ record' = record /\ told = "none"
        /\ told' \in {"none", "failure"}
        /\ at' \in {"next", "scheduling", "over"}
    BY <1>1, <1>3 DEF StartCommand, StartScheduled, Scheduled, End
  <2>2. i > n /\ i > n' /\ ~(i < n') /\ i # n'
    BY <1>1, <2>1
  <2>3. client[j] = "idle" /\ record[j] = "none"
    BY <1>1, <2>2 DEF Entry
  <2>4. client'[j] = "idle" /\ record'[j] = "none"
    BY <1>2, <2>1, <2>3
  <2>5. QED
    BY <2>2, <2>4 DEF Entry
<1>4. CASE NextAttempt
  <2>1. /\ at = "next" /\ n' = n + 1 /\ at' \in {"dial", "docker"}
          /\ told' = told
        /\ kind' = kind
        /\ \E s \in {"pending", "running"} :
              record' = [record EXCEPT ![Attempt[n + 1]] = s]
    BY <1>4 DEF NextAttempt, Record
  <2>2. n' \in Nat /\ (i > n' => i > n) /\ (i < n' => i < n \/ i = n)
    BY <1>1, <2>1
  <2>3. CASE i = n'
    <3>1. i = n + 1 /\ i > n /\ n < Len(Attempt) /\ ~(i > n') /\ ~(i < n')
      BY <1>1, <2>1, <2>3
    <3>2. record'[j] \in {"pending", "running"}
      BY <1>1, <2>1, <3>1
    <3>3. client'[j] = "idle" /\ told' = "none"
      BY <1>1, <1>2, <2>1, <3>1 DEF Entry
    <3>4. QED
      BY <2>1, <2>3, <3>1, <3>2, <3>3 DEF Entry
  <2>4. CASE i # n'
    <3>1. n < Len(Attempt) => Attempt[n + 1] # j
      BY <1>1, <2>1, <2>4
    <3>2. record'[j] = record[j] /\ client'[j] = client[j] /\ told' = "none"
      <4>1. n + 1 <= Len(Attempt)
        <5>1. retries \in 0..(Len(Attempt) - 1) /\ n <= retries
          BY <1>4 DEF NextAttempt, AttemptInv, CommandInv, CommandTypeOK
        <5>2. QED
          BY <1>1, <5>1
      <4>2. n < Len(Attempt)
        BY <1>1, <4>1
      <4>3. QED
        BY <1>1, <1>2, <2>1, <3>1, <4>2
    <3>3. told = "none"
      BY <1>1, <2>1
    <3>4. QED
      BY <1>1, <2>1, <2>2, <2>4, <3>2, <3>3 DEF Entry, Listening
  <2>5. QED
    BY <2>3, <2>4
<1>5. QED
  BY <1>3, <1>4

\* The other steps of a command with an attempt in hand.
LEMMA EntryInHand ==
  ASSUME TypeOK, AttemptInv, NEW i \in 1..Len(Attempt),
         NoDialer \/ Send \/ Interrupt
  PROVE  Entry(i)'
<1> DEFINE j == Attempt[i]
<1>1. /\ Entry(i) /\ j \in Jobs /\ n \in Nat /\ i \in Nat /\ i > 0
      /\ told # "none" <=> at = "over"
      /\ record \in [Jobs -> {"none", "pending", "running"} \cup Terminal]
      /\ n >= 1 => Current \in Jobs /\ (i = n <=> j = Current)
      /\ at = "dial" => n >= 1
  BY AttemptIsJob DEF AttemptInv, CommandInv, CommandTypeOK, Current
<1>2. CASE NoDialer
  <2>1. /\ client' = client /\ n' = n /\ kind' = kind
        /\ at' = "over" /\ told' = "failure" /\ at \in {"next", "dial"}
        /\ \/ at = "next" /\ record' = record
           \/ at = "dial" /\ kind = "run" /\ record' = record
           \/ at = "dial" /\ record' = [record EXCEPT ![Current] = "failed"]
    BY <1>2 DEF NoDialer, End, Record, vars
  <2>2. told = "none" /\ record[j] # "succeeded"
    BY <1>1, <2>1 DEF Entry
  <2>3. CASE i = n
    BY <1>1, <2>1, <2>2, <2>3 DEF Entry, Listening
  <2>4. CASE i # n
    <3>1. record'[j] = record[j]
      BY <1>1, <2>1, <2>4
    <3>2. QED
      BY <1>1, <2>1, <2>2, <2>4, <3>1 DEF Entry, Listening
  <2>5. QED
    BY <2>3, <2>4
<1>3. CASE Send
  <2>1. /\ at = "dial" /\ at' = "wait" /\ UNCHANGED <<kind, n, told, record>>
        /\ client' = [client EXCEPT ![Current] = "requested"]
        /\ client[Current] = "idle"
    BY <1>3 DEF Send, Submit
  <2>2. CASE i = n
    <3>1. record[j] \in {"pending", "running"} /\ told = "none"
      BY <1>1, <2>1, <2>2 DEF Entry
    <3>2. QED
      BY <1>1, <2>1, <2>2, <3>1 DEF Entry
  <2>3. CASE i # n
    <3>1. client'[j] = client[j]
      BY <1>1, <2>1, <2>3 DEF TypeOK
    <3>2. QED
      BY <1>1, <2>1, <2>3, <3>1 DEF Entry, Listening
  <2>4. QED
    BY <2>2, <2>3
<1>4. CASE Interrupt
  <2>1. /\ client' = client /\ UNCHANGED <<kind, n, record>>
        /\ at' = "over" /\ told' = "interrupted" /\ at # "over"
    BY <1>4 DEF Interrupt, End, ConnDrop, consumerVars, vars
  <2>2. told = "none" /\ record[j] # "succeeded"
    BY <1>1, <2>1 DEF Entry
  <2>3. QED
    BY <1>1, <2>1, <2>2 DEF Entry, Listening
<1>5. QED
  BY <1>2, <1>3, <1>4

LEMMA EndingStep ==
  ASSUME TypeOK, AttemptInv, [DispatchNext]_dispatchVars
  PROVE  Ending'
<1>1. /\ Ending /\ n \in Nat /\ retries \in Nat /\ n <= retries + 1
      /\ told # "none" <=> at = "over"
      /\ at \in {"dial", "docker", "wait"} => n >= 1
  BY DEF AttemptInv, CommandInv, CommandTypeOK
<1>2. ASSUME NEW ok \in BOOLEAN, AttemptEnds(ok), n >= 1,
             at \in {"dial", "docker", "wait"}
      PROVE  Ending'
  <2>1. /\ n' = n /\ retries' = retries
        /\ \/ at' = "over" /\ told' = "success"
           \/ at' = "next" /\ told' = told
           \/ ~(n <= retries) /\ at' = "over" /\ told' = "failure"
    BY <1>2, EndsFacts DEF AttemptInv
  <2>2. ~(n <= retries) => n = retries + 1
    BY <1>1
  <2>3. told = "none" /\ n > 0
    BY <1>1, <1>2
  <2>4. QED
    BY <2>1, <2>2, <2>3 DEF Ending
<1>3. CASE SendFails \/ LocalEnds \/ RemoteEnds
  BY <1>1, <1>2, <1>3 DEF SendFails, LocalEnds, RemoteEnds
<1>4. CASE UNCHANGED commandVars
  BY <1>1, <1>4 DEF Ending, commandVars
<1>5. CASE \/ \E k \in Kinds : StartCommand(k) \/ StartScheduled(k)
           \/ Scheduled
  <2>1. n = 0 /\ n' = n /\ told' \in {"none", "failure"} /\ at' # "docker"
    BY <1>1, <1>5 DEF StartCommand, StartScheduled, Scheduled, End, Ending
  <2>2. n' = 0 /\ told' # "success" /\ at' # "docker"
    BY <2>1
  <2>3. ~(0 > 0)
    OBVIOUS
  <2>4. QED
    BY <2>2, <2>3 DEF Ending
<1>6. CASE NextAttempt \/ Send
  <2>1. /\ at' \in {"dial", "docker", "wait"} /\ told' = told /\ told = "none"
        /\ at' = "docker" => kind' = "local"
    BY <1>1, <1>6 DEF NextAttempt, Send
  <2>2. QED
    BY <2>1 DEF Ending
<1>7. CASE NoDialer
  BY <1>1, <1>7 DEF NoDialer, End, Ending
<1>8. CASE Interrupt
  BY <1>8 DEF Interrupt, End, Ending
<1>9. QED
  BY <1>3, <1>4, <1>5, <1>6, <1>7, <1>8
     DEF DispatchNext, Progress, Scheduling, RuntimeStep, Aside, dispatchVars

LEMMA AttemptStep ==
  ASSUME TypeOK, AttemptInv, [DispatchNext]_dispatchVars
  PROVE  AttemptInv'
<1>1. CommandInv'
  BY CommandStep DEF AttemptInv
<1>2. Ending'
  BY EndingStep
<1>3. ASSUME NEW i \in 1..Len(Attempt)
      PROVE  Entry(i)'
  <2>1. CASE \/ \E k \in Kinds : StartCommand(k) \/ StartScheduled(k)
             \/ Scheduled \/ NextAttempt
    BY <2>1, EntryBegins
  <2>2. CASE NoDialer \/ Send \/ Interrupt
    BY <2>2, EntryInHand
  <2>3. CASE SendFails \/ LocalEnds \/ RemoteEnds
    <3>1. at \in {"dial", "docker", "wait"} /\ client' = client
      BY <2>3 DEF SendFails, LocalEnds, RemoteEnds, vars
    <3>2. n >= 1 /\ n \in 1..Len(Attempt)
      BY <3>1, AttemptIsJob DEF AttemptInv, CommandInv
    <3>3. Entry(n) /\ Current = Attempt[n]
      BY <3>2 DEF AttemptInv, Current
    <3>4. CASE SendFails
      BY <3>1, <3>2, <3>3, <3>4, EntryEnds DEF SendFails, Entry
    <3>5. CASE LocalEnds
      <4>1. client[Current] = "idle" /\ kind = "local"
        BY <3>2, <3>3, <3>5 DEF LocalEnds, Entry, AttemptInv, Ending
      <4>2. QED
        BY <3>1, <3>2, <3>5, <4>1, EntryEnds DEF LocalEnds
    <3>6. CASE RemoteEnds
      <4>1. client[Current] \in
                {"idle", "rejected", "failed", "lost", "succeeded"}
        BY <3>2, <3>6, AttemptIsJob DEF RemoteEnds, Answered, Listening,
           TypeOK,
           ClientStates, Terminal, AttemptInv
      <4>2. QED
        BY <3>1, <3>2, <3>6, <4>1, EntryEnds DEF RemoteEnds
    <3>7. QED
      BY <2>3, <3>4, <3>5, <3>6
  <2>4. CASE Scheduling \/ RuntimeStep \/ UNCHANGED dispatchVars
    <3>1. UNCHANGED commandVars
      BY <2>4 DEF Scheduling, RuntimeStep, Aside, dispatchVars
    <3>2. ASSUME NEW j \in Jobs, ~Listening(j)
          PROVE  client'[j] = client[j]
      <4>1. CASE RuntimeStep
        BY <4>1, <3>2 DEF RuntimeStep, ClientStep, ClientReads, ClientEnds,
           ClientLost, ConnDrop, HandleRunJob, CancelRemove, CancelRetain,
           TaskStep, AcceptJob, PrepareJob, AdmitJob, SpawnDocker, ChildExit,
           JoinLogTasks, Timeout, ReportTimeout, SaysLine, ReleaseSlot,
           RemoveContainer, PackOutputs,
           SendTerminal, ReadPipe, ForwardLog, DockerStart, ContainerPrints,
           ContainerExits, ReaderQuits, ClientDies, AgentCrash, AgentRestart,
           consumerVars, TypeOK
      <4>2. CASE Scheduling \/ UNCHANGED dispatchVars
        BY <4>2 DEF Scheduling, dispatchVars, vars
      <4>3. QED
        BY <2>4, <4>1, <4>2
    <3>3. QED
      BY <3>1, <3>2, EntryAside
  <2>5. QED
    BY <2>1, <2>2, <2>3, <2>4 DEF DispatchNext, Progress
<1>4. QED
  BY <1>1, <1>2, <1>3 DEF AttemptInv

LEMMA AttemptInvariant == DispatchSpec => []AttemptInv
<1>1. DispatchSpec => []TypeOK
  BY DispatchIsRuntime, TypeCorrect, PTL
<1>2. TypeOK /\ AttemptInv /\ [DispatchNext]_dispatchVars => AttemptInv'
  BY AttemptStep
<1>3. QED
  BY <1>1, <1>2, AttemptInit, PTL DEF DispatchSpec

\* An attempt whose consumer has an answer or never asked works no more, unless
\* the removal of its container failed.
LEMMA AnsweredIsOver ==
  ASSUME TypeOK, RequestInv, AccountInv, ResultInv, RefusedInv, NEW j \in Jobs,
         client[j] \in {"idle", "rejected", "failed", "succeeded"}
  PROVE  ~HoldsSlot(j) /\ (Runs(j) => container[j] = "left")
<1>1. CASE client[j] \in {"idle", "rejected"}
  <2>1. task[j] = "none"
    BY <1>1 DEF RequestInv, RefusedInv, Says
  <2>2. container[j] = "none"
    BY <2>1 DEF AccountInv, DockerInv, BeforeDocker
  <2>3. QED
    BY <2>1, <2>2 DEF HoldsSlot, Runs
<1>2. CASE client[j] \in Terminal
  BY <1>2 DEF ResultInv, Says, Settled, HoldsSlot, Runs
<1>3. QED
  BY <1>1, <1>2 DEF Terminal

\* What is proved of JobRuntime, together.
ProviderInv ==
    TypeOK /\ RequestInv /\ AccountInv /\ ResultInv /\ RefusedInv

LEMMA ProviderInvariant == DispatchSpec => []ProviderInv
  BY DispatchIsRuntime, TypeCorrect, RequestInvariant, AccountInvariant,
     ResultInvariant, RefusedInvariant, PTL DEF ProviderInv

\* No attempt works beside a later one of its command unless its connection was
\* lost, or its container could not be removed: the loop waits for every answer
\* it can get.
THEOREM OverlapOnlyWhenLostHolds == DispatchSpec => []OverlapOnlyWhenLost
<1>1. ProviderInv /\ AttemptInv => OverlapOnlyWhenLost
  <2> SUFFICES ASSUME ProviderInv, AttemptInv, NEW i \in 1..n, NEW k \in 1..n,
                      i < k, Working(Attempt[i])
               PROVE  \/ client[Attempt[i]] = "lost"
                      \/ /\ ~HoldsSlot(Attempt[i])
                         /\ container[Attempt[i]] = "left"
    BY DEF OverlapOnlyWhenLost
  <2>1. n \in Nat /\ i < n /\ i \in 1..Len(Attempt) /\ Attempt[i] \in Jobs
    BY AttemptIsJob DEF AttemptInv
  <2>2. record[Attempt[i]] = "failed"
    BY <2>1 DEF AttemptInv, Entry
  <2>3. client[Attempt[i]]
          \in {"idle", "rejected", "failed", "lost", "succeeded"}
    BY <2>1, <2>2 DEF AttemptInv, Entry
  <2>4. QED
    BY <2>1, <2>3, AnsweredIsOver DEF ProviderInv, Working
<1>2. QED
  BY <1>1, ProviderInvariant, AttemptInvariant, PTL

\* The history and the exit of the command tell what became of the attempts.
THEOREM HistoryIsTrueHolds == DispatchSpec => []HistoryIsTrue
<1>1. ASSUME ProviderInv, AttemptInv, NEW i \in 1..n
      PROVE  LET j == Attempt[i] IN
        /\ record[j] = "succeeded" => i = n /\ at = "over"
        /\ kind # "local" /\ record[j] = "succeeded" =>
               container[j] = "ok" /\ outputs[j] # "none"
        /\ record[j] = "failed" /\ container[j] = "ok" =>
               \/ client[j] = "lost"
               \/ verdict[j] \in {"timeout", "error"} \/ cli[j] = "nonzero"
               \/ kind = "app" /\ client[j] = "succeeded"
        /\ at = "over" /\ record[j] \in {"pending", "running"} =>
               \/ told = "interrupted"
               \/ kind = "run" /\ client[j] = "idle"
  <2> DEFINE j == Attempt[i]
  <2>1. /\ n \in Nat /\ i \in Nat /\ (i < n \/ i = n) /\ j \in Jobs /\ Entry(i)
        /\ told # "none" <=> at = "over"
    BY <1>1, AttemptIsJob DEF AttemptInv, CommandInv
  <2>2. record[j] = "succeeded" => i = n /\ at = "over"
    BY <2>1 DEF Entry
  <2>3. ASSUME kind # "local", record[j] = "succeeded"
        PROVE  container[j] = "ok" /\ outputs[j] # "none"
    <3>1. client[j] = "succeeded"
      BY <2>1, <2>3 DEF Entry
    <3>2. QED
      BY <1>1, <2>1, <3>1 DEF ProviderInv, ResultInv, Says, Settled, Agrees,
         Terminal
  <2>4. ASSUME record[j] = "failed", container[j] = "ok"
        PROVE  \/ client[j] = "lost"
               \/ verdict[j] \in {"timeout", "error"} \/ cli[j] = "nonzero"
               \/ kind = "app" /\ client[j] = "succeeded"
    <3>1. CASE client[j] \in {"idle", "rejected"}
      <4>1. task[j] = "none"
        BY <1>1, <2>1, <3>1 DEF ProviderInv, RequestInv, RefusedInv, Says
      <4>2. QED
        BY <1>1, <2>1, <2>4, <4>1 DEF ProviderInv, AccountInv, DockerInv,
           BeforeDocker
    <3>2. CASE client[j] = "failed"
      BY <1>1, <2>1, <2>4, <3>2 DEF ProviderInv, ResultInv, Says, Agrees,
         Terminal
    <3>3. QED
      BY <2>1, <2>4, <3>1, <3>2 DEF Entry
  <2>5. ASSUME at = "over", record[j] \in {"pending", "running"}
        PROVE  told = "interrupted" \/ (kind = "run" /\ client[j] = "idle")
    BY <2>1, <2>5 DEF Entry
  <2>6. QED
    BY <2>2, <2>3, <2>4, <2>5
<1>2. ASSUME AttemptInv
      PROVE  /\ told = "success" <=> n > 0 /\ record[Current] = "succeeded"
             /\ told = "failure" /\ n > 0 => n = retries + 1 \/ ~dialer
  <2>1. n \in Nat /\ (n > 0 => n \in 1..Len(Attempt) /\ Current = Attempt[n])
    BY <1>2, AttemptIsJob DEF AttemptInv, Current
  <2>2. CASE n > 0
    <3>1. Entry(n) /\ Current = Attempt[n]
      BY <1>2, <2>1, <2>2 DEF AttemptInv
    <3>2. QED
      BY <1>2, <2>2, <3>1 DEF AttemptInv, Entry, Ending
  <2>3. CASE ~(n > 0)
    BY <1>2, <2>3 DEF AttemptInv, Ending
  <2>4. QED
    BY <2>2, <2>3
<1>3. ProviderInv /\ AttemptInv => HistoryIsTrue
  BY <1>1, <1>2 DEF HistoryIsTrue
<1>4. QED
  BY <1>3, ProviderInvariant, AttemptInvariant, PTL

=============================================================================
