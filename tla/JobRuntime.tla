------------------------------ MODULE JobRuntime ------------------------------
(***************************************************************************)
(* One provider agent executing remote jobs, and the consumers that asked  *)
(* for them.                                                               *)
(*                                                                         *)
(*   consumer   run_remote_job            crates/gpumesh-core/src/remote.rs *)
(*   session    serve_peer_session        (RunJob and CancelJob handlers)  *)
(*   task       execute_remote_job        (one tokio task per job)         *)
(*   runtime    DockerRuntime             crates/gpumesh-runtime/docker.rs *)
(*   docker     the `docker run` client process and the container it       *)
(*              starts: external, known only by how docker.rs drives it    *)
(*                                                                         *)
(* Job ids are fresh (short_job_id), so the Vec of active container names  *)
(* is the set of the jobs that hold a slot.  Every consumer dials its own  *)
(* connection: one ordered stream per job, `wire`, from provider to        *)
(* consumer.                                                               *)
(***************************************************************************)
EXTENDS Integers, Sequences, FiniteSets

CONSTANTS Jobs,            \* jobs consumers may submit, each with a fresh id
          MaxConcurrent,   \* ShareLimits.max_concurrent_jobs
          HasMaxRuntime,   \* ShareLimits.max_runtime_secs is Some(_)
          Cancellable,     \* jobs somebody may send CancelJob for
          LogCap,          \* capacity of the log channel (256 in the code)
          WireCap,         \* frames QUIC flow control lets wait unread
          MaxLines,        \* bound: lines of one job not yet read
          MaxCrashes       \* bound: crashes of the agent

ASSUME JobsFinite == IsFiniteSet(Jobs)
ASSUME LimitType  == MaxConcurrent \in Nat
ASSUME LogCapType == LogCap \in Nat \ {0}
ASSUME WireCapType == WireCap \in Nat \ {0}
ASSUME OtherConstants ==
    /\ HasMaxRuntime \in BOOLEAN
    /\ Cancellable \subseteq Jobs
    /\ MaxLines \in Nat
    /\ MaxCrashes \in Nat

VARIABLES
    client,     \* what the consumer of the job has learned
    connUp,     \* the consumer's connection is alive
    request,    \* a RunJob frame is on its way to the provider
    wire,       \* frames on their way to the consumer
    up,         \* the agent process is alive
    crashes,    \* crashes so far
    task,       \* where execute_remote_job stands
    verdict,    \* what wait_with_logs returned
    outputs,    \* the job's outputs.gpk
    active,     \* DockerRuntime.active: jobs that hold a slot
    cancel,     \* DockerRuntime::cancel of the job
    cli,        \* the `docker run` process
    container,  \* the container named gpumesh-<job>
    unread,     \* lines printed to the attached client, or said by the runtime,
                \* that the consumer has not read
    quit,       \* jobs whose out/err tasks left their loop on a bad line
    pipe,       \* lines not yet read by the out/err tasks
    chan        \* lines in the mpsc channel of the log forwarder

consumerVars == <<client>>
netVars      == <<connUp, request, wire>>
agentVars    == <<up, crashes>>
taskVars     == <<task, verdict, outputs>>
dockerVars   == <<cli, container>>
logVars      == <<unread, quit, pipe, chan>>
vars == <<client, connUp, request, wire, up, crashes, task, verdict,
          outputs, active, cancel, cli, container, unread, quit, pipe, chan>>

Terminal   == {"succeeded", "failed"}
ClientStates == {"idle", "requested", "accepted", "running",
                 "rejected", "lost"} \cup Terminal
Frames     == {"accepted", "rejected", "running", "log"} \cup Terminal
TaskStates == {"none", "spawned", "accepted", "prepared", "admitted",
               "waiting", "draining", "killed", "reaped", "released",
               "cleaned", "packed", "done", "aborted", "gone"}
Verdicts   == {"none", "ok", "nonzero", "timeout", "error"}
CliStates  == {"none", "starting", "attached", "ok", "nonzero", "killed"}
\* "left": it runs on after the task's `docker rm -f` failed.
ContainerStates == {"none", "running", "left", "ok", "nonzero", "removed"}

TypeOK ==
    /\ client    \in [Jobs -> ClientStates]
    /\ connUp    \in [Jobs -> BOOLEAN]
    /\ request   \in [Jobs -> BOOLEAN]
    /\ wire      \in [Jobs -> Seq(Frames)]
    /\ up        \in BOOLEAN
    /\ crashes   \in 0..MaxCrashes
    /\ task      \in [Jobs -> TaskStates]
    /\ verdict   \in [Jobs -> Verdicts]
    /\ outputs   \in [Jobs -> {"none", "packed", "failed"}]
    /\ active    \in SUBSET Jobs
    /\ cancel    \in [Jobs -> {"none", "tried", "over"}]
    /\ cli       \in [Jobs -> CliStates]
    /\ container \in [Jobs -> ContainerStates]
    /\ unread    \in [Jobs -> Int]
    /\ quit      \in SUBSET Jobs
    /\ pipe      \in [Jobs -> Nat]
    /\ chan      \in [Jobs -> 0..LogCap]

Init ==
    /\ client    = [j \in Jobs |-> "idle"]
    /\ connUp    = [j \in Jobs |-> FALSE]
    /\ request   = [j \in Jobs |-> FALSE]
    /\ wire      = [j \in Jobs |-> <<>>]
    /\ up        = TRUE
    /\ crashes   = 0
    /\ task      = [j \in Jobs |-> "none"]
    /\ verdict   = [j \in Jobs |-> "none"]
    /\ outputs   = [j \in Jobs |-> "none"]
    /\ active    = {}
    /\ cancel    = [j \in Jobs |-> "none"]
    /\ cli       = [j \in Jobs |-> "none"]
    /\ container = [j \in Jobs |-> "none"]
    /\ unread    = [j \in Jobs |-> 0]
    /\ quit      = {}
    /\ pipe      = [j \in Jobs |-> 0]
    /\ chan      = [j \in Jobs |-> 0]

Goto(j, s)  == task' = [task EXCEPT ![j] = s]
At(j, s)    == up /\ task[j] = s
Retain(j)   == active' = active \ {j}

\* PeerConnection::send: it waits while the consumer leaves too much unread on
\* a live connection, and fails on a dead one.
Push(j, m)  ==
    /\ Len(wire[j]) < WireCap
    /\ wire' = [wire EXCEPT ![j] = Append(@, m)]
TrySend(j, m) == IF connUp[j] THEN Push(j, m) ELSE UNCHANGED wire

-------------------------------------------------------------------------------
(* The consumer: run_remote_job.                                           *)

\* Connect, upload the workload and send RunJob.
Submit(j) ==
    /\ up /\ client[j] = "idle"
    /\ client'  = [client EXCEPT ![j] = "requested"]
    /\ connUp'  = [connUp EXCEPT ![j] = TRUE]
    /\ request' = [request EXCEPT ![j] = TRUE]
    /\ UNCHANGED <<wire, agentVars, taskVars, active, cancel, dockerVars,
                   logVars>>

Listening(j) == client[j] \in {"requested", "accepted", "running"}

\* A frame that does not end the loop.
ClientReads(j) ==
    /\ Listening(j) /\ wire[j] # <<>>
    /\ Head(wire[j]) \in {"accepted", "running", "log"}
    /\ wire' = [wire EXCEPT ![j] = Tail(@)]
    /\ IF Head(wire[j]) = "log"
       THEN unread' = [unread EXCEPT ![j] = @ - 1] /\ UNCHANGED client
       ELSE client' = [client EXCEPT ![j] = Head(wire[j])] /\ UNCHANGED unread
    /\ UNCHANGED <<connUp, request, agentVars, taskVars, active, cancel,
                   dockerVars, quit, pipe, chan>>

\* JobRejected or a terminal JobStatus: leave the loop and close.
ClientEnds(j) ==
    /\ Listening(j) /\ wire[j] # <<>>
    /\ Head(wire[j]) \in Terminal \cup {"rejected"}
    /\ client' = [client EXCEPT ![j] = Head(wire[j])]
    /\ wire'   = [wire EXCEPT ![j] = <<>>]
    /\ connUp' = [connUp EXCEPT ![j] = FALSE]
    /\ UNCHANGED <<request, agentVars, taskVars, active, cancel,
                   dockerVars, logVars>>

\* recv fails or returns None once the connection is gone and drained.
ClientLost(j) ==
    /\ Listening(j) /\ ~connUp[j] /\ wire[j] = <<>>
    /\ client' = [client EXCEPT ![j] = "lost"]
    /\ UNCHANGED <<netVars, agentVars, taskVars, active, cancel, dockerVars,
                   logVars>>

\* The network drops the connection; frames not yet delivered are lost.
ConnDrop(j) ==
    /\ connUp[j]
    /\ connUp'  = [connUp EXCEPT ![j] = FALSE]
    /\ request' = [request EXCEPT ![j] = FALSE]
    /\ \E n \in 0..Len(wire[j]) :
           wire' = [wire EXCEPT ![j] = SubSeq(@, 1, n)]
    /\ UNCHANGED <<consumerVars, agentVars, taskVars, active, cancel,
                   dockerVars, logVars>>

-------------------------------------------------------------------------------
(* The provider session: serve_peer_session.                               *)

\* RunJob is refused (not sharing, image, utilization, VRAM), ends the
\* session (the config file does not load), or is handed to a task.  Which of
\* them depends on files and on the GPU, outside this module.
HandleRunJob(j) ==
    /\ up /\ request[j]
    /\ request' = [request EXCEPT ![j] = FALSE]
    /\ \/ TrySend(j, "rejected") /\ UNCHANGED <<connUp, task>>
       \/ /\ connUp' = [connUp EXCEPT ![j] = FALSE]
          /\ UNCHANGED <<wire, task>>
       \/ Goto(j, "spawned") /\ UNCHANGED <<connUp, wire>>
    /\ UNCHANGED <<consumerVars, agentVars, verdict, outputs, active, cancel,
                   dockerVars, logVars>>

Runs(j) == container[j] \in {"running", "left"}

\* CancelJob, first half: `docker rm -f`.  A `docker run` attached to the
\* container ends with a nonzero status.  It may fail, and fails when there is
\* no container; a `docker` that cannot be started leaves all as it is.
CancelRemove(j) ==
    /\ up /\ j \in Cancellable /\ cancel[j] = "none" /\ client[j] # "idle"
    /\ cancel' = [cancel EXCEPT ![j] = "tried"]
    /\ \/ /\ Runs(j)
          /\ container' = [container EXCEPT ![j] = "removed"]
          /\ cli' = [cli EXCEPT ![j] = IF @ = "attached" THEN "nonzero" ELSE @]
       \/ UNCHANGED dockerVars
    /\ UNCHANGED <<consumerVars, netVars, agentVars, taskVars, active,
                   logVars>>

\* CancelJob, second half: the name leaves `active`, whether or not the removal
\* succeeded.
CancelRetain(j) ==
    /\ up /\ cancel[j] = "tried"
    /\ cancel' = [cancel EXCEPT ![j] = "over"]
    /\ Retain(j)
    /\ UNCHANGED <<consumerVars, netVars, agentVars, taskVars, dockerVars,
                   logVars>>

-------------------------------------------------------------------------------
(* The job task: execute_remote_job around DockerRuntime::run_job.         *)

AcceptJob(j) ==
    /\ At(j, "spawned")
    /\ IF connUp[j] THEN Goto(j, "accepted") /\ Push(j, "accepted")
                    ELSE Goto(j, "aborted") /\ UNCHANGED wire
    /\ UNCHANGED <<consumerVars, connUp, request, agentVars, verdict, outputs,
                   active, cancel, dockerVars, logVars>>

\* Unpack the workload (its failure leaves through `?`) and report Running;
\* the result of that send is ignored.
PrepareJob(j) ==
    /\ At(j, "accepted")
    /\ \/ Goto(j, "prepared") /\ TrySend(j, "running")
       \/ Goto(j, "aborted") /\ UNCHANGED wire
    /\ UNCHANGED <<consumerVars, connUp, request, agentVars, verdict, outputs,
                   active, cancel, dockerVars, logVars>>

\* Mutant of HasSlot: the limit is tested with > instead of >=.
HasSlotOffByOne == Cardinality(active) <= MaxConcurrent

HasSlot == Cardinality(active) < MaxConcurrent

\* Mutant of AdmitJob: the push is forgotten.
AdmitJobNoPush(j) ==
    /\ At(j, "prepared")
    /\ IF HasSlot THEN Goto(j, "admitted") ELSE Goto(j, "aborted")
    /\ UNCHANGED <<consumerVars, netVars, agentVars, verdict, outputs, active,
                   cancel, dockerVars, logVars>>

\* The test of the limit and the push, under one lock of `active`.
AdmitJob(j) ==
    /\ At(j, "prepared")
    /\ IF HasSlot THEN Goto(j, "admitted") /\ active' = active \cup {j}
                  ELSE Goto(j, "aborted") /\ UNCHANGED active
    /\ UNCHANGED <<consumerVars, netVars, agentVars, verdict, outputs, cancel,
                   dockerVars, logVars>>

\* log_tx.send of a line of the runtime's own: it waits for room.
SaysLine(j) ==
    /\ chan[j] < LogCap
    /\ chan'    = [chan EXCEPT ![j] = @ + 1]
    /\ unread'  = [unread EXCEPT ![j] = @ + 1]
    /\ UNCHANGED <<quit, pipe>>

\* Mutant of SpawnDocker: the error path forgets the retain.
SpawnDockerLeak(j) ==
    /\ At(j, "admitted")
    /\ SaysLine(j)
    /\ \/ Goto(j, "waiting") /\ cli' = [cli EXCEPT ![j] = "starting"]
       \/ Goto(j, "aborted") /\ UNCHANGED cli
    /\ UNCHANGED <<consumerVars, netVars, agentVars, verdict, outputs, active,
                   cancel, container>>

\* Say so, and start the `docker run` process; when that fails the slot is
\* given back.
SpawnDocker(j) ==
    /\ At(j, "admitted")
    /\ SaysLine(j)
    /\ \/ /\ Goto(j, "waiting")
          /\ cli' = [cli EXCEPT ![j] = "starting"]
          /\ UNCHANGED active
       \/ Goto(j, "aborted") /\ Retain(j) /\ UNCHANGED cli
    /\ UNCHANGED <<consumerVars, netVars, agentVars, verdict, outputs, cancel,
                   container>>

Exited(j) == cli[j] \in {"ok", "nonzero"}

\* child.wait() returns, or cannot tell the status of the child that has ended:
\* `?` then leaves without the log tasks.
ChildExit(j) ==
    /\ At(j, "waiting") /\ Exited(j)
    /\ \/ Goto(j, "draining") /\ UNCHANGED verdict
       \/ /\ Goto(j, "reaped")
          /\ verdict' = [verdict EXCEPT ![j] = "error"]
    /\ UNCHANGED <<consumerVars, netVars, agentVars, outputs, active, cancel,
                   dockerVars, logVars>>

\* Mutant of Drained: the log tasks are not awaited.
DrainedAlways(j) == j \in Jobs

\* out_task and err_task have read both pipes to the end, or left them.
Drained(j) == pipe[j] = 0
JoinLogTasks(j) ==
    /\ At(j, "draining") /\ Drained(j)
    /\ Goto(j, "reaped")
    /\ verdict' = [verdict EXCEPT ![j] = cli[j]]
    /\ UNCHANGED <<consumerVars, netVars, agentVars, outputs, active, cancel,
                   dockerVars, logVars>>

\* The timeout fires first: child.kill() ends the client process, not the
\* container.
Timeout(j) ==
    /\ At(j, "waiting") /\ HasMaxRuntime /\ ~Exited(j)
    /\ Goto(j, "killed")
    /\ verdict' = [verdict EXCEPT ![j] = "timeout"]
    /\ cli' = [cli EXCEPT ![j] = "killed"]
    /\ UNCHANGED <<consumerVars, netVars, agentVars, outputs, active, cancel,
                   container, logVars>>

\* "job timed out" goes into the log, with the slot still held.
ReportTimeout(j) ==
    /\ At(j, "killed")
    /\ Goto(j, "reaped")
    /\ SaysLine(j)
    /\ UNCHANGED <<consumerVars, netVars, agentVars, verdict, outputs, active,
                   cancel, dockerVars>>

ReleaseSlot(j) ==
    /\ At(j, "reaped")
    /\ Goto(j, "released") /\ Retain(j)
    /\ UNCHANGED <<consumerVars, netVars, agentVars, verdict, outputs, cancel,
                   dockerVars, logVars>>

\* The best-effort `docker rm -f`: its failure is ignored.
RemoveContainer(j) ==
    /\ At(j, "released")
    /\ Goto(j, "cleaned")
    /\ \E s \in {"removed", "left"} :
          container' = [container EXCEPT ![j] = IF @ = "running" THEN s ELSE @]
    /\ UNCHANGED <<consumerVars, netVars, agentVars, verdict, outputs, active,
                   cancel, cli, logVars>>

\* Mutant of PackOutputs: a failure to pack leaves the task through `?`.
PackOutputsOrAbort(j) ==
    /\ At(j, "cleaned")
    /\ \/ Goto(j, "packed") /\ outputs' = [outputs EXCEPT ![j] = "packed"]
       \/ Goto(j, "aborted") /\ outputs' = [outputs EXCEPT ![j] = "failed"]
    /\ UNCHANGED <<consumerVars, netVars, agentVars, verdict, active, cancel,
                   dockerVars, logVars>>

\* package_workdir of the outputs; its failure is only logged.
PackOutputs(j) ==
    /\ At(j, "cleaned")
    /\ Goto(j, "packed")
    /\ \E r \in {"packed", "failed"} : outputs' = [outputs EXCEPT ![j] = r]
    /\ UNCHANGED <<consumerVars, netVars, agentVars, verdict, active, cancel,
                   dockerVars, logVars>>

\* Mutant of ResultState: a missing exit code counts as 0.
ResultStateDefaultZero(j) ==
    IF verdict[j] = "nonzero" THEN "failed" ELSE "succeeded"

\* JobResult.state: exit code 0 is Succeeded, anything else Failed.
ResultState(j) == IF verdict[j] = "ok" THEN "succeeded" ELSE "failed"

\* Mutant of SendTerminal: the status goes out before the outputs are packed.
SendTerminalEarly(j) ==
    /\ At(j, "cleaned")
    /\ Goto(j, "done")
    /\ TrySend(j, ResultState(j))
    /\ UNCHANGED <<consumerVars, connUp, request, agentVars, verdict, outputs,
                   active, cancel, dockerVars, logVars>>

SendTerminal(j) ==
    /\ At(j, "packed")
    /\ Goto(j, "done")
    /\ TrySend(j, ResultState(j))
    /\ UNCHANGED <<consumerVars, connUp, request, agentVars, verdict, outputs,
                   active, cancel, dockerVars, logVars>>

-------------------------------------------------------------------------------
(* Log lines: container -> pipe -> channel -> connection.                  *)

\* out_task / err_task move a line into the bounded channel, or drop it when
\* the forwarder is gone.
ReadPipe(j) ==
    /\ up /\ pipe[j] > 0 /\ chan[j] < LogCap
    /\ pipe' = [pipe EXCEPT ![j] = @ - 1]
    /\ chan' = [chan EXCEPT ![j] = @ + 1]
    /\ UNCHANGED <<consumerVars, netVars, agentVars, taskVars, active, cancel,
                   dockerVars, unread, quit>>

\* A line that is not UTF-8 ends the reader's loop; what it has not read goes
\* with the pipe.
ReaderQuits(j) ==
    /\ up /\ pipe[j] > 0
    /\ quit' = quit \cup {j}
    /\ pipe' = [pipe EXCEPT ![j] = 0]
    /\ UNCHANGED <<consumerVars, netVars, agentVars, taskVars, active, cancel,
                   dockerVars, unread, chan>>

\* The forwarder task: it waits with the consumer's connection, and ignores a
\* send that fails.
ForwardLog(j) ==
    /\ up /\ chan[j] > 0
    /\ chan' = [chan EXCEPT ![j] = @ - 1]
    /\ TrySend(j, "log")
    /\ UNCHANGED <<consumerVars, connUp, request, agentVars, taskVars, active,
                   cancel, dockerVars, unread, quit, pipe>>

-------------------------------------------------------------------------------
(* Docker (external).                                                      *)

\* `docker run` pulls, creates, starts and attaches; or gives up before a
\* container runs (no such image, name conflict).
DockerStart(j) ==
    /\ cli[j] = "starting"
    /\ \/ /\ cli' = [cli EXCEPT ![j] = "attached"]
          /\ container' = [container EXCEPT ![j] = "running"]
       \/ cli' = [cli EXCEPT ![j] = "nonzero"] /\ UNCHANGED container
    /\ UNCHANGED <<consumerVars, netVars, agentVars, taskVars, active, cancel,
                   logVars>>

\* A line of the program that somebody reads.
ContainerPrints(j) ==
    /\ up /\ task[j] # "gone" /\ j \notin quit
    /\ container[j] = "running" /\ cli[j] = "attached"
    /\ unread[j] < MaxLines
    /\ unread' = [unread EXCEPT ![j] = @ + 1]
    /\ pipe'   = [pipe EXCEPT ![j] = @ + 1]
    /\ UNCHANGED <<consumerVars, netVars, agentVars, taskVars, active, cancel,
                   dockerVars, quit, chan>>

\* The client dies (of the closed pipe, of a restarted daemon, of a user's
\* kill), and the container runs on.
ClientDies(j) ==
    /\ cli[j] = "attached" /\ container[j] = "running"
    /\ cli' = [cli EXCEPT ![j] = "nonzero"]
    /\ UNCHANGED <<consumerVars, netVars, agentVars, taskVars, active, cancel,
                   container, logVars>>

\* The program ends by itself; --rm removes the container.
ContainerExits(j) ==
    /\ Runs(j)
    /\ \E code \in {"ok", "nonzero"} :
           /\ container' = [container EXCEPT ![j] = code]
           /\ cli' = [cli EXCEPT ![j] = IF @ = "attached" THEN code ELSE @]
    /\ UNCHANGED <<consumerVars, netVars, agentVars, taskVars, active, cancel,
                   logVars>>

-------------------------------------------------------------------------------
(* The agent process.                                                      *)

\* The agent dies (share stop sends TERM; a reboot): its tasks, its `active`
\* list and its connections go; docker keeps running what it runs.
AgentCrash ==
    /\ up /\ crashes < MaxCrashes
    /\ up' = FALSE
    /\ crashes' = crashes + 1
    /\ active'  = {}
    /\ task'    = [j \in Jobs |-> IF task[j] = "none" THEN "none" ELSE "gone"]
    /\ cancel'  = [j \in Jobs |-> IF cancel[j] = "tried" THEN "over"
                                  ELSE cancel[j]]
    /\ connUp'  = [j \in Jobs |-> FALSE]
    /\ request' = [j \in Jobs |-> FALSE]
    /\ pipe'    = [j \in Jobs |-> 0]
    /\ chan'    = [j \in Jobs |-> 0]
    /\ UNCHANGED <<consumerVars, wire, verdict, outputs, dockerVars, unread,
                   quit>>

\* A new agent starts with an empty `active` list and looks at no container.
AgentRestart ==
    /\ ~up
    /\ up' = TRUE
    /\ UNCHANGED <<consumerVars, netVars, crashes, taskVars, active, cancel,
                   dockerVars, logVars>>

-------------------------------------------------------------------------------

ClientStep(j) == ClientReads(j) \/ ClientEnds(j) \/ ClientLost(j)

TaskStep(j) ==
    \/ AcceptJob(j)    \/ PrepareJob(j)   \/ AdmitJob(j)    \/ SpawnDocker(j)
    \/ ChildExit(j)    \/ JoinLogTasks(j) \/ Timeout(j)  \/ ReportTimeout(j)
    \/ ReleaseSlot(j)  \/ RemoveContainer(j) \/ PackOutputs(j)
    \/ SendTerminal(j)

Next ==
    \/ \E j \in Jobs :
        \/ Submit(j)       \/ ClientStep(j)   \/ ConnDrop(j)
        \/ HandleRunJob(j) \/ CancelRemove(j) \/ CancelRetain(j)
        \/ TaskStep(j)     \/ ReadPipe(j)     \/ ReaderQuits(j)
        \/ ForwardLog(j)   \/ DockerStart(j)  \/ ContainerPrints(j)
        \/ ClientDies(j)   \/ ContainerExits(j)
    \/ AgentCrash \/ AgentRestart

Spec == Init /\ [][Next]_vars

\* tokio keeps polling the session, the job task and the log tasks.  The
\* network, docker, users and crashes owe nothing, and neither does a consumer:
\* its terminal or its pipe may stop taking what it prints.
Fairness ==
    /\ \A j \in Jobs :
        /\ WF_vars(HandleRunJob(j)) /\ WF_vars(TaskStep(j))
        /\ WF_vars(CancelRetain(j))
        /\ WF_vars(ReadPipe(j))     /\ WF_vars(ForwardLog(j))
    /\ WF_vars(AgentRestart)

FairSpec == Spec /\ Fairness

-------------------------------------------------------------------------------
(* Properties.                                                             *)

HoldsSlot(j) ==
    task[j] \in {"admitted", "waiting", "draining", "killed", "reaped"}
Reported(j)  == \/ client[j] \in Terminal
                \/ \E i \in 1..Len(wire[j]) : wire[j][i] \in Terminal

\* DockerRuntime never lets more than max_concurrent_jobs jobs hold a slot
\* (docker.rs:53-62).
SlotLimit == Cardinality(active) <= MaxConcurrent

\* No slot leaks and none is taken away but by a cancel: an entry of `active`
\* has a task that will remove it, and a task that is between the push and the
\* retain has its entry (docker.rs:53-141, 255).
SlotsAccounted ==
    /\ \A j \in active : HoldsSlot(j)
    /\ \A j \in Jobs : HoldsSlot(j) /\ cancel[j] \in {"none", "tried"}
                       => j \in active

\* A container runs outside the limit only while its task works on after a
\* cancel took the slot, between the retain and the `docker rm -f` of a job
\* whose client was killed or died, when that `docker rm -f` failed, or when
\* the agent that started it died; a task that left early has none.
ContainersAccounted ==
    \A j \in Jobs : Runs(j) =>
        \/ j \in active
        \/ HoldsSlot(j) /\ cancel[j] = "over"
        \/ task[j] = "released" /\ verdict[j] # "ok"
        \/ task[j] \in {"cleaned", "packed", "done"} /\ container[j] = "left"
        \/ task[j] = "gone"

\* A consumer that was told the end of its job can pull the outputs at once;
\* the container was removed first, unless the best-effort removal failed; and
\* success is told only of a container that ended by itself with code 0
\* (docker.rs:143-157, remote.rs:839-860).
ReportIsTrue ==
    \A j \in Jobs : Reported(j) =>
        /\ outputs[j] # "none"
        /\ container[j] # "running"
        /\ client[j] = "succeeded" => container[j] = "ok"

\* No line is read twice or comes from nowhere.  When docker run ended by
\* itself, every line has left the pipes before the runtime returns
\* (docker.rs:243-244).  And as long as the consumer is connected, a line is
\* lost only with a reader that left its loop: when nothing is under way, the
\* consumer has them all.  (A consumer disconnects at the terminal status,
\* which may overtake the last lines: nobody awaits the forwarder.)
LinesDrained ==
    \A j \in Jobs :
        /\ pipe[j] + chan[j] <= unread[j]
        /\ verdict[j] \in {"ok", "nonzero"} => pipe[j] = 0
        /\ connUp[j] /\ j \notin quit /\ pipe[j] + chan[j] = 0
             /\ wire[j] = <<>> => unread[j] = 0

\* The detailed system implements what consumers are promised.
Promise == INSTANCE JobPromise WITH
    seen  <- client,
    fate  <- [j \in Jobs |-> IF container[j] \in {"ok", "nonzero"}
                             THEN container[j] ELSE "unknown"],
    ready <- [j \in Jobs |-> outputs[j] # "none"]
ImplementsPromise == Promise!Spec

\* The consumer is connected and leaves a full window unread.
Clogged(j) == connUp[j] /\ Len(wire[j]) = WireCap

\* With a max_runtime a slot is given back, or its consumer stays connected and
\* stops reading for ever: the deadline bounds the wait on the child, but not
\* the wait for room in the log channel that follows it (docker.rs:228-244).
SlotReleased == \A j \in Jobs :
    <>[]Clogged(j) \/ (j \in active ~> j \notin active)

=============================================================================
