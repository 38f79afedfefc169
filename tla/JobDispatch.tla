----------------------------- MODULE JobDispatch ------------------------------
(***************************************************************************)
(* The commands that send jobs to the provider of JobRuntime, one attempt  *)
(* after the other, after Scheduler has picked the peer where one is asked *)
(* for:                                                                    *)
(*                                                                         *)
(*   run     gpumesh run          crates/gpumesh-cli/src/commands.rs       *)
(*   local   gpumesh run without a peer: the same loop around docker here  *)
(*   app     gpumesh app run      crates/gpumesh-cli/src/app.rs            *)
(*   board   POST run             crates/gpumesh-control/src/local.rs      *)
(*                                                                         *)
(* Every attempt has an id of its own and a record in the history, written *)
(* when it begins and again when its end is known.  The peer a schedule    *)
(* resolved to is the provider.                                            *)
(***************************************************************************)
EXTENDS JobRuntime, Scheduler

CONSTANTS Attempt,   \* the fresh ids of one command's attempts; its length
                     \* bounds the attempts
          Fragile    \* bound: attempts whose connection may break

ASSUME AttemptType ==
    /\ Attempt \in Seq(Jobs) /\ Attempt # <<>>
    /\ \A i, k \in DOMAIN Attempt : Attempt[i] = Attempt[k] => i = k
    /\ Fragile \subseteq Jobs

VARIABLES
    kind,      \* which command it is
    retries,   \* attempts it may make after the first
    at,        \* where it stands
    dialer,    \* ensure_dialer has opened its socket
    n,         \* attempts begun
    told,      \* what the user is told at the end
    record     \* jobs/<id>/meta.json

commandVars  == <<kind, retries, at, dialer, n, told, record>>
dispatchVars == <<vars, schedVars, commandVars>>

Kinds  == {"run", "local", "app", "board"}
Places == {"shell", "scheduling", "next", "dial", "docker", "wait", "over"}

CommandTypeOK ==
    /\ kind    \in Kinds \cup {"none"}
    /\ retries \in 0..(Len(Attempt) - 1)
    /\ at      \in Places
    /\ dialer  \in BOOLEAN
    /\ n       \in 0..Len(Attempt)
    /\ told    \in {"none", "success", "failure", "interrupted"}
    /\ record  \in [Jobs -> {"none", "pending", "running"} \cup Terminal]

DispatchInit ==
    /\ Init /\ ScheduleInit
    /\ kind    = "none"
    /\ retries = 0
    /\ at      = "shell"
    /\ dialer  = FALSE
    /\ n       = 0
    /\ told    = "none"
    /\ record  = [j \in Jobs |-> "none"]

Current == Attempt[n]
Record(j, s) == record' = [record EXCEPT ![j] = s]

\* The command goes back to the shell.
End(how) == at' = "over" /\ told' = how

-------------------------------------------------------------------------------
(* The commands.                                                           *)

\* --retries, else the job file's, else the default of the configuration; 0
\* stands for a number that is not given.
Retries(flag, file, default) ==
    CHOOSE r \in {flag, file, default} :
        \/ r = flag /\ flag > 0
        \/ r = file /\ flag = 0 /\ file > 0
        \/ r = default /\ flag = 0 /\ file = 0

StartCommand(k) ==
    /\ at = "shell"
    /\ kind' = k
    /\ IF k \in {"run", "local"}
       THEN \E flag, file, default \in 0..(Len(Attempt) - 1) :
                retries' = Retries(flag, file, default)
       ELSE retries' = 0
    /\ at' = "next"
    /\ UNCHANGED <<dialer, n, told, record, vars, schedVars>>

\* --group or --gpu-memory: the peer is scheduled first, once for all attempts.
StartScheduled(k) ==
    /\ at = "shell" /\ k \in {"run", "app"}
    /\ kind' = k
    /\ retries' \in (IF k = "run" THEN 0..(Len(Attempt) - 1) ELSE {0})
    /\ \/ at' = "scheduling" /\ dialer' = TRUE /\ UNCHANGED told
          /\ StartSchedule
       \/ End("failure") /\ UNCHANGED <<dialer, schedVars>>
    /\ UNCHANGED <<n, record, vars>>

Scheduling ==
    /\ at = "scheduling"
    /\ ScheduleStep
    /\ UNCHANGED <<vars, commandVars>>

\* Without a peer the command ends, and nothing is recorded.
Scheduled ==
    /\ at = "scheduling" /\ ScheduleReturns
    /\ IF phase = "resolved" THEN at' = "next" /\ UNCHANGED told
                             ELSE End("failure")
    /\ UNCHANGED <<kind, retries, dialer, n, record, vars>>

\* A new id, and its record.
NextAttempt ==
    /\ at = "next" /\ n <= retries
    /\ n' = n + 1
    /\ at' = IF kind = "local" THEN "docker" ELSE "dial"
    /\ Record(Attempt[n + 1], IF kind = "board" THEN "pending" ELSE "running")
    /\ UNCHANGED <<kind, retries, dialer, told, vars, schedVars>>

\* ensure_dialer: no socket.  It comes before the record in `app run`, after
\* it in `run`, whose record stays as it is, and inside the outcome of the
\* dashboard's task.
NoDialer ==
    /\ ~dialer
    /\ \/ at = "next" /\ kind = "app" /\ UNCHANGED record
       \/ at = "dial" /\ kind = "run" /\ UNCHANGED record
       \/ at = "dial" /\ kind = "board" /\ Record(Current, "failed")
    /\ End("failure")
    /\ UNCHANGED <<kind, retries, dialer, n, vars, schedVars>>

\* Mutant of AttemptEnds: the loop goes round after a success as well.
AttemptEndsAlways(ok) ==
    /\ Record(Current, IF ok THEN "succeeded" ELSE "failed")
    /\ IF n <= retries THEN at' = "next" /\ UNCHANGED told
       ELSE End(IF ok THEN "success" ELSE "failure")
    /\ UNCHANGED <<kind, retries, n, schedVars>>

\* The record is saved; the loop goes round after a failure while attempts
\* are left.
AttemptEnds(ok) ==
    /\ Record(Current, IF ok THEN "succeeded" ELSE "failed")
    /\ CASE ok -> End("success")
         [] ~ok /\ n <= retries -> at' = "next" /\ UNCHANGED told
         [] OTHER -> End("failure")
    /\ UNCHANGED <<kind, retries, n, schedVars>>

\* The peer is not reached, or the upload fails.
SendFails ==
    /\ at = "dial"
    /\ dialer' = TRUE
    /\ AttemptEnds(FALSE)
    /\ UNCHANGED vars

Send ==
    /\ at = "dial"
    /\ dialer' = TRUE
    /\ Submit(Current)
    /\ at' = "wait"
    /\ UNCHANGED <<kind, retries, n, told, record, schedVars>>

\* run_local_job: docker on this machine.
LocalEnds ==
    /\ at = "docker"
    /\ \E ok \in BOOLEAN : AttemptEnds(ok)
    /\ UNCHANGED <<dialer, vars>>

\* Mutant of Answered: the acceptance of the job is taken for its end.
AnsweredEarly(j) == client[j] \notin {"requested", "running"}

\* Mutant of Answered: a connection that is lost is not noticed.
AnsweredOnly(j) == client[j] \in Terminal \cup {"rejected"}

\* run_remote_job returns: an exit code, or an error.
Answered(j) == ~Listening(j)

\* A rejected or lost job is a failure; `app run --out` also fails when the
\* outputs cannot be pulled.
RemoteEnds ==
    /\ at = "wait" /\ Answered(Current)
    /\ \/ AttemptEnds(client[Current] = "succeeded")
       \/ kind = "app" /\ AttemptEnds(FALSE)
    /\ UNCHANGED <<dialer, vars>>

\* Ctrl-C, or the end of the dashboard's process: the connection goes with
\* it, and the record stays as it is.
Interrupt ==
    /\ at \notin {"shell", "over"}
    /\ End("interrupted")
    /\ IF at = "wait" /\ Listening(Current)
       THEN Current \in Fragile /\ ConnDrop(Current) /\ wire'[Current] = <<>>
       ELSE UNCHANGED vars
    /\ UNCHANGED <<kind, retries, dialer, n, record, schedVars>>

-------------------------------------------------------------------------------

\* The command and its schedule stay where they are.
Aside == UNCHANGED <<schedVars, commandVars>>

\* Bound: log lines, cancels, and deaths of the docker client and of the agent
\* occur to a single attempt of `run`; the provider treats the jobs of all
\* commands alike.
Alone == kind = "run" /\ retries = 0

\* What goes on without the command: JobRuntime, whose Submit is Send.
RuntimeStep ==
    /\ \/ \E j \in Jobs :
            \/ ClientStep(j)   \/ HandleRunJob(j) \/ CancelRetain(j)
            \/ TaskStep(j)     \/ ReadPipe(j)     \/ ReaderQuits(j)
            \/ ForwardLog(j)   \/ DockerStart(j)  \/ ContainerExits(j)
            \/ j \in Fragile /\ ConnDrop(j)
            \/ Alone /\ (CancelRemove(j) \/ ContainerPrints(j)
                         \/ ClientDies(j))
       \/ Alone /\ AgentCrash
       \/ AgentRestart
    /\ Aside

Progress ==
    \/ Scheduling \/ Scheduled \/ NextAttempt \/ NoDialer
    \/ SendFails \/ Send \/ LocalEnds \/ RemoteEnds

DispatchNext ==
    \/ \E k \in Kinds : StartCommand(k) \/ StartScheduled(k)
    \/ Progress \/ Interrupt
    \/ RuntimeStep

DispatchSpec == DispatchInit /\ [][DispatchNext]_dispatchVars

\* As in JobRuntime; and a command that can go on does.  Probes end by a
\* timeout of their own; a local job and a remote one by max_runtime.
DispatchFairness ==
    /\ \A j \in Jobs :
        /\ WF_dispatchVars(HandleRunJob(j) /\ Aside)
        /\ WF_dispatchVars(TaskStep(j) /\ Aside)
        /\ WF_dispatchVars(CancelRetain(j) /\ Aside)
        /\ WF_dispatchVars(ReadPipe(j) /\ Aside)
        /\ WF_dispatchVars(ForwardLog(j) /\ Aside)
    /\ WF_dispatchVars(AgentRestart /\ Aside)
    /\ WF_dispatchVars(Progress)

FairDispatch == DispatchSpec /\ DispatchFairness

-------------------------------------------------------------------------------
(* Properties.                                                             *)

Working(j) == HoldsSlot(j) \/ Runs(j)

\* A new attempt begins beside an earlier one only when that one was LOST, or
\* when the provider failed to remove its container: the loop does not tell a
\* lost connection from a failure (commands.rs:315-383), but a job it had an
\* answer of has given up its slot, and its provider has tried to stop it.
OverlapOnlyWhenLost ==
    \A i, k \in 1..n : i < k /\ Working(Attempt[i]) =>
        \/ client[Attempt[i]] = "lost"
        \/ ~HoldsSlot(Attempt[i]) /\ container[Attempt[i]] = "left"

\* What the history and the exit of the command say of the attempts: an
\* attempt is recorded as failed though its program ended well only when the
\* connection was lost, the time was up, the docker client's status did not say
\* so or `--out` could not be fetched; only
\* the last attempt succeeds; and a record is left open only by an interrupted
\* command or by one without a socket (commands.rs:322-378, app.rs:248-320).
HistoryIsTrue ==
    /\ \A i \in 1..n : LET j == Attempt[i] IN
        /\ record[j] = "succeeded" => i = n /\ at = "over"
        /\ kind # "local" /\ record[j] = "succeeded" =>
               container[j] = "ok" /\ outputs[j] # "none"
        /\ record[j] = "failed" /\ container[j] = "ok" =>
               \/ client[j] = "lost"
               \/ verdict[j] \in {"timeout", "error"} \/ cli[j] = "nonzero"
               \/ kind = "app" /\ client[j] = "succeeded"
        /\ at = "over" /\ record[j] \in {"pending", "running"} =>
               \/ told = "interrupted"
               \/ kind = "run" /\ client[j] = "idle"
    /\ told = "success" <=> n > 0 /\ record[Current] = "succeeded"
    /\ told = "failure" /\ n > 0 => n = retries + 1 \/ ~dialer

\* A command that keeps reading ends, or is held by a provider that took its
\* job and dropped it before docker ran (remote.rs:67, 837): the consumer then
\* waits as long as the connection lasts.  A retry beside a lost attempt that
\* still holds the only slot ends there.
Abandoned == \E j \in Jobs :
    task[j] = "aborted" /\ cli[j] = "none" /\ Listening(j) /\ connUp[j]
Reads(j) == WF_dispatchVars(ClientStep(j) /\ Aside)
CommandEnds ==
    (\A j \in Jobs : Reads(j)) => (at # "shell" ~> at = "over" \/ Abandoned)

=============================================================================
