---------------------------- MODULE ShareLifecycle ----------------------------
(***************************************************************************)
(* Starting and stopping the servers of one machine.  They agree through   *)
(* three files: the configuration, a stop file and a pid file.             *)
(*                                                                         *)
(*   share, agent   run_agent     crates/gpumesh-cli/src/commands.rs,      *)
(*                                crates/gpumesh-agent/src/main.rs         *)
(*   extra          cuda share and desktop share, in another order         *)
(*   stop           gpumesh share stop                                     *)
(*   edit           gpumesh config set                                     *)
(*                                                                         *)
(* Every process reads the configuration when it starts and writes back    *)
(* its whole copy.  Of the configuration two fields are kept: `sharing`,   *)
(* and a `setting` that stands for all the others, numbered by its edits.  *)
(* The port is the configured one: binding it is exclusive.                *)
(***************************************************************************)
EXTENDS Naturals

CONSTANTS Servers,     \* server processes, by pid
          NoPid,       \* the pid file is not there
          MaxStops,    \* bound: runs of share stop
          MaxEdits     \* bound: runs of config set

ASSUME NoPidType  == NoPid \notin Servers
ASSUME BoundsType == MaxStops \in Nat \ {0} /\ MaxEdits \in Nat \ {0}

VARIABLES
    config,    \* config.toml
    stopFile,  \* the stop file is there
    pidFile,   \* the pid in the pid file
    at,        \* where each server stands
    kind,      \* which command started it
    copy,      \* the configuration each server holds
    stop,      \* share stop: where it stands and its copy
    edit,      \* config set: likewise
    overlap,   \* the user starts a command while another one is at work
    kills,     \* the signal of share stop ends the process it is sent to
    stops,     \* bounds
    edits,
    asked,     \* how each server was last asked to stop (history)
    settled    \* last setting made while no server was up (history)

files     == <<config, stopFile, pidFile>>
servers   == <<at, kind, copy>>
commands  == <<stop, edit, stops, edits>>
world     == <<overlap, kills>>
history   == <<asked, settled>>
vars      == <<files, servers, commands, world, history>>

Config   == [sharing : BOOLEAN, setting : Nat]
Default  == [sharing |-> FALSE, setting |-> 0]
Kinds    == {"share", "agent", "extra"}
Stages   == {"new", "booted", "bound", "enabled", "cleared", "listed",
             "announcing", "serving", "hung", "stopping", "withdrawing",
             "disabled", "unlisted", "over"}
StopStages == {"idle", "booted", "written", "hung", "disabled", "killed"}

TypeOK ==
    /\ config   \in Config
    /\ stopFile \in BOOLEAN
    /\ pidFile  \in Servers \cup {NoPid}
    /\ at       \in [Servers -> Stages]
    /\ kind     \in [Servers -> Kinds]
    /\ copy     \in [Servers -> Config]
    /\ stop     \in [at : StopStages, copy : Config]
    /\ edit     \in [at : {"idle", "loaded"}, copy : Config]
    /\ overlap  \in BOOLEAN /\ kills \in BOOLEAN
    /\ stops    \in 0..MaxStops /\ edits \in 0..MaxEdits
    /\ asked    \in [Servers -> {"no", "off", "stop", "withdrawn"}]
    /\ settled  \in Nat

Init ==
    /\ config   = Default
    /\ stopFile = FALSE /\ pidFile = NoPid
    /\ at       = [s \in Servers |-> "new"]
    /\ kind     = [s \in Servers |-> "share"]
    /\ copy     = [s \in Servers |-> Default]
    /\ stop     = [at |-> "idle", copy |-> Default]
    /\ edit     = [at |-> "idle", copy |-> Default]
    /\ overlap  \in BOOLEAN /\ kills \in BOOLEAN
    /\ stops    = 0 /\ edits = 0
    /\ asked    = [s \in Servers |-> "no"]
    /\ settled  = 0

Down     == {"new", "over"}
Starting == {"booted", "bound", "enabled", "cleared", "listed", "announcing"}
Up(s)    == at[s] \notin Down
Bound(s) == Up(s) /\ at[s] # "booted"

\* No command of the user is at work.
Quiet ==
    /\ \A s \in Servers : at[s] \notin Starting
    /\ stop.at = "idle" /\ edit.at = "idle"
MayBegin == overlap \/ Quiet

\* Bound: commands that may overlap run once.
Often(max) == IF overlap THEN 1 ELSE max

Goto(s, x) == at' = [at EXCEPT ![s] = x]
Move(s, from, to) == at[s] = from /\ Goto(s, to) /\ UNCHANGED <<kind, copy>>

\* The process is gone, and with it its memory.
End(s) ==
    /\ Goto(s, "over")
    /\ kind' = [kind EXCEPT ![s] = "share"]
    /\ copy' = [copy EXCEPT ![s] = Default]

-------------------------------------------------------------------------------
(* A server starts.                                                        *)

\* Mutant of Boot: the file is not read.
BootDefault(s, k) ==
    /\ MayBegin
    /\ at[s] = "new" /\ Goto(s, "booted")
    /\ kind' = [kind EXCEPT ![s] = k]
    /\ copy' = [copy EXCEPT ![s] = Default]
    /\ UNCHANGED <<files, commands, world, history>>

Boot(s, k) ==
    /\ MayBegin
    /\ at[s] = "new" /\ Goto(s, "booted")
    /\ kind' = [kind EXCEPT ![s] = k]
    /\ copy' = [copy EXCEPT ![s] = config]
    /\ UNCHANGED <<files, commands, world, history>>

\* Mutant of Bind: a port that is taken is replaced by another one.
BindAnyway(s) ==
    /\ Move(s, "booted", "bound")
    /\ UNCHANGED <<files, commands, world, history>>

\* start_network: the port is free, or the command ends.
Bind(s) ==
    /\ at[s] = "booted"
    /\ IF \E r \in Servers : Bound(r) THEN End(s) ELSE Move(s, "booted", "bound")
    /\ UNCHANGED <<files, commands, world, history>>

\* run_agent takes up the files first, then the sharing; the others the other
\* way round.
FilesFirst(s) == kind[s] # "extra"

\* Mutant of ClearStop: the stop file of an earlier stop stays.
ClearStopSkipped(s) ==
    /\ Move(s, IF FilesFirst(s) THEN "bound" ELSE "enabled", "cleared")
    /\ UNCHANGED <<files, commands, world, history>>

\* Mutant of ClearStop: it comes before the port is bound.
ClearStopEarly(s) ==
    /\ at[s] \in {"booted", "bound", "enabled"} /\ stopFile' = FALSE
    /\ Goto(s, IF at[s] = "booted" THEN "booted" ELSE "cleared")
    /\ UNCHANGED <<config, pidFile, kind, copy, commands, world, history>>

ClearStop(s) ==
    /\ Move(s, IF FilesFirst(s) THEN "bound" ELSE "enabled", "cleared")
    /\ stopFile' = FALSE
    /\ UNCHANGED <<config, pidFile, commands, world, history>>

WritePid(s) ==
    /\ Move(s, "cleared", IF kind[s] = "share" THEN "listed" ELSE "serving")
    /\ pidFile' = s
    /\ UNCHANGED <<config, stopFile, commands, world, history>>

\* enable_share, enable_cuda_remote_share, enable_desktop_share; the first goes
\* on to announce itself, which may not return.
Enable(s) ==
    /\ \/ /\ kind[s] = "share" /\ at[s] = "listed"
          /\ \E x \in {"serving", "announcing"} : Goto(s, x)
       \/ kind[s] = "extra" /\ at[s] = "bound" /\ Goto(s, "enabled")
    /\ copy'   = [copy EXCEPT ![s].sharing = TRUE]
    /\ config' = copy'[s]
    /\ UNCHANGED <<stopFile, pidFile, kind, commands, world, history>>

\* A bad option, no rendezvous_url, no GPU, no desktop: the command ends, and
\* leaves what it has written.
Bail(s) ==
    /\ at[s] \in {"listed", "enabled"}
    /\ End(s)
    /\ UNCHANGED <<files, commands, world, history>>

-------------------------------------------------------------------------------
(* A server runs and ends.                                                 *)

\* Mutant of WantsStop: the configuration is not looked at.
WantsStopByFile(s) == stopFile /\ s \in Servers

\* What a tick looks for.
WantsStop(s) ==
    \/ stopFile
    \/ kind[s] = "share" /\ ~config.sharing

Tick(s) ==
    /\ WantsStop(s)
    /\ Move(s, "serving", IF FilesFirst(s) THEN "stopping" ELSE "disabled")
    /\ UNCHANGED <<files, commands, world, history>>

\* The heartbeat of a public share is awaited in the loop, without a timeout.
Hang(s) ==
    /\ kind[s] = "share" /\ ~WantsStop(s)
    /\ Move(s, "serving", "hung")
    /\ UNCHANGED <<files, commands, world, history>>

\* The control plane answers an announcement, a heartbeat, or the taking back of
\* a listing after all.
ControlPlaneAnswers(s) ==
    /\ \/ Move(s, "announcing", "serving")
       \/ Move(s, "hung", "serving")
       \/ Move(s, "withdrawing", "disabled")
    /\ UNCHANGED <<files, commands, world, history>>

\* disable_share writes the copy this server started with, and takes a public
\* listing back, which may not return.
Disable(s) ==
    /\ at[s] = "stopping"
    /\ \E x \in {"disabled", "withdrawing"} : Goto(s, x)
    /\ copy'   = [copy EXCEPT ![s].sharing = FALSE]
    /\ config' = copy'[s]
    /\ UNCHANGED <<stopFile, pidFile, kind, commands, world, history>>

RemovePid(s) ==
    /\ Move(s, "disabled", "unlisted")
    /\ pidFile' = NoPid
    /\ UNCHANGED <<config, stopFile, commands, world, history>>

RemoveStop(s) ==
    /\ at[s] = "unlisted" /\ End(s)
    /\ stopFile' = FALSE
    /\ UNCHANGED <<config, pidFile, commands, world, history>>

\* Ctrl-C, or the machine: nothing is cleaned up.
Die(s) ==
    /\ Up(s)
    /\ End(s)
    /\ UNCHANGED <<files, commands, world, history>>

-------------------------------------------------------------------------------
(* share stop.                                                             *)

StopGoes(from, to) == stop.at = from /\ stop' = [stop EXCEPT !.at = to]

BeginStop ==
    /\ MayBegin /\ stop.at = "idle" /\ stops < Often(MaxStops)
    /\ stop'  = [at |-> "booted", copy |-> config]
    /\ stops' = stops + 1
    /\ UNCHANGED <<files, servers, edit, edits, world, history>>

\* It has removed the stop file, and looks for a new one if it gets that far.
Running(s) == at[s] \in {"announcing", "serving", "hung"}

WriteStop ==
    /\ StopGoes("booted", "written")
    /\ stopFile' = TRUE
    /\ asked' = [s \in Servers |-> IF Running(s) THEN "stop" ELSE asked[s]]
    /\ UNCHANGED <<config, pidFile, servers, edit, stops, edits, world, settled>>

\* disable_share; taking a public listing back may not return.
StopDisables ==
    /\ stop.at = "written"
    /\ \E x \in {"disabled", "hung"} :
           stop' = [at |-> x, copy |-> Default]
    /\ config' = [stop.copy EXCEPT !.sharing = FALSE]
    /\ UNCHANGED <<stopFile, pidFile, servers, edit, stops, edits, world,
                   history>>

\* It returns after all, or the user gives up.
StopReturns ==
    /\ \/ StopGoes("hung", "disabled") /\ UNCHANGED asked
       \/ /\ StopGoes("hung", "idle")
          /\ asked' = [s \in Servers |->
                          IF asked[s] = "stop" THEN "withdrawn" ELSE asked[s]]
    /\ UNCHANGED <<files, servers, edit, stops, edits, world, settled>>

\* kill -TERM of the pid in the file; taskkill without /F, a wrong pid or
\* another user's process: it may come to nothing.
Kill ==
    /\ StopGoes("disabled", "killed")
    /\ IF pidFile # NoPid /\ kills /\ Up(pidFile) THEN End(pidFile)
                                                  ELSE UNCHANGED servers
    /\ UNCHANGED <<files, edit, stops, edits, world, history>>

StopRemovesPid ==
    /\ StopGoes("killed", "idle")
    /\ pidFile' = NoPid
    /\ UNCHANGED <<config, stopFile, servers, edit, stops, edits, world, history>>

-------------------------------------------------------------------------------
(* config set.                                                             *)

BeginEdit ==
    /\ MayBegin /\ edit.at = "idle" /\ edits < Often(MaxEdits)
    /\ edit'  = [at |-> "loaded", copy |-> config]
    /\ edits' = edits + 1
    /\ UNCHANGED <<files, servers, stop, stops, world, history>>

SaveEdit ==
    /\ edit.at = "loaded"
    /\ edit' = [at |-> "idle", copy |-> Default]
    /\ \/ config' = [edit.copy EXCEPT !.setting = edits]
       \/ \E on \in BOOLEAN : config' = [edit.copy EXCEPT !.sharing = on]
    /\ asked' = [s \in Servers |->
                    IF Running(s) /\ asked[s] = "no" /\ ~config'.sharing
                    THEN "off" ELSE asked[s]]
    /\ settled' = IF \E s \in Servers : Up(s) THEN settled ELSE config'.setting
    /\ UNCHANGED <<stopFile, pidFile, servers, stop, stops, edits, world>>

-------------------------------------------------------------------------------

ServerStep(s) ==
    \/ Bind(s) \/ ClearStop(s) \/ WritePid(s) \/ Enable(s)
    \/ Tick(s) \/ Disable(s) \/ RemovePid(s) \/ RemoveStop(s)

StopStep == WriteStop \/ StopDisables \/ Kill \/ StopRemovesPid

Next ==
    \/ \E s \in Servers :
        \/ \E k \in Kinds : Boot(s, k)
        \/ ServerStep(s) \/ Bail(s) \/ Hang(s) \/ Die(s)
        \/ ControlPlaneAnswers(s)
    \/ BeginStop \/ StopStep \/ StopReturns
    \/ BeginEdit \/ SaveEdit

Spec == Init /\ [][Next]_vars

\* The tick comes back every 5 or 45 seconds, and a command runs to its end;
\* the user and the control plane owe nothing.
Fairness ==
    /\ \A s \in Servers : WF_vars(ServerStep(s))
    /\ WF_vars(StopStep) /\ WF_vars(SaveEdit)

FairSpec == Spec /\ Fairness

-------------------------------------------------------------------------------
(* Properties.                                                             *)

\* A server that waits for a control plane that does not answer: on its start, in
\* its loop or on its way out.
Held(s) == at[s] \in {"announcing", "hung", "withdrawing"}

\* A server that ran when a stop was requested ends: by its tick, or, while the
\* control plane holds it, by the signal, provided that works, the stop is not
\* itself held by the control plane before it sends it, or given up there, and no
\* other command has taken the pid away (commands.rs:81-105, 714-732;
\* node.rs:143-169, 183-197).  And turning sharing off in the configuration ends
\* the loop of a share server.
BeyondReach(s) ==
    /\ Held(s)
    /\ ~kills \/ overlap \/ stop.at = "hung" \/ asked[s] = "withdrawn"
StopIsObeyed == \A s \in Servers :
    /\ asked[s] = "stop" ~> at[s] = "over" \/ BeyondReach(s)
    /\ at[s] = "serving" /\ kind[s] = "share" /\ ~config.sharing
           ~> at[s] # "serving" \/ config.sharing

\* When commands do not overlap, the pid file names the server that serves,
\* whatever earlier servers and failed starts have left, so that a stop finds
\* it; only the stop itself takes it away (commands.rs:658-662, 103, 725).
PidNamesTheServer ==
    ~overlap /\ Quiet /\ ~stopFile =>
        \A s \in Servers : Running(s) => pidFile = s

\* When commands do not overlap, no server stops that was not asked to: neither
\* a stop file left behind nor a configuration written back by an earlier
\* process ends a new one (commands.rs:658, 716-722).
NobodyStopsUnasked ==
    ~overlap => \A s \in Servers :
        at[s] \in {"stopping", "withdrawing", "disabled", "unlisted"}
            => asked[s] # "no"

\* When commands do not overlap, what was set while no server was up stays,
\* though every process writes the whole configuration back (node.rs:174).
EditsSurvive == ~overlap => config.setting >= settled

=============================================================================
