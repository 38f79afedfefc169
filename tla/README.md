# GPUMesh: TLA+ verification

GPUMesh lets the owner of a GPU run other people's jobs: a *provider* runs
`gpumesh share`, a *consumer* that the provider has allowed dials it over QUIC,
sends a job, and the provider runs it in a docker container and streams the
output back. Around that core there are a trust store, file copies, a control
plane with a metadata store and a public registry, a relay for nodes behind NAT,
and a CUDA remoting session that runs single CUDA calls on the provider's GPU.

This directory holds TLA+ models of those parts, the TLC configurations that
check them on small instances, and theorems with proofs for TLAPS. Paths below
are relative to `src/crates/` unless they start with `src/`.

- [Components](#components)
- [Modules](#modules)
- [Runs](#runs)
- [Bounds](#bounds)
- [Fairness](#fairness)
- [Proofs](#proofs)
- [Where the code and its documents differ](#where-the-code-and-its-documents-differ)
- [Not modelled](#not-modelled)
- [Plan](#plan)
- [How to run](#how-to-run)

## Components

Most hazards of this code sit between two processes that share a file or a
connection. Per component: its state, its operations, what is hard, and what
must hold; how the components interact follows the list.

**Remote jobs** (`gpumesh-core/src/remote.rs`, `gpumesh-runtime/src/docker.rs`,
`gpumesh-network/src/peer_conn.rs`). State: the vector `active` of container
names behind a mutex, one tokio task per job, the `docker run` child and the
container it started, the bounded channel of the log forwarder, the frames on
the consumer's connection. Operations: `RunJob`, `CancelJob`, the task's steps
from accept to terminal status, the two log tasks, the timeout. Hard: cancel
works on `active` without knowing what the task is doing; the log forwarder is
awaited by nobody; a stalled consumer pushes back through the channel into the
runtime; the `docker rm -f` after a job may fail; an agent that dies leaves
containers. Must hold: never more than `max_concurrent_jobs` slots, every slot is
given back or held by a consumer that stopped reading, success is reported only of
a program that exited 0, outputs exist when the end is reported.

**Trust** (`gpumesh-core/src/node.rs`, `gpumesh-security/src/lib.rs`,
`gpumesh-storage/src/store.rs`). State: `allowlist.json`, `peers.json`, and a
copy of both in every process. Operations: `init`, `pair`, `allow`, `desktop
allow`, `cuda allow`, `deny`, `connect`, and the agent's `handle_inbound` with the
rights each service asks for. Hard: every command reads whole files and writes
whole files, nothing locks them, the agent reads them once. Must hold: no list
both grants and denies a peer; commands change exactly the rights they name; the
agent serves by the rights it read.

**File transfer** (`remote.rs`: `upload_file`, `FileOffer`, `FileChunk`,
`serve_download`, `transfer_file_from_peer`). State: the destination and its
`.partial` file on the provider's disk, a buffer per upload in the session.
Hard: attempts at one path share the `.partial` file, also attempts of different
files; the destination is emptied, filled and only then checked, and each of these
may fail or be cut off, or meet another upload's writes or a download's reads; a
download's end is not distinguished from a lost connection. Must hold: an
acknowledged upload is the consumer's file; the destination is whole except on
known conditions, and a download delivers what it found there.

**Control plane store** (`gpumesh-control/src/main.rs`). State: an `RwLock` around
the store, a JSON state file. Operations: `announce`, `sync`, the reads,
`persist_state` after each change, start. Hard: copies are written after the lock
is released; `fs::write` truncates first; a start that cannot parse the file
fails. Must hold: syncs are never mixed; what was answered is not lost.

**Public registry** (same file, `gpumesh-network/src/rendezvous.rs`, `node.rs`,
`gpumesh-cli/src/commands.rs`, `gpumesh-agent/src/main.rs`). State: listings with
two times each, `public_listing` in each node's config, the stop file. Operations:
announce at start, heartbeat every 45 s, unannounce, search. Hard: requests
overtake each other, two lifetimes add up, restarts bring old listings back. Must
hold: searches show recent listings, those of sharing nodes, and at last none of
stopped ones.

**Relay** (`gpumesh-relay/src/main.rs`, `gpumesh-network/src/relay.rs`,
`endpoint.rs`, `gpumesh-agent/src/main.rs`, `gpumesh-core/src/handshake.rs`).
State: the table of registrations, the connections being bridged, the accept loop.
Operations: register, request, proxy, and the agent's loop that registers again
after each session. Hard: registrations and requests race, connections die half
open, the accept loop waits for the first stream of each connection in turn. Must
hold: frames stay in their session, every dial ends, agents can be reached again.

**CUDA remoting** (`gpumesh-core/src/cuda_remote.rs`, `cuda_backend.rs`,
`gpumesh-cudart-stub/src/lib.rs`). State: the session's table of buffers with its
allowance, the bridge's client behind a mutex, one socket per program. Operations:
open, malloc, free, copies, `vector_add`, sync. Hard: several programs share one
session; programs leave; the answer to a read may be longer than a frame, which
ends the session of all. Must hold: each
program sees a memory of its own, the allowance adds up, calls return.

**Groups** (`gpumesh-storage/src/groups.rs`, `gpumesh-cli/src/group.rs`,
`remote.rs:528-569`). State: each node's `groups.json`, one group per name; signed
invites that are valid for a while; join notices on their way to the owner.
Operations: create, add, remove, delete, invite, join, and the owner's handler of
a notice. Hard: commands and the handler read and rewrite the whole file without a
lock; invites and notices outlive the group they are about, whose id comes back
with its name; a name may belong to another owner's group. Must hold: nobody is in
a group without having been chosen or invited, what was joined stays.

**Job commands** (`gpumesh-cli/src/commands.rs:224-390`, `app.rs`,
`gpumesh-control/src/local.rs`). State: the attempts of one command, the dialer's
socket, the record of each attempt in the history. Operations: `run`, also without
a peer, `app run`, the dashboard's `POST run`, retries, Ctrl-C. Hard: the loop does not
tell a lost connection from a failure, so a retry may meet the first attempt; each
stage of an attempt has an exit of its own, before or after the record is written.
Must hold: attempts overlap only after a loss, the history and the exit status are
true of what ran, a command ends.

**Scheduler** (`gpumesh-core/src/scheduler.rs`). State: the list of candidates and the
scores so far. Operations: probe one peer after the other, choose, resolve. Hard: a
score adds megabytes, idleness and preference; the winner is handed on as a name.
Must hold: a fit candidate is chosen that no other outdoes, at the peer that was
probed.

**Share lifecycle** (`gpumesh-agent/src/main.rs`, `commands.rs:79-106, 643-753`,
`node.rs:115-198, 332-360`, `gpumesh-cli/src/cuda.rs`, `desktop.rs`). State: pid file,
stop file, configuration, and each process's copy of it. Operations: `share`, the
agent, `cuda share`, `desktop share`, `share stop`, `config set`, and the tick of the
accept loop. Hard: servers, stops and edits agree through three files that nothing
locks; processes die and leave them; requests to the control plane have no timeout.
Must hold: a stop is obeyed, nobody stops unasked, the pid file names the server, no
setting is undone.

**Others**: identity and handshake (`gpumesh-security`), endpoint and discovery
(`gpumesh-network`), wire codec (`gpumesh-protocol`), common types
(`gpumesh-common`), storage of job records and packages, GPU monitor, desktop
tunnel, local console API, CLI front end, dashboard, the Go control plane in
`src/services`, scripts. See [Not modelled](#not-modelled).

How they interact: the CLI's commands and the agent share files under
`~/.gpumesh` and nothing else; consumer and provider speak length-prefixed JSON
frames over one QUIC stream per connection, directly or through the relay, which
copies frames without reading them; nodes speak HTTP to the control plane, which
never carries workload; the bridge speaks length-prefixed JSON to the programs
and the frames of a session to the provider.

## Modules

A module's state variables are the state named above; history variables are
marked `(history)`. There is one action per handler, command step or task step;
a handler that awaits in the middle, or writes a file after it released a lock,
is split exactly there. `PROJECT.json` maps each definition to its lines.

| Module | Models | Composes |
| --- | --- | --- |
| `JobRuntime` | consumers, session handlers, job tasks, the runtime's slots, docker clients and containers, log tasks and forwarder, agent crash | refines `JobPromise` |
| `JobPromise` | what a consumer is promised about each job | |
| `Scheduler` | the choice of a peer | |
| `JobDispatch` | the commands that send jobs: attempts, retries, records, interrupts | composes `Scheduler` and `JobRuntime` |
| `TrustStore` | the two files, commands step by step, the agent's copies, authorization | refines `Rights` |
| `Rights` | what allow, deny, share and stop mean, without files | |
| `FileTransfer` | uploads, downloads, the shared `.partial` file, crashes | |
| `ControlPlane` | the store, handlers with their copies, the state file | |
| `PublicRegistry` | listings and their two ages, agents, requests under way | |
| `Relay` | agents, dialers, connections, the relay's table and proxy | |
| `CudaSession` | programs, bridge, connection, session table | refines `RemoteMemory` |
| `RemoteMemory` | one private memory per program | |
| `Groups` | each node's file, commands and handlers with the copies they read, invites, notices | refines `Membership` |
| `Membership` | what a group is to its owner | |
| `ShareLifecycle` | servers, `share stop`, `config set`, and their three files | |
| `*Proofs` | theorems about the module before `Proofs`; those about `JobRuntime`, `Scheduler` and `JobDispatch` are in `JobProofs`, those about `PublicRegistry` and `ControlPlane` in `ControlProofs` | extends it and TLAPS |
| `MC*` | constants and plans for TLC | extends its module |

**JobRuntime.** `task[j]` is the program counter of `execute_remote_job`:
`spawned`, `accepted` and `prepared` before the runtime; `admitted` between the
push into `active` and the spawn of `docker run` (`docker.rs:53-138`); `waiting` on
the child; `draining` the two log tasks; `killed` between a timeout's `child.kill`
and the line that says so, which waits for room in the log channel
(`docker.rs:227-232`); `reaped` and `released` around the `retain`
(`docker.rs:141`); `cleaned` after `docker rm -f`; `packed`; `done`. `aborted` is an
error on the way (`?`), `gone` a task that died with its agent. A container is
`left` when that `docker rm -f` failed, which the code ignores. `wire[j]` is the
stream to the consumer, where QUIC lets `WireCap` frames wait unread: a send waits
beyond that. `pipe` and `chan` count log lines before and inside the forwarder's
channel, `unread` those the consumer has yet to read: lines are counted, not told
apart. `quit` holds the jobs whose reader met a line that is not UTF-8 and left its
loop (`docker.rs:195`, `210`). Cancel is two steps, the `docker rm -f`, which may
fail, and the `retain` (`docker.rs:255`).

**JobDispatch.** `at` is where the command stands, `n` the attempts it has begun; each
attempt has an id of its own, `Attempt[n]`, and is a job of `JobRuntime`, whose
`Submit` is `Send`. `record` is `jobs/<id>/meta.json`, `told` what the shell is told. An
interrupt takes the connection with it. Every other step of `JobRuntime` goes on
`Aside`; every step of `Scheduler` leaves the provider alone.

**Scheduler.** A peer's answer is any member of `Answers`, given at the moment it is
probed. `heard` is history: what each peer said. The stable sort is `IsWinner`, the
first of the highest scores. `Resolve` is `PeerStore::get` of the chosen name.

**TrustStore.** A command is a process that reads `allowlist.json`, reads
`peers.json`, edits its copies and saves them, each a step; `init` writes an empty
allowlist and keeps the peers it reads. The agent boots the same way, then serves by
its copy. A list is four sets of peers. Writing one file is one step: a file cut in
the middle of a write is not modelled here (it is in `ControlPlane`, where the code's
reader treats it differently). In `Rights`, a peer uses the rights it has; that
commands which overlap undo each other (`StaleSave`) and that a peer allowed CUDA
only may run jobs (`UnallowedJob`) are the two exceptions which `ImplementsRights`
names, since `Rights` promises neither.

**FileTransfer.** A file is a sequence of blocks, a chunk carries one. `phase[u]` is
the session's side of an upload: `receiving`, `write`, `filling`, `check`, `tidy`,
`over`; `torn` is left by a write that failed or was cut off, `kept` and `unverified`
by a wrong file that was not removed. Two operations on a destination are not
atomic: `fs::write` opens and empties it (`OpenDest`), then fills it block by block
(`FillDest`), and `fs::read` takes it block by block. Uploads may write to one file at
once, a download may read it meanwhile, and a removed file lives on for those who
have it open: `dest` says which file a path leads to, `file` what is in it, `handle`
and `source` who works in which. `holds` and `blurred` are history: whose writes met
in a file, and which downloads read one that was being written. Of the `.partial`
file only a single write cut short is modelled, not two that meet: the hash is what
sees those. `HashOk` compares contents: SHA-256 is assumed not to collide.

**ControlPlane.** What a node says is abstracted to *who* said it and in *which* of
its requests, so "mixed" and "lost" can be stated. A handler is `changed`,
`copied`, `opened`, `written`; the file is a store, `cut`, or `garbled`.

**PublicRegistry.** Time is kept as ages, which the proofs and TLC both handle:
`issued` is the age of the signature by the node's clock, `updated` the age of the
entry by the control plane's. `Tick` is one heartbeat interval.

**Relay.** A connection is a number with a queue of frames in each direction, and
`at[c]` is what the relay is doing with it. `live` turns false for both ends at
once; an end that died holds no connection, which then times out
(`endpoint.rs:129-134`: keep-alive 5 s, idle timeout 60 s). A dialer's request and its
Hello are two sends, `Ask` and `Greet`; an agent accepts a Hello, refuses its peer, or
leaves without a word when the Hello is of another version or does not verify.

**CudaSession.** `dev` is the `BackendSession`; each operation yields its set of
outcomes, because the driver may refuse. The stub's call, the task's wait for the
mutex, the operation on the wire, the provider's step and the answer are separate
steps. An element stands for one `f32`; a frame's length counts characters. The codec
of both sides refuses a frame of more than 64 MiB before it is sent: a request that
is too long fails in the bridge, an answer that is too long fails at the provider,
which leaves the session (`AnswerTooLong`).

**Groups.** `proc[n][w]` is a command of node `n` or a handler of its agent: idle,
`loaded` with a copy of the file, `checked` between the two reads of a deletion,
`joined` before the owner is dialled. Members are sets of nodes; names of members
and the resolution of a group by name or id are abstract (all names differ). `used`
and `added` are history: who used an invite, and whom a command added. In half of
the behaviours the workers of a node do not overlap (`overlap`).

**ShareLifecycle.** A server is `booted` with its copy of the configuration, `bound` to
the port, and then takes up stop file, pid file and sharing in the order of its
command (`FilesFirst`); `serving` is its loop, `stopping`, `disabled`, `unlisted` its
own clean-up. The client of the control plane has no timeout, so a server may be held
in each: `announcing` before its loop (`node.rs:138-165`), `hung` in it, `withdrawing` in
`disable_share` (`node.rs:183-195`); and so may `share stop`. Of the configuration two fields
are kept, `sharing` and a `setting` that is numbered by its edits. In half of the
behaviours commands overlap (`overlap`), and in half the signal of `share stop` comes
to nothing (`kills`). `asked` and `settled` are history.

## Runs

| Run | Question | Instance |
| --- | --- | --- |
| `JobDispatch` | Are slots and containers accounted for, reports true and in order, `JobPromise` implemented, slots given back? Is a best peer chosen, do attempts overlap only after a loss, is the history true, do commands end? | one command of any kind, 2 attempts, 1 slot, 2 lines, channel of 1, 1 crash, cancel, losses, interrupt; 2 peers |
| `Scheduler_named` | Does the job run where it was scheduled? *Not if two machines bear one name.* | 3 peers, 3 requests, 6 answers |
| `TrustStore` | Do commands change exactly the rights they name, and where they overlap, what can go wrong? | 2 peers, 1 dialer, 2 overlapping commands about one peer or 1 at a time about two, agent restarts at will |
| `TrustStore_deny` | Does deny revoke? *No.* | 1 peer |
| `FileTransfer` | Are acknowledged uploads intact, destinations whole, downloads true? | 6 plans, below |
| `ControlPlane` | Are syncs mixed, is the file memory, is what was answered saved? | 2 nodes, 2 requests each, 2 handlers, 1 failed save, 2 crashes |
| `PublicRegistry` | Are listings recent, kept and dropped when they should? | 1 node, lifetimes of 3 heartbeats, 1 loss, 1 crash; prompt network and slow one |
| `Relay` | Are sessions kept apart and ordered, do dials end, can agents be reached again? | 1 agent; 2 dialers without faults, or 1 dialer with 2 faults |
| `Relay_stale` | Is a matched dialer accepted? *Not after five minutes.* | 1 agent, 1 dialer |
| `Groups` | Is anybody in a group without a reason, do joined groups stay, is an owner's group a `Membership`? | 3 nodes, 1 name, 2 workers per node; 6 commands one at a time or 5 overlapping |
| `ShareLifecycle` | Is a stop obeyed, does the pid file name the server, does nobody stop unasked, do settings survive? | 2 servers; 2 stops and 2 edits one at a time, or 1 and 1 overlapping |
| `CudaSession` | Has each program its own memory, does the allowance add up, do calls return? | 2 programs, one of which may leave |

Plans of `FileTransfer`: three attempts at one file; uploads of two files of equal
length without a common block to one path, and of one of them and an empty file; one
upload, and two, beside a download; an upload to a path that is refused. In each a
number of faults is free: lost connections, crashes, file operations that fail.

What the runs check:

- `SlotLimit`, `SlotsAccounted`: the limit holds and every entry of `active` has a
  task that will remove it, although cancel removes entries behind the task's back.
- `ContainersAccounted`: a container runs without a slot only after a cancel, between
  the `retain` and the `rm -f` of a job whose docker client was killed or died, when
  that `rm -f` failed, or when its agent died.
- `ReportIsTrue`, `LinesDrained`: what the consumer was told is so; no line is read
  twice, and a consumer that is still connected misses one only if a reader met a
  line that is not UTF-8.
- `ImplementsPromise`: all of it together, as a refinement of `JobPromise`.
- `SlotReleased`: with a `max_runtime` every slot comes back, unless its consumer stays
  connected and stops reading for ever (`Clogged`): the deadline bounds the wait for
  the child, not the waits for room in the log channel.
- `ChosenIsBest`: the winner is a fit candidate that no other fit one outdoes;
  `OverlapOnlyWhenLost`, `HistoryIsTrue`, `CommandEnds`: what the attempts of one
  command have to do with each other, with the history and with the shell. The
  last is about commands that keep reading (`Reads`), and names the one way such a
  command is held for ever, `Abandoned`.
- `StopIsObeyed`: a server that ran when a stop was written ends by its tick or by the
  signal, unless the control plane holds it and the signal cannot come (`BeyondReach`);
  `PidNamesTheServer`, `NobodyStopsUnasked`, `EditsSurvive`: for commands that do not
  overlap, whatever dead processes left in the files.
- `ListsConsistent`, `ImplementsRights`: however commands overlap, no list holds a peer
  both denied and granted; and every step is one of `Rights`, with two exceptions: the
  save of a list that another command has replaced meanwhile, and the job of a peer
  that is allowed CUDA only.
- `AckedIsIntact`, `SameFileNeverRejected`: attempts that share a `.partial` file do not
  corrupt what is acknowledged, and those at the same file do not even fail each other.
- `DestIsWhole`, `DownloadIsTrue`: the destination holds what one upload left: its whole
  file; or a part while it is written or after it was cut off there; or wrong bytes
  until they are removed, or when that failed. The exception are two writes that
  met. A download over a file that nobody wrote meanwhile delivers that, at least
  its beginning.
- `SyncIsWhole`, `FileIsMemory`, `AnsweredIsSaved`: as above, the last two for
  requests that do not overlap.
- `ListedIsRecent`: a search finds only what was signed less than *both* lifetimes
  ago, 360 s, not 180; `StaysListed`: two heartbeats in a row may be lost;
  `StoppedFades`: whatever is lost, a stopped node leaves the searches.
- `RelayedInOrder`: frames stay in their session and in order; `AgentReturns`: the
  relay can reach an agent again and again; `DialIsAnswered`: a request is followed by
  an answer or the end of the connection, although the handshake has no timeout.
- `OffsetsNameNothing`: a pointer into a buffer, or one past it, is never another
  buffer's handle; `OrphansAreOfTheGone`: what nobody can free belongs to a program
  that left; `AllowanceIsAccounted`; `CallsReturn`; `ImplementsMemory`.
- `OnlyInvited`: with every overlap, late notice and stale copy, a group has its owner
  in it and nobody else without a reason; `JoinedStays`, `GroupStepsAreMembership`:
  for commands that do not overlap, since a stale copy undoes any edit.

Each property has a mutant: a definition of the model changed the way a plausible
bug would change the code, kept beside the original as an operator marked
`Mutant`; under it TLC finds the property violated.

## Bounds

Every bound is a constant or a conjunct of a guard with a comment.

- Two attempts and one slot make every race for a slot, since a job's task reads and
  changes nothing of another's but `active`; three jobs add only repetitions, and the
  theorems hold for any number. A retry after
  a loss beside its first attempt is the case of two consumers. Log lines, cancels, and
  deaths of the docker client and of the agent occur to `run` without retries only
  (`Alone`), lost connections to the first attempt (`Fragile`): the provider treats
  all alike.
- Two log lines, a channel of one and a window of one frame make the channel full, the
  runtime wait for the consumer, and a line overtaken by the terminal status. `MaxLines`
  bounds the lines that are not read, not those that are printed.
- Two commands that overlap make every stale copy; they are followed while one peer is
  mentioned and no agent serves (`Small`), since an agent's copies are commands' copies
  that last. Two peers, with one command at a time, show that a command does not touch
  the other; of the second it is only asked to be paired and denied (`Tried`). The
  theorems hold for any number of peers and commands.
- Two blocks per file make a resume in the middle, a truncated file and a read between
  two writes; three attempts make two of them meet a third's left-over; faults are
  bounded per plan (`Fault`).
- Two servers are what the exclusive port lets meet: one that serves or ends and one
  that starts. Two stops and two edits let a second one find what the first left; where
  commands overlap one of each makes every pair meet. The theorems hold for any number.
- Lifetimes of three ticks keep the ratio to the heartbeat above two (the code's
  is four) and ages are cut at the sum of the lifetimes, beyond which no
  comparison changes.
- Four connections let an agent reconnect while the relay still holds its old one;
  numbers are used again, and `plan.spare` numbers are left to agents so that the
  reuse of numbers, which QUIC does not have, starves nobody.
- A device of three elements with frames of three characters makes allocation
  fail, fit and fill the cap, and makes one answer fit in a frame and one not.
  `MaxPtr` stops new mallocs; handles grow without end in the code.

- Six commands are what it takes for two owners to create and invite to groups of one
  name and for a third node to join both; five overlapping ones make every pair of
  edits meet over one stale copy. More names would not interact: an edit writes the
  other groups of its copy unchanged, which the theorems cover for any number.

## Fairness

Liveness is checked under weak fairness of what a tokio runtime keeps polling: job
tasks, log tasks, sessions, accept loops and the agent's loops. Docker, users,
networks, losses, crashes and the children's exit owe nothing, and neither do the
consumers of jobs: one that stops reading is an exception that `SlotReleased` names and
an assumption of `CommandEnds`. The slot of a job comes back because of `max_runtime`,
not because its container ends (without one the code waits forever, and the run sets
`HasMaxRuntime`). A command's own steps are fair (`Progress`), since probes and local
jobs end by timeouts; so are a server's steps, whose tick comes back every 5 or 45
seconds, and those of `share stop` and `config set`; users, and a control plane that
does not answer, owe nothing. `AgentRestart` is fair, since a provider that never comes back
owes nobody an answer; an agent of `Relay` that died need not return, and its
properties say so. Time (`Tick`) passes. The one strong fairness is the CUDA
bridge's mutex: tokio's `Mutex` is FIFO, so a task that asks for it again and again
gets it.

## Proofs

TLAPS proves, for all values of the constants under the assumptions named in each
module:

| Module | Theorem | Argument |
| --- | --- | --- |
| `JobProofs` | `TypeCorrect` | `TypeInv` adds that a pipe holds only lines that were written and that a draining task has seen its child exit; without them the counters could leave their ranges. |
| | `SlotLimitHolds` | only `AdmitJob` adds to `active`, by one, below the limit (`ActiveGrowth`); then cardinalities of finite sets. |
| | `SlotsAccountedHolds`, `ContainersAccountedHolds` | `AccountInv`: where the docker client and its container can be for each stage of the task (`DockerInv`) and that a request on its way has no task yet (`RequestInv`). Neither is inductive alone: a container may start late, after its client was spawned, or outlive its client and the `docker rm -f`. |
| | `ReportIsTrueHolds` | `ResultInv`: the docker client tells how the container ended, the verdict how the client did (`Tidy`), and a terminal frame exists only once the task is over and nothing can start (`Settled`). |
| | `PromiseImplemented` | `OrderInv`: what is on the wire, read after what was read, is a legal order of stages (`Legal`); each step is then a step of `JobPromise` or a stutter. |
| | `LinesDrainedHolds` | `Balance`: lines in the pipes, in the channel and on the wire together never exceed what is unread, and equal it while the consumer is connected and no reader has left its loop; a function counts the lines on the wire (`Holds`). |
| | `ScheduleTypeCorrect`, `ChosenIsBestHolds` | of `Scheduler`. `ProbeInv`: the list holds exactly the peers whose answer was fit; then the score is monotone (`OutdoingScoresMore`) and a preference is worth 39 000 MB (`PreferenceIsWorth`). |
| | `CommandTypeCorrect`, `DispatchIsRuntime`, `DispatchedJobsAreSafe`, `DispatchChoosesBest` | each step of a command is a step of `JobRuntime` and of `Scheduler`, or none: their theorems carry over to the composition. |
| | `OverlapOnlyWhenLostHolds`, `HistoryIsTrueHolds` | `AttemptInv`: earlier attempts are over for their consumer, the current one stands where the command does, later ids are fresh; what "over" means for the container, gone or `left`, comes from `ResultInv`. |
| `ShareLifecycleProofs` | `TypeCorrect`, `PidNamesTheServerHolds`, `NobodyStopsUnaskedHolds`, `EditsSurviveHolds` | `IInv`: the port is bound once; one command at a time starts, stops or edits; whatever makes a tick end its server was asked of that server; no copy that may be written back is older than what is settled. |
| `TrustStoreProofs` | `TypeCorrect`, `ListsConsistentHolds` | consistency of every *copy* a command or the agent carries, since a stale copy may be written at any time. |
| | `RightsImplemented` | for any number of overlapping commands: a save is stale, or the command's copy is the list on the disk and the save one step of `Rights`; of the agent's steps only a job of a peer without the right to it is none; the rest stutter. |
| `ControlProofs` | `TypeCorrect`, `ListedIsRecentHolds` | of `PublicRegistry`. `Lag`: an entry's signature is at most `ANNOUNCE_TTL` older than the entry. It must hold of memory, of the file and of every copy about to be saved, since a restart makes any of them memory. |
| | `StaysListedHolds` | `PInv`: on a prompt network every request of a listed node is a listing with the clock error of its node, and an entry is no older than the heartbeats missed since plus one period (`KeepsUp`); `Pending` is the heartbeat that is due or on its way. |
| | `StoreTypeCorrect`, `SyncIsWholeHolds` | of `ControlPlane`, with no assumption on its constants: wholeness of memory, copies and file. |
| | `FileIsMemoryHolds`, `AnsweredIsSavedHolds` | `SerialInv`: one request at a time, the newest of its node; what the file and the copy of the only handler are at each of its stages. |
| `FileTransferProofs` | `TypeCorrect`, `AckedIsIntactHolds` | `SInv`: how a consumer, the frames under way and the session stand to each other (`Session`); the chunks under way continue the buffer without a gap (`Arriving`), so a chunk never pads or overwrites (`SpliceAtEnd`) and the one with eof fills it. |
| | `DestIsWholeHolds` | `FInv`: a file that holds the writes of one upload only (`holds`) has what that upload wrote (`Sole`), and a wrong one leads nowhere unless its upload is not done with it; past receiving, a session and its buffer never go back (`Forth`), so whoever excuses a broken destination stays to answer for it. |
| | `SameFileNeverRejectedHolds` | `PInv`: what was assembled, and every left-over at the path, is the beginning of the one file; a buffer of full length is then the file. |
| | `DownloadIsTrueHolds` | `DInv`: while the provider reads a file that nobody writes (`Calm`), what it took is its beginning; then the blocks received and the pieces under way are together what one upload had left there (`Carries`). |
| `GroupsProofs` | `TypeCorrect`, `OnlyInvitedHolds` | `SoundInv`: not only the file but every copy a worker holds is sound, since any copy may be written; a worker that adds, joins or handles a notice already has the reason; so do notices on their way. |
| | `JoinedStaysHolds`, `GroupStepsAreMembershipHolds` | `SerialInv`: without overlap a copy is the file and a deletion is the owner's; then `FinishKinds` lists the six things an edit can do to one group, and each is a step of `Membership` or invisible to it. |
| `CudaSessionProofs` | `TypeCorrect` | `TurnInv`: one operation is under way at a time, that of the holder of the mutex, either to the provider or back, and its id is the newest; so `HandlesTheHolder` and `Received`: what the provider takes, and what a task reads, is the holder's. `Outcomes` says once what an operation can do to a table; every later proof splits on it. |
| | `OffsetsNameNothingHolds` | `OffsetInv`: every handle that was given, and the end of every buffer, is below the next handle, which only grows (`BeyondType`). |
| | `OrphansAreOfTheGoneHolds` | `ToldInv`: a buffer's owner knows its handle, or the handle is in its answer or in the result on its way. |
| | `AllowanceIsAccountedHolds` | the sum over a table is a recursion that `CHOOSE` picks a solution of: `SumExists`, `SumsAgree` and `SumTakesAny` show, by induction on cardinality, that there is one, that all agree, and that it does not matter which element is taken first. |
| | `MemoryImplemented` | each operation of the provider is `Serve` or `Fail` of its holder in `RemoteMemory`, a lost connection or an answer that is too long is `Reset`, the rest are `Ask`, `Tell`, `Fail` or stutter. `RoomInv`, how far the next handle may be while so many mallocs are under way, keeps the bounded model's handles within those of `RemoteMemory`. |
| `RelayProofs` | `TypeCorrect`, `RelayedInOrderHolds` | `Wiring`: what waits in the backlog, is registered or bridged is a connection of its own whose place says so, and the two of a bridge name each other. `OrderInv`: what a node sent before it was bridged is still where the relay has not read it (`Opening`); from then on, what one side said is what the other heard, what is on its way to it and what the relay has yet to read (`Carried`). A node's step touches its own connection only (`Local`), one of the relay leaves a connection alone or lets go of it (`RelayOrder`); only the bridging and `Forward` are argued by themselves. |

Only TLC checks: the liveness properties (TLAPS has no rule here for fairness or
`ENABLED`). The library's induction theorems take an
operator as parameter, which the installed provers cannot instantiate; where a proof
needs induction (the sums of `CudaSessionProofs`) it is over a *set* of numbers, from
the well-foundedness of `<` (`NatInductive`). No module uses a RECURSIVE operator.

## Where the code and its documents differ

Three runs end in a violation, each against a line of the repository:

1. `TrustStore_deny`: README.md:217 says deny revokes access; the running agent
   authorizes by the list it read at start (`node.rs:474`).
2. `Scheduler_named`: README.md:179 says the scheduler picks an idle GPU; the choice is
   handed on as a name (`commands.rs:312`), which `PeerStore::get` resolves to any record
   that bears it.
3. `Relay_stale`: the agent dates its Hello when it registers with the relay; the
   first dialer after five minutes is matched and refused (`node.rs:502`).

Seen while modelling, visible in the models, without a run of their own:

- `commands.rs:103` says "Sharing stopped." after the unannounce was answered; a
  heartbeat that was sent before it and is handled after it lists the node again for
  up to 180 s (`gpumesh-control/src/main.rs:463`).
- Copies of the control plane's store are written without its lock: an older copy may be
  written last, or two into one unreadable file (`gpumesh-control/src/main.rs:250`),
  although all requests were answered 204. `FileIsMemory` therefore asks for requests
  that do not overlap.
- A timed-out job gives its slot back before its container is removed
  (`docker.rs:141`), and a removal that fails is ignored (`docker.rs:143-149`), so more
  containers than "max concurrent jobs" may run, for a moment or until they end by
  themselves; `ContainersAccounted` states exactly when. A retry may then run beside the
  container of an attempt that was reported failed.
- `max_runtime` bounds the wait for the docker client. What follows it, the line "job
  timed out" and the log readers, waits for room in the log channel
  (`docker.rs:227-244`): a consumer that stays connected and stops reading keeps the
  slot for ever.
- A line of output that is not UTF-8 ends its reader (`docker.rs:195`, `210`): the lines
  after it are lost, and the closed pipe may end the docker client.
- A later upload whose hash is wrong removes the destination, also a file that an
  earlier upload was acknowledged for ("Uploaded", `commands.rs:510`;
  `remote.rs:434-443`). A crash or an error in the middle of `fs::write` leaves it cut
  off; a failing `remove_file` leaves the wrong bytes. Downloads serve what is there,
  and two uploads that write at once, or a download meanwhile, see a mixture.
- If `run_job` fails after `JobAccepted` and `Running` were sent (`remote.rs:837`, `?`), no
  terminal status follows and the consumer waits on a live connection (`Abandoned`). A
  retry after a lost connection that finds the slot taken by its first attempt ends
  there.
- A retry after a lost connection may run beside the first attempt (`commands.rs:317`).
- `--retries 0` cannot override a default: 0 stands for a number that is not given.
- The record of a job stays "running" when the dialer has no socket or the command is
  interrupted (`commands.rs:334`).
- A preference is worth 50 000 points and a megabyte one: 39 000 MB more of free VRAM may
  beat it.
- Log lines may be overtaken by the terminal status (`remote.rs:789`), and a
  consumer that stops reading there misses them.
- `RunJob` does not ask for the right to run jobs: whoever is admitted, if only for
  CUDA, may run jobs (`remote.rs:460`), although `node.rs:350` says that "jobs still
  require job allow separately", and README.md:214 and 344 say the like. `Rights!Use`
  asks for the right; `ImplementsRights` holds because it excepts `UnallowedJob`.
- Concurrent commands undo each other: a deny may be overwritten by a command that
  read the list before it, the exception `StaleSave` of `ImplementsRights`. The agent
  and `connect` overwrite `peers.json` from memory (`node.rs:519`, `415`).
- The refusal that `handle_inbound` sends may be lost, since the connection is
  closed at once (`node.rs:505-510`).
- A CUDA session goes on after a deny or an unshare, and its cap is per session.
  The bridge never frees what departed programs held.
- `MAX_MEMCPY` allows a read of 64 MiB, whose answer in JSON exceeds the codec's frame
  of 64 MiB: the provider's send fails and leaves the session (`cuda_remote.rs:197`),
  which all programs behind the bridge share.
- `sync` replaces the groups of every node and the peers' own announcements
  (`gpumesh-control/src/main.rs:311`), although its comment says merge.
- `group join` looks for the group by name alone (`group.rs:142`): a node that knows
  another owner's group of that name enters itself into that one, prints "Joined
  group", and tells the owner of the invite, who enters it too.
- An invite and a notice outlive the group: a group that was deleted and created
  again has the same id, and admits by the old ones.
- "Owner was notified of the new member." (`group.rs:203`) is printed before the
  connection is closed behind the notice, which may be lost. Members other than the
  owner are never told of anybody, so the files of a group differ for good.
- Overlapping edits of `groups.json` are lost, or bring a deleted group back; the
  owner of a group is asked for to invite and delete, not to add or remove.
- README.md:158 says to export `GPUMESH_RELAY` on each node; `gpumesh share` never
  registers with the relay, only `gpumesh-agent` does.
- The agent's stop writes back the configuration it read when it started
  (`node.rs:174`), so edits made while it ran are undone.
- Announcements are awaited before the accept loop (`node.rs:138-165`), the heartbeat
  inside it (`commands.rs:730`), the unannounce in the server's own end
  (`node.rs:183-195`) and by `share stop` before it sends the signal, all without a
  timeout: a control plane that does not answer can hold each of them.
- `cuda share` and `desktop share` enable sharing before they look for a GPU or a
  desktop, and leave it enabled when there is none; `share stop` leaves their two flags
  as they are.
- When a stop overlaps a start, the request may be cleared, the pid file of the new
  server removed, or the new server ended unasked.

## Not modelled

- *Cryptography, QUIC, mDNS, docker, the CUDA driver*: libraries and services.
  What the code relies on is an external definition of the model that uses it.
- *Flow control of the relay and of the sessions for files and CUDA*: queues are
  unbounded there; on a job's connection and in the log channel the bounds are the
  point (`WireCap`, `LogCap`). `proxy_messages` does not read one direction while it sends
  in the other, so two peers that never read could stall it.
- *Writes of one `.partial` file that meet*: a chunk is written to it whole or cut short.
  What two sessions with different files would mix there, a later attempt may resume
  from, and only its hash tells.
- *Failing saves of job records*: `JobDispatch` writes every record.
- *CUDA events, modules, kernel launches, memset, device-to-device copies*: handlers
  that no client in the repository reaches.
- *Writes of `groups.json` that are cut short*: a file that is cut makes every later command
  and notice fail until it is repaired by hand.
- *A change of the port while a server runs*, after which two servers may serve, and a
  configuration that is cut in the middle of a write: `ShareLifecycle` writes files whole.
- *Packing of work directories and outputs, GPU monitor, doctor, menus, self-update,
  dashboard*: sequential I/O and presentation.
- *Sizes, image names, the frame codec*: sequential functions of one input, which unit
  tests reach.
- *Desktop tunnel*: two byte copies without further state.
- *The Go control plane*: an older duplicate of the Rust one, which is the reference.
- *The rest of the local console API*: wrappers around commands modelled elsewhere; its
  `POST run` is a command of `JobDispatch`.

## Plan

Done, in this order: `JobRuntime`, `TrustStore`, `FileTransfer`, `ControlPlane`,
`PublicRegistry`, `CudaSession`, `Relay`, `Groups`, `Scheduler`, `JobDispatch`,
`ShareLifecycle`, with the proofs above. What could come next:

1. Flow control of the relay's proxy and of the CUDA bridge.
2. The dispatch of a command through the relay: `JobDispatch` over `Relay` instead of a
   connection that is up or lost.

## How to run

    tlc -workers 2 -config JobDispatch.cfg MCJobDispatch
    tlapm JobProofs.tla

The runs explore up to 1.1 million distinct states (`TrustStore`); each ends within
five minutes on two cores.
