---------------------------- MODULE ControlPlane ----------------------------
(* The metadata store of the control plane: nodes announce themselves and    *)
(* sync their GPUs, jobs, groups and paired peers over HTTP, each handler    *)
(* changes the store under a lock, writes a copy of it to the state file     *)
(* after it has released the lock, and then answers.  A process that starts  *)
(* reads the file as a whole and does not start when it cannot.              *)
(*                                                                           *)
(* The metadata itself is abstracted to who sent it and in which of his      *)
(* requests: <<n, v>> is what node n had to say in its v-th request.         *)
(* (The public listings are modelled by PublicRegistry.)                     *)
EXTENDS Naturals, FiniteSets

CONSTANTS
  Senders,      \* the nodes that announce and sync
  PairedWith,   \* the peers each node knows, which its sync names
  Overlaps,     \* whether requests overlap, or the two possibilities
  MaxRequests,  \* bound on the requests of each node
  MaxHandlers,  \* bound on the handlers at work at once
  MaxFailures,  \* bound on saves that fail
  MaxFalls      \* bound on crashes of the control plane

ASSUME PairedAssumption == PairedWith \in [Senders -> SUBSET Senders]
ASSUME StoreBounds ==
  /\ Overlaps \subseteq BOOLEAN
  /\ MaxRequests \in Nat /\ MaxHandlers \in Nat
  /\ MaxFailures \in Nat /\ MaxFalls \in Nat

VARIABLES
  overlap,   \* do requests overlap in this behaviour?
  sent,      \* how many requests each node has sent
  inbox,     \* requests on their way
  store,     \* the store in memory
  handlers,  \* the handlers at work, with their copy of the store
  disk,      \* the state file
  on,        \* is the control plane running?
  answered,  \* the requests answered with success, as <<n, v>>
  failures,  \* saves that have failed
  falls      \* crashes so far

storeVars == <<overlap, sent, inbox, store, handlers, disk, on, answered,
               failures, falls>>

Saying == Senders \X (Nat \ {0})
Update == [kind : {"announce", "sync"}, node : Senders, ver : Nat \ {0}]

\* The store: of each node the version of its last announce or sync, and who
\* wrote its entry among the peers; all the rest as sets of sayings.
Store == [nodes  : [Senders -> Nat],
          peers  : [Senders -> SUBSET Saying],
          gpus   : SUBSET Saying,
          jobs   : SUBSET Saying,
          groups : SUBSET Saying]
EmptyStore == [nodes  |-> [n \in Senders |-> 0],
               peers  |-> [n \in Senders |-> {}],
               gpus   |-> {}, jobs |-> {}, groups |-> {}]

\* The file holds a store, or is not there, cut to nothing, or the beginning of
\* one store followed by the end of a longer one.
Holds(s) == [is |-> "store", data |-> s]
Without(what) == [is |-> what, data |-> EmptyStore]
Readable == disk.is \in {"store", "nothing"}

\* A handler has changed the store, copied it, opened the file or written it.
Changed == [req : Update, at : {"changed"}]
Holding == [req : Update, at : {"copied", "opened", "written"}, copy : Store]

StoreTypeOK ==
  /\ overlap \in Overlaps
  /\ sent \in [Senders -> Nat]
  /\ inbox \subseteq Update
  /\ store \in Store
  /\ handlers \subseteq Changed \cup Holding
  /\ disk.is \in {"store", "nothing", "cut", "garbled"} /\ disk.data \in Store
  /\ disk.is # "store" => disk.data = EmptyStore
  /\ on \in BOOLEAN /\ answered \subseteq Saying
  /\ failures \in Nat /\ falls \in Nat

StoreInit ==
  /\ overlap \in Overlaps
  /\ sent = [n \in Senders |-> 0] /\ inbox = {}
  /\ store = EmptyStore /\ handlers = {}
  /\ disk = Without("nothing") /\ on = TRUE
  /\ answered = {} /\ failures = 0 /\ falls = 0

-----------------------------------------------------------------------------
\* `gpumesh share` announces its node; `gpumesh sync` is a command of its own.
Send(n, kind) ==
  /\ sent[n] < MaxRequests
  /\ overlap \/ inbox \cup handlers = {}
  /\ sent' = [sent EXCEPT ![n] = @ + 1]
  /\ inbox' = inbox \cup {[kind |-> kind, node |-> n, ver |-> sent'[n]]}
  /\ UNCHANGED <<overlap, store, handlers, disk, on, answered, failures,
                 falls>>

\* A request that finds no control plane fails.
Fail(r) ==
  /\ ~on
  /\ inbox' = inbox \ {r}
  /\ UNCHANGED <<overlap, sent, store, handlers, disk, on, answered,
                 failures, falls>>

\* upsert_node: the node and its entry among the peers.
Upsert(s, r) ==
  [s EXCEPT !.nodes[r.node] = r.ver,
            !.peers[r.node] = {<<r.node, r.ver>>}]

\* Mutant: what the node had sent before is not removed first.
ReplaceKeeps(says, r) == says \cup {<<r.node, r.ver>>}

\* What a node sends replaces what it had sent before.
Replace(says, r) ==
  {x \in says : x[1] # r.node} \cup {<<r.node, r.ver>>}

\* sync: the GPUs and jobs of the node, the groups as a whole and the entry of
\* every peer it knows are replaced by what it sent.
Synced(s, r) ==
  LET t == Upsert(s, r) IN
  [t EXCEPT !.gpus   = Replace(@, r),
            !.jobs   = Replace(@, r),
            !.groups = {<<r.node, r.ver>>},
            !.peers  = [n \in Senders |->
                          IF n \in PairedWith[r.node]
                            THEN {<<r.node, r.ver>>} ELSE @[n]]]

\* Mutant: the store is copied before it is changed.
HandleCopiesFirst(r) ==
  /\ on /\ Cardinality(handlers) < MaxHandlers
  /\ inbox' = inbox \ {r}
  /\ store' = IF r.kind = "sync" THEN Synced(store, r) ELSE Upsert(store, r)
  /\ handlers' = handlers \cup {[req |-> r, at |-> "copied", copy |-> store]}
  /\ UNCHANGED <<overlap, sent, disk, on, answered, failures, falls>>

\* A handler takes the write lock, changes the store and lets go of the lock.
Handle(r) ==
  /\ on /\ Cardinality(handlers) < MaxHandlers
  /\ inbox' = inbox \ {r}
  /\ store' = IF r.kind = "sync" THEN Synced(store, r) ELSE Upsert(store, r)
  /\ handlers' = handlers \cup {[req |-> r, at |-> "changed"]}
  /\ UNCHANGED <<overlap, sent, disk, on, answered, failures, falls>>

Step(h, g) == handlers' = (handlers \ {h}) \cup {g}

\* Mutant: the request is answered while its save goes on.
CopyAnswers(h) ==
  /\ h.at = "changed"
  /\ Step(h, [req |-> h.req, at |-> "copied", copy |-> store])
  /\ answered' = answered \cup {<<h.req.node, h.req.ver>>}
  /\ UNCHANGED <<overlap, sent, inbox, store, disk, on, failures, falls>>

\* persist_state: a copy under the read lock; then fs::write, which opens the
\* file, cutting it to nothing, and writes the copy over what it then finds.
Copy(h) ==
  /\ h.at = "changed"
  /\ Step(h, [req |-> h.req, at |-> "copied", copy |-> store])
  /\ UNCHANGED <<overlap, sent, inbox, store, disk, on, answered, failures,
                 falls>>

Open(h) ==
  /\ h.at = "copied"
  /\ Step(h, [h EXCEPT !.at = "opened"])
  /\ disk' = Without("cut")
  /\ UNCHANGED <<overlap, sent, inbox, store, on, answered, failures, falls>>

\* Another handler may have written since the file was cut: a copy that is
\* shorter leaves the end of the other's.
Write(h) ==
  /\ h.at = "opened"
  /\ Step(h, [h EXCEPT !.at = "written"])
  /\ \/ disk' = Holds(h.copy)
     \/ /\ disk \notin {Without("cut"), Holds(h.copy)}
        /\ disk' = Without("garbled")
  /\ UNCHANGED <<overlap, sent, inbox, store, on, answered, failures, falls>>

Answer(h) ==
  /\ h.at = "written"
  /\ handlers' = handlers \ {h}
  /\ answered' = answered \cup {<<h.req.node, h.req.ver>>}
  /\ UNCHANGED <<overlap, sent, inbox, store, disk, on, failures, falls>>

\* The file cannot be opened or written (the directory is gone, the disk full):
\* the answer is an error, and the store keeps the change.
Refuse(h) ==
  /\ h.at \in {"copied", "opened"} /\ failures < MaxFailures
  /\ failures' = failures + 1
  /\ handlers' = handlers \ {h}
  /\ UNCHANGED <<overlap, sent, inbox, store, disk, on, answered, falls>>

\* The control plane dies: handlers and memory are gone.
StoreCrash ==
  /\ on /\ falls < MaxFalls
  /\ falls' = falls + 1
  /\ on' = FALSE /\ handlers' = {}
  /\ UNCHANGED <<overlap, sent, inbox, store, disk, answered, failures>>

\* main: the whole file is read, or the process does not start.
StoreRestart ==
  /\ ~on /\ Readable
  /\ on' = TRUE
  /\ store' = disk.data
  /\ UNCHANGED <<overlap, sent, inbox, handlers, disk, answered, failures,
                 falls>>

StoreNext ==
  \/ \E n \in Senders, kind \in {"announce", "sync"} : Send(n, kind)
  \/ \E r \in inbox : Handle(r) \/ Fail(r)
  \/ \E h \in handlers : 
       Copy(h) \/ Open(h) \/ Write(h) \/ Answer(h) \/ Refuse(h)
  \/ StoreCrash \/ StoreRestart

StoreSpec == StoreInit /\ [][StoreNext]_storeVars

-----------------------------------------------------------------------------
\* The GPUs and jobs of a node in s are those of one sync of it.
Whole(s) ==
  /\ s.gpus = s.jobs
  /\ \A x, y \in s.gpus : x[1] = y[1] => x = y

\* However handlers, saves, crashes and restarts interleave, neither the store
\* nor the copies of it nor a readable file mixes two syncs of a node.
SyncIsWhole ==
  /\ Whole(store)
  /\ \A h \in handlers : h.at # "changed" => Whole(h.copy)
  /\ Whole(disk.data)

\* With no handler at work, the file holds what memory holds.
IdleFileIsMemory == on /\ handlers = {} => Readable /\ disk.data = store

\* It does as long as requests come one at a time and no save has failed,
\* whatever crashes there were: a restart in the middle of a request falls back
\* to a memory without it, in all its parts.
FileIsMemory == ~overlap /\ failures = 0 => IdleFileIsMemory

\* If requests come one at a time, what was answered with success is in every
\* file a restart can read, whatever saves have failed since.
AnsweredIsSaved ==
  ~overlap /\ Readable =>
    \A x \in answered : disk.data.nodes[x[1]] >= x[2]
=============================================================================
