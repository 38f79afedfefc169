------------------------------ MODULE CudaSession ------------------------------
(***************************************************************************)
(* A CUDA remoting session (gpumesh-core/src/cuda_remote.rs and            *)
(* cuda_backend.rs): programs that talk to a local bridge through the      *)
(* libcudart stub, the bridge, whose tasks share one client behind a       *)
(* mutex, the connection, and the provider, which runs each operation on   *)
(* the session's table of buffers.  One element of a buffer stands for one *)
(* f32; an element of the text of a frame takes 2 to 4 characters.         *)
(***************************************************************************)
EXTENDS Integers, Sequences, FiniteSetsExt

CONSTANTS
    Apps,       \* programs behind the bridge, each with one socket
    Quitters,   \* programs that may exit, at any time
    Uses,       \* Uses[a]: the operations that program a uses
    Sizes,      \* sizes of the buffers that programs ask for
    Counts,     \* how many elements they read or add
    Payloads,   \* what programs write
    Vals,       \* elements are 0..Vals-1, added modulo Vals
    Caps,       \* cuda_remote_max_alloc_mb of the provider
    HardCap,    \* DEFAULT_MAX_ALLOC * 4
    MaxSingle,  \* MAX_SINGLE_ALLOC
    MaxMemcpy,  \* MAX_MEMCPY
    MaxFrame,   \* characters that fit in a frame, on the socket and on QUIC
    Align,      \* least distance of two handles, 64 in the code
    OpIds,      \* number of operation ids, 2^64 in the code
    MaxPtr      \* bound: no malloc is asked once the next handle exceeds it

ASSUME CudaAssumption ==
    /\ IsFiniteSet(Apps) /\ Quitters \subseteq Apps /\ DOMAIN Uses = Apps
    /\ Sizes \subseteq Nat /\ Counts \subseteq Nat /\ Caps \subseteq Nat
    /\ Vals \in Nat \ {0}
    /\ Payloads \subseteq Seq(0..Vals - 1)
    /\ HardCap \in Nat \ {0} /\ MaxSingle \in Nat \ {0}
    /\ MaxMemcpy \in Nat /\ MaxFrame \in Nat /\ MaxPtr \in Nat
    /\ Align \in Nat \ {0} /\ OpIds \in Nat \ {0, 1}

VARIABLES
    conn,       \* the connection: "up" or "down"
    session,    \* at the provider: "none", "open", "rejected" or "closed"
    dev,        \* the session's BackendSession
    owner,      \* owner[p]: who asked for buffer p (history)
    link,       \* link[a]: the socket of a: "ok", "broken" or "gone"
    stage,      \* stage[a]: where the call of a is
    call,       \* call[a]: what a asked for last
    ans,        \* ans[a]: the answer the bridge has for a
    known,      \* known[a]: the handles that a was told
    holder,     \* who holds the mutex of the client, a set of at most one
    nextOp,     \* CudaRemoteClient::next_op
    toHost,     \* operations on their way to the provider
    toClient    \* results on their way back

host   == <<session, dev, owner>>
client == <<holder, nextOp>>
apps   == <<link, stage, call, ans, known>>
vars   == <<conn, host, apps, client, toHost, toClient>>

Least(x, y)    == IF x <= y THEN x ELSE y
Greatest(x, y) == IF x <= y THEN y ELSE x

-------------------------------------------------------------------------------
(* The table of buffers.  Each operation yields its possible outcomes: the *)
(* table after it, and its result.  The driver may fail where the code     *)
(* asks it; the host-memory backend never does.                            *)

FirstPtr  == Align
Backend   == [bufs |-> <<>>, used |-> 0, next |-> FirstPtr, cap |-> 0]
Refusal   == [ok |-> FALSE]
Fine      == [ok |-> TRUE]
Outcome(d, r) == [dev |-> d, res |-> r]
Refused(d)    == {Outcome(d, Refusal)}

Zeros(n)   == [i \in 1..n |-> 0]
Over(b, v) == [i \in DOMAIN b |-> IF i \in DOMAIN v THEN v[i] ELSE b[i]]
Holds(d, p, n) == p \in DOMAIN d.bufs /\ n <= Len(d.bufs[p])

CheckAlloc(d, n) == n # 0 /\ n <= MaxSingle /\ d.used + n <= d.cap

\* Mutant: the size is forgotten when the next handle is computed.
BumpedByAlign(d, n) == [d EXCEPT !.next = @ + Align]

Bumped(d, n) == [d EXCEPT !.next = @ + Greatest(n, Align) + Align]

\* Mutant: the failure path of the driver keeps the buffer it reports as failed.
OpMallocLeaks(d, n) ==
    IF ~CheckAlloc(d, n) THEN Refused(d)
    ELSE LET e == [Bumped(d, n) EXCEPT !.used = @ + n,
                     !.bufs = [h \in DOMAIN d.bufs \cup {d.next} |->
                        IF h = d.next THEN Zeros(n) ELSE d.bufs[h]]]
         IN {Outcome(e, [ok |-> TRUE, ptr |-> d.next])} \cup Refused(e)

OpMalloc(d, n) ==
    IF ~CheckAlloc(d, n) THEN Refused(d)
    ELSE LET p == d.next
             bufs == [h \in DOMAIN d.bufs \cup {p} |->
                        IF h = p THEN Zeros(n) ELSE d.bufs[h]]
         IN {Outcome([Bumped(d, n) EXCEPT !.bufs = bufs, !.used = @ + n],
                     [ok |-> TRUE, ptr |-> p])}
            \cup Refused(Bumped(d, n))

\* Mutant: the buffer goes, its share of the allowance does not come back.
OpFreeKeeps(d, p) ==
    IF p \notin DOMAIN d.bufs THEN Refused(d)
    ELSE {Outcome([d EXCEPT !.bufs = [h \in DOMAIN @ \ {p} |-> @[h]]], Fine)}

\* Mutant: the last handle is taken back when its buffer is freed.
OpFreeRewinds(d, p) ==
    IF p \notin DOMAIN d.bufs THEN Refused(d)
    ELSE {Outcome([d EXCEPT
            !.bufs = [h \in DOMAIN @ \ {p} |-> @[h]],
            !.used = Greatest(0, @ - Len(d.bufs[p])),
            !.next = IF \E h \in DOMAIN d.bufs : h > p THEN @ ELSE p], Fine)}

OpFree(d, p) ==
    IF p \notin DOMAIN d.bufs THEN Refused(d)
    ELSE {Outcome([d EXCEPT
            !.bufs = [h \in DOMAIN @ \ {p} |-> @[h]],
            !.used = Greatest(0, @ - Len(d.bufs[p]))], Fine)}

\* read_buf, an edit of the copy, write_buf.
WriteBuf(d, p, v) ==
    {Outcome([d EXCEPT !.bufs[p] = Over(@, v)], Fine)} \cup Refused(d)

OpHtoD(d, p, v) ==
    IF Len(v) > MaxMemcpy \/ ~Holds(d, p, Len(v)) THEN Refused(d)
    ELSE WriteBuf(d, p, v)

OpDtoH(d, p, n) ==
    IF n > MaxMemcpy \/ ~Holds(d, p, n) THEN Refused(d)
    ELSE {Outcome(d, [ok |-> TRUE, data |-> SubSeq(d.bufs[p], 1, n)])}
         \cup Refused(d)

Plus(x, y) == (x + y) % Vals

OpVectorAdd(d, x, y, out, n) ==
    IF \E p \in {x, y, out} : ~Holds(d, p, n) THEN Refused(d)
    ELSE WriteBuf(d, out, [i \in 1..n |-> Plus(d.bufs[x][i], d.bufs[y][i])])

Exec(d, q) ==
    CASE q.op = "malloc" -> OpMalloc(d, q.n)
      [] q.op = "free"   -> OpFree(d, q.p)
      [] q.op = "htod"   -> OpHtoD(d, q.p, q.data)
      [] q.op = "dtoh"   -> OpDtoH(d, q.p, q.n)
      [] q.op = "add"    -> OpVectorAdd(d, q.x, q.y, q.p, q.n)
      [] q.op = "sync"   -> {Outcome(d, Fine)} \cup Refused(d)

-------------------------------------------------------------------------------
(* The provider: handle_gpu_remote_open, handle_cuda_op, the end.          *)

OpenSession ==
    /\ conn = "up" /\ session = "none"
    /\ \/ /\ session' = "open"
          /\ \E mb \in Caps :
                dev' = [Backend EXCEPT !.cap = Least(Greatest(mb, 1), HardCap)]
       \/ session' = "rejected" /\ dev' = dev
    /\ UNCHANGED <<conn, owner, apps, client, toHost, toClient>>

\* Whether the frame of k elements of data is short enough: how many
\* characters an element takes depends on its value.
Fits(k) == {c * k <= MaxFrame : c \in 2..4}

HandleCudaOp ==
    /\ conn = "up" /\ toHost # <<>>
    /\ LET m == Head(toHost) IN
       \E o \in IF session = "open" THEN Exec(dev, m.req) ELSE Refused(dev) :
        /\ m.req.op = "dtoh" /\ o.res.ok => TRUE \in Fits(m.req.n)
        /\ dev' = o.dev
        /\ toClient' = Append(toClient, [id |-> m.id, res |-> o.res])
        /\ owner' = [p \in DOMAIN owner \cup (DOMAIN o.dev.bufs \ DOMAIN dev.bufs)
                        |-> IF p \in DOMAIN owner THEN owner[p] ELSE m.app]
    /\ toHost' = Tail(toHost)
    /\ UNCHANGED <<conn, session, apps, client>>

\* What was read does not fit in a frame, and the sender's codec refuses it:
\* handle_cuda_op fails, and its error ends serve_peer_session, which drops
\* the connection of every program behind the bridge.
AnswerTooLong ==
    /\ conn = "up" /\ toHost # <<>> /\ session = "open"
    /\ LET q == Head(toHost).req IN
        /\ q.op = "dtoh" /\ FALSE \in Fits(q.n)
        /\ \E o \in OpDtoH(dev, q.p, q.n) : o.res.ok
    /\ conn' = "down"
    /\ toHost' = Tail(toHost)
    /\ UNCHANGED <<host, apps, client, toClient>>

\* The connection is over (a client that sends GpuRemoteClose closes it next):
\* the handler's map of sessions is dropped.
SessionEnds ==
    /\ conn = "down" /\ session = "open"
    /\ session' = "closed"
    /\ dev' = [dev EXCEPT !.bufs = <<>>, !.used = 0]
    /\ toHost' = <<>>
    /\ UNCHANGED <<conn, owner, apps, client, toClient>>

ConnDrop ==
    /\ conn = "up"
    /\ conn' = "down"
    /\ UNCHANGED <<host, apps, client, toHost, toClient>>

-------------------------------------------------------------------------------
(* A program and its stub: every call is one frame out and one frame back  *)
(* under the stub's own lock.  A program may use what it was told, also    *)
(* after it freed it.                                                      *)

NoCall == [op |-> "sync"]
RequestsOn(P) ==
    {NoCall}
    \cup [op : {"malloc"}, n : Sizes]
    \cup [op : {"free"}, p : P]
    \cup [op : {"htod"}, p : P, data : Payloads]
    \cup [op : {"dtoh"}, p : P, n : Counts]
    \cup [op : {"add"}, x : P, y : P, p : P, n : Counts]

\* Whether the frame of a request is short enough.
Carries(q) == IF q.op = "htod" THEN Fits(Len(q.data)) ELSE {TRUE}

Ask(a) ==
    /\ session \in {"open", "closed"} /\ link[a] = "ok" /\ stage[a] = "idle"
    /\ \E q \in RequestsOn(known[a]) :
        /\ q.op \in Uses[a]
        /\ q.op = "malloc" => dev.next <= MaxPtr
        /\ q.op = "add" => q.y = q.p   \* bound: sums go into an operand
        /\ conn = "down" => q = NoCall \* bound: all are refused alike then
        /\ \/ /\ TRUE \in Carries(q)
              /\ call' = [call EXCEPT ![a] = q]
              /\ stage' = [stage EXCEPT ![a] = "asked"]
              /\ link' = link
           \/ \* the bridge hangs up on a frame that is too long
              /\ FALSE \in Carries(q)
              /\ link' = [link EXCEPT ![a] = "broken"]
              /\ UNCHANGED <<call, stage>>
    /\ UNCHANGED <<conn, host, ans, known, client, toHost, toClient>>

\* The stub reads the answer.  (Its own test of the length never fails: the
\* provider's frame, which is the longer one, would not have been sent.)
Return(a) ==
    /\ stage[a] = "answered"
    /\ stage' = [stage EXCEPT ![a] = "idle"]
    /\ call' = [call EXCEPT ![a] = NoCall]
    /\ ans' = [ans EXCEPT ![a] = Refusal]
    /\ known' = [known EXCEPT ![a] =
            IF link[a] = "ok" /\ call[a].op = "malloc" /\ ans[a].ok
            THEN @ \cup {ans[a].ptr} ELSE @]
    /\ UNCHANGED <<conn, host, link, client, toHost, toClient>>

AppExit(a) ==
    /\ a \in Quitters /\ link[a] # "gone"
    /\ link' = [link EXCEPT ![a] = "gone"]
    /\ UNCHANGED <<conn, host, stage, call, ans, known, client, toHost, toClient>>

-------------------------------------------------------------------------------
(* The bridge: a task per socket, one client behind a mutex.               *)

\* Mutant: a failed receive does not release the mutex.
AnsweredLocked(a, r) ==
    /\ ans' = [ans EXCEPT ![a] = r]
    /\ stage' = [stage EXCEPT ![a] = "answered"]
    /\ holder' = holder

\* The task gets the mutex and sends its operation; a send on a lost
\* connection, or of a frame that is too long, fails and the mutex is released.
CallProvider(a) ==
    /\ stage[a] = "asked" /\ holder = {}
    /\ nextOp' = (nextOp + 1) % OpIds
    /\ \/ /\ conn = "up" /\ TRUE \in Carries(call[a])
          /\ holder' = {a}
          /\ stage' = [stage EXCEPT ![a] = "waiting"]
          /\ toHost' = Append(toHost,
                              [id |-> nextOp, app |-> a, req |-> call[a]])
          /\ ans' = ans
       \/ /\ conn = "down" \/ FALSE \in Carries(call[a])
          /\ ans' = [ans EXCEPT ![a] = Refusal]
          /\ stage' = [stage EXCEPT ![a] = "answered"]
          /\ UNCHANGED <<holder, toHost>>
    /\ UNCHANGED <<conn, host, link, call, known, toClient>>

Answered(a, r) ==
    /\ ans' = [ans EXCEPT ![a] = r]
    /\ stage' = [stage EXCEPT ![a] = "answered"]
    /\ holder' = {}

\* CudaRemoteClient::call waits for the result that carries its operation's
\* id; any other result is skipped.
Receive(a) ==
    /\ stage[a] = "waiting" /\ toClient # <<>>
    /\ toClient' = Tail(toClient)
    /\ IF (Head(toClient).id + 1) % OpIds = nextOp
       THEN Answered(a, Head(toClient).res)
       ELSE UNCHANGED <<ans, stage, holder>>
    /\ UNCHANGED <<conn, host, link, call, known, nextOp, toHost>>

ReceiveFails(a) ==
    /\ stage[a] = "waiting" /\ conn = "down"
    /\ Answered(a, Refusal)
    /\ toClient' = <<>>
    /\ UNCHANGED <<conn, host, link, call, known, nextOp, toHost>>

-------------------------------------------------------------------------------
Init ==
    /\ conn = "up" /\ session = "none"
    /\ dev = Backend /\ owner = <<>>
    /\ link = [a \in Apps |-> "ok"]
    /\ stage = [a \in Apps |-> "idle"]
    /\ call = [a \in Apps |-> NoCall]
    /\ ans = [a \in Apps |-> Refusal]
    /\ known = [a \in Apps |-> {}]
    /\ holder = {} /\ nextOp = 1 % OpIds
    /\ toHost = <<>> /\ toClient = <<>>

AppStep(a)    == Ask(a) \/ Return(a) \/ AppExit(a)
BridgeStep(a) == CallProvider(a) \/ Receive(a) \/ ReceiveFails(a)
HostStep      == OpenSession \/ HandleCudaOp \/ AnswerTooLong \/ SessionEnds

Next ==
    \/ \E a \in Apps : AppStep(a) \/ BridgeStep(a)
    \/ HostStep
    \/ ConnDrop

Spec == Init /\ [][Next]_vars

\* The provider and the bridge keep running; tokio's mutex is granted in the
\* order in which it was asked for, so a task that waits gets it.
Fairness ==
    /\ WF_vars(HandleCudaOp \/ AnswerTooLong) /\ WF_vars(SessionEnds)
    /\ \A a \in Apps :
        /\ SF_vars(CallProvider(a))
        /\ WF_vars(Receive(a) \/ ReceiveFails(a))
        /\ WF_vars(Return(a))

FairSpec == Spec /\ Fairness
-------------------------------------------------------------------------------
(* Properties.                                                             *)

Results == {Refusal, Fine} \cup [ok : {TRUE}, ptr : Nat]
           \cup [ok : {TRUE}, data : Seq(0..Vals - 1)]

TypeOK ==
    /\ conn \in {"up", "down"}
    /\ session \in {"none", "open", "rejected", "closed"}
    /\ dev.used \in Nat /\ dev.next \in Nat /\ dev.cap \in Nat
    /\ \A p \in DOMAIN dev.bufs : p \in Nat /\ dev.bufs[p] \in Seq(0..Vals - 1)
    /\ DOMAIN dev.bufs \subseteq DOMAIN owner
    /\ \A p \in DOMAIN owner : p \in Nat /\ owner[p] \in Apps
    /\ link \in [Apps -> {"ok", "broken", "gone"}]
    /\ stage \in [Apps -> {"idle", "asked", "waiting", "answered"}]
    /\ ans \in [Apps -> Results]
    /\ known \in [Apps -> SUBSET Nat] /\ call \in [Apps -> RequestsOn(Nat)]
    /\ \A a \in Apps : known[a] \subseteq {p \in DOMAIN owner : owner[p] = a}
    /\ \A a \in Apps : call[a] \in RequestsOn(known[a])
    /\ holder \subseteq Apps
    /\ \A a \in Apps : a \in holder <=> stage[a] = "waiting"
    /\ \A a, b \in holder : a = b
    /\ nextOp \in 0..OpIds - 1

\* Every byte of the session's allowance is in a buffer that can be freed, and
\* no series of allocations, frees and driver errors exceeds it
\* (cuda_backend.rs:200-304).
AllowanceIsAccounted ==
    /\ dev.used = MapThenSumSet(LAMBDA p : Len(dev.bufs[p]), DOMAIN dev.bufs)
    /\ dev.used <= dev.cap

\* A pointer into a buffer, or one past it, which is what C code makes of a
\* handle, is never the handle of another buffer (cuda_backend.rs:236-240).
OffsetsNameNothing ==
    \A p, h \in DOMAIN owner : p < h =>
        /\ h < dev.next
        /\ p \in DOMAIN dev.bufs => p + Len(dev.bufs[p]) < h

\* A buffer that no program can free belongs to one that went away, or whose
\* socket broke: no answer to a live program is lost while the session lives
\* (cuda_remote.rs:281-319, the bridge's task 397-509).
OrphansAreOfTheGone ==
    \A p \in DOMAIN dev.bufs : conn = "up" /\ link[owner[p]] = "ok" =>
        \/ p \in known[owner[p]]
        \/ /\ stage[owner[p]] \in {"waiting", "answered"}
           /\ call[owner[p]].op = "malloc"

\* Beyond this no handle is given: every program may have a malloc on its way
\* when the bound is passed.
LastPtr == MaxPtr + Cardinality(Apps) * (MaxSingle + 2 * Align)

\* The mutex, the ids and the table give every program a memory of its own.
Memory == INSTANCE RemoteMemory WITH
    Handles  <- 1..LastPtr,
    Requests <- RequestsOn(1..LastPtr),
    Sum      <- Plus,
    mem      <- [a \in Apps |->
                    [p \in {p \in DOMAIN dev.bufs :
                                conn = "up" /\ owner[p] = a} |-> dev.bufs[p]]],
    pend     <- [a \in Apps |->
                    CASE stage[a] = "idle"     -> [at |-> "idle"]
                      [] stage[a] = "answered" -> [at |-> "done", res |-> ans[a]]
                      [] stage[a] = "waiting" /\ toClient # <<>> ->
                            [at |-> "done", res |-> Head(toClient).res]
                      [] OTHER -> [at |-> "asked", req |-> call[a]]],
    given    <- DOMAIN owner
ImplementsMemory == Memory!Spec

\* Every call comes back, with a result or an error, whatever is lost and
\* whoever else uses the bridge or leaves it.
CallsReturn == \A a \in Apps : stage[a] = "asked" ~> stage[a] = "idle"
===============================================================================
