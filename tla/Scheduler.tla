------------------------------ MODULE Scheduler ------------------------------
(***************************************************************************)
(* schedule_peer (crates/gpumesh-core/src/scheduler.rs): `gpumesh run` and *)
(* `gpumesh app run` with --group or --gpu-memory probe the paired peers   *)
(* one after the other, score those that are fit and take the best.  The   *)
(* choice is handed on as a NAME, which connect_peer resolves again.       *)
(*                                                                         *)
(* A peer answers for itself at the moment it is probed: what it says is   *)
(* an arbitrary member of Answers.  A PeerInfo without free VRAM counts as *)
(* 0 MB and one without a utilization earns nothing, as one of 100 does.   *)
(***************************************************************************)
EXTENDS Integers, Sequences

CONSTANTS Peers,      \* paired peers, by node id
          NameOf,     \* the name each of them goes by; names are in order
          Requests,   \* ScheduleRequests somebody may make
          Answers,    \* PeerInfo a peer may answer
          NoPeer      \* no peer chosen

Info == [sharing : BOOLEAN, status : {"idle", "busy", "offline", "unknown"},
         free : Nat, util : 0..100]

\* grouped: --group was given; ids, names: its members; need: megabytes asked
\* for, 0 for none; prefer: the peers that --peer matches by name or id.
Request == [grouped : BOOLEAN, ids : SUBSET Peers, names : SUBSET Int,
            need : Nat, prefer : SUBSET Peers]

ASSUME NameType    == NameOf \in [Peers -> Int]
ASSUME RequestType == Requests \subseteq Request
ASSUME AnswerType  == Answers \subseteq Info
ASSUME NoPeerType  == NoPeer \notin Peers

VARIABLES
    phase,    \* how far the scheduling has come
    req,      \* the request
    todo,     \* candidates not yet probed
    heard,    \* the last answer of each peer, for the properties only
    scored,   \* the fit candidates in the order they were probed
    choice,   \* the winner
    target    \* the peer connect_peer makes of the winner's name

schedVars == <<phase, req, todo, heard, scored, choice, target>>

\* No answer, and no request: a peer that fails its probe is skipped, as one
\* that does not share.
Silent == [sharing |-> FALSE, status |-> "offline", free |-> 0, util |-> 100]
NoRequest == [grouped |-> FALSE, ids |-> {}, names |-> {}, need |-> 0,
              prefer |-> {}]

Phases == {"idle", "probing", "chosen", "resolved", "failed"}

ScheduleTypeOK ==
    /\ phase  \in Phases
    /\ req    \in Request
    /\ todo   \in SUBSET Peers
    /\ heard  \in [Peers -> Info]
    /\ scored \in Seq(Peers)
    /\ choice \in Peers \cup {NoPeer}
    /\ target \in Peers \cup {NoPeer}

ScheduleInit ==
    /\ phase  = "idle"
    /\ req    = NoRequest
    /\ todo   = {}
    /\ heard  = [p \in Peers |-> Silent]
    /\ scored = <<>>
    /\ choice = NoPeer
    /\ target = NoPeer

-------------------------------------------------------------------------------
(* The pure part.                                                          *)

\* candidate_peers: paired peers the group lists by id or by name.
Candidates(r) ==
    {p \in Peers : r.grouped => p \in r.ids \/ NameOf[p] \in r.names}

Fits(a, r) ==
    /\ a.sharing
    /\ a.status \notin {"busy", "offline"}
    /\ a.free >= r.need

\* Mutant of Score: utilization counts the wrong way round.
ScoreLoaded(p, a, r) ==
    a.free
    + (IF a.status = "idle" THEN 10000 ELSE 0)
    + a.util * 10
    + (IF p \in r.prefer THEN 50000 ELSE 0)

Score(p, a, r) ==
    a.free
    + (IF a.status = "idle" THEN 10000 ELSE 0)
    + (100 - a.util) * 10
    + (IF p \in r.prefer THEN 50000 ELSE 0)

ScoreAt(i) == Score(scored[i], heard[scored[i]], req)

\* The head of the stable descending sort: a highest score, the first of them.
IsWinner(i) ==
    /\ \A k \in DOMAIN scored : ScoreAt(k) <= ScoreAt(i)
    /\ \A k \in DOMAIN scored : ScoreAt(k) = ScoreAt(i) => i <= k

\* PeerStore::get of a name: whichever record bears it, in map order.
Bearers(p) == {q \in Peers : NameOf[q] = NameOf[p]}

-------------------------------------------------------------------------------

\* The group is not there, or nobody is a candidate, or probing begins.
StartSchedule ==
    /\ phase = "idle"
    /\ req' \in Requests
    /\ todo' = Candidates(req')
    /\ \/ phase' = "probing" /\ todo' # {}
       \/ phase' = "failed" /\ (todo' = {} \/ req'.grouped)
    /\ UNCHANGED <<heard, scored, choice, target>>

\* The list is sorted by name: the candidates come in that order.
IsNext(p) == p \in todo /\ \A q \in todo : NameOf[p] <= NameOf[q]

\* An answer in time; a fit peer is pushed on the list.
Probe(p) ==
    /\ phase = "probing" /\ IsNext(p)
    /\ todo' = todo \ {p}
    /\ \E a \in Answers :
           /\ heard' = [heard EXCEPT ![p] = a]
           /\ scored' = IF Fits(a, req) THEN Append(scored, p) ELSE scored
    /\ UNCHANGED <<phase, req, choice, target>>

\* No connection, another message, or eight seconds without an answer.
ProbeFails(p) ==
    /\ phase = "probing" /\ IsNext(p)
    /\ todo' = todo \ {p}
    /\ UNCHANGED <<phase, req, heard, scored, choice, target>>

Choose ==
    /\ phase = "probing" /\ todo = {} /\ scored # <<>>
    /\ phase' = "chosen"
    /\ \E i \in DOMAIN scored : IsWinner(i) /\ choice' = scored[i]
    /\ UNCHANGED <<req, todo, heard, scored, target>>

NoneFits ==
    /\ phase = "probing" /\ todo = {} /\ scored = <<>>
    /\ phase' = "failed"
    /\ UNCHANGED <<req, todo, heard, scored, choice, target>>

\* peer = Some(chosen.peer_name), and connect_peer looks the name up.
Resolve ==
    /\ phase = "chosen"
    /\ phase' = "resolved"
    /\ target' \in Bearers(choice)
    /\ UNCHANGED <<req, todo, heard, scored, choice>>

\* The run goes on to its attempts, or ends: the locals are gone.
ScheduleReturns ==
    /\ phase \in {"resolved", "failed"}
    /\ phase'  = "idle"
    /\ req'    = NoRequest
    /\ todo'   = {}
    /\ heard'  = [p \in Peers |-> Silent]
    /\ scored' = <<>>
    /\ choice' = NoPeer
    /\ target' = NoPeer

ScheduleStep ==
    \/ \E p \in Peers : Probe(p) \/ ProbeFails(p)
    \/ Choose \/ NoneFits \/ Resolve

ScheduleNext == StartSchedule \/ ScheduleStep \/ ScheduleReturns

ScheduleSpec == ScheduleInit /\ [][ScheduleNext]_schedVars

-------------------------------------------------------------------------------
(* Properties.                                                             *)

FitAnswer(p) ==
    /\ heard[p].sharing
    /\ heard[p].status \in {"idle", "unknown"}
    /\ heard[p].free >= req.need

\* p is at least as good as q in every respect and better in one.
Outdoes(p, q) ==
    LET a == heard[p]
        b == heard[q]
    IN  /\ q \in req.prefer => p \in req.prefer
        /\ b.status = "idle" => a.status = "idle"
        /\ a.free >= b.free
        /\ a.util <= b.util
        /\ \/ p \in req.prefer /\ q \notin req.prefer
           \/ a.status = "idle" /\ b.status # "idle"
           \/ a.free > b.free
           \/ a.util < b.util

\* A fit peer that was preferred loses only to a peer with much more free VRAM:
\* the boost is a constant, VRAM has no bound.
PreferredWins ==
    choice \notin req.prefer =>
        \A p \in req.prefer : FitAnswer(p) =>
            heard[choice].free >= heard[p].free + 39000

\* The chosen peer is a candidate that was fit when it answered, no other fit
\* peer outdoes it, and a preference is kept as far as the score keeps it;
\* scheduling gives up only when nobody fit answered (scheduler.rs:32-109).
ChosenIsBest ==
    /\ phase = "chosen" =>
           /\ choice \in Candidates(req) /\ FitAnswer(choice)
           /\ \A p \in Peers : FitAnswer(p) => ~Outdoes(p, choice)
           /\ PreferredWins
    /\ phase = "failed" => \A p \in Peers : ~FitAnswer(p)

\* "The scheduler probes members, skips busy / low-VRAM nodes, and picks an
\* idle GPU" (README.md:179): the run goes to the peer that was picked.
RunsWhereScheduled == phase = "resolved" => target = choice

=============================================================================
