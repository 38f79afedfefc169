----------------------------- MODULE RemoteMemory -----------------------------
(***************************************************************************)
(* What CUDA remoting promises to the programs behind a bridge: each has a *)
(* device memory of its own.  A request takes effect at one moment between *)
(* question and answer, on that memory alone; an answer may turn into an   *)
(* error on its way back; the memory may be lost, with the session, as a   *)
(* whole.  A handle names at most one buffer, ever.                        *)
(***************************************************************************)
EXTENDS Integers, Sequences

CONSTANTS
    Apps,       \* programs
    Handles,    \* device pointers
    Requests,   \* what a program can ask
    Sum(_, _)   \* sum of two elements

VARIABLES
    mem,        \* mem[a]: the buffers of a, by handle
    pend,       \* pend[a]: "idle", or the request, or its answer
    given       \* handles that were ever given out

mvars == <<mem, pend, given>>

Idle      == [at |-> "idle"]
Done(r)   == [at |-> "done", res |-> r]
Refusal   == [ok |-> FALSE]
Fine      == [ok |-> TRUE]
Buffer(p) == [ok |-> TRUE, ptr |-> p]
Data(d)   == [ok |-> TRUE, data |-> d]

\* d written over the front of buffer b.
Over(b, d) == [i \in DOMAIN b |-> IF i \in DOMAIN d THEN d[i] ELSE b[i]]
Zeros(n)   == [i \in 1..n |-> 0]

Init ==
    /\ mem = [a \in Apps |-> <<>>]
    /\ pend = [a \in Apps |-> Idle]
    /\ given = {}

Ask(a) ==
    /\ pend[a] = Idle
    /\ pend'[a] \in [at : {"asked"}, req : Requests]
    /\ \A b \in Apps \ {a} : pend'[b] = pend[b]
    /\ UNCHANGED <<mem, given>>

Answers(a, r, m) ==
    /\ pend' = [pend EXCEPT ![a] = Done(r)]
    /\ mem' = [mem EXCEPT ![a] = m]

Take(a) ==
    \E p \in Handles \ given :
        /\ Answers(a, Buffer(p), [h \in DOMAIN mem[a] \cup {p} |->
                IF h = p THEN Zeros(pend[a].req.n) ELSE mem[a][h]])
        /\ given' = given \cup {p}

Serve(a) ==
    LET q == pend[a].req  M == DOMAIN mem[a] IN
    /\ pend[a].at = "asked"
    /\ \/ q.op = "malloc" /\ Take(a)
       \/ /\ \/ q.op = "sync" /\ Answers(a, Fine, mem[a])
             \/ /\ q.op = "free" /\ q.p \in M
                /\ Answers(a, Fine, [h \in M \ {q.p} |-> mem[a][h]])
             \/ /\ q.op = "htod" /\ q.p \in M /\ Len(q.data) <= Len(mem[a][q.p])
                /\ Answers(a, Fine,
                           [mem[a] EXCEPT ![q.p] = Over(mem[a][q.p], q.data)])
             \/ /\ q.op = "dtoh" /\ q.p \in M /\ q.n <= Len(mem[a][q.p])
                /\ Answers(a, Data(SubSeq(mem[a][q.p], 1, q.n)), mem[a])
             \/ /\ q.op = "add" /\ {q.x, q.y, q.p} \subseteq M
                /\ \A h \in {q.x, q.y, q.p} : q.n <= Len(mem[a][h])
                /\ Answers(a, Fine, [mem[a] EXCEPT ![q.p] =
                        Over(mem[a][q.p], [i \in 1..q.n |->
                            Sum(mem[a][q.x][i], mem[a][q.y][i])])])
          /\ given' = given

\* The request is refused, or its answer is lost on the way back.
Fail(a) ==
    /\ pend[a] # Idle
    /\ pend' = [pend EXCEPT ![a] = Done(Refusal)]
    /\ UNCHANGED <<mem, given>>

\* The program is told the answer, or an error in its place.
Tell(a) ==
    /\ pend[a].at = "done"
    /\ pend' = [pend EXCEPT ![a] = Idle]
    /\ UNCHANGED <<mem, given>>

Reset ==
    /\ mem' = [a \in Apps |-> <<>>]
    /\ UNCHANGED <<pend, given>>

Next ==
    \/ \E a \in Apps : Ask(a) \/ Serve(a) \/ Fail(a) \/ Tell(a)
    \/ Reset

Spec == Init /\ [][Next]_mvars
===============================================================================
