-------------------------- MODULE CudaSessionProofs ---------------------------
(***************************************************************************)
(* Theorems about CudaSession, for any programs, sizes, limits and ids:    *)
(* what the bridge's mutex makes of the two queues, what the table of      *)
(* buffers promises, and that together they give every program the memory  *)
(* of RemoteMemory.                                                        *)
(***************************************************************************)
EXTENDS CudaSession, FiniteSetTheorems, WellFoundedInduction, TLAPS

-------------------------------------------------------------------------------
(* What an operation can do to a table.                                    *)

\* What the table of a session is made of.
IsDevice(d) ==
    d = [bufs |-> d.bufs, used |-> d.used, next |-> d.next, cap |-> d.cap]

IsTable(d) ==
    /\ IsDevice(d)
    /\ d.used \in Nat /\ d.next \in Nat /\ d.cap \in Nat
    /\ \A p \in DOMAIN d.bufs : p \in Nat /\ d.bufs[p] \in Seq(0..Vals - 1)

Device(b, u, n, c) == [bufs |-> b, used |-> u, next |-> n, cap |-> c]

\* The handle after the next.
Beyond(d, n) == d.next + Greatest(n, Align) + Align

Refuses(d, q, o) ==
    /\ o.res = Refusal
    /\ \/ o.dev = d
       \/ /\ q.op = "malloc" /\ CheckAlloc(d, q.n)
          /\ o.dev = Device(d.bufs, d.used, Beyond(d, q.n), d.cap)

Allocates(d, q, o) ==
    /\ q.op = "malloc" /\ CheckAlloc(d, q.n)
    /\ o.res = [ok |-> TRUE, ptr |-> d.next]
    /\ o.dev = Device([h \in DOMAIN d.bufs \cup {d.next} |->
                          IF h = d.next THEN Zeros(q.n) ELSE d.bufs[h]],
                      d.used + q.n, Beyond(d, q.n), d.cap)

Frees(d, q, o) ==
    /\ q.op = "free" /\ q.p \in DOMAIN d.bufs
    /\ o.res = Fine
    /\ o.dev = Device([h \in DOMAIN d.bufs \ {q.p} |-> d.bufs[h]],
                      Greatest(0, d.used - Len(d.bufs[q.p])), d.next, d.cap)

\* The elements an operation writes over the front of q.p.
Written(d, q) ==
    IF q.op = "htod" THEN q.data
    ELSE [i \in 1..q.n |-> Plus(d.bufs[q.x][i], d.bufs[q.y][i])]

Writes(d, q, o) ==
    /\ \/ q.op = "htod" /\ Holds(d, q.p, Len(q.data))
       \/ q.op = "add" /\ \A h \in {q.x, q.y, q.p} : Holds(d, h, q.n)
    /\ o.res = Fine
    /\ o.dev = Device([d.bufs EXCEPT ![q.p] = Over(d.bufs[q.p], Written(d, q))],
                      d.used, d.next, d.cap)

Reads(d, q, o) ==
    /\ q.op = "dtoh" /\ Holds(d, q.p, q.n)
    /\ o.res = [ok |-> TRUE, data |-> SubSeq(d.bufs[q.p], 1, q.n)]
    /\ o.dev = d

Syncs(d, q, o) == q.op = "sync" /\ o.res = Fine /\ o.dev = d

LEMMA RequestParts ==
  ASSUME NEW P, NEW q \in RequestsOn(P)
  PROVE  /\ q.op \in {"malloc", "free", "htod", "dtoh", "add", "sync"}
         /\ q.op = "malloc" => q.n \in Sizes
         /\ q.op = "free" => q.p \in P
         /\ q.op = "htod" => q.p \in P /\ q.data \in Payloads
         /\ q.op = "dtoh" => q.p \in P /\ q.n \in Counts
         /\ q.op = "add" => {q.x, q.y, q.p} \subseteq P /\ q.n \in Counts
  BY DEF RequestsOn, NoCall

LEMMA RequestsGrow ==
  ASSUME NEW P, NEW Q, P \subseteq Q
  PROVE  RequestsOn(P) \subseteq RequestsOn(Q)
  BY DEF RequestsOn

LEMMA Edited ==
  ASSUME NEW d, IsDevice(d), NEW b, NEW u
  PROVE  /\ [d EXCEPT !.bufs = b] = Device(b, d.used, d.next, d.cap)
         /\ [d EXCEPT !.bufs = b, !.used = u] = Device(b, u, d.next, d.cap)
<1>1. ASSUME NEW x, NEW y, NEW z, NEW w
      PROVE  [Device(x, y, z, w) EXCEPT !.bufs = b] = Device(b, y, z, w)
  BY DEF Device
<1>2. ASSUME NEW x, NEW y, NEW z, NEW w
      PROVE  [Device(x, y, z, w) EXCEPT !.used = u] = Device(x, u, z, w)
  BY DEF Device
<1> DEFINE x == d.bufs  y == d.used  z == d.next  w == d.cap  e == [d EXCEPT !.bufs = b]
<1>3. d = Device(x, y, z, w)
  BY DEF IsDevice, Device
<1> HIDE DEF x, y, z, w
<1>4. e = Device(b, y, z, w)
  BY <1>1, <1>3
<1>5. [d EXCEPT !.bufs = b, !.used = u] = [e EXCEPT !.used = u]
  OBVIOUS
<1> HIDE DEF e
<1>6. [e EXCEPT !.used = u] = Device(b, u, z, w)
  BY <1>2, <1>4
<1>7. QED
  BY <1>4, <1>5, <1>6 DEF x, y, z, w, e

LEMMA DeviceParts ==
  ASSUME NEW b, NEW u, NEW n, NEW c
  PROVE  /\ IsDevice(Device(b, u, n, c))
         /\ Device(b, u, n, c).bufs = b /\ Device(b, u, n, c).used = u
         /\ Device(b, u, n, c).next = n /\ Device(b, u, n, c).cap = c
  BY DEF IsDevice, Device

LEMMA OutcomeParts ==
  ASSUME NEW d, NEW r
  PROVE  Outcome(d, r).dev = d /\ Outcome(d, r).res = r
  BY DEF Outcome

LEMMA Wrote ==
  ASSUME NEW d, IsDevice(d), NEW p, NEW v, NEW o \in WriteBuf(d, p, v)
  PROVE  \/ o = Outcome(d, Refusal)
         \/ o = Outcome(Device([d.bufs EXCEPT ![p] = Over(d.bufs[p], v)],
                               d.used, d.next, d.cap), Fine)
<1> DEFINE b == [d.bufs EXCEPT ![p] = Over(d.bufs[p], v)]
<1>1. \/ o = Outcome(d, Refusal)
      \/ o = Outcome([d EXCEPT !.bufs = b], Fine)
  BY DEF WriteBuf, Refused
<1> HIDE DEF b
<1>2. [d EXCEPT !.bufs = b] = Device(b, d.used, d.next, d.cap)
  BY Edited
<1>3. QED
  BY <1>1, <1>2 DEF b

\* Exec has no other outcomes.
LEMMA Outcomes ==
  ASSUME NEW d, IsDevice(d), NEW P, NEW q \in RequestsOn(P), NEW o \in Exec(d, q)
  PROVE  \/ Refuses(d, q, o) \/ Allocates(d, q, o) \/ Frees(d, q, o)
         \/ Writes(d, q, o) \/ Reads(d, q, o) \/ Syncs(d, q, o)
<1> USE DEF Refused
<1>1. CASE q.op = "malloc"
  <2>1. o \in OpMalloc(d, q.n)
    BY <1>1 DEF Exec
  <2>2. Bumped(d, q.n) = Device(d.bufs, d.used, Beyond(d, q.n), d.cap)
    BY DEF Bumped, Device, Beyond, IsDevice
  <2>3. CASE ~CheckAlloc(d, q.n)
    BY <2>1, <2>3, OutcomeParts DEF OpMalloc, Refuses
  <2>4. CASE CheckAlloc(d, q.n)
    <3> DEFINE b == [h \in DOMAIN d.bufs \cup {d.next} |->
                        IF h = d.next THEN Zeros(q.n) ELSE d.bufs[h]]
               e == [Bumped(d, q.n) EXCEPT !.bufs = b, !.used = @ + q.n]
    <3>1. e = Device(b, d.used + q.n, Beyond(d, q.n), d.cap)
      <4>1. IsDevice(Bumped(d, q.n)) /\ Bumped(d, q.n).used = d.used
            /\ Bumped(d, q.n).next = Beyond(d, q.n) /\ Bumped(d, q.n).cap = d.cap
        BY <2>2, DeviceParts
      <4>2. e = [Bumped(d, q.n) EXCEPT !.bufs = b, !.used = d.used + q.n]
        BY <4>1
      <4> DEFINE g == Bumped(d, q.n)
      <4> HIDE DEF b, e, g
      <4>3. e = [g EXCEPT !.bufs = b, !.used = d.used + q.n]
        BY <4>2 DEF g
      <4>4. IsDevice(g) /\ g.next = Beyond(d, q.n) /\ g.cap = d.cap
        BY <4>1 DEF g
      <4>5. [g EXCEPT !.bufs = b, !.used = d.used + q.n]
              = Device(b, d.used + q.n, g.next, g.cap)
        BY <4>4, Edited
      <4>6. QED
        BY <4>3, <4>4, <4>5
    <3>2. \/ o = Outcome(e, [ok |-> TRUE, ptr |-> d.next])
          \/ o = Outcome(Bumped(d, q.n), Refusal)
      BY <2>1, <2>4 DEF OpMalloc
    <3> HIDE DEF e
    <3>3. CASE o = Outcome(e, [ok |-> TRUE, ptr |-> d.next])
      BY <1>1, <2>4, <3>1, <3>3, OutcomeParts DEF Allocates
    <3>4. CASE o = Outcome(Bumped(d, q.n), Refusal)
      BY <1>1, <2>2, <2>4, <3>4, OutcomeParts DEF Refuses
    <3>5. QED
      BY <3>2, <3>3, <3>4
  <2>5. QED
    BY <2>3, <2>4
<1>2. CASE q.op = "free"
  <2>1. o \in OpFree(d, q.p)
    BY <1>2 DEF Exec
  <2> DEFINE b == [h \in DOMAIN d.bufs \ {q.p} |-> d.bufs[h]]
             u == Greatest(0, d.used - Len(d.bufs[q.p]))
  <2>2. \/ o = Outcome(d, Refusal)
        \/ /\ q.p \in DOMAIN d.bufs
           /\ o = Outcome([d EXCEPT !.bufs = b, !.used = u], Fine)
    BY <2>1 DEF OpFree
  <2>3. [d EXCEPT !.bufs = b, !.used = u] = Device(b, u, d.next, d.cap)
    <3> HIDE DEF b, u
    <3>1. QED
      BY Edited
  <2>4. QED
    BY <1>2, <2>2, <2>3, OutcomeParts DEF Frees, Refuses
<1>3. CASE q.op = "htod"
  <2>1. o \in OpHtoD(d, q.p, q.data)
    BY <1>3 DEF Exec
  <2>2. \/ o = Outcome(d, Refusal)
        \/ Holds(d, q.p, Len(q.data)) /\ o \in WriteBuf(d, q.p, q.data)
    BY <2>1 DEF OpHtoD
  <2>3. Written(d, q) = q.data
    BY <1>3 DEF Written
  <2> DEFINE e == Device([d.bufs EXCEPT ![q.p] = Over(d.bufs[q.p], q.data)],
                         d.used, d.next, d.cap)
  <2>4. \/ o = Outcome(d, Refusal)
        \/ Holds(d, q.p, Len(q.data)) /\ o = Outcome(e, Fine)
    BY <2>2, Wrote
  <2>5. CASE o = Outcome(d, Refusal)
    BY <2>5, OutcomeParts DEF Refuses
  <2>6. CASE Holds(d, q.p, Len(q.data)) /\ o = Outcome(e, Fine)
    <3>1. o.res = Fine /\ o.dev = e
      BY <2>6, OutcomeParts
    <3>2. QED
      BY <1>3, <2>3, <2>6, <3>1 DEF Writes
  <2>7. QED
    BY <2>4, <2>5, <2>6
<1>4. CASE q.op = "dtoh"
  <2>1. o \in OpDtoH(d, q.p, q.n)
    BY <1>4 DEF Exec
  <2>2. \/ o = Outcome(d, Refusal)
        \/ /\ Holds(d, q.p, q.n)
           /\ o = Outcome(d, [ok |-> TRUE, data |-> SubSeq(d.bufs[q.p], 1, q.n)])
    BY <2>1 DEF OpDtoH
  <2>3. QED
    BY <1>4, <2>2, OutcomeParts DEF Reads, Refuses
<1>5. CASE q.op = "add"
  <2>1. o \in OpVectorAdd(d, q.x, q.y, q.p, q.n)
    BY <1>5 DEF Exec
  <2> DEFINE v == [i \in 1..q.n |-> Plus(d.bufs[q.x][i], d.bufs[q.y][i])]
  <2>2. \/ o = Outcome(d, Refusal)
        \/ /\ \A h \in {q.x, q.y, q.p} : Holds(d, h, q.n)
           /\ o \in WriteBuf(d, q.p, v)
    BY <2>1 DEF OpVectorAdd
  <2>3. Written(d, q) = v
    BY <1>5 DEF Written
  <2> DEFINE e == Device([d.bufs EXCEPT ![q.p] = Over(d.bufs[q.p], v)],
                         d.used, d.next, d.cap)
  <2> HIDE DEF v
  <2>4. \/ o = Outcome(d, Refusal)
        \/ /\ \A h \in {q.x, q.y, q.p} : Holds(d, h, q.n)
           /\ o = Outcome(e, Fine)
    BY <2>2, Wrote
  <2>5. CASE o = Outcome(d, Refusal)
    BY <2>5, OutcomeParts DEF Refuses
  <2>6. CASE /\ \A h \in {q.x, q.y, q.p} : Holds(d, h, q.n)
             /\ o = Outcome(e, Fine)
    <3>1. o.res = Fine /\ o.dev = e
      BY <2>6, OutcomeParts
    <3>2. QED
      BY <1>5, <2>3, <2>6, <3>1 DEF Writes
  <2>7. QED
    BY <2>4, <2>5, <2>6
<1>6. CASE q.op = "sync"
  BY <1>6, OutcomeParts DEF Exec, Syncs, Refuses
<1>7. QED
  BY <1>1, <1>2, <1>3, <1>4, <1>5, <1>6, RequestParts

\* Elements of buffers.
Elements == 0..Vals - 1

LEMMA PlusType ==
  ASSUME NEW x \in Elements, NEW y \in Elements
  PROVE  Plus(x, y) \in Elements
  BY CudaAssumption DEF Elements, Plus

LEMMA ZerosType ==
  ASSUME NEW n \in Nat
  PROVE  Zeros(n) \in Seq(Elements) /\ Len(Zeros(n)) = n
<1>1. 0 \in Elements
  BY CudaAssumption DEF Elements
<1>2. QED
  BY <1>1 DEF Zeros

LEMMA OverType ==
  ASSUME NEW b \in Seq(Elements), NEW v \in Seq(Elements)
  PROVE  /\ Over(b, v) \in Seq(Elements)
         /\ Len(Over(b, v)) = Len(b)
<1>1. \A i \in 1..Len(b) :
          (IF i \in DOMAIN v THEN v[i] ELSE b[i]) \in Elements
  OBVIOUS
<1>2. Over(b, v) = [i \in 1..Len(b) |-> IF i \in DOMAIN v THEN v[i] ELSE b[i]]
  BY DEF Over
<1>3. QED
  BY <1>1, <1>2

LEMMA WrittenType ==
  ASSUME NEW d, IsTable(d), NEW P, NEW q \in RequestsOn(P), NEW o, Writes(d, q, o)
  PROVE  /\ q.p \in DOMAIN d.bufs /\ d.bufs[q.p] \in Seq(Elements)
         /\ Written(d, q) \in Seq(Elements)
         /\ Len(Written(d, q)) <= Len(d.bufs[q.p])
<1>1. CASE q.op = "htod"
  <2>1. Holds(d, q.p, Len(q.data)) /\ q.data \in Seq(Elements)
    BY <1>1, RequestParts, CudaAssumption DEF Writes, Elements
  <2>2. QED
    BY <1>1, <2>1 DEF Written, Holds, IsTable, Elements
<1>2. CASE q.op = "add"
  <2> DEFINE x == d.bufs[q.x]  y == d.bufs[q.y]
  <2>1. /\ q.p \in DOMAIN d.bufs /\ q.n <= Len(d.bufs[q.p])
        /\ q.n <= Len(x) /\ q.n <= Len(y)
        /\ x \in Seq(Elements) /\ y \in Seq(Elements)
        /\ d.bufs[q.p] \in Seq(Elements)
    BY <1>2 DEF Writes, Holds, IsTable, Elements
  <2>2. q.n \in Nat
    BY <1>2, RequestParts, CudaAssumption
  <2>3. Written(d, q) = [i \in 1..q.n |-> Plus(x[i], y[i])]
    BY <1>2 DEF Written
  <2> HIDE DEF x, y
  <2>4. \A i \in 1..q.n : Plus(x[i], y[i]) \in Elements
    <3>1. \A i \in 1..q.n : x[i] \in Elements /\ y[i] \in Elements
      BY <2>1, <2>2
    <3>2. QED
      BY <3>1, PlusType
  <2>5. /\ Written(d, q) \in Seq(Elements)
        /\ Len(Written(d, q)) = q.n
    BY <2>2, <2>3, <2>4
  <2>6. QED
    BY <2>1, <2>5
<1>3. QED
  BY <1>1, <1>2 DEF Writes

LEMMA BeyondType ==
  ASSUME NEW d, d.next \in Nat, NEW n \in Nat
  PROVE  /\ Beyond(d, n) \in Nat
         /\ d.next + n < Beyond(d, n) /\ d.next < Beyond(d, n)
<1> DEFINE m == d.next
<1> HIDE DEF m
<1>1. m \in Nat
  BY DEF m
<1>2. /\ m + Greatest(n, Align) + Align \in Nat
      /\ m + n < m + Greatest(n, Align) + Align
      /\ m < m + Greatest(n, Align) + Align
  BY <1>1, CudaAssumption DEF Greatest
<1>3. QED
  BY <1>2 DEF Beyond, m

\* An operation makes a table of a table, and adds a buffer only under the next
\* handle.
LEMMA TableKept ==
  ASSUME NEW d, IsTable(d), NEW P, NEW q \in RequestsOn(P), NEW o \in Exec(d, q)
  PROVE  /\ IsTable(o.dev) /\ o.res \in Results
         /\ \/ /\ Allocates(d, q, o)
               /\ DOMAIN o.dev.bufs = DOMAIN d.bufs \cup {d.next}
            \/ /\ q.op = "malloc" => o.res = Refusal
               /\ DOMAIN o.dev.bufs \subseteq DOMAIN d.bufs
<1>0. IsDevice(d) /\ d.used \in Nat /\ d.next \in Nat /\ d.cap \in Nat
      /\ \A p \in DOMAIN d.bufs : p \in Nat /\ d.bufs[p] \in Seq(Elements)
  BY DEF IsTable, Elements
<1>1. CASE Refuses(d, q, o)
  <2>1. CASE o.dev = d
    BY <1>1, <2>1 DEF Refuses, Results
  <2>2. CASE /\ q.op = "malloc" /\ CheckAlloc(d, q.n)
             /\ o.dev = Device(d.bufs, d.used, Beyond(d, q.n), d.cap)
    <3>0. q.n \in Nat
      BY <2>2, RequestParts, CudaAssumption
    <3>1. Beyond(d, q.n) \in Nat
      BY <1>0, <3>0, BeyondType
    <3>2. QED
      BY <1>0, <1>1, <2>2, <3>1, DeviceParts DEF Refuses, Results, IsTable, Elements
  <2>3. QED
    BY <1>1, <2>1, <2>2 DEF Refuses
<1>2. CASE Allocates(d, q, o)
  <2>0. q.n \in Nat
    BY <1>2, RequestParts, CudaAssumption DEF Allocates
  <2>1. Beyond(d, q.n) \in Nat /\ q.n \in Nat
    BY <1>0, <2>0, BeyondType
  <2> DEFINE b == [h \in DOMAIN d.bufs \cup {d.next} |->
                      IF h = d.next THEN Zeros(q.n) ELSE d.bufs[h]]
  <2>2. \A p \in DOMAIN b : p \in Nat /\ b[p] \in Seq(Elements)
    BY <1>0, <2>1, ZerosType
  <2>3. DOMAIN b = DOMAIN d.bufs \cup {d.next}
    OBVIOUS
  <2>4. o.dev = Device(b, d.used + q.n, Beyond(d, q.n), d.cap)
    BY <1>2 DEF Allocates
  <2> HIDE DEF b
  <2>5. IsTable(o.dev)
    BY <1>0, <2>1, <2>2, <2>4, DeviceParts DEF IsTable, Elements
  <2>6. o.res \in Results
    BY <1>0, <1>2 DEF Allocates, Results
  <2>7. QED
    BY <1>2, <2>3, <2>4, <2>5, <2>6, DeviceParts
<1>3. CASE Frees(d, q, o)
  <2> DEFINE b == [h \in DOMAIN d.bufs \ {q.p} |-> d.bufs[h]]
             k == Len(d.bufs[q.p])
  <2>1. Greatest(0, d.used - k) \in Nat
    <3>1. k \in Nat
      BY <1>0, <1>3 DEF Frees
    <3> HIDE DEF k
    <3>2. QED
      BY <1>0, <3>1 DEF Greatest
  <2>2. \A p \in DOMAIN b : p \in Nat /\ b[p] \in Seq(Elements)
    BY <1>0
  <2>3. DOMAIN b \subseteq DOMAIN d.bufs
    OBVIOUS
  <2>4. o.dev = Device(b, Greatest(0, d.used - k), d.next, d.cap)
    BY <1>3 DEF Frees
  <2> HIDE DEF b, k
  <2>5. IsTable(o.dev)
    BY <1>0, <2>1, <2>2, <2>4, DeviceParts DEF IsTable, Elements
  <2>6. q.op # "malloc" /\ o.res \in Results
    BY <1>3 DEF Frees, Results
  <2>7. QED
    BY <2>3, <2>4, <2>5, <2>6, DeviceParts
<1>4. CASE Writes(d, q, o)
  <2> DEFINE v == Over(d.bufs[q.p], Written(d, q))
             b == [d.bufs EXCEPT ![q.p] = v]
  <2>1. v \in Seq(Elements)
    BY <1>4, WrittenType, OverType
  <2>2. o.dev = Device(b, d.used, d.next, d.cap)
    BY <1>4 DEF Writes
  <2> HIDE DEF v
  <2>3. DOMAIN b = DOMAIN d.bufs
        /\ \A p \in DOMAIN b : p \in Nat /\ b[p] \in Seq(Elements)
    BY <1>0, <2>1
  <2> HIDE DEF b
  <2>4. IsTable(o.dev)
    BY <1>0, <2>2, <2>3, DeviceParts DEF IsTable, Elements
  <2>5. q.op # "malloc" /\ o.res \in Results
    BY <1>4 DEF Writes, Results
  <2>6. QED
    BY <2>2, <2>3, <2>4, <2>5, DeviceParts
<1>5. CASE Reads(d, q, o)
  <2>1. d.bufs[q.p] \in Seq(Elements) /\ q.n \in Nat /\ q.n <= Len(d.bufs[q.p])
    BY <1>0, <1>5, RequestParts, CudaAssumption DEF Reads, Holds
  <2>2. SubSeq(d.bufs[q.p], 1, q.n) \in Seq(Elements)
    BY <2>1
  <2>3. o.res \in Results
    BY <1>5, <2>2 DEF Reads, Results, Elements
  <2>4. QED
    BY <1>5, <2>3 DEF Reads
<1>6. CASE Syncs(d, q, o)
  BY <1>6 DEF Syncs, Results
<1>7. QED
  BY <1>0, <1>1, <1>2, <1>3, <1>4, <1>5, <1>6, Outcomes

\* The next handle only grows, the allowance stays.
LEMMA NextKept ==
  ASSUME NEW d, IsTable(d), NEW P, NEW q \in RequestsOn(P), NEW o \in Exec(d, q)
  PROVE  /\ o.dev.cap = d.cap
         /\ \/ o.dev.next = d.next /\ ~Allocates(d, q, o)
            \/ /\ q.op = "malloc" /\ q.n \in Nat /\ CheckAlloc(d, q.n)
               /\ o.dev.next = Beyond(d, q.n)
               /\ d.next + q.n < o.dev.next /\ d.next < o.dev.next
<1>1. IsDevice(d) /\ d.next \in Nat
  BY DEF IsTable
<1>2. q.op = "malloc" => q.n \in Nat
  BY RequestParts, CudaAssumption
<1>3. /\ o.dev.cap = d.cap
      /\ \/ o.dev.next = d.next /\ ~Allocates(d, q, o)
         \/ /\ q.op = "malloc" /\ CheckAlloc(d, q.n)
            /\ o.dev.next = Beyond(d, q.n)
  <2>1. CASE Refuses(d, q, o)
    <3>1. o.res = Refusal
      BY <2>1 DEF Refuses
    <3>2. ~Allocates(d, q, o)
      BY <3>1 DEF Allocates, Refusal
    <3>3. QED
      BY <2>1, <3>2, DeviceParts DEF Refuses
  <2>2. CASE Allocates(d, q, o)
    BY <2>2, DeviceParts DEF Allocates
  <2>3. CASE Frees(d, q, o)
    BY <2>3, DeviceParts DEF Frees, Allocates
  <2>4. CASE Writes(d, q, o)
    BY <2>4, DeviceParts DEF Writes, Allocates
  <2>5. CASE Reads(d, q, o) \/ Syncs(d, q, o)
    BY <2>5 DEF Reads, Syncs, Allocates
  <2>6. QED
    BY <1>1, <2>1, <2>2, <2>3, <2>4, <2>5, Outcomes
<1>4. QED
  BY <1>1, <1>2, <1>3, BeyondType

-------------------------------------------------------------------------------
(* Types, and whose turn it is.                                            *)

\* The table; before a session there is nothing in it; handles are fresh.
DeviceInv ==
    /\ IsDevice(dev)
    /\ session = "none" => dev = Backend /\ DOMAIN owner = {}
    /\ \A p \in DOMAIN owner : p < dev.next

\* r may be the answer to what a asked: a handle in it is one of a's.
Settles(a, r) ==
    /\ r \in Results
    /\ call[a].op = "malloc" /\ r.ok =>
          r.ptr \in DOMAIN owner /\ owner[r.ptr] = a

\* The id of the operation that was sent last.
Newest(i) == i \in 0..OpIds - 1 /\ (i + 1) % OpIds = nextOp

\* The operation of a is on its way to the provider, and nothing else.
OnItsWay(a) ==
    /\ toClient = <<>>
    /\ conn = "up" => \E i \in 0..OpIds - 1 :
          Newest(i) /\ toHost = <<[id |-> i, app |-> a, req |-> call[a]]>>

\* Its result is on its way back, and nothing else.
OnItsWayBack(a) ==
    /\ conn = "up" => toHost = <<>>
    /\ toClient # <<>> /\ Settles(a, Head(toClient).res)
    /\ \E i \in 0..OpIds - 1 :
          Newest(i) /\ toClient = <<[id |-> i, res |-> Head(toClient).res]>>

\* One operation at a time, that of the program that holds the mutex.
TurnInv ==
    /\ holder = {} => toClient = <<>> /\ (conn = "up" => toHost = <<>>)
    /\ \A a \in holder : OnItsWay(a) \/ OnItsWayBack(a)
    /\ \A a \in Apps : stage[a] = "answered" => Settles(a, ans[a])

TypeInv == TypeOK /\ DeviceInv /\ TurnInv

\* The provider does o for a, whose operation has the id i.
Executes(a, i, o) ==
    /\ conn = "up" /\ holder = {a} /\ toClient = <<>> /\ toHost' = <<>>
    /\ Newest(i)
    /\ IF session = "open" THEN o \in Exec(dev, call[a])
                           ELSE o = Outcome(dev, Refusal)
    /\ dev' = o.dev
    /\ toClient' = <<[id |-> i, res |-> o.res]>>
    /\ owner' = [p \in DOMAIN owner \cup (DOMAIN o.dev.bufs \ DOMAIN dev.bufs)
                    |-> IF p \in DOMAIN owner THEN owner[p] ELSE a]
    /\ UNCHANGED <<conn, session, apps, client>>

LEMMA TypeOKTable == TypeOK /\ DeviceInv => IsTable(dev)
  BY DEF TypeOK, DeviceInv, IsTable

LEMMA CallIsRequest ==
  ASSUME TypeOK, NEW a \in Apps
  PROVE  /\ call[a] \in RequestsOn(known[a])
         /\ known[a] \subseteq {p \in DOMAIN owner : owner[p] = a}
  BY DEF TypeOK

\* The connection goes, by itself or because an answer is too long to be sent.
Lost == ConnDrop \/ AnswerTooLong

LEMMA LostParts ==
  ASSUME Lost
  PROVE  /\ conn = "up" /\ conn' = "down"
         /\ UNCHANGED <<session, dev, owner, link, stage, call, ans, known, holder,
                        nextOp, toClient>>
  BY DEF Lost, ConnDrop, AnswerTooLong, host, apps, client

\* What the provider takes from the connection is what the holder asked for.
LEMMA HandlesTheHolder ==
  ASSUME TypeInv, HandleCudaOp
  PROVE  \E a, i, o : a \in Apps /\ Executes(a, i, o)
<1>1. conn = "up" /\ toHost # <<>>
  BY DEF HandleCudaOp
<1>2. PICK a \in holder : OnItsWay(a)
  BY <1>1 DEF TypeInv, TurnInv, OnItsWayBack
<1>3. holder = {a} /\ a \in Apps
  BY <1>2 DEF TypeInv, TypeOK
<1>4. PICK i \in 0..OpIds - 1 :
          Newest(i) /\ toHost = <<[id |-> i, app |-> a, req |-> call[a]]>>
  BY <1>1, <1>2 DEF OnItsWay
<1> DEFINE m == [id |-> i, app |-> a, req |-> call[a]]
<1>5. Head(toHost) = m /\ Tail(toHost) = <<>>
  BY <1>4
<1>6. m.id = i /\ m.app = a /\ m.req = call[a]
  OBVIOUS
<1> HIDE DEF m
<1>7. PICK o \in IF session = "open" THEN Exec(dev, call[a]) ELSE Refused(dev) :
        /\ dev' = o.dev
        /\ toClient' = Append(toClient, [id |-> i, res |-> o.res])
        /\ owner' = [p \in DOMAIN owner \cup (DOMAIN o.dev.bufs \ DOMAIN dev.bufs)
                        |-> IF p \in DOMAIN owner THEN owner[p] ELSE a]
  BY <1>5, <1>6 DEF HandleCudaOp
<1>8. toClient = <<>> /\ toHost' = <<>>
      /\ UNCHANGED <<conn, session, apps, client>>
  BY <1>2, <1>5 DEF HandleCudaOp, OnItsWay
<1>9. toClient' = <<[id |-> i, res |-> o.res]>>
  BY <1>7, <1>8
<1>10. IF session = "open" THEN o \in Exec(dev, call[a])
                           ELSE o = Outcome(dev, Refusal)
  BY <1>7 DEF Refused
<1>11. Executes(a, i, o)
  BY <1>1, <1>3, <1>4, <1>7, <1>8, <1>9, <1>10 DEF Executes
<1>12. QED
  BY <1>3, <1>11

\* What that does to the table and to who owns what.
LEMMA Executed ==
  ASSUME TypeInv, NEW a \in Apps, NEW i, NEW o, Executes(a, i, o)
  PROVE  /\ IsTable(dev') /\ o.res \in Results /\ dev'.cap = dev.cap
         /\ \/ /\ session = "open" /\ Allocates(dev, call[a], o)
               /\ dev.next \notin DOMAIN owner
               /\ DOMAIN owner' = DOMAIN owner \cup {dev.next}
               /\ owner'[dev.next] = a
               /\ DOMAIN dev'.bufs = DOMAIN dev.bufs \cup {dev.next}
            \/ /\ call[a].op = "malloc" => o.res = Refusal
               /\ DOMAIN owner' = DOMAIN owner
               /\ DOMAIN dev'.bufs \subseteq DOMAIN dev.bufs
         /\ \A p \in DOMAIN owner : owner'[p] = owner[p]
         /\ \A p \in DOMAIN owner' : p < dev'.next
<1>1. /\ IsTable(dev) /\ dev.next \in Nat /\ call[a] \in RequestsOn(known[a])
      /\ DOMAIN dev.bufs \subseteq DOMAIN owner
      /\ \A p \in DOMAIN owner : p \in Nat /\ p < dev.next
  BY TypeOKTable, CallIsRequest DEF TypeInv, DeviceInv, TypeOK
<1>2. /\ dev' = o.dev
      /\ DOMAIN owner' = DOMAIN owner \cup (DOMAIN dev'.bufs \ DOMAIN dev.bufs)
      /\ \A p \in DOMAIN owner' :
            owner'[p] = IF p \in DOMAIN owner THEN owner[p] ELSE a
  BY DEF Executes
<1>3. CASE session = "open"
  <2>1. o \in Exec(dev, call[a])
    BY <1>3 DEF Executes
  <2>2. /\ IsTable(dev') /\ o.res \in Results /\ dev'.cap = dev.cap
        /\ dev'.next \in Nat /\ dev.next <= dev'.next
    BY <1>1, <1>2, <2>1, TableKept, NextKept DEF IsTable
  <2>3. CASE Allocates(dev, call[a], o) /\ DOMAIN o.dev.bufs = DOMAIN dev.bufs \cup {dev.next}
    <3>1. dev.next < dev'.next
      BY <1>1, <1>2, <2>1, <2>3, NextKept
    <3>2. dev.next \notin DOMAIN owner
      BY <1>1
    <3>3. DOMAIN owner' = DOMAIN owner \cup {dev.next}
      BY <1>1, <1>2, <2>3, <3>2
    <3>4. \A p \in DOMAIN owner' : p < dev'.next
      BY <1>1, <2>2, <3>1, <3>3
    <3>5. QED
      BY <1>2, <1>3, <2>2, <2>3, <3>2, <3>3, <3>4
  <2>4. CASE /\ call[a].op = "malloc" => o.res = Refusal
             /\ DOMAIN o.dev.bufs \subseteq DOMAIN dev.bufs
    <3>1. DOMAIN owner' = DOMAIN owner
      BY <1>2, <2>4
    <3>2. \A p \in DOMAIN owner' : p < dev'.next
      BY <1>1, <2>2, <3>1
    <3>3. QED
      BY <1>2, <2>2, <2>4, <3>1, <3>2
  <2>5. QED
    BY <1>1, <2>1, <2>3, <2>4, TableKept
<1>4. CASE session # "open"
  <2>1. dev' = dev /\ o.res = Refusal
    BY <1>2, <1>4, OutcomeParts DEF Executes
  <2>2. DOMAIN owner' = DOMAIN owner
    BY <1>2, <2>1
  <2>3. Refusal \in Results
    BY DEF Results
  <2>4. QED
    BY <1>1, <1>2, <2>1, <2>2, <2>3
<1>5. QED
  BY <1>3, <1>4

\* An answer stays one while nobody is asked for another or loses a handle.
LEMMA SettlesKept ==
  ASSUME NEW a \in Apps, NEW r, Settles(a, r), call'[a] = call[a],
         \A p \in DOMAIN owner : p \in DOMAIN owner' /\ owner'[p] = owner[p]
  PROVE  Settles(a, r)'
  BY DEF Settles

LEMMA RefusalSettles == \A a \in Apps : Settles(a, Refusal)
  BY DEF Settles, Refusal, Results

LEMMA TypeHandle == ASSUME TypeInv, HandleCudaOp PROVE TypeInv'
<1>1. PICK a, i, o : a \in Apps /\ Executes(a, i, o)
  BY HandlesTheHolder
<1>2. /\ conn = "up" /\ holder = {a} /\ Newest(i)
      /\ dev' = o.dev /\ toHost' = <<>> /\ toClient' = <<[id |-> i, res |-> o.res]>>
      /\ UNCHANGED <<conn, session, link, stage, call, ans, known, holder, nextOp>>
  BY <1>1 DEF Executes, apps, client
<1>3. /\ IsTable(dev') /\ o.res \in Results
      /\ \A p \in DOMAIN owner :
            p \in DOMAIN owner' /\ owner'[p] = owner[p]
      /\ DOMAIN dev'.bufs \subseteq DOMAIN owner'
      /\ \A p \in DOMAIN owner' : p \in Nat /\ owner'[p] \in Apps /\ p < dev'.next
  <2>1. /\ DOMAIN dev.bufs \subseteq DOMAIN owner /\ dev.next \in Nat
        /\ \A p \in DOMAIN owner : p \in Nat /\ owner[p] \in Apps
    BY DEF TypeInv, TypeOK
  <2>2. QED
    BY <1>1, <2>1, Executed
<1>4. TypeOK'
  <2>1. \A b \in Apps :
          known'[b] \subseteq {p \in DOMAIN owner' : owner'[p] = b}
    BY <1>2, <1>3 DEF TypeInv, TypeOK
  <2>2. \A b \in Apps : call'[b] \in RequestsOn(known'[b])
    BY <1>2 DEF TypeInv, TypeOK
  <2>3. QED
    BY <1>2, <1>3, <2>1, <2>2 DEF TypeInv, TypeOK, IsTable
<1>5. DeviceInv'
  <2>1. \/ session = "open"
        \/ dev' = dev /\ DOMAIN owner' = DOMAIN owner
    <3>1. session # "open" => dev' = dev
      BY <1>1, <1>2, OutcomeParts DEF Executes
    <3>2. session # "open" => DOMAIN owner' = DOMAIN owner
      BY <1>1, <1>2, <3>1 DEF Executes
    <3>3. QED
      BY <3>1, <3>2
  <2>2. QED
    BY <1>2, <1>3, <2>1 DEF TypeInv, DeviceInv, IsTable
<1>6. Settles(a, o.res)'
  <2>1. call[a].op = "malloc" /\ o.res.ok =>
            o.res.ptr \in DOMAIN owner' /\ owner'[o.res.ptr] = a
    <3>1. Allocates(dev, call[a], o) => o.res.ptr = dev.next
      BY DEF Allocates
    <3>2. ~Refusal.ok
      BY DEF Refusal
    <3>3. QED
      BY <1>1, <3>1, <3>2, Executed
  <2>2. QED
    BY <1>2, <1>3, <2>1 DEF Settles
<1>7. TurnInv'
  <2>1. toClient' # <<>> /\ Head(toClient') = [id |-> i, res |-> o.res]
    BY <1>2
  <2>2. Head(toClient').res = o.res
    BY <2>1
  <2>3. OnItsWayBack(a)'
    BY <1>2, <1>6, <2>1, <2>2 DEF OnItsWayBack, Newest
  <2>4. \A b \in Apps : stage'[b] = "answered" => Settles(b, ans[b])'
    <3> SUFFICES ASSUME NEW b \in Apps, stage'[b] = "answered"
                 PROVE  Settles(b, ans[b])'
      OBVIOUS
    <3>1. Settles(b, ans[b]) /\ ans'[b] = ans[b] /\ call'[b] = call[b]
      BY <1>2 DEF TypeInv, TurnInv
    <3>2. QED
      BY <1>3, <3>1 DEF Settles
  <2>5. QED
    BY <1>2, <2>3, <2>4 DEF TurnInv
<1>8. QED
  BY <1>4, <1>5, <1>7 DEF TypeInv

LEMMA TypeHost ==
  ASSUME TypeInv, OpenSession \/ SessionEnds \/ Lost
  PROVE  TypeInv'
<1>1. CASE OpenSession
  <2>1. UNCHANGED <<conn, owner, link, stage, call, ans, known, holder, nextOp,
                    toHost, toClient>>
        /\ session = "none" /\ session' \in {"open", "rejected"}
    BY <1>1 DEF OpenSession, apps, client
  <2>2. IsTable(dev') /\ DOMAIN dev'.bufs = {}
    <3>1. Backend = Device(<<>>, 0, FirstPtr, 0)
      BY DEF Backend, Device
    <3>2. IsDevice(Backend)
      BY <3>1, DeviceParts
    <3>3. dev' = Backend \/ \E c \in Nat : dev' = Device(<<>>, 0, FirstPtr, c)
      <4>1. CASE dev' = dev
        BY <2>1, <4>1 DEF TypeInv, DeviceInv
      <4>2. ASSUME NEW mb \in Caps,
                   dev' = [Backend EXCEPT !.cap = Least(Greatest(mb, 1), HardCap)]
            PROVE  \E c \in Nat : dev' = Device(<<>>, 0, FirstPtr, c)
        <5> DEFINE c == Least(Greatest(mb, 1), HardCap)
        <5>1. c \in Nat
          BY CudaAssumption DEF Least, Greatest
        <5> HIDE DEF c
        <5>2. [Device(<<>>, 0, FirstPtr, 0) EXCEPT !.cap = c]
                  = Device(<<>>, 0, FirstPtr, c)
          BY DEF Device
        <5>3. dev' = [Backend EXCEPT !.cap = c]
          BY <4>2 DEF c
        <5>4. QED
          BY <3>1, <5>1, <5>2, <5>3
      <4>3. QED
        BY <1>1, <4>1, <4>2 DEF OpenSession
    <3>4. FirstPtr \in Nat /\ DOMAIN <<>> = {}
      BY CudaAssumption DEF FirstPtr
    <3>5. QED
      BY <3>1, <3>3, <3>4, DeviceParts DEF IsTable
  <2>3. DOMAIN owner = {}
    BY <2>1 DEF TypeInv, DeviceInv
  <2>4. TypeOK'
    BY <2>1, <2>2, <2>3 DEF TypeInv, TypeOK, IsTable
  <2>5. DeviceInv'
    BY <2>1, <2>2, <2>3 DEF DeviceInv, IsTable
  <2>6. TurnInv'
    BY <2>1 DEF TypeInv, TurnInv, OnItsWay, OnItsWayBack, Newest, Settles
  <2>7. QED
    BY <2>4, <2>5, <2>6 DEF TypeInv
<1>2. CASE SessionEnds
  <2>1. UNCHANGED <<conn, owner, link, stage, call, ans, known, holder, nextOp,
                    toClient>>
        /\ conn = "down" /\ session' = "closed" /\ toHost' = <<>>
    BY <1>2 DEF SessionEnds, apps, client
  <2>2. dev' = Device(<<>>, 0, dev.next, dev.cap)
    BY <1>2, Edited DEF SessionEnds, TypeInv, DeviceInv
  <2>3. /\ IsDevice(dev') /\ dev'.used = 0 /\ dev'.next = dev.next
        /\ dev'.cap = dev.cap /\ DOMAIN dev'.bufs = {}
    BY <2>2, DeviceParts
  <2>4. TypeOK'
    BY <2>1, <2>3 DEF TypeInv, TypeOK
  <2>5. DeviceInv'
    BY <2>1, <2>3 DEF TypeInv, DeviceInv
  <2>6. TurnInv'
    BY <2>1 DEF TypeInv, TurnInv, OnItsWay, OnItsWayBack, Newest, Settles
  <2>7. QED
    BY <2>4, <2>5, <2>6 DEF TypeInv
<1>3. CASE Lost
  <2>1. UNCHANGED <<session, dev, owner, link, stage, call, ans, known, holder,
                    nextOp, toClient>>
        /\ conn' = "down"
    BY <1>3, LostParts
  <2>2. TypeOK'
    BY <2>1 DEF TypeInv, TypeOK
  <2>3. DeviceInv'
    BY <2>1 DEF TypeInv, DeviceInv
  <2>4. TurnInv'
    BY <2>1 DEF TypeInv, TurnInv, OnItsWay, OnItsWayBack, Newest, Settles
  <2>5. QED
    BY <2>2, <2>3, <2>4 DEF TypeInv
<1>4. QED
  BY <1>1, <1>2, <1>3

\* What Ask does to the program that asks.
LEMMA Asked ==
  ASSUME TypeInv, NEW a \in Apps, Ask(a)
  PROVE  /\ stage[a] = "idle" /\ link[a] = "ok"
         /\ UNCHANGED <<conn, session, dev, owner, ans, known, holder, nextOp,
                        toHost, toClient>>
         /\ \/ \E q \in RequestsOn(known[a]) :
                  /\ call' = [call EXCEPT ![a] = q]
                  /\ stage' = [stage EXCEPT ![a] = "asked"]
                  /\ q.op = "malloc" => dev.next <= MaxPtr
                  /\ link' = link
            \/ link' = [link EXCEPT ![a] = "broken"] /\ UNCHANGED <<call, stage>>
  BY DEF Ask, host, client

LEMMA TypeAsk ==
  ASSUME TypeInv, NEW a \in Apps, Ask(a)
  PROVE  TypeInv'
<1>1. /\ stage[a] = "idle"
      /\ UNCHANGED <<conn, session, dev, owner, ans, known, holder, nextOp,
                     toHost, toClient>>
  BY Asked
<1>2. a \notin holder
  BY <1>1 DEF TypeInv, TypeOK
<1>3. /\ stage' \in [Apps -> {"idle", "asked", "waiting", "answered"}]
      /\ link' \in [Apps -> {"ok", "broken", "gone"}]
      /\ call' \in [Apps -> RequestsOn(Nat)] /\ call'[a] \in RequestsOn(known[a])
      /\ stage'[a] \in {"idle", "asked"}
      /\ \A b \in Apps \ {a} : call'[b] = call[b] /\ stage'[b] = stage[b]
  <2>1. CASE \E q \in RequestsOn(known[a]) :
                  /\ call' = [call EXCEPT ![a] = q]
                  /\ stage' = [stage EXCEPT ![a] = "asked"]
                  /\ link' = link
    <3>1. PICK q \in RequestsOn(known[a]) :
                  /\ call' = [call EXCEPT ![a] = q]
                  /\ stage' = [stage EXCEPT ![a] = "asked"]
                  /\ link' = link
      BY <2>1
    <3>2. q \in RequestsOn(Nat)
      BY RequestsGrow DEF TypeInv, TypeOK
    <3>3. QED
      BY <3>1, <3>2 DEF TypeInv, TypeOK
  <2>2. CASE link' = [link EXCEPT ![a] = "broken"] /\ UNCHANGED <<call, stage>>
    BY <1>1, <2>2 DEF TypeInv, TypeOK
  <2>3. QED
    BY <2>1, <2>2, Asked
<1>4. TypeOK'
  BY <1>1, <1>2, <1>3 DEF TypeInv, TypeOK
<1>5. DeviceInv'
  BY <1>1 DEF TypeInv, DeviceInv
<1>6. TurnInv'
  <2>1. \A b \in holder : b \in Apps /\ call'[b] = call[b]
    BY <1>2, <1>3 DEF TypeInv, TypeOK
  <2>2. QED
    BY <1>1, <1>3, <2>1 DEF TypeInv, TurnInv, OnItsWay, OnItsWayBack, Newest, Settles
<1>7. QED
  BY <1>4, <1>5, <1>6 DEF TypeInv

LEMMA TypeReturn ==
  ASSUME TypeInv, NEW a \in Apps, Return(a)
  PROVE  TypeInv'
<1>1. /\ stage[a] = "answered" /\ stage' = [stage EXCEPT ![a] = "idle"]
      /\ call' = [call EXCEPT ![a] = NoCall]
      /\ ans' = [ans EXCEPT ![a] = Refusal]
      /\ UNCHANGED <<conn, session, dev, owner, holder, nextOp, toHost, toClient>>
  BY DEF Return, host, client
<1>2. a \notin holder
  BY <1>1 DEF TypeInv, TypeOK
<1>3. /\ link' \in [Apps -> {"ok", "broken", "gone"}]
      /\ UNCHANGED link
      /\ \A b \in Apps \ {a} : known'[b] = known[b]
      /\ \/ known'[a] = known[a]
         \/ /\ call[a].op = "malloc" /\ ans[a].ok
            /\ known'[a] = known[a] \cup {ans[a].ptr}
  <2>1. known \in [Apps -> SUBSET Nat]
        /\ link \in [Apps -> {"ok", "broken", "gone"}]
    BY DEF TypeInv, TypeOK
  <2>2. QED
    BY <1>1, <2>1 DEF Return
<1>4. known'[a] \subseteq {p \in DOMAIN owner : owner[p] = a}
  BY <1>1, <1>3 DEF TypeInv, TypeOK, TurnInv, Settles
<1>5. Refusal \in Results /\ \A P : NoCall \in RequestsOn(P)
  BY DEF Results, RequestsOn
<1>6. TypeOK'
  <2>0. known' \in [Apps -> SUBSET Nat] /\ call' \in [Apps -> RequestsOn(Nat)]
    <3>1. PICK S \in SUBSET Nat : known' = [known EXCEPT ![a] = S] \/ known' = known
      <4>1. ans[a].ptr \in Nat \/ ~(call[a].op = "malloc" /\ ans[a].ok)
        BY <1>1 DEF TypeInv, TypeOK, TurnInv, Settles
      <4>2. known[a] \subseteq Nat /\ known = [known EXCEPT ![a] = known[a]]
        BY DEF TypeInv, TypeOK
      <4> DEFINE S == IF link[a] = "ok" /\ call[a].op = "malloc" /\ ans[a].ok
                      THEN known[a] \cup {ans[a].ptr} ELSE known[a]
      <4>3. S \in SUBSET Nat
        BY <4>1, <4>2
      <4>4. known' = [known EXCEPT ![a] = S] \/ known' = known
        BY DEF Return
      <4>5. QED
        BY <4>3, <4>4
    <3>2. known' \in [Apps -> SUBSET Nat]
      <4>1. known \in [Apps -> SUBSET Nat]
        BY DEF TypeInv, TypeOK
      <4>2. [known EXCEPT ![a] = S] \in [Apps -> SUBSET Nat]
        BY <4>1
      <4>3. QED
        BY <3>1, <4>1, <4>2
    <3>3. QED
      BY <1>1, <1>5, <3>2 DEF TypeInv, TypeOK
  <2>1. \A b \in Apps : known'[b] \subseteq {p \in DOMAIN owner' : owner'[p] = b}
    BY <1>1, <1>3, <1>4 DEF TypeInv, TypeOK
  <2>2. \A b \in Apps : call'[b] \in RequestsOn(known'[b])
    BY <1>1, <1>3, <1>5 DEF TypeInv, TypeOK
  <2>3. ans' \in [Apps -> Results] /\ stage' \in [Apps -> {"idle", "asked", "waiting", "answered"}]
    BY <1>1, <1>5 DEF TypeInv, TypeOK
  <2>4. QED
    BY <1>1, <1>2, <1>3, <2>0, <2>1, <2>2, <2>3 DEF TypeInv, TypeOK
<1>7. DeviceInv'
  BY <1>1 DEF TypeInv, DeviceInv
<1>8. TurnInv'
  <2>1. \A b \in Apps \ {a} :
            call'[b] = call[b] /\ ans'[b] = ans[b] /\ stage'[b] = stage[b]
    BY <1>1 DEF TypeInv, TypeOK
  <2>2. holder \subseteq Apps \ {a} /\ stage'[a] = "idle"
    BY <1>1, <1>2 DEF TypeInv, TypeOK
  <2>3. QED
    BY <1>1, <2>1, <2>2
    DEF TypeInv, TurnInv, OnItsWay, OnItsWayBack, Newest, Settles
<1>9. QED
  BY <1>6, <1>7, <1>8 DEF TypeInv

LEMMA TypeExit ==
  ASSUME TypeInv, NEW a \in Apps, AppExit(a)
  PROVE  TypeInv'
<1>1. /\ UNCHANGED <<conn, session, dev, owner, stage, call, ans, known, holder,
                     nextOp, toHost, toClient>>
      /\ link' = [link EXCEPT ![a] = "gone"]
  BY DEF AppExit, host, client
<1>2. link' \in [Apps -> {"ok", "broken", "gone"}]
  BY <1>1 DEF TypeInv, TypeOK
<1>3. QED
  BY <1>1, <1>2
  DEF TypeInv, TypeOK, DeviceInv, TurnInv, OnItsWay, OnItsWayBack, Newest, Settles

\* An operation is sent on empty queues.
LEMMA Sent ==
  ASSUME TypeInv, NEW a \in Apps, CallProvider(a)
  PROVE  /\ stage[a] = "asked" /\ holder = {} /\ toClient = <<>>
         /\ nextOp' = (nextOp + 1) % OpIds
         /\ UNCHANGED <<conn, session, dev, owner, link, call, known, toClient>>
         /\ \/ /\ conn = "up" /\ holder' = {a} /\ ans' = ans
               /\ stage' = [stage EXCEPT ![a] = "waiting"]
               /\ toHost' = <<[id |-> nextOp, app |-> a, req |-> call[a]]>>
            \/ /\ holder' = {} /\ toHost' = toHost
               /\ ans' = [ans EXCEPT ![a] = Refusal]
               /\ stage' = [stage EXCEPT ![a] = "answered"]
<1>1. holder = {} /\ toClient = <<>> /\ (conn = "up" => toHost = <<>>)
  BY DEF CallProvider, TypeInv, TurnInv
<1>2. \A m : Append(<<>>, m) = <<m>>
  OBVIOUS
<1>3. QED
  BY <1>1, <1>2 DEF CallProvider, host

LEMMA TypeCall ==
  ASSUME TypeInv, NEW a \in Apps, CallProvider(a)
  PROVE  TypeInv'
<1>1. /\ stage[a] = "asked" /\ holder = {} /\ toClient = <<>>
      /\ nextOp' = (nextOp + 1) % OpIds
      /\ UNCHANGED <<conn, session, dev, owner, link, call, known, toClient>>
  BY Sent
<1>2. nextOp \in 0..OpIds - 1 /\ nextOp' \in 0..OpIds - 1
  BY <1>1, CudaAssumption DEF TypeInv, TypeOK
<1>3. \A b \in Apps : stage[b] # "waiting"
  BY <1>1 DEF TypeInv, TypeOK
<1>4. CASE /\ conn = "up" /\ holder' = {a} /\ ans' = ans
           /\ stage' = [stage EXCEPT ![a] = "waiting"]
           /\ toHost' = <<[id |-> nextOp, app |-> a, req |-> call[a]]>>
  <2>1. TypeOK'
    BY <1>1, <1>2, <1>3, <1>4 DEF TypeInv, TypeOK
  <2>3. OnItsWay(a)'
    <3>1. toHost' = <<[id |-> nextOp, app |-> a, req |-> call'[a]]>>
      BY <1>1, <1>4
    <3>2. (nextOp + 1) % OpIds = nextOp'
      BY <1>1
    <3>3. QED
      BY <1>1, <1>2, <3>1, <3>2 DEF OnItsWay, Newest
  <2>4. \A b \in Apps : stage'[b] = "answered" => stage[b] = "answered"
    BY <1>4 DEF TypeInv, TypeOK
  <2>5. TurnInv'
    BY <1>1, <1>4, <2>3, <2>4 DEF TypeInv, TurnInv, Settles
  <2>6. DeviceInv'
    BY <1>1 DEF TypeInv, DeviceInv
  <2>7. QED
    BY <2>1, <2>5, <2>6 DEF TypeInv
<1>5. CASE /\ holder' = {} /\ toHost' = toHost
           /\ ans' = [ans EXCEPT ![a] = Refusal]
           /\ stage' = [stage EXCEPT ![a] = "answered"]
  <2>1. Refusal \in Results /\ Settles(a, Refusal)
    BY RefusalSettles DEF Results
  <2>2. TypeOK'
    BY <1>1, <1>2, <1>3, <1>5, <2>1 DEF TypeInv, TypeOK
  <2>3. /\ \A b \in Apps : stage'[b] = "answered" /\ b # a => stage[b] = "answered"
        /\ \A b \in Apps \ {a} : ans'[b] = ans[b]
        /\ ans'[a] = Refusal
    BY <1>5 DEF TypeInv, TypeOK
  <2>4. TurnInv'
    BY <1>1, <1>5, <2>1, <2>3 DEF TypeInv, TurnInv, Settles
  <2>5. DeviceInv'
    BY <1>1 DEF TypeInv, DeviceInv
  <2>6. QED
    BY <2>2, <2>4, <2>5 DEF TypeInv
<1>6. QED
  BY <1>4, <1>5, Sent

\* The result that comes is the one that is waited for.
LEMMA Received ==
  ASSUME TypeInv, NEW a \in Apps, Receive(a) \/ ReceiveFails(a)
  PROVE  /\ holder = {a} /\ stage[a] = "waiting" /\ toClient' = <<>>
         /\ UNCHANGED <<conn, session, dev, owner, link, call, known, nextOp, toHost>>
         /\ conn = "up" => toHost = <<>>
         /\ \E r \in Results :
               /\ Answered(a, r) /\ Settles(a, r)
               /\ \/ conn = "down" /\ r = Refusal
                  \/ toClient # <<>> /\ r = Head(toClient).res
<1>1. holder = {a} /\ stage[a] = "waiting"
      /\ UNCHANGED <<conn, session, dev, owner, link, call, known, nextOp, toHost>>
  BY DEF Receive, ReceiveFails, TypeInv, TypeOK, host
<1>2. CASE Receive(a)
  <2>1. OnItsWayBack(a)
    BY <1>1, <1>2 DEF Receive, TypeInv, TurnInv, OnItsWay
  <2>2. PICK i \in 0..OpIds - 1 :
            Newest(i) /\ toClient = <<[id |-> i, res |-> Head(toClient).res]>>
    BY <2>1 DEF OnItsWayBack
  <2> DEFINE r == Head(toClient).res
  <2>3. Head(toClient).id = i /\ Tail(toClient) = <<>>
    <3> HIDE DEF r
    <3>1. toClient = <<[id |-> i, res |-> r]>>
      BY <2>2 DEF r
    <3>2. Head(toClient) = [id |-> i, res |-> r] /\ Tail(toClient) = <<>>
      BY <3>1
    <3>3. QED
      BY <3>2
  <2>4. Answered(a, r) /\ toClient' = <<>>
    BY <1>2, <2>2, <2>3 DEF Receive, Newest
  <2>5. Settles(a, r) /\ toClient # <<>> /\ (conn = "up" => toHost = <<>>)
    BY <2>1 DEF OnItsWayBack
  <2>6. QED
    BY <1>1, <2>4, <2>5 DEF Settles
<1>3. CASE ReceiveFails(a)
  BY <1>1, <1>3, RefusalSettles DEF ReceiveFails, Results
<1>4. QED
  BY <1>2, <1>3

LEMMA TypeReceive ==
  ASSUME TypeInv, NEW a \in Apps, Receive(a) \/ ReceiveFails(a)
  PROVE  TypeInv'
<1>1. /\ holder = {a} /\ stage[a] = "waiting" /\ toClient' = <<>>
      /\ UNCHANGED <<conn, session, dev, owner, link, call, known, nextOp, toHost>>
      /\ conn = "up" => toHost = <<>>
  BY Received
<1>2. PICK r \in Results : Answered(a, r) /\ Settles(a, r)
  BY Received
<1>3. /\ ans' = [ans EXCEPT ![a] = r] /\ holder' = {}
      /\ stage' = [stage EXCEPT ![a] = "answered"]
  BY <1>2 DEF Answered
<1>4. \A b \in Apps \ {a} : stage[b] # "waiting"
  BY <1>1 DEF TypeInv, TypeOK
<1>5. TypeOK'
  BY <1>1, <1>3, <1>4 DEF TypeInv, TypeOK
<1>6. /\ \A b \in Apps : stage'[b] = "answered" /\ b # a => stage[b] = "answered"
      /\ \A b \in Apps \ {a} : ans'[b] = ans[b]
      /\ ans'[a] = r
  BY <1>3 DEF TypeInv, TypeOK
<1>7. TurnInv'
  BY <1>1, <1>2, <1>3, <1>6 DEF TypeInv, TurnInv, Settles
<1>8. DeviceInv'
  BY <1>1 DEF TypeInv, DeviceInv
<1>9. QED
  BY <1>5, <1>7, <1>8 DEF TypeInv

LEMMA TypeInit == Init => TypeInv
<1> SUFFICES ASSUME Init PROVE TypeInv
  OBVIOUS
<1>1. /\ conn = "up" /\ session = "none" /\ dev = Backend /\ owner = <<>>
      /\ link = [a \in Apps |-> "ok"] /\ stage = [a \in Apps |-> "idle"]
      /\ call = [a \in Apps |-> NoCall] /\ ans = [a \in Apps |-> Refusal]
      /\ known = [a \in Apps |-> {}] /\ holder = {} /\ nextOp = 1 % OpIds
      /\ toHost = <<>> /\ toClient = <<>>
  BY DEF Init
<1>2. /\ IsDevice(Backend) /\ Backend.used = 0 /\ Backend.next = FirstPtr
      /\ Backend.cap = 0 /\ DOMAIN Backend.bufs = {}
  <2>1. Backend = Device(<<>>, 0, FirstPtr, 0) /\ DOMAIN <<>> = {}
    BY DEF Backend, Device
  <2>2. QED
    BY <2>1, DeviceParts
<1>3. FirstPtr \in Nat /\ 1 % OpIds \in 0..OpIds - 1
  BY CudaAssumption DEF FirstPtr
<1>4. Refusal \in Results /\ (\A P : NoCall \in RequestsOn(P)) /\ DOMAIN owner = {}
  BY <1>1 DEF Results, RequestsOn
<1>5. TypeOK
  BY <1>1, <1>2, <1>3, <1>4 DEF TypeOK
<1>6. DeviceInv /\ TurnInv
  BY <1>1, <1>2, <1>4 DEF DeviceInv, TurnInv
<1>7. QED
  BY <1>5, <1>6 DEF TypeInv

LEMMA TypeStep == TypeInv /\ [Next]_vars => TypeInv'
<1> SUFFICES ASSUME TypeInv, [Next]_vars PROVE TypeInv'
  OBVIOUS
<1>1. CASE UNCHANGED vars
  BY <1>1 DEF vars, host, apps, client, TypeInv, TypeOK, DeviceInv, TurnInv,
     OnItsWay, OnItsWayBack, Newest, Settles
<1>2. ASSUME NEW a \in Apps, AppStep(a)
      PROVE  TypeInv'
  BY <1>2, TypeAsk, TypeReturn, TypeExit DEF AppStep
<1>3. ASSUME NEW a \in Apps, BridgeStep(a)
      PROVE  TypeInv'
  BY <1>3, TypeCall, TypeReceive DEF BridgeStep
<1>4. CASE HostStep \/ ConnDrop
  BY <1>4, TypeHost, TypeHandle DEF HostStep, Lost
<1>5. QED
  BY <1>1, <1>2, <1>3, <1>4 DEF Next

LEMMA TypeInvariant == Spec => []TypeInv
  BY TypeInit, TypeStep, PTL DEF Spec

\* For any programs, sizes, limits and number of ids every variable keeps its
\* type: a program has been told only of handles that were made for it, the
\* holder of the mutex is the one program that waits.
THEOREM TypeCorrect == Spec => []TypeOK
<1>1. TypeInv => TypeOK
  BY DEF TypeInv
<1>2. QED
  BY <1>1, TypeInvariant, PTL

-------------------------------------------------------------------------------
(* The table: handles and lengths.                                         *)

\* Nothing but an operation of the holder, the beginning and the end of the
\* session touches the table.
LEMMA TableSteps ==
  ASSUME TypeInv, [Next]_vars
  PROVE  \/ UNCHANGED <<session, dev, owner>>
         \/ /\ session = "none" /\ session' # "none" /\ UNCHANGED <<conn, owner>>
            /\ DOMAIN owner = {} /\ dev.next = FirstPtr /\ dev'.next = FirstPtr
            /\ dev'.used = 0 /\ dev'.cap \in Nat /\ DOMAIN dev'.bufs = {}
         \/ /\ SessionEnds /\ dev'.next = dev.next /\ dev'.used = 0
            /\ dev'.cap = dev.cap /\ DOMAIN dev'.bufs = {}
         \/ /\ HandleCudaOp
            /\ \E a, i, o : a \in Apps /\ Executes(a, i, o)
<1>1. CASE UNCHANGED vars
  BY <1>1 DEF vars, host
<1>2. ASSUME NEW a \in Apps, AppStep(a) \/ BridgeStep(a)
      PROVE  UNCHANGED <<session, dev, owner>>
  BY <1>2 DEF AppStep, BridgeStep, Ask, Return, AppExit, CallProvider, Receive,
     ReceiveFails, host
<1>3. CASE Lost
  BY <1>3, LostParts
<1>4. CASE OpenSession
  <2>1. session = "none" /\ session' # "none" /\ UNCHANGED <<conn, owner>>
    BY <1>4 DEF OpenSession
  <2>2. Backend = Device(<<>>, 0, FirstPtr, 0) /\ DOMAIN <<>> = {}
    BY DEF Backend, Device
  <2>3. dev = Backend /\ DOMAIN owner = {}
    BY <2>1 DEF TypeInv, DeviceInv
  <2>4. \/ dev' = dev
        \/ \E c : dev' = [Backend EXCEPT !.cap = c]
    BY <1>4 DEF OpenSession
  <2>5. \A c : [Device(<<>>, 0, FirstPtr, 0) EXCEPT !.cap = c]
                  = Device(<<>>, 0, FirstPtr, c)
    BY DEF Device
  <2>6. \E c : dev' = Device(<<>>, 0, FirstPtr, c)
    BY <2>2, <2>3, <2>4, <2>5
  <2>7. dev'.cap \in Nat
    BY <1>4, TypeHost DEF TypeInv, TypeOK
  <2>8. QED
    BY <2>1, <2>2, <2>3, <2>6, <2>7, DeviceParts
<1>5. CASE SessionEnds
  <2>1. dev' = Device(<<>>, 0, dev.next, dev.cap)
    BY <1>5, Edited DEF SessionEnds, TypeInv, DeviceInv
  <2>2. DOMAIN <<>> = {}
    OBVIOUS
  <2>3. QED
    BY <1>5, <2>1, <2>2, DeviceParts
<1>6. CASE HandleCudaOp
  BY <1>6, HandlesTheHolder
<1>7. QED
  BY <1>1, <1>2, <1>3, <1>4, <1>5, <1>6 DEF Next, HostStep, Lost

\* An operation leaves every buffer its length, and gives a new one what was
\* asked for.
LEMMA LengthKept ==
  ASSUME NEW d, IsTable(d), NEW P, NEW q \in RequestsOn(P), NEW o \in Exec(d, q),
         NEW p \in DOMAIN o.dev.bufs
  PROVE  \/ p \in DOMAIN d.bufs /\ Len(o.dev.bufs[p]) = Len(d.bufs[p])
         \/ Allocates(d, q, o) /\ p = d.next /\ Len(o.dev.bufs[p]) = q.n
<1>1. IsDevice(d)
  BY DEF IsTable
<1>2. CASE Refuses(d, q, o)
  BY <1>2, DeviceParts DEF Refuses
<1>3. CASE Allocates(d, q, o)
  <2> DEFINE b == [h \in DOMAIN d.bufs \cup {d.next} |->
                      IF h = d.next THEN Zeros(q.n) ELSE d.bufs[h]]
  <2>1. o.dev.bufs = b
    BY <1>3, DeviceParts DEF Allocates
  <2>2. q.n \in Nat
    BY <1>3, RequestParts, CudaAssumption DEF Allocates
  <2>3. p \in DOMAIN d.bufs \cup {d.next}
    BY <2>1
  <2>4. b[p] = IF p = d.next THEN Zeros(q.n) ELSE d.bufs[p]
    BY <2>3
  <2>5. o.dev.bufs[p] = IF p = d.next THEN Zeros(q.n) ELSE d.bufs[p]
    BY <2>1, <2>4
  <2>6. QED
    BY <1>3, <2>2, <2>3, <2>5, ZerosType
<1>4. CASE Frees(d, q, o)
  <2>1. o.dev.bufs = [h \in DOMAIN d.bufs \ {q.p} |-> d.bufs[h]]
    BY <1>4, DeviceParts DEF Frees
  <2>2. QED
    BY <2>1
<1>5. CASE Writes(d, q, o)
  <2> DEFINE v == Over(d.bufs[q.p], Written(d, q))
  <2>1. Len(v) = Len(d.bufs[q.p])
    BY <1>5, WrittenType, OverType
  <2>2. o.dev.bufs = [d.bufs EXCEPT ![q.p] = v]
    BY <1>5, DeviceParts DEF Writes
  <2> HIDE DEF v
  <2>3. QED
    BY <2>1, <2>2
<1>6. CASE Reads(d, q, o) \/ Syncs(d, q, o)
  BY <1>6 DEF Reads, Syncs
<1>7. QED
  BY <1>1, <1>2, <1>3, <1>4, <1>5, <1>6, Outcomes

\* The same of a step of the provider.
LEMMA LengthStep ==
  ASSUME TypeInv, NEW a \in Apps, NEW i, NEW o, Executes(a, i, o),
         NEW p \in DOMAIN dev'.bufs
  PROVE  \/ p \in DOMAIN dev.bufs /\ Len(dev'.bufs[p]) = Len(dev.bufs[p])
         \/ /\ session = "open" /\ o \in Exec(dev, call[a])
            /\ Allocates(dev, call[a], o)
            /\ p = dev.next /\ Len(dev'.bufs[p]) = call[a].n
<1>1. /\ IsTable(dev) /\ call[a] \in RequestsOn(known[a]) /\ dev' = o.dev
  BY TypeOKTable, CallIsRequest DEF TypeInv, Executes
<1>2. CASE session = "open"
  <2>1. o \in Exec(dev, call[a])
    BY <1>2 DEF Executes
  <2>2. QED
    BY <1>1, <1>2, <2>1, LengthKept
<1>3. CASE session # "open"
  BY <1>1, <1>3, OutcomeParts DEF Executes
<1>4. QED
  BY <1>2, <1>3

\* Every handle that was given is below the next one, with all its elements.
OffsetInv ==
    /\ FirstPtr <= dev.next
    /\ \A p \in DOMAIN owner :
          /\ FirstPtr <= p
          /\ p \in DOMAIN dev.bufs => p + Len(dev.bufs[p]) < dev.next
    /\ OffsetsNameNothing

LEMMA OffsetExecutes ==
  ASSUME TypeInv, OffsetInv, NEW a \in Apps, NEW i, NEW o, Executes(a, i, o)
  PROVE  OffsetInv'
<1>1. /\ dev.next \in Nat /\ dev'.next \in Nat
      /\ \A p \in DOMAIN owner' : p < dev'.next
      /\ \A p \in DOMAIN owner : p \in Nat /\ p < dev.next
      /\ DOMAIN dev.bufs \subseteq DOMAIN owner
      /\ FirstPtr \in Nat
  BY Executed, CudaAssumption DEF TypeInv, TypeOK, DeviceInv, IsTable, FirstPtr
<1> DEFINE size == [p \in DOMAIN dev.bufs |-> Len(dev.bufs[p])]
           size1 == [p \in DOMAIN dev'.bufs |-> Len(dev'.bufs[p])]
<1>2. \A p \in DOMAIN dev.bufs : size[p] \in Nat
  BY DEF TypeInv, TypeOK
<1>3. CASE /\ session = "open" /\ Allocates(dev, call[a], o)
           /\ dev.next \notin DOMAIN owner
           /\ DOMAIN owner' = DOMAIN owner \cup {dev.next}
           /\ DOMAIN dev'.bufs = DOMAIN dev.bufs \cup {dev.next}
  <2> DEFINE n == call[a].n
  <2>1. dev.next + n < dev'.next /\ dev.next < dev'.next /\ n \in Nat
    <3>1. o \in Exec(dev, call[a]) /\ dev' = o.dev
      BY <1>3 DEF Executes
    <3>2. IsTable(dev) /\ call[a] \in RequestsOn(known[a])
      BY TypeOKTable, CallIsRequest DEF TypeInv
    <3>3. QED
      BY <1>3, <3>1, <3>2, NextKept
  <2>2. \A p \in DOMAIN dev'.bufs :
            \/ p \in DOMAIN dev.bufs /\ size1[p] = size[p]
            \/ p = dev.next /\ size1[p] = n
    BY LengthStep
  <2> HIDE DEF n
  <2>3. \A p \in DOMAIN owner' : FirstPtr <= p
    BY <1>3 DEF OffsetInv
  <2>4. \A p \in DOMAIN dev.bufs : p + size[p] < dev.next
    BY <1>1 DEF OffsetInv
  <2> HIDE DEF size, size1
  <2>5. \A p \in DOMAIN dev'.bufs : p + size1[p] < dev'.next
    BY <1>1, <1>2, <2>1, <2>2, <2>4
  <2>6. \A p, h \in DOMAIN owner' : p < h =>
            h < dev'.next /\ (p \in DOMAIN dev'.bufs => p + size1[p] < h)
    <3> SUFFICES ASSUME NEW p \in DOMAIN owner', NEW h \in DOMAIN owner', p < h
                 PROVE  h < dev'.next /\ (p \in DOMAIN dev'.bufs => p + size1[p] < h)
      OBVIOUS
    <3>1. p \in DOMAIN owner /\ p # dev.next
      BY <1>1, <1>3
    <3>2. p \in DOMAIN dev'.bufs => p \in DOMAIN dev.bufs /\ size1[p] = size[p]
      BY <2>2, <3>1
    <3>3. CASE h = dev.next
      BY <1>1, <2>4, <3>2, <3>3
    <3>4. CASE h \in DOMAIN owner
      <4>1. p \in DOMAIN dev.bufs => p + Len(dev.bufs[p]) < h
        BY <3>1, <3>4 DEF OffsetInv, OffsetsNameNothing
      <4>2. p \in DOMAIN dev.bufs => size[p] = Len(dev.bufs[p])
        BY DEF size
      <4>3. p \in DOMAIN dev.bufs => p + size[p] < h
        BY <4>1, <4>2
      <4>4. QED
        BY <1>1, <3>2, <4>3
    <3>5. QED
      BY <1>3, <3>3, <3>4
  <2>7. \A p \in DOMAIN dev'.bufs : size1[p] = Len(dev'.bufs[p])
    BY DEF size1
  <2>8. QED
    BY <1>1, <2>1, <2>3, <2>5, <2>6, <2>7 DEF OffsetInv, OffsetsNameNothing
<1>4. CASE DOMAIN owner' = DOMAIN owner /\ DOMAIN dev'.bufs \subseteq DOMAIN dev.bufs
  <2>1. dev.next <= dev'.next
    <3>1. CASE session = "open"
      <4>1. o \in Exec(dev, call[a]) /\ dev' = o.dev
        BY <3>1 DEF Executes
      <4>2. IsTable(dev) /\ call[a] \in RequestsOn(known[a])
        BY TypeOKTable, CallIsRequest DEF TypeInv
      <4>3. QED
        BY <1>1, <4>1, <4>2, NextKept
    <3>2. CASE session # "open"
      BY <1>1, <3>2, OutcomeParts DEF Executes
    <3>3. QED
      BY <3>1, <3>2
  <2>2. \A p \in DOMAIN dev'.bufs :
            p \in DOMAIN dev.bufs /\ Len(dev'.bufs[p]) = Len(dev.bufs[p])
    <3>1. dev.next \notin DOMAIN dev.bufs
      BY <1>1
    <3>2. QED
      BY <1>4, <3>1, LengthStep
  <2>3. \A p \in DOMAIN dev'.bufs : size1[p] = size[p] /\ size[p] = Len(dev.bufs[p])
    BY <2>2
  <2>4. \A p \in DOMAIN dev.bufs : p + size[p] < dev.next
    BY <1>1 DEF OffsetInv
  <2>5. \A p \in DOMAIN dev'.bufs : size1[p] = Len(dev'.bufs[p])
    OBVIOUS
  <2> HIDE DEF size, size1
  <2>6. \A p \in DOMAIN dev'.bufs : p + size1[p] < dev'.next
    BY <1>1, <1>2, <1>4, <2>1, <2>3, <2>4
  <2>7. \A p, h \in DOMAIN owner' : p < h =>
            h < dev'.next /\ (p \in DOMAIN dev'.bufs => p + size1[p] < h)
    <3>1. \A p, h \in DOMAIN owner : p < h =>
              (p \in DOMAIN dev.bufs => p + Len(dev.bufs[p]) < h)
      BY DEF OffsetInv, OffsetsNameNothing
    <3>2. QED
      BY <1>1, <1>4, <2>3, <3>1
  <2>8. QED
    BY <1>1, <1>4, <2>1, <2>5, <2>6, <2>7 DEF OffsetInv, OffsetsNameNothing
<1>5. QED
  BY <1>3, <1>4, Executed

LEMMA OffsetStep == TypeInv /\ OffsetInv /\ [Next]_vars => OffsetInv'
<1> SUFFICES ASSUME TypeInv, OffsetInv, [Next]_vars PROVE OffsetInv'
  OBVIOUS
<1>1. CASE UNCHANGED <<dev, owner>>
  BY <1>1 DEF OffsetInv, OffsetsNameNothing
<1>2. CASE DOMAIN dev'.bufs = {} /\ dev'.next = dev.next /\ UNCHANGED owner
  BY <1>2 DEF OffsetInv, OffsetsNameNothing
<1>3. ASSUME NEW a \in Apps, NEW i, NEW o, Executes(a, i, o)
      PROVE  OffsetInv'
  BY <1>3, OffsetExecutes
<1>4. SessionEnds => UNCHANGED owner
  BY DEF SessionEnds
<1>5. QED
  BY <1>1, <1>2, <1>3, <1>4, TableSteps

\* For any sizes, limits and series of allocations, frees and errors: a pointer
\* into a buffer, or one past it, is never the handle of another buffer
\* (cuda_backend.rs:236-240).
THEOREM OffsetsNameNothingHolds == Spec => []OffsetsNameNothing
<1>1. Init => OffsetInv
  <2>1. Init => dev.next = FirstPtr /\ DOMAIN owner = {}
    BY DEF Init, Backend
  <2>2. FirstPtr \in Nat
    BY CudaAssumption DEF FirstPtr
  <2>3. QED
    BY <2>1, <2>2 DEF OffsetInv, OffsetsNameNothing
<1>2. OffsetInv => OffsetsNameNothing
  BY DEF OffsetInv
<1>3. QED
  BY <1>1, <1>2, OffsetStep, TypeInvariant, PTL DEF Spec

-------------------------------------------------------------------------------
(* Who can free a buffer.                                                  *)

\* The handle p is known to its owner, or on its way there.
Told(p) ==
    LET a == owner[p] IN
    \/ p \in known[a]
    \/ /\ stage[a] = "answered" /\ call[a].op = "malloc"
       /\ ans[a].ok /\ ans[a].ptr = p
    \/ /\ stage[a] = "waiting" /\ call[a].op = "malloc" /\ toClient # <<>>
       /\ Head(toClient).res.ok /\ Head(toClient).res.ptr = p

ToldInv ==
    \A p \in DOMAIN dev.bufs : conn = "up" /\ link[owner[p]] = "ok" => Told(p)

LEMMA ToldHost ==
  ASSUME TypeInv, ToldInv, HandleCudaOp
  PROVE  ToldInv'
<1>1. PICK a, i, o : a \in Apps /\ Executes(a, i, o)
  BY HandlesTheHolder
<1>2. /\ conn = "up" /\ toClient = <<>> /\ holder = {a} /\ dev' = o.dev
      /\ toClient' = <<[id |-> i, res |-> o.res]>>
      /\ UNCHANGED <<conn, link, stage, call, ans, known>>
  BY <1>1 DEF Executes, apps
<1>3. toClient' # <<>> /\ Head(toClient').res = o.res
  <2>1. Head(toClient') = [id |-> i, res |-> o.res] /\ toClient' # <<>>
    BY <1>2
  <2>2. QED
    BY <2>1
<1>4. SUFFICES ASSUME NEW p \in DOMAIN dev'.bufs, link[owner'[p]] = "ok"
               PROVE  Told(p)'
  BY <1>2 DEF ToldInv
<1>5. DOMAIN dev.bufs \subseteq DOMAIN owner /\ stage[a] = "waiting"
  BY <1>2 DEF TypeInv, TypeOK
<1>6. CASE p \in DOMAIN dev.bufs
  <2>1. owner'[p] = owner[p]
    BY <1>1, <1>5, <1>6, Executed
  <2>2. Told(p)
    BY <1>2, <1>4, <1>6, <2>1 DEF ToldInv
  <2>3. QED
    BY <1>2, <2>1, <2>2 DEF Told
<1>7. CASE p \notin DOMAIN dev.bufs
  <2>1. /\ Allocates(dev, call[a], o) /\ p = dev.next /\ owner'[p] = a
    BY <1>1, <1>7, Executed
  <2>2. o.res.ok /\ o.res.ptr = p /\ call[a].op = "malloc"
    BY <2>1 DEF Allocates
  <2>3. QED
    BY <1>2, <1>3, <1>5, <2>1, <2>2 DEF Told
<1>8. QED
  BY <1>6, <1>7

LEMMA ToldApp ==
  ASSUME TypeInv, ToldInv, NEW a \in Apps, AppStep(a) \/ BridgeStep(a)
  PROVE  ToldInv'
<1>1. UNCHANGED <<conn, dev, owner>>
  BY DEF AppStep, BridgeStep, Ask, Return, AppExit, CallProvider, Receive,
     ReceiveFails, host
<1>2. SUFFICES ASSUME NEW p \in DOMAIN dev.bufs, conn = "up", link'[owner[p]] = "ok"
               PROVE  Told(p)'
  BY <1>1 DEF ToldInv
<1> DEFINE b == owner[p]
<1>3. b \in Apps /\ owner' = owner
  BY <1>1 DEF TypeInv, TypeOK
<1>4. CASE Ask(a)
  <2>1. UNCHANGED <<ans, known, toClient>> /\ stage[a] = "idle" /\ link[b] = "ok"
        /\ (b # a => call'[b] = call[b] /\ stage'[b] = stage[b])
    BY <1>2, <1>4, Asked DEF TypeInv, TypeOK
  <2>2. Told(p)
    BY <1>2, <2>1 DEF ToldInv
  <2>3. QED
    BY <1>3, <2>1, <2>2 DEF Told
<1>5. CASE Return(a)
  <2>1. /\ UNCHANGED toClient /\ stage[a] = "answered"
        /\ stage' = [stage EXCEPT ![a] = "idle"]
        /\ call' = [call EXCEPT ![a] = NoCall]
        /\ ans' = [ans EXCEPT ![a] = Refusal]
    BY <1>5 DEF Return
  <2>2. CASE b # a
    <3>1. /\ stage'[b] = stage[b] /\ call'[b] = call[b] /\ ans'[b] = ans[b]
          /\ known'[b] = known[b] /\ link'[b] = link[b]
      <4>1. stage'[b] = stage[b] /\ call'[b] = call[b] /\ ans'[b] = ans[b]
        BY <1>3, <2>1, <2>2 DEF TypeInv, TypeOK
      <4>2. known \in [Apps -> SUBSET Nat]
            /\ link \in [Apps -> {"ok", "broken", "gone"}]
        BY DEF TypeInv, TypeOK
      <4>3. /\ \E S : known' = [known EXCEPT ![a] = S]
            /\ link' = link
        BY <1>5 DEF Return
      <4>4. known'[b] = known[b] /\ link'[b] = link[b]
        BY <1>3, <2>2, <4>2, <4>3
      <4>5. QED
        BY <4>1, <4>4
    <3>2. Told(p)
      BY <1>2, <3>1 DEF ToldInv
    <3>3. QED
      BY <1>3, <2>1, <3>1, <3>2 DEF Told
  <2>3. CASE b = a
    <3>1. link[a] = "ok" /\ link'[a] = "ok"
      BY <1>2, <1>5, <2>3 DEF Return
    <3>2. known' = [known EXCEPT ![a] =
                        IF link[a] = "ok" /\ call[a].op = "malloc" /\ ans[a].ok
                        THEN @ \cup {ans[a].ptr} ELSE @]
      BY <1>5 DEF Return
    <3>4. known'[a] = IF call[a].op = "malloc" /\ ans[a].ok
                      THEN known[a] \cup {ans[a].ptr} ELSE known[a]
      BY <3>1, <3>2 DEF TypeInv, TypeOK
    <3>5. Told(p)
      BY <1>2, <2>3, <3>1 DEF ToldInv
    <3>6. p \in known'[a]
      BY <2>1, <2>3, <3>4, <3>5 DEF Told
    <3>7. QED
      BY <1>3, <2>3, <3>6 DEF Told
  <2>4. QED
    BY <2>2, <2>3
<1>6. CASE AppExit(a)
  <2>1. UNCHANGED <<stage, call, ans, known, toClient>> /\ link[b] = "ok"
    BY <1>2, <1>3, <1>6 DEF AppExit, TypeInv, TypeOK
  <2>2. QED
    BY <1>2, <1>3, <2>1 DEF ToldInv, Told
<1>7. CASE CallProvider(a)
  <2>1. UNCHANGED <<link, call, known, toClient>> /\ stage[a] = "asked"
        /\ (b # a => stage'[b] = stage[b] /\ ans'[b] = ans[b])
    BY <1>2, <1>3, <1>7, Sent DEF TypeInv, TypeOK
  <2>2. Told(p)
    BY <1>2, <2>1 DEF ToldInv
  <2>3. QED
    BY <1>3, <2>1, <2>2 DEF Told
<1>8. CASE Receive(a) \/ ReceiveFails(a)
  <2>1. /\ holder = {a} /\ stage[a] = "waiting" /\ UNCHANGED <<link, call, known>>
    BY <1>8, Received
  <2>2. PICK r \in Results : Answered(a, r) /\ r = Head(toClient).res
    BY <1>2, <1>8, Received
  <2>3. /\ stage' = [stage EXCEPT ![a] = "answered"] /\ ans' = [ans EXCEPT ![a] = r]
    BY <2>2 DEF Answered
  <2>4. Told(p)
    BY <1>2, <2>1 DEF ToldInv
  <2>5. CASE b = a
    <3>1. stage'[a] = "answered" /\ ans'[a] = r
      BY <2>3 DEF TypeInv, TypeOK
    <3>2. QED
      BY <1>3, <2>1, <2>2, <2>4, <2>5, <3>1 DEF Told
  <2>6. CASE b # a
    <3>1. stage[b] # "waiting" /\ stage'[b] = stage[b] /\ ans'[b] = ans[b]
      BY <1>3, <2>1, <2>3, <2>6 DEF TypeInv, TypeOK
    <3>2. QED
      BY <1>3, <2>1, <2>4, <3>1 DEF Told
  <2>7. QED
    BY <2>5, <2>6
<1>9. QED
  BY <1>4, <1>5, <1>6, <1>7, <1>8 DEF AppStep, BridgeStep

LEMMA ToldStep == TypeInv /\ ToldInv /\ [Next]_vars => ToldInv'
<1> SUFFICES ASSUME TypeInv, ToldInv, [Next]_vars PROVE ToldInv'
  OBVIOUS
<1>1. CASE UNCHANGED vars
  BY <1>1 DEF vars, host, apps, ToldInv, Told
<1>2. ASSUME NEW a \in Apps, AppStep(a) \/ BridgeStep(a)
      PROVE  ToldInv'
  BY <1>2, ToldApp
<1>3. CASE OpenSession
  <2>1. DOMAIN owner' = {}
    BY <1>3 DEF OpenSession, TypeInv, DeviceInv
  <2>2. DOMAIN dev'.bufs = {}
    BY <1>3, <2>1, TypeHost DEF TypeInv, TypeOK
  <2>3. QED
    BY <2>2 DEF ToldInv
<1>4. CASE SessionEnds \/ Lost
  BY <1>4, LostParts DEF SessionEnds, ToldInv
<1>5. CASE HandleCudaOp
  BY <1>5, ToldHost
<1>6. QED
  BY <1>1, <1>2, <1>3, <1>4, <1>5 DEF Next, HostStep, Lost

\* For any programs, exits, errors and answers that do not fit: a buffer whose
\* handle its program does not know, and will not be told by the answer on its
\* way, belongs to a program that is gone or whose socket broke, or the
\* connection is lost (cuda_remote.rs:281-319, the bridge's task 397-509).
THEOREM OrphansAreOfTheGoneHolds == Spec => []OrphansAreOfTheGone
<1>1. Init => ToldInv
  <2>1. Init => DOMAIN dev.bufs = {}
    BY DEF Init, Backend
  <2>2. QED
    BY <2>1 DEF ToldInv
<1>2. ToldInv => OrphansAreOfTheGone
  BY DEF ToldInv, Told, OrphansAreOfTheGone
<1>3. QED
  BY <1>1, <1>2, ToldStep, TypeInvariant, PTL DEF Spec

-------------------------------------------------------------------------------
(* The sum of a table.  MapThenSumSet is a recursive function on the        *)
(* subsets of its set: that there is one, and what it yields whatever      *)
(* element it takes first, is shown by induction on their cardinality.     *)

Less == {ss \in Nat \X Nat : ss[1] < ss[2]}

LEMMA LessWellFounded == IsWellFoundedOn(Less, Nat)
  BY NatLessThanWellFounded DEF OpToRel, Less

LEMMA NatInductive ==
  ASSUME NEW S \in SUBSET Nat, 0 \in S, \A n \in S : n + 1 \in S
  PROVE  S = Nat
<1> SUFFICES ASSUME Nat \ S # {} PROVE FALSE
  OBVIOUS
<1> DEFINE T == Nat \ S
<1>1. T \subseteq Nat /\ T # {}
  OBVIOUS
<1> HIDE DEF T
<1>2. PICK x \in T : \A y \in T : ~(<<y, x>> \in Less)
  BY <1>1, LessWellFounded, WFMin
<1>3. x \in Nat /\ x # 0
  BY <1>2 DEF T
<1>4. x - 1 \in Nat /\ <<x - 1, x>> \in Less
  BY <1>3 DEF Less
<1>5. x - 1 \in S
  BY <1>2, <1>4 DEF T
<1>6. x - 1 + 1 = x
  BY <1>3
<1>7. QED
  BY <1>2, <1>5, <1>6 DEF T

\* The element that is taken first.
One(s) == CHOOSE x \in s : TRUE

\* f is the sum of g over every subset of D.
IsSum(f, g, D) ==
    f = [s \in SUBSET D |->
            IF s = {} THEN 0 ELSE g[One(s)] + f[s \ {One(s)}]]

LEMMA SumUnfolds ==
  ASSUME NEW D, NEW f, NEW g, IsSum(f, g, D), NEW s \in SUBSET D
  PROVE  /\ s = {} => f[s] = 0
         /\ s # {} => /\ One(s) \in s /\ s \ {One(s)} \in SUBSET D
                      /\ f[s] = g[One(s)] + f[s \ {One(s)}]
<1>1. f[s] = IF s = {} THEN 0 ELSE g[One(s)] + f[s \ {One(s)}]
  BY DEF IsSum
<1>2. s # {} => One(s) \in s
  BY DEF One
<1>3. QED
  BY <1>1, <1>2

LEMMA SumOfNone ==
  ASSUME NEW D, NEW f, NEW g, IsSum(f, g, D)
  PROVE  f[{}] = 0
<1>1. {} \in SUBSET D
  OBVIOUS
<1>2. QED
  BY <1>1 DEF IsSum

LEMMA SmallerSet ==
  ASSUME NEW D, IsFiniteSet(D), NEW s \in SUBSET D, NEW x \in s
  PROVE  /\ Cardinality(s) \in Nat /\ Cardinality(s) # 0
         /\ s \ {x} \in SUBSET D
         /\ Cardinality(s \ {x}) = Cardinality(s) - 1
         /\ Cardinality(s) <= Cardinality(D) /\ Cardinality(D) \in Nat
  BY FS_Subset, FS_RemoveElement, FS_CardinalityType, FS_EmptySet

LEMMA SumExists ==
  ASSUME NEW D, IsFiniteSet(D), NEW g \in [D -> Nat]
  PROVE  \E f \in [SUBSET D -> Nat] : IsSum(f, g, D)
<1> DEFINE Small(n) == {s \in SUBSET D : Cardinality(s) <= n}
           Next1(f, s) == IF s = {} THEN 0 ELSE g[One(s)] + f[s \ {One(s)}]
           N == {n \in Nat : \E f \in [Small(n) -> Nat] :
                                \A s \in Small(n) : f[s] = Next1(f, s)}
<1>0. \A s \in SUBSET D : Cardinality(s) \in Nat /\ (Cardinality(s) = 0 <=> s = {})
  BY FS_Subset, FS_CardinalityType, FS_EmptySet
<1>1. 0 \in N
  <2> DEFINE f == [s \in Small(0) |-> 0]
  <2>1. f \in [Small(0) -> Nat]
    OBVIOUS
  <2>2. \A s \in Small(0) : s = {}
    BY <1>0
  <2>3. \A s \in Small(0) : f[s] = Next1(f, s)
    BY <2>2
  <2>4. QED
    BY <2>1, <2>3
<1>2. ASSUME NEW n \in N
      PROVE  n + 1 \in N
  <2>1. PICK f \in [Small(n) -> Nat] : \A s \in Small(n) : f[s] = Next1(f, s)
    OBVIOUS
  <2>2. n \in Nat /\ n + 1 \in Nat
    OBVIOUS
  <2>3. \A s \in Small(n + 1) : s # {} =>
            One(s) \in s /\ One(s) \in D /\ s \ {One(s)} \in Small(n)
    <3> SUFFICES ASSUME NEW s \in Small(n + 1), s # {}
                 PROVE  One(s) \in s /\ One(s) \in D /\ s \ {One(s)} \in Small(n)
      OBVIOUS
    <3>1. One(s) \in s /\ s \in SUBSET D
      BY DEF One
    <3>2. QED
      BY <2>2, <3>1, SmallerSet
  <2> DEFINE h == [s \in Small(n + 1) |-> Next1(f, s)]
  <2>4. \A s \in Small(n + 1) : Next1(f, s) \in Nat
    BY <2>3
  <2>5. h \in [Small(n + 1) -> Nat]
    BY <2>4
  <2>6. \A s \in Small(n) : s \in Small(n + 1) /\ h[s] = f[s]
    BY <1>0, <2>1, <2>2
  <2>7. \A s \in Small(n + 1) : h[s] = Next1(h, s)
    BY <2>3, <2>6
  <2> HIDE DEF h
  <2>8. QED
    BY <2>2, <2>5, <2>7
<1> HIDE DEF N
<1>3. N = Nat
  <2>1. N \in SUBSET Nat
    BY DEF N
  <2>2. QED
    BY <1>1, <1>2, <2>1, NatInductive
<1>4. Cardinality(D) \in N
  BY <1>3, FS_CardinalityType
<1>5. Small(Cardinality(D)) = SUBSET D
  BY FS_Subset
<1>6. PICK f \in [SUBSET D -> Nat] : \A s \in SUBSET D : f[s] = Next1(f, s)
  BY <1>4, <1>5 DEF N
<1>7. f = [s \in SUBSET D |-> Next1(f, s)]
  BY <1>6
<1>8. QED
  BY <1>6, <1>7 DEF IsSum

\* Sums over the same elements agree.
LEMMA SumsAgree ==
  ASSUME NEW D, IsFiniteSet(D), NEW f, NEW g, IsSum(f, g, D),
         NEW E, IsFiniteSet(E), NEW h, NEW k, IsSum(h, k, E),
         NEW S, S \subseteq D, S \subseteq E, \A x \in S : g[x] = k[x]
  PROVE  f[S] = h[S]
<1> DEFINE N == {n \in Nat : \A s \in SUBSET S :
                     Cardinality(s) = n => f[s] = h[s]}
<1>0. IsFiniteSet(S) /\ Cardinality(S) \in Nat
  BY FS_Subset, FS_CardinalityType
<1>1. 0 \in N
  <2> SUFFICES ASSUME NEW s \in SUBSET S, Cardinality(s) = 0 PROVE f[s] = h[s]
    OBVIOUS
  <2>1. s = {} /\ s \in SUBSET D /\ s \in SUBSET E
    BY <1>0, FS_Subset, FS_EmptySet
  <2>2. f[{}] = 0 /\ h[{}] = 0
    BY SumOfNone
  <2>3. QED
    BY <2>1, <2>2
<1>2. ASSUME NEW n \in N
      PROVE  n + 1 \in N
  <2> SUFFICES ASSUME NEW s \in SUBSET S, Cardinality(s) = n + 1
               PROVE  f[s] = h[s]
    OBVIOUS
  <2>1. n \in Nat /\ s \in SUBSET D /\ s \in SUBSET E
    OBVIOUS
  <2>2. s # {}
    BY <2>1, FS_EmptySet
  <2> DEFINE x == One(s)
  <2> HIDE DEF x
  <2>3. x \in s /\ f[s] = g[x] + f[s \ {x}] /\ h[s] = k[x] + h[s \ {x}]
    <3>1. x \in s /\ f[s] = g[x] + f[s \ {x}]
      <4>1. \A t \in SUBSET D : t # {} =>
                One(t) \in t /\ f[t] = g[One(t)] + f[t \ {One(t)}]
        BY SumUnfolds
      <4>2. QED
        BY <2>1, <2>2, <4>1 DEF x
    <3>2. h[s] = k[x] + h[s \ {x}]
      BY <2>1, <2>2, SumUnfolds DEF x
    <3>3. QED
      BY <3>1, <3>2
  <2>4. Cardinality(s \ {x}) = n
    BY <1>0, <2>1, <2>3, SmallerSet
  <2>5. f[s \ {x}] = h[s \ {x}]
    BY <2>4
  <2>6. QED
    BY <2>3, <2>5
<1> HIDE DEF N
<1>3. N = Nat
  <2>1. N \in SUBSET Nat
    BY DEF N
  <2>2. QED
    BY <1>1, <1>2, <2>1, NatInductive
<1>4. QED
  BY <1>0, <1>3 DEF N

\* Whichever element is taken first.
IsNatSum(f, g, D) ==
    /\ IsFiniteSet(D) /\ g \in [D -> Nat] /\ f \in [SUBSET D -> Nat]
    /\ IsSum(f, g, D)

TakesAny(f, g, D) ==
    \A S \in SUBSET D : \A y \in S : f[S] = g[y] + f[S \ {y}]

LEMMA SumTakesAny ==
  ASSUME NEW D, NEW g, NEW f, IsNatSum(f, g, D)
  PROVE  TakesAny(f, g, D)
<1>0. /\ IsFiniteSet(D) /\ g \in [D -> Nat] /\ f \in [SUBSET D -> Nat]
      /\ IsSum(f, g, D)
  BY DEF IsNatSum
<1> DEFINE N == {n \in Nat : \A s \in SUBSET D : Cardinality(s) = n =>
                     \A z \in s : f[s] = g[z] + f[s \ {z}]}
<1>1. 0 \in N
  BY <1>0, SmallerSet
<1>2. ASSUME NEW n \in N
      PROVE  n + 1 \in N
  <2> SUFFICES ASSUME NEW s \in SUBSET D, Cardinality(s) = n + 1, NEW z \in s
               PROVE  f[s] = g[z] + f[s \ {z}]
    BY <1>0
  <2>0. n \in Nat
    OBVIOUS
  <2> DEFINE x == One(s)
  <2> HIDE DEF x
  <2>1. x \in s /\ f[s] = g[x] + f[s \ {x}]
    <3>1. s # {}
      OBVIOUS
    <3>2. QED
      BY <1>0, <3>1, SumUnfolds DEF x
  <2>2. CASE x = z
    BY <2>1, <2>2
  <2>3. CASE x # z
    <3>1. /\ s \ {x} \in SUBSET D /\ Cardinality(s \ {x}) = n /\ z \in s \ {x}
          /\ s \ {z} \in SUBSET D /\ Cardinality(s \ {z}) = n /\ x \in s \ {z}
      BY <1>0, <2>0, <2>1, <2>3, SmallerSet
    <3>2. f[s \ {x}] = g[z] + f[(s \ {x}) \ {z}]
      BY <3>1
    <3>3. f[s \ {z}] = g[x] + f[(s \ {z}) \ {x}]
      BY <3>1
    <3>4. (s \ {x}) \ {z} = (s \ {z}) \ {x} /\ (s \ {x}) \ {z} \in SUBSET D
      OBVIOUS
    <3> DEFINE rest == f[(s \ {x}) \ {z}]
    <3>5. rest \in Nat /\ g[x] \in Nat /\ g[z] \in Nat
      BY <1>0, <2>1, <3>4
    <3>6. f[s \ {x}] = g[z] + rest /\ f[s \ {z}] = g[x] + rest
      BY <3>2, <3>3, <3>4
    <3> HIDE DEF rest
    <3>7. QED
      BY <2>1, <3>5, <3>6
  <2>4. QED
    BY <2>2, <2>3
<1> HIDE DEF N
<1>3. N = Nat
  <2>1. N \in SUBSET Nat
    BY DEF N
  <2>2. QED
    BY <1>1, <1>2, <2>1, NatInductive
<1>4. QED
  BY <1>0, <1>3, SmallerSet DEF N, TakesAny

-------------------------------------------------------------------------------
(* The allowance of a session.                                             *)

Total(b) == MapThenSumSet(LAMBDA p : Len(b[p]), DOMAIN b)
Lens(b)  == [p \in DOMAIN b |-> Len(b[p])]

\* What the recursion in Total is a fixed point of.
TotalOver(b, f) ==
    [s \in SUBSET DOMAIN b |->
        IF s = {} THEN 0 ELSE Len(b[One(s)]) + f[s \ {One(s)}]]

LEMMA TotalIsFixedPoint ==
  ASSUME NEW b
  PROVE  Total(b) = (CHOOSE f : f = TotalOver(b, f))[DOMAIN b]
  BY DEF Total, MapThenSumSet, MapThenFoldSet, TotalOver, One

IsBuffers(b) == IsFiniteSet(DOMAIN b) /\ \A p \in DOMAIN b : Len(b[p]) \in Nat

LEMMA TotalIsSum ==
  ASSUME NEW b, IsBuffers(b)
  PROVE  \E f \in [SUBSET DOMAIN b -> Nat] :
            IsSum(f, Lens(b), DOMAIN b) /\ Total(b) = f[DOMAIN b]
<1> DEFINE D == DOMAIN b  g == Lens(b)
<1>1. IsFiniteSet(D) /\ g \in [D -> Nat] /\ \A p \in D : g[p] = Len(b[p])
  BY DEF IsBuffers, Lens
<1>2. PICK f \in [SUBSET D -> Nat] : IsSum(f, g, D)
  <2> HIDE DEF D, g
  <2>1. QED
    BY <1>1, SumExists
<1>3. \A h : TotalOver(b, h) = [s \in SUBSET D |->
                  IF s = {} THEN 0 ELSE g[One(s)] + h[s \ {One(s)}]]
  <2> SUFFICES ASSUME NEW h, NEW s \in SUBSET D
               PROVE  (IF s = {} THEN 0 ELSE Len(b[One(s)]) + h[s \ {One(s)}])
                    = (IF s = {} THEN 0 ELSE g[One(s)] + h[s \ {One(s)}])
    BY DEF TotalOver
  <2>1. s # {} => One(s) \in D
    BY DEF One
  <2>2. s # {} => g[One(s)] = Len(b[One(s)])
    BY <1>1, <2>1
  <2>3. QED
    BY <2>2
<1> DEFINE c == CHOOSE h : h = TotalOver(b, h)
<1>4. f = TotalOver(b, f)
  BY <1>2, <1>3 DEF IsSum
<1>5. c = TotalOver(b, c)
  BY <1>4
<1> HIDE DEF c
<1>6. IsSum(c, g, D)
  BY <1>3, <1>5 DEF IsSum
<1>7. c[D] = f[D]
  <2> HIDE DEF D, g
  <2>1. QED
    BY <1>1, <1>2, <1>6, SumsAgree
<1>8. Total(b) = f[D]
  BY <1>7, TotalIsFixedPoint DEF c
<1>9. QED
  BY <1>2, <1>8

LEMMA TotalEmpty ==
  ASSUME NEW b, DOMAIN b = {}
  PROVE  Total(b) = 0
<1>1. IsBuffers(b)
  BY FS_EmptySet DEF IsBuffers
<1>2. PICK f \in [SUBSET DOMAIN b -> Nat] :
            IsSum(f, Lens(b), DOMAIN b) /\ Total(b) = f[DOMAIN b]
  BY <1>1, TotalIsSum
<1>3. QED
  BY <1>2, SumUnfolds

\* Tables with the same lengths have the same total; one more buffer adds its
\* length.
LEMMA TotalGrows ==
  ASSUME NEW b, IsBuffers(b), NEW c, IsBuffers(c),
         \A p \in DOMAIN b : p \in DOMAIN c /\ Len(c[p]) = Len(b[p])
  PROVE  /\ Total(b) \in Nat /\ Total(c) \in Nat
         /\ DOMAIN c = DOMAIN b => Total(c) = Total(b)
         /\ \A x \in DOMAIN c : DOMAIN b = DOMAIN c \ {x} =>
                Total(c) = Len(c[x]) + Total(b)
<1> DEFINE D == DOMAIN b  E == DOMAIN c  g == Lens(b)  k == Lens(c)
<1>1. /\ IsFiniteSet(D) /\ IsFiniteSet(E) /\ D \subseteq E
      /\ k \in [E -> Nat] /\ \A p \in D : g[p] = k[p]
      /\ \A p \in E : k[p] = Len(c[p])
  BY DEF IsBuffers, Lens
<1>2. PICK f \in [SUBSET D -> Nat] : IsSum(f, g, D) /\ Total(b) = f[D]
  BY TotalIsSum
<1>3. PICK h \in [SUBSET E -> Nat] : IsSum(h, k, E) /\ Total(c) = h[E]
  BY TotalIsSum
<1> HIDE DEF D, E, g, k
<1>4. f[D] = h[D]
  BY <1>1, <1>2, <1>3, SumsAgree
<1>5. \A x \in E : h[E] = k[x] + h[E \ {x}]
  <2>1. IsNatSum(h, k, E)
    BY <1>1, <1>3 DEF IsNatSum
  <2>2. TakesAny(h, k, E)
    BY <2>1, SumTakesAny
  <2>3. E \in SUBSET E
    OBVIOUS
  <2>4. QED
    BY <2>2, <2>3 DEF TakesAny
<1>6. D \in SUBSET D /\ E \in SUBSET E
  OBVIOUS
<1>7. Total(b) \in Nat /\ Total(c) \in Nat
  BY <1>2, <1>3, <1>6
<1>8. E = D => Total(c) = Total(b)
  BY <1>2, <1>3, <1>4
<1>9. \A x \in E : D = E \ {x} => Total(c) = Len(c[x]) + Total(b)
  BY <1>1, <1>2, <1>3, <1>4, <1>5
<1>10. QED
  BY <1>7, <1>8, <1>9 DEF D, E

Accounted(d) ==
    IsFiniteSet(DOMAIN d.bufs) /\ d.used = Total(d.bufs) /\ d.used <= d.cap

LEMMA AccountedKept ==
  ASSUME NEW d, IsTable(d), Accounted(d),
         DOMAIN d.bufs \subseteq Nat \ {d.next},
         NEW P, NEW q \in RequestsOn(P), NEW o \in Exec(d, q)
  PROVE  Accounted(o.dev)
<1> DEFINE b == d.bufs  c == o.dev.bufs
<1>1. IsDevice(d) /\ d.used \in Nat /\ d.cap \in Nat
      /\ IsBuffers(b) /\ d.used = Total(b) /\ d.used <= d.cap
  BY DEF IsTable, Accounted, IsBuffers
<1>2. \A p \in DOMAIN c : Len(c[p]) \in Nat
  BY TableKept DEF IsTable
<1>3. o.dev.cap = d.cap
  BY NextKept
<1>4. CASE Refuses(d, q, o)
  BY <1>4, DeviceParts DEF Refuses, Accounted
<1>5. CASE Allocates(d, q, o)
  <2>1. /\ DOMAIN c = DOMAIN b \cup {d.next} /\ d.next \notin DOMAIN b
        /\ o.dev.used = d.used + q.n /\ d.used + q.n <= d.cap
    BY <1>5, DeviceParts DEF Allocates, CheckAlloc
  <2>2. \A p \in DOMAIN b : p \in DOMAIN c /\ Len(c[p]) = Len(b[p])
    BY <2>1, LengthKept
  <2>3. Len(c[d.next]) = q.n
    BY <2>1, LengthKept
  <2> HIDE DEF b, c
  <2>4. IsBuffers(c)
    BY <1>1, <1>2, <2>1, FS_AddElement DEF IsBuffers
  <2>5. DOMAIN b = DOMAIN c \ {d.next} /\ d.next \in DOMAIN c
    BY <2>1
  <2>6. Total(c) = Len(c[d.next]) + Total(b) /\ Total(b) \in Nat
    BY <1>1, <2>2, <2>4, <2>5, TotalGrows
  <2>7. q.n \in Nat
    BY <1>5, RequestParts, CudaAssumption DEF Allocates
  <2>8. o.dev.used = Total(c)
    BY <1>1, <2>1, <2>3, <2>6, <2>7
  <2>9. QED
    BY <1>3, <2>1, <2>4, <2>8 DEF Accounted, IsBuffers, c
<1>6. CASE Frees(d, q, o)
  <2> DEFINE k == Len(b[q.p])
  <2>1. /\ q.p \in DOMAIN b /\ DOMAIN c = DOMAIN b \ {q.p}
        /\ o.dev.used = Greatest(0, d.used - k)
        /\ d.next \notin DOMAIN b
    BY <1>6, DeviceParts DEF Frees
  <2>2. \A p \in DOMAIN c : p \in DOMAIN b /\ Len(c[p]) = Len(b[p])
    BY <2>1, LengthKept
  <2> HIDE DEF b, c
  <2>3. IsBuffers(c)
    BY <1>1, <1>2, <2>1, FS_RemoveElement DEF IsBuffers
  <2>4. \A p \in DOMAIN c : p \in DOMAIN b /\ Len(b[p]) = Len(c[p])
    BY <2>2
  <2>5. Total(b) = k + Total(c) /\ Total(c) \in Nat /\ k \in Nat
    BY <1>1, <2>1, <2>3, <2>4, TotalGrows DEF IsBuffers
  <2> HIDE DEF k
  <2>6. o.dev.used = Total(c) /\ o.dev.used <= d.cap
    BY <1>1, <2>1, <2>5 DEF Greatest
  <2>7. QED
    BY <1>3, <2>3, <2>6 DEF Accounted, IsBuffers, c
<1>7. CASE Writes(d, q, o)
  <2>1. DOMAIN c = DOMAIN b /\ o.dev.used = d.used
    BY <1>7, DeviceParts DEF Writes
  <2>2. \A p \in DOMAIN b : p \in DOMAIN c /\ Len(c[p]) = Len(b[p])
    BY <2>1, LengthKept
  <2> HIDE DEF b, c
  <2>3. IsBuffers(c)
    BY <1>1, <1>2, <2>1 DEF IsBuffers
  <2>4. Total(c) = Total(b)
    BY <1>1, <2>1, <2>2, <2>3, TotalGrows
  <2>5. QED
    BY <1>1, <1>3, <2>1, <2>3, <2>4 DEF Accounted, IsBuffers, c
<1>8. CASE Reads(d, q, o) \/ Syncs(d, q, o)
  BY <1>8 DEF Reads, Syncs
<1>9. QED
  BY <1>1, <1>4, <1>5, <1>6, <1>7, <1>8, Outcomes

LEMMA AccountedStep == TypeInv /\ Accounted(dev) /\ [Next]_vars => Accounted(dev)'
<1> SUFFICES ASSUME TypeInv, Accounted(dev), [Next]_vars PROVE Accounted(dev)'
  OBVIOUS
<1>1. CASE UNCHANGED dev
  BY <1>1 DEF Accounted
<1>2. CASE dev'.used = 0 /\ dev'.cap \in Nat /\ DOMAIN dev'.bufs = {}
  <2>1. Total(dev'.bufs) = 0 /\ IsFiniteSet(DOMAIN dev'.bufs)
    BY <1>2, TotalEmpty, FS_EmptySet
  <2>2. QED
    BY <1>2, <2>1 DEF Accounted
<1>3. ASSUME NEW a \in Apps, NEW i, NEW o, Executes(a, i, o)
      PROVE  Accounted(dev)'
  <2>1. dev' = o.dev /\ IsTable(dev) /\ call[a] \in RequestsOn(known[a])
        /\ DOMAIN dev.bufs \subseteq Nat \ {dev.next}
    BY <1>3, TypeOKTable, CallIsRequest DEF Executes, TypeInv, TypeOK, DeviceInv
  <2>2. CASE session = "open"
    <3>1. o \in Exec(dev, call[a])
      BY <1>3, <2>2 DEF Executes
    <3>2. Accounted(o.dev)
      BY <2>1, <3>1, AccountedKept
    <3>3. QED
      BY <2>1, <3>2 DEF Accounted
  <2>3. CASE session # "open"
    BY <1>1, <1>3, <2>3, OutcomeParts DEF Executes
  <2>4. QED
    BY <2>2, <2>3
<1>4. dev.cap \in Nat
  BY DEF TypeInv, TypeOK
<1>5. QED
  BY <1>1, <1>2, <1>3, <1>4, TableSteps

\* For any sizes and any series of allocations, frees and driver errors, what a
\* session has used of its allowance is the sum of the buffers that can still
\* be freed, and never more than the allowance (cuda_backend.rs:200-304).
THEOREM AllowanceIsAccountedHolds == Spec => []AllowanceIsAccounted
<1>1. Init => Accounted(dev)
  <2>1. Init => dev.used = 0 /\ dev.cap = 0 /\ DOMAIN dev.bufs = {}
    BY DEF Init, Backend
  <2>2. ASSUME DOMAIN dev.bufs = {}
        PROVE  Total(dev.bufs) = 0 /\ IsFiniteSet(DOMAIN dev.bufs)
    BY <2>2, TotalEmpty, FS_EmptySet
  <2>3. QED
    BY <2>1, <2>2 DEF Accounted
<1>2. Accounted(dev) => AllowanceIsAccounted
  BY DEF Accounted, Total, AllowanceIsAccounted
<1>3. QED
  BY <1>1, <1>2, AccountedStep, TypeInvariant, PTL DEF Spec

-------------------------------------------------------------------------------
(* Handles stay below LastPtr: a program asks for a buffer only while the  *)
(* next handle is at most MaxPtr, and each such request moves it by at     *)
(* most a stride.                                                          *)

\* The programs whose malloc the provider has yet to do.
Mallocs ==
    {a \in Apps :
        /\ call[a].op = "malloc"
        /\ \/ stage[a] = "asked"
           \/ stage[a] = "waiting" /\ toClient = <<>>}

Stride == MaxSingle + 2 * Align

\* The furthest the next handle may be when k mallocs have yet to be done.
Reach(k) == MaxPtr + (Cardinality(Apps) - k) * Stride

RoomInv ==
    /\ Mallocs # {} => dev.next <= Reach(Cardinality(Mallocs))
    /\ DOMAIN owner \subseteq 1..LastPtr

LEMMA ReachParts ==
  /\ Cardinality(Apps) \in Nat /\ Stride \in Nat /\ MaxPtr \in Nat
  /\ \A k \in 0..Cardinality(Apps) : Reach(k) \in Nat /\ MaxPtr <= Reach(k)
  /\ \A k \in 1..Cardinality(Apps) : Reach(k - 1) = Reach(k) + Stride
  /\ \A j, k \in 0..Cardinality(Apps) : j <= k => Reach(k) <= Reach(j)
  /\ LastPtr = Reach(0)
<1> DEFINE N == Cardinality(Apps)  S == Stride
<1>1. N \in Nat /\ S \in Nat /\ MaxPtr \in Nat
  BY FS_CardinalityType, CudaAssumption DEF Stride
<1>2. \A k : Reach(k) = MaxPtr + (N - k) * S
  BY DEF Reach
<1>3. LastPtr = MaxPtr + N * S
  BY DEF LastPtr, Stride
<1> HIDE DEF N, S
<1>4. /\ \A m \in Nat : m * S \in Nat /\ (m + 1) * S = m * S + S
      /\ \A l, m \in Nat : l <= m => l * S <= m * S
  BY <1>1
<1>5. \A k \in 0..N : N - k \in Nat /\ Reach(k) \in Nat /\ MaxPtr <= Reach(k)
  BY <1>1, <1>2, <1>4
<1>6. ASSUME NEW k \in 1..N
      PROVE  Reach(k - 1) = Reach(k) + S
  <2> DEFINE m == N - k
  <2>1. m \in Nat /\ N - (k - 1) = m + 1
    BY <1>1
  <2> HIDE DEF m
  <2>2. Reach(k - 1) = MaxPtr + (m + 1) * S /\ Reach(k) = MaxPtr + m * S
    BY <1>2, <2>1 DEF m
  <2>3. m * S \in Nat /\ (m + 1) * S = m * S + S
    BY <1>4, <2>1
  <2>4. QED
    BY <1>1, <2>2, <2>3
<1>7. ASSUME NEW j \in 0..N, NEW k \in 0..N, j <= k
      PROVE  Reach(k) <= Reach(j)
  <2> DEFINE l == N - k  m == N - j
  <2>1. l \in Nat /\ m \in Nat /\ l <= m
    BY <1>1, <1>7
  <2>2. Reach(k) = MaxPtr + l * S /\ Reach(j) = MaxPtr + m * S
    BY <1>2
  <2> HIDE DEF l, m
  <2>3. l * S \in Nat /\ m * S \in Nat /\ l * S <= m * S
    BY <1>4, <2>1
  <2>4. QED
    BY <1>1, <2>2, <2>3
<1>8. LastPtr = Reach(0)
  BY <1>1, <1>2, <1>3
<1>9. QED
  BY <1>1, <1>5, <1>6, <1>7, <1>8 DEF N, S

LEMMA MallocsFinite ==
  ASSUME NEW M \in SUBSET Apps
  PROVE  /\ IsFiniteSet(M) /\ Cardinality(M) \in 0..Cardinality(Apps)
         /\ M # {} => Cardinality(M) \in 1..Cardinality(Apps)
  BY FS_Subset, FS_CardinalityType, FS_EmptySet, CudaAssumption

\* Fewer mallocs to do, and the same next handle.
LEMMA RoomShrinks ==
  ASSUME TypeInv, RoomInv, Mallocs' \subseteq Mallocs, dev'.next = dev.next,
         DOMAIN owner' = DOMAIN owner
  PROVE  RoomInv'
<1>1. Mallocs \in SUBSET Apps /\ Mallocs' \in SUBSET Apps
  BY DEF Mallocs
<1>2. Cardinality(Mallocs') <= Cardinality(Mallocs)
  BY <1>1, MallocsFinite, FS_Subset
<1>3. Reach(Cardinality(Mallocs)) <= Reach(Cardinality(Mallocs'))
  BY <1>1, <1>2, MallocsFinite, ReachParts
<1>4. /\ Reach(Cardinality(Mallocs)) \in Nat /\ Reach(Cardinality(Mallocs')) \in Nat
      /\ dev.next \in Nat
  BY <1>1, MallocsFinite, ReachParts DEF TypeInv, TypeOK
<1>5. Reach(Cardinality(Mallocs))' = Reach(Cardinality(Mallocs'))
  BY DEF Reach
<1> DEFINE n == dev.next  x == Reach(Cardinality(Mallocs))
           y == Reach(Cardinality(Mallocs'))
<1>6. Mallocs' # {} => n <= x
  BY DEF RoomInv
<1>7. x <= y /\ x \in Nat /\ y \in Nat /\ n \in Nat
  BY <1>3, <1>4
<1> HIDE DEF n, x, y
<1>8. Mallocs' # {} => n <= y
  BY <1>6, <1>7
<1>9. QED
  BY <1>5, <1>8 DEF n, y, RoomInv

LEMMA RoomAsk ==
  ASSUME TypeInv, RoomInv, NEW a \in Apps, Ask(a)
  PROVE  RoomInv'
<1>1. stage[a] = "idle" /\ UNCHANGED <<dev, owner, toClient>>
  BY Asked
<1>2. CASE UNCHANGED <<call, stage>>
  BY <1>1, <1>2, RoomShrinks DEF Mallocs
<1>3. ASSUME NEW q \in RequestsOn(known[a]),
             call' = [call EXCEPT ![a] = q],
             stage' = [stage EXCEPT ![a] = "asked"],
             q.op = "malloc" => dev.next <= MaxPtr
      PROVE  RoomInv'
  <2>1. \A b \in Apps : call'[b] = (IF b = a THEN q ELSE call[b])
        /\ stage'[b] = (IF b = a THEN "asked" ELSE stage[b])
    BY <1>3 DEF TypeInv, TypeOK
  <2>2. Mallocs' \subseteq Mallocs \cup {a} /\ (q.op # "malloc" => Mallocs' \subseteq Mallocs)
    BY <1>1, <2>1 DEF Mallocs
  <2>3. CASE q.op # "malloc"
    BY <1>1, <2>2, <2>3, RoomShrinks
  <2>4. CASE q.op = "malloc"
    <3>1. Mallocs' \in SUBSET Apps
      BY DEF Mallocs
    <3> DEFINE n == dev.next  y == Reach(Cardinality(Mallocs'))
    <3>2. n <= MaxPtr /\ MaxPtr <= y /\ y \in Nat /\ n \in Nat /\ MaxPtr \in Nat
      BY <1>3, <2>4, <3>1, MallocsFinite, ReachParts DEF TypeInv, TypeOK
    <3> HIDE DEF n, y
    <3>3. n <= y
      BY <3>2
    <3>4. Reach(Cardinality(Mallocs))' = Reach(Cardinality(Mallocs'))
      BY DEF Reach
    <3>5. QED
      BY <1>1, <3>3, <3>4 DEF n, y, RoomInv
  <2>5. QED
    BY <2>3, <2>4
<1>4. QED
  BY <1>2, <1>3, Asked

LEMMA NextMoves ==
  ASSUME TypeInv, NEW a \in Apps, NEW i, NEW o, Executes(a, i, o)
  PROVE  \/ dev'.next = dev.next /\ DOMAIN owner' = DOMAIN owner
         \/ /\ call[a].op = "malloc"
            /\ dev'.next \in Nat /\ dev'.next <= dev.next + Stride
            /\ DOMAIN owner' \subseteq DOMAIN owner \cup {dev.next}
<1>1. IsTable(dev) /\ dev.next \in Nat /\ call[a] \in RequestsOn(known[a])
  BY TypeOKTable, CallIsRequest DEF TypeInv, TypeOK
<1>2. DOMAIN owner' \subseteq DOMAIN owner \cup {dev.next}
  BY Executed
<1>3. \/ DOMAIN owner' = DOMAIN owner
      \/ session = "open" /\ Allocates(dev, call[a], o)
  BY Executed
<1>4. CASE session # "open"
  BY <1>3, <1>4, OutcomeParts DEF Executes
<1>5. CASE session = "open"
  <2>1. o \in Exec(dev, call[a]) /\ dev' = o.dev
    BY <1>5 DEF Executes
  <2>2. CASE dev'.next = dev.next /\ ~Allocates(dev, call[a], o)
    BY <1>3, <2>2
  <2>3. CASE /\ call[a].op = "malloc" /\ call[a].n \in Nat
             /\ CheckAlloc(dev, call[a].n) /\ dev'.next = Beyond(dev, call[a].n)
    <3> DEFINE n == call[a].n  m == dev.next
    <3>1. n \in Nat /\ m \in Nat /\ n <= MaxSingle
      BY <1>1, <2>3 DEF CheckAlloc
    <3>2. dev'.next = m + Greatest(n, Align) + Align
      BY <2>3 DEF Beyond
    <3> HIDE DEF n, m
    <3>3. /\ m + Greatest(n, Align) + Align \in Nat
          /\ m + Greatest(n, Align) + Align <= m + Stride
      BY <3>1, CudaAssumption DEF Greatest, Stride
    <3>4. QED
      BY <1>2, <2>3, <3>2, <3>3 DEF m
  <2>4. QED
    BY <1>1, <2>1, <2>2, <2>3, NextKept
<1>6. QED
  BY <1>4, <1>5

LEMMA RoomExecutes ==
  ASSUME TypeInv, OffsetInv, RoomInv, NEW a \in Apps, NEW i, NEW o,
         Executes(a, i, o)
  PROVE  RoomInv'
<1>1. /\ holder = {a} /\ toClient = <<>> /\ toClient' # <<>>
      /\ UNCHANGED <<call, stage>> /\ stage[a] = "waiting"
      /\ \A b \in Apps \ {a} : stage[b] # "waiting"
  BY DEF Executes, apps, TypeInv, TypeOK
<1>2. Mallocs' = Mallocs \ {a} /\ Mallocs \in SUBSET Apps
  BY <1>1 DEF Mallocs
<1>3. CASE dev'.next = dev.next /\ DOMAIN owner' = DOMAIN owner
  BY <1>2, <1>3, RoomShrinks
<1>4. CASE /\ call[a].op = "malloc"
           /\ dev'.next \in Nat /\ dev'.next <= dev.next + Stride
           /\ DOMAIN owner' \subseteq DOMAIN owner \cup {dev.next}
  <2> DEFINE k == Cardinality(Mallocs)  n == dev.next  n1 == dev'.next
  <2>1. a \in Mallocs
    BY <1>1, <1>4 DEF Mallocs
  <2>2. k \in 1..Cardinality(Apps) /\ Cardinality(Mallocs') = k - 1
    BY <1>2, <2>1, MallocsFinite, FS_RemoveElement
  <2>3. n <= Reach(k) /\ n \in Nat /\ n1 \in Nat /\ n1 <= n + Stride
    BY <1>4, <2>1 DEF RoomInv, TypeInv, TypeOK
  <2>4. 1 <= n
    BY <2>3, CudaAssumption DEF OffsetInv, FirstPtr
  <2>5. Reach(Cardinality(Mallocs))' = Reach(Cardinality(Mallocs'))
    BY DEF Reach
  <2> HIDE DEF k, n, n1
  <2>6. /\ Reach(k) \in Nat /\ Reach(k - 1) = Reach(k) + Stride /\ Stride \in Nat
        /\ Cardinality(Apps) \in Nat
    BY <2>2, ReachParts
  <2>7. Reach(k) <= Reach(0) /\ Reach(0) = LastPtr /\ Reach(0) \in Nat
    BY <2>2, <2>6, ReachParts
  <2>8. n1 <= Reach(k - 1)
    BY <2>3, <2>6
  <2>9. n \in 1..LastPtr
    BY <2>3, <2>4, <2>6, <2>7
  <2>10. dev'.next <= Reach(Cardinality(Mallocs))'
    BY <2>2, <2>5, <2>8 DEF n1
  <2>11. DOMAIN owner' \subseteq 1..LastPtr
    BY <1>4, <2>9 DEF RoomInv, n
  <2>12. QED
    BY <2>10, <2>11 DEF RoomInv, LastPtr
<1>5. QED
  BY <1>3, <1>4, NextMoves

LEMMA RoomStep == TypeInv /\ OffsetInv /\ RoomInv /\ [Next]_vars => RoomInv'
<1> SUFFICES ASSUME TypeInv, OffsetInv, RoomInv, [Next]_vars PROVE RoomInv'
  OBVIOUS
<1>1. CASE UNCHANGED vars
  BY <1>1, RoomShrinks DEF vars, host, apps, Mallocs
<1>2. ASSUME NEW a \in Apps, Ask(a)
      PROVE  RoomInv'
  BY <1>2, RoomAsk
<1>3. ASSUME NEW a \in Apps, Return(a) \/ AppExit(a)
      PROVE  RoomInv'
  <2>1. UNCHANGED <<dev, owner, toClient>>
    BY <1>3 DEF Return, AppExit, host
  <2>2. Mallocs' \subseteq Mallocs
    <3>1. \A b \in Apps : stage'[b] \in {"asked", "waiting"} =>
              stage'[b] = stage[b] /\ call'[b] = call[b]
      <4>1. CASE Return(a)
        <5>1. /\ stage' = [stage EXCEPT ![a] = "idle"]
              /\ call' = [call EXCEPT ![a] = NoCall]
          BY <4>1 DEF Return
        <5>2. QED
          BY <5>1 DEF TypeInv, TypeOK
      <4>2. CASE AppExit(a)
        BY <4>2 DEF AppExit
      <4>3. QED
        BY <1>3, <4>1, <4>2
    <3>2. QED
      BY <2>1, <3>1 DEF Mallocs
  <2>3. QED
    BY <2>1, <2>2, RoomShrinks
<1>4. ASSUME NEW a \in Apps, CallProvider(a)
      PROVE  RoomInv'
  <2>1. /\ stage[a] = "asked" /\ UNCHANGED <<dev, owner, call, toClient>>
        /\ \A b \in Apps \ {a} : stage'[b] = stage[b]
    BY <1>4, Sent DEF TypeInv, TypeOK
  <2>2. Mallocs' \subseteq Mallocs
    BY <2>1 DEF Mallocs
  <2>3. QED
    BY <2>1, <2>2, RoomShrinks
<1>5. ASSUME NEW a \in Apps, Receive(a) \/ ReceiveFails(a)
      PROVE  RoomInv'
  <2>1. /\ holder = {a} /\ UNCHANGED <<dev, owner, call>>
        /\ stage' = [stage EXCEPT ![a] = "answered"]
    BY <1>5, Received DEF Answered
  <2>2. \A b \in Apps : stage'[b] = (IF b = a THEN "answered" ELSE stage[b])
    BY <2>1 DEF TypeInv, TypeOK
  <2>3. \A b \in Apps \ {a} : stage[b] # "waiting"
    BY <2>1 DEF TypeInv, TypeOK
  <2>4. Mallocs' \subseteq Mallocs
    BY <2>1, <2>2, <2>3 DEF Mallocs
  <2>5. QED
    BY <2>1, <2>4, RoomShrinks
<1>6. CASE HandleCudaOp
  BY <1>6, HandlesTheHolder, RoomExecutes
<1>7. CASE OpenSession \/ SessionEnds \/ Lost
  <2>1. dev'.next = dev.next
    <3>1. dev'.next = dev.next \/ HandleCudaOp
      BY TableSteps
    <3>2. HandleCudaOp => FALSE
      BY <1>7, LostParts DEF HandleCudaOp, OpenSession, SessionEnds
    <3>3. QED
      BY <3>1, <3>2
  <2>2. UNCHANGED <<owner, call, stage, toClient>>
    BY <1>7, LostParts DEF OpenSession, SessionEnds, apps
  <2>3. QED
    BY <2>1, <2>2, RoomShrinks DEF Mallocs
<1>8. QED
  BY <1>1, <1>2, <1>3, <1>4, <1>5, <1>6, <1>7
  DEF Next, AppStep, BridgeStep, HostStep, Lost

-------------------------------------------------------------------------------
(* The refinement: the mapping of CudaSession, by name.                    *)

\* The buffers of table b that are a's in w, while the connection is up.
Part(c, b, w, a) == [p \in {p \in DOMAIN b : c = "up" /\ w[p] = a} |-> b[p]]

\* Where a call stands: s is its stage, q the request, r the answer, t the
\* results on their way back.
At(s, q, r, t) ==
    CASE s = "idle"     -> [at |-> "idle"]
      [] s = "answered" -> [at |-> "done", res |-> r]
      [] s = "waiting" /\ t # <<>> -> [at |-> "done", res |-> Head(t).res]
      [] OTHER -> [at |-> "asked", req |-> q]

Mem  == [a \in Apps |-> Part(conn, dev.bufs, owner, a)]
Pend == [a \in Apps |-> At(stage[a], call[a], ans[a], toClient)]

\* The three states of a call in RemoteMemory.
Idling   == [at |-> "idle"]
Asking(q) == [at |-> "asked", req |-> q]
Done(r)  == [at |-> "done", res |-> r]

LEMMA AtParts ==
  ASSUME NEW q, NEW r, NEW t
  PROVE  /\ At("idle", q, r, t) = Idling
         /\ At("asked", q, r, t) = Asking(q)
         /\ At("answered", q, r, t) = Done(r)
         /\ At("waiting", q, r, <<>>) = Asking(q)
         /\ t # <<>> => At("waiting", q, r, t) = Done(Head(t).res)
  BY DEF At, Idling, Asking, Done

LEMMA CallStates ==
  ASSUME NEW q, NEW r
  PROVE  /\ Asking(q).at = "asked" /\ Asking(q).req = q
         /\ Done(r).at = "done"
         /\ Asking(q) # Idling /\ Done(r) # Idling
<1>1. Asking(q).at = "asked" /\ Done(r).at = "done" /\ Idling.at = "idle"
      /\ Asking(q).req = q
  BY DEF Asking, Done, Idling
<1>2. QED
  BY <1>1

\* A call of another program is where it was.
LEMMA PendOthers ==
  ASSUME TypeInv, NEW a \in Apps, NEW x,
         \A b \in Apps \ {a} : /\ stage'[b] = stage[b] /\ call'[b] = call[b]
                               /\ ans'[b] = ans[b]
                               /\ stage[b] = "waiting" => toClient' = toClient,
         At(stage'[a], call'[a], ans'[a], toClient') = x
  PROVE  Pend' = [Pend EXCEPT ![a] = x]
<1>1. \A b \in Apps \ {a} :
          At(stage'[b], call'[b], ans'[b], toClient')
            = At(stage[b], call[b], ans[b], toClient)
  <2> SUFFICES ASSUME NEW b \in Apps \ {a}
               PROVE  At(stage[b], call[b], ans[b], toClient')
                        = At(stage[b], call[b], ans[b], toClient)
    OBVIOUS
  <2>1. CASE stage[b] = "waiting"
    BY <2>1
  <2>2. CASE stage[b] # "waiting"
    BY <2>2 DEF At
  <2>3. QED
    BY <2>1, <2>2
<1>2. Pend' = [b \in Apps |-> At(stage'[b], call'[b], ans'[b], toClient')]
  BY DEF Pend
<1>3. \A b \in Apps : At(stage'[b], call'[b], ans'[b], toClient') = [Pend EXCEPT ![a] = x][b]
  BY <1>1 DEF Pend
<1> DEFINE f == [Pend EXCEPT ![a] = x]
<1>4. f = [b \in Apps |-> f[b]]
  BY DEF Pend
<1>5. \A b \in Apps : At(stage'[b], call'[b], ans'[b], toClient') = f[b]
  BY <1>3
<1> HIDE DEF f
<1>6. Pend' = f
  BY <1>2, <1>4, <1>5
<1>7. QED
  BY <1>6 DEF f

\* The memory as a whole.
LEMMA PartSame ==
  ASSUME NEW c, NEW b, NEW w, NEW b1, NEW w1, NEW a,
         {p \in DOMAIN b1 : w1[p] = a} = {p \in DOMAIN b : w[p] = a},
         \A p \in DOMAIN b : w[p] = a => b1[p] = b[p]
  PROVE  Part(c, b1, w1, a) = Part(c, b, w, a)
<1>1. {p \in DOMAIN b1 : c = "up" /\ w1[p] = a} = {p \in DOMAIN b : c = "up" /\ w[p] = a}
  OBVIOUS
<1>2. QED
  BY <1>1 DEF Part

LEMMA PartDown ==
  ASSUME NEW c, c # "up", NEW b, NEW w, NEW a
  PROVE  Part(c, b, w, a) = <<>>
<1>1. {p \in DOMAIN b : c = "up" /\ w[p] = a} = {}
  OBVIOUS
<1>2. \A s : s = {} => [p \in s |-> b[p]] = <<>>
  OBVIOUS
<1>3. QED
  BY <1>1, <1>2 DEF Part

LEMMA PartEmpty ==
  ASSUME NEW c, NEW b, DOMAIN b = {}, NEW w, NEW a
  PROVE  Part(c, b, w, a) = <<>>
<1>1. {p \in DOMAIN b : c = "up" /\ w[p] = a} = {}
  OBVIOUS
<1>2. \A s : s = {} => [p \in s |-> b[p]] = <<>>
  OBVIOUS
<1>3. QED
  BY <1>1, <1>2 DEF Part

\* What a has under a handle of its own.
LEMMA PartHas ==
  ASSUME NEW b, NEW w, NEW a, NEW p, w[p] = a
  PROVE  /\ p \in DOMAIN b <=> p \in DOMAIN Part("up", b, w, a)
         /\ p \in DOMAIN b => Part("up", b, w, a)[p] = b[p]
  BY DEF Part

\* Table b with owners w becomes b1 with w1: a has one buffer more, one less,
\* or another content of one.
Adds(b, w, a, n, z, b1, w1) ==
    /\ n \notin DOMAIN b /\ DOMAIN b1 = DOMAIN b \cup {n} /\ b1[n] = z
    /\ \A p \in DOMAIN b : b1[p] = b[p]
    /\ \A p \in DOMAIN b : w1[p] = w[p]
    /\ w1[n] = a

Drops(b, w, a, n, b1, w1) ==
    /\ DOMAIN b1 = DOMAIN b \ {n} /\ \A p \in DOMAIN b1 : b1[p] = b[p]
    /\ \A p \in DOMAIN b : w1[p] = w[p]
    /\ w[n] = a

Sets(b, w, a, n, v, b1, w1) ==
    /\ n \in DOMAIN b /\ DOMAIN b1 = DOMAIN b /\ b1[n] = v
    /\ \A p \in DOMAIN b \ {n} : b1[p] = b[p]
    /\ \A p \in DOMAIN b : w1[p] = w[p]
    /\ w[n] = a

\* M with z under n, and M without n.
With(M, n, z) == [h \in DOMAIN M \cup {n} |-> IF h = n THEN z ELSE M[h]]
Without(M, n) == [h \in DOMAIN M \ {n} |-> M[h]]

OnlyOf(a, b, w, b1, w1) ==
    \A c : c # a => Part("up", b1, w1, c) = Part("up", b, w, c)

LEMMA PartAdds ==
  ASSUME NEW b, NEW w, NEW a, NEW n, NEW z, NEW b1, NEW w1,
         Adds(b, w, a, n, z, b1, w1)
  PROVE  /\ OnlyOf(a, b, w, b1, w1)
         /\ Part("up", b1, w1, a) = With(Part("up", b, w, a), n, z)
<1> DEFINE S == {p \in DOMAIN b : "up" = "up" /\ w[p] = a}
           S1 == {p \in DOMAIN b1 : "up" = "up" /\ w1[p] = a}
<1>1. /\ n \notin DOMAIN b /\ DOMAIN b1 = DOMAIN b \cup {n} /\ b1[n] = z
      /\ \A p \in DOMAIN b : b1[p] = b[p]
      /\ \A p \in DOMAIN b : w1[p] = w[p]
      /\ w1[n] = a
  BY DEF Adds
<1>2. ASSUME NEW c, c # a
      PROVE  Part("up", b1, w1, c) = Part("up", b, w, c)
  <2>1. {p \in DOMAIN b1 : w1[p] = c} = {p \in DOMAIN b : w[p] = c}
    BY <1>1, <1>2
  <2>2. QED
    BY <1>1, <2>1, PartSame
<1>3. S1 = S \cup {n} /\ n \notin S
  BY <1>1
<1>4. Part("up", b1, w1, a) = [h \in S1 |-> b1[h]]
      /\ Part("up", b, w, a) = [h \in S |-> b[h]]
  BY DEF Part
<1>5. \A h \in S : b1[h] = b[h]
  BY <1>1
<1> DEFINE M == Part("up", b, w, a)
<1>6. DOMAIN M = S /\ \A h \in S : M[h] = b[h]
  BY <1>4
<1> HIDE DEF S, S1, M
<1>7. [h \in S1 |-> b1[h]] = With(M, n, z)
  BY <1>1, <1>3, <1>5, <1>6 DEF With
<1>8. QED
  BY <1>2, <1>4, <1>7 DEF M, OnlyOf

LEMMA PartDrops ==
  ASSUME NEW b, NEW w, NEW a, NEW n, NEW b1, NEW w1, Drops(b, w, a, n, b1, w1)
  PROVE  /\ OnlyOf(a, b, w, b1, w1)
         /\ Part("up", b1, w1, a) = Without(Part("up", b, w, a), n)
<1> DEFINE S == {p \in DOMAIN b : "up" = "up" /\ w[p] = a}
           S1 == {p \in DOMAIN b1 : "up" = "up" /\ w1[p] = a}
           M == Part("up", b, w, a)
<1>1. /\ DOMAIN b1 = DOMAIN b \ {n} /\ \A p \in DOMAIN b1 : b1[p] = b[p]
      /\ \A p \in DOMAIN b : w1[p] = w[p]
      /\ w[n] = a
  BY DEF Drops
<1>2. ASSUME NEW c, c # a
      PROVE  Part("up", b1, w1, c) = Part("up", b, w, c)
  <2>1. {p \in DOMAIN b1 : w1[p] = c} = {p \in DOMAIN b : w[p] = c}
    BY <1>1, <1>2
  <2>2. \A p \in DOMAIN b : w[p] = c => b1[p] = b[p]
    BY <1>1, <1>2
  <2>3. QED
    BY <2>1, <2>2, PartSame
<1>3. S1 = S \ {n}
  BY <1>1
<1>4. Part("up", b1, w1, a) = [h \in S1 |-> b1[h]] /\ M = [h \in S |-> b[h]]
  BY DEF Part
<1>5. \A h \in S1 : b1[h] = b[h]
  BY <1>1
<1>6. DOMAIN M = S /\ \A h \in S : M[h] = b[h]
  BY <1>4
<1> HIDE DEF S, S1, M
<1>7. [h \in S1 |-> b1[h]] = Without(M, n)
  BY <1>3, <1>5, <1>6 DEF Without
<1>8. QED
  BY <1>2, <1>4, <1>7 DEF M, OnlyOf

LEMMA PartSets ==
  ASSUME NEW b, NEW w, NEW a, NEW n, NEW v, NEW b1, NEW w1,
         Sets(b, w, a, n, v, b1, w1)
  PROVE  /\ OnlyOf(a, b, w, b1, w1)
         /\ Part("up", b1, w1, a) = [Part("up", b, w, a) EXCEPT ![n] = v]
<1> DEFINE S == {p \in DOMAIN b : "up" = "up" /\ w[p] = a}
           S1 == {p \in DOMAIN b1 : "up" = "up" /\ w1[p] = a}
           M == Part("up", b, w, a)
<1>1. /\ n \in DOMAIN b /\ DOMAIN b1 = DOMAIN b
      /\ \A p \in DOMAIN b : b1[p] = (IF p = n THEN v ELSE b[p])
      /\ \A p \in DOMAIN b : w1[p] = w[p]
      /\ w[n] = a
  BY DEF Sets
<1>2. ASSUME NEW c, c # a
      PROVE  Part("up", b1, w1, c) = Part("up", b, w, c)
  <2>1. {p \in DOMAIN b1 : w1[p] = c} = {p \in DOMAIN b : w[p] = c}
    BY <1>1, <1>2
  <2>2. \A p \in DOMAIN b : w[p] = c => b1[p] = b[p]
    BY <1>1, <1>2
  <2>3. QED
    BY <2>1, <2>2, PartSame
<1>3. S1 = S /\ n \in S
  BY <1>1
<1>4. Part("up", b1, w1, a) = [h \in S1 |-> b1[h]] /\ M = [h \in S |-> b[h]]
  BY DEF Part
<1>5. \A h \in S : b1[h] = (IF h = n THEN v ELSE b[h])
  BY <1>1
<1>6. DOMAIN M = S /\ \A h \in S : M[h] = b[h]
  BY <1>4
<1>7. M = [h \in S |-> M[h]]
  BY <1>4
<1> HIDE DEF S, S1, M
<1>8. [h \in S1 |-> b1[h]] = [M EXCEPT ![n] = v]
  BY <1>3, <1>5, <1>6, <1>7
<1>9. QED
  BY <1>2, <1>4, <1>8 DEF M, OnlyOf

\* The actions of RemoteMemory over the mapping.
LEMMA MemoryFails ==
  ASSUME NEW a \in Apps, Pend[a] # Idling, Pend' = [Pend EXCEPT ![a] = Done(Refusal)],
         Mem' = Mem, DOMAIN owner' = DOMAIN owner
  PROVE  Memory!Fail(a)
  BY DEF Memory!Fail, Memory!Idle, Memory!Done, Memory!Refusal, Mem, Pend, Part,
     At, Idling, Done, Refusal

LEMMA MemoryTells ==
  ASSUME NEW a \in Apps, Pend[a].at = "done", Pend' = [Pend EXCEPT ![a] = Idling],
         Mem' = Mem, DOMAIN owner' = DOMAIN owner
  PROVE  Memory!Tell(a)
  BY DEF Memory!Tell, Memory!Idle, Mem, Pend, Part, At, Idling

LEMMA MemoryResets ==
  ASSUME Mem' = [a \in Apps |-> <<>>], Pend' = Pend, DOMAIN owner' = DOMAIN owner
  PROVE  Memory!Reset
  BY DEF Memory!Reset, Mem, Pend, Part, At

LEMMA MemoryStutters ==
  ASSUME Mem' = Mem, Pend' = Pend, DOMAIN owner' = DOMAIN owner
  PROVE  UNCHANGED Memory!mvars
  BY DEF Memory!mvars, Mem, Pend, Part, At

LEMMA MemoryAsks ==
  ASSUME NEW a \in Apps, Pend[a] = Idling,
         NEW q \in RequestsOn(1..LastPtr), Pend' = [Pend EXCEPT ![a] = Asking(q)],
         Mem' = Mem, DOMAIN owner' = DOMAIN owner
  PROVE  Memory!Ask(a)
<1>1. Pend'[a] = Asking(q)
  BY DEF Pend
<1>2. Asking(q) \in [at : {"asked"}, req : RequestsOn(1..LastPtr)]
  BY DEF Asking
<1>3. \A b \in Apps \ {a} : Pend'[b] = Pend[b]
  BY DEF Pend
<1>4. Pend'[a] \in [at : {"asked"}, req : RequestsOn(1..LastPtr)]
  BY <1>1, <1>2
<1>5. QED
  BY <1>3, <1>4 DEF Memory!Ask, Memory!Idle, Mem, Pend, Part, At, Idling

\* a is served: its memory becomes m, its answer r.
Serves(a, r, m) ==
    /\ Pend' = [Pend EXCEPT ![a] = Done(r)]
    /\ Mem' = [Mem EXCEPT ![a] = m]

LEMMA MemoryAnswers ==
  ASSUME NEW a \in Apps, NEW r, NEW m, Serves(a, r, m)
  PROVE  Memory!Answers(a, r, m)
  BY DEF Serves, Memory!Answers, Memory!Done, Mem, Pend, Part, At, Done

LEMMA MemoryTakes ==
  ASSUME NEW a \in Apps, NEW q, Pend[a] = Asking(q), q.op = "malloc",
         NEW p \in 1..LastPtr, p \notin DOMAIN owner,
         Serves(a, [ok |-> TRUE, ptr |-> p],
                [h \in DOMAIN Mem[a] \cup {p} |->
                    IF h = p THEN Zeros(q.n) ELSE Mem[a][h]]),
         DOMAIN owner' = DOMAIN owner \cup {p}
  PROVE  Memory!Serve(a)
<1>1. Pend[a].at = "asked" /\ Pend[a].req = q
  BY CallStates
<1>2. PICK r, m :
          /\ r = [ok |-> TRUE, ptr |-> p]
          /\ m = [h \in DOMAIN Mem[a] \cup {p} |->
                    IF h = p THEN Zeros(Pend[a].req.n) ELSE Mem[a][h]]
  OBVIOUS
<1>3. Memory!Answers(a, r, m)
  <2>1. Serves(a, r, m)
    BY <1>1, <1>2 DEF Serves
  <2>2. QED
    BY <2>1, MemoryAnswers
<1>4. Memory!Take(a)
  BY <1>2, <1>3 DEF Memory!Take, Memory!Answers, Memory!Done, Memory!Buffer, Memory!Zeros, Zeros, Mem, Pend, Part, At
<1>5. QED
  BY <1>1, <1>4 DEF Memory!Serve, Pend, At

\* The operations that give no handle, on the memory M.
Does(q, M, r, m) ==
    \/ q.op = "sync" /\ r = Fine /\ m = M
    \/ /\ q.op = "free" /\ q.p \in DOMAIN M /\ r = Fine
       /\ m = [h \in DOMAIN M \ {q.p} |-> M[h]]
    \/ /\ q.op = "htod" /\ q.p \in DOMAIN M /\ Len(q.data) <= Len(M[q.p])
       /\ r = Fine /\ m = [M EXCEPT ![q.p] = Over(M[q.p], q.data)]
    \/ /\ q.op = "dtoh" /\ q.p \in DOMAIN M /\ q.n <= Len(M[q.p])
       /\ r = [ok |-> TRUE, data |-> SubSeq(M[q.p], 1, q.n)] /\ m = M
    \/ /\ q.op = "add" /\ \A h \in {q.x, q.y, q.p} : h \in DOMAIN M
       /\ \A h \in {q.x, q.y, q.p} : q.n <= Len(M[h])
       /\ r = Fine
       /\ m = [M EXCEPT ![q.p] = Over(M[q.p],
                   [i \in 1..q.n |-> Plus(M[q.x][i], M[q.y][i])])]

LEMMA MemoryServes ==
  ASSUME NEW a \in Apps, NEW q, Pend[a] = Asking(q), DOMAIN owner' = DOMAIN owner,
         NEW r, NEW m, Serves(a, r, m), NEW M, Mem[a] = M, Does(q, M, r, m)
  PROVE  Memory!Serve(a)
<1>1. Pend[a].at = "asked" /\ Pend[a].req = q
  BY CallStates
<1>2. Memory!Answers(a, r, m)
  BY MemoryAnswers
<1>3. CASE q.op = "sync" /\ r = Fine /\ m = M
  <2>1. Pend[a].req.op = "sync"
    BY <1>1, <1>3
  <2>2. Memory!Answers(a, Fine, Mem[a])
    BY <1>1, <1>2, <1>3 DEF Memory!Answers, Memory!Done
  <2>3. QED
    BY <1>1, <2>1, <2>2 DEF Memory!Serve, Memory!Answers, Memory!Done,
       Memory!Fine, Fine, Mem, Pend, Part, At
<1>4. CASE /\ q.op = "free" /\ q.p \in DOMAIN M /\ r = Fine
           /\ m = [h \in DOMAIN M \ {q.p} |-> M[h]]
  <2>1. Pend[a].req.op = "free" /\ Pend[a].req.p \in DOMAIN Mem[a]
    BY <1>1, <1>4
  <2>2. Memory!Answers(a, Fine,
            [h \in DOMAIN Mem[a] \ {Pend[a].req.p} |-> Mem[a][h]])
    BY <1>1, <1>2, <1>4 DEF Memory!Answers, Memory!Done
  <2>3. QED
    BY <1>1, <2>1, <2>2 DEF Memory!Serve, Memory!Answers, Memory!Done,
       Memory!Fine, Fine, Mem, Pend, Part, At
<1>5. CASE /\ q.op = "htod" /\ q.p \in DOMAIN M /\ Len(q.data) <= Len(M[q.p])
           /\ r = Fine /\ m = [M EXCEPT ![q.p] = Over(M[q.p], q.data)]
  <2>1. /\ Pend[a].req.op = "htod" /\ Pend[a].req.p \in DOMAIN Mem[a]
        /\ Len(Pend[a].req.data) <= Len(Mem[a][Pend[a].req.p])
    BY <1>1, <1>5
  <2>2. Memory!Answers(a, Fine, [Mem[a] EXCEPT ![Pend[a].req.p] =
            Over(Mem[a][Pend[a].req.p], Pend[a].req.data)])
    BY <1>1, <1>2, <1>5 DEF Memory!Answers, Memory!Done
  <2>3. QED
    BY <1>1, <2>1, <2>2 DEF Memory!Serve, Memory!Answers, Memory!Done,
       Memory!Fine, Memory!Over, Over, Fine, Mem, Pend, Part, At
<1>6. CASE /\ q.op = "dtoh" /\ q.p \in DOMAIN M /\ q.n <= Len(M[q.p])
           /\ r = [ok |-> TRUE, data |-> SubSeq(M[q.p], 1, q.n)] /\ m = M
  <2>1. /\ Pend[a].req.op = "dtoh" /\ Pend[a].req.p \in DOMAIN Mem[a]
        /\ Pend[a].req.n <= Len(Mem[a][Pend[a].req.p])
    BY <1>1, <1>6
  <2>2. Memory!Answers(a,
            [ok |-> TRUE, data |-> SubSeq(Mem[a][Pend[a].req.p], 1, Pend[a].req.n)],
            Mem[a])
    BY <1>1, <1>2, <1>6 DEF Memory!Answers, Memory!Done
  <2>3. QED
    BY <1>1, <2>1, <2>2 DEF Memory!Serve, Memory!Answers, Memory!Done,
       Memory!Data, Mem, Pend, Part, At
<1>7. CASE /\ q.op = "add" /\ \A h \in {q.x, q.y, q.p} : h \in DOMAIN M
           /\ \A h \in {q.x, q.y, q.p} : q.n <= Len(M[h])
           /\ r = Fine
           /\ m = [M EXCEPT ![q.p] = Over(M[q.p],
                        [i \in 1..q.n |-> Plus(M[q.x][i], M[q.y][i])])]
  <2>1. /\ Pend[a].req.op = "add"
        /\ {Pend[a].req.x, Pend[a].req.y, Pend[a].req.p} \subseteq DOMAIN Mem[a]
        /\ \A h \in {Pend[a].req.x, Pend[a].req.y, Pend[a].req.p} :
              Pend[a].req.n <= Len(Mem[a][h])
    BY <1>1, <1>7
  <2>2. Memory!Answers(a, Fine, [Mem[a] EXCEPT ![Pend[a].req.p] =
            Over(Mem[a][Pend[a].req.p],
                 [i \in 1..Pend[a].req.n |->
                     Plus(Mem[a][Pend[a].req.x][i], Mem[a][Pend[a].req.y][i])])])
    BY <1>1, <1>2, <1>7 DEF Memory!Answers, Memory!Done
  <2>3. QED
    BY <1>1, <2>1, <2>2 DEF Memory!Serve, Memory!Answers, Memory!Done,
       Memory!Fine, Memory!Over, Over, Fine, Mem, Pend, Part, At
<1>8. QED
  BY <1>3, <1>4, <1>5, <1>6, <1>7 DEF Does

LEMMA PendExecutes ==
  ASSUME TypeInv, NEW a \in Apps, NEW i, NEW o, Executes(a, i, o)
  PROVE  Pend[a] = Asking(call[a]) /\ Pend' = [Pend EXCEPT ![a] = Done(o.res)]
<1>1. /\ holder = {a} /\ toClient = <<>> /\ toClient' = <<[id |-> i, res |-> o.res]>>
      /\ UNCHANGED <<call, stage, ans>> /\ stage[a] = "waiting"
      /\ \A b \in Apps \ {a} : stage[b] # "waiting"
  BY DEF Executes, apps, TypeInv, TypeOK
<1>2. toClient' # <<>> /\ Head(toClient') = [id |-> i, res |-> o.res]
  BY <1>1
<1>3. Head(toClient').res = o.res
  BY <1>2
<1>4. At("waiting", call'[a], ans'[a], toClient') = Done(o.res)
  BY <1>2, <1>3 DEF At, Done
<1>5. At(stage'[a], call'[a], ans'[a], toClient') = Done(o.res)
  BY <1>1, <1>4
<1>6. Pend' = [Pend EXCEPT ![a] = Done(o.res)]
  BY <1>1, <1>5, PendOthers
<1>7. Pend[a] = Asking(call[a])
  BY <1>1 DEF Pend, At, Asking
<1>8. QED
  BY <1>6, <1>7

LEMMA MemOthers ==
  ASSUME NEW a \in Apps, NEW m, conn' = "up", conn = "up",
         NEW b, NEW w, NEW b1, NEW w1, OnlyOf(a, b, w, b1, w1),
         b = dev.bufs, w = owner, b1 = dev'.bufs, w1 = owner',
         Part("up", b1, w1, a) = m
  PROVE  Mem' = [Mem EXCEPT ![a] = m]
  BY DEF Mem, OnlyOf

LEMMA MemSame ==
  ASSUME TypeInv, conn' = conn, UNCHANGED dev,
         \A p \in DOMAIN owner : owner'[p] = owner[p]
  PROVE  Mem' = Mem
<1>1. DOMAIN dev.bufs \subseteq DOMAIN owner
  BY DEF TypeInv, TypeOK
<1>2. ASSUME NEW a \in Apps
      PROVE  Part(conn', dev'.bufs, owner', a) = Part(conn, dev.bufs, owner, a)
  <2>1. {p \in DOMAIN dev'.bufs : owner'[p] = a} = {p \in DOMAIN dev.bufs : owner[p] = a}
    BY <1>1
  <2>2. QED
    BY <2>1, PartSame
<1>3. QED
  BY <1>2 DEF Mem

\* An operation of the provider is one of RemoteMemory.
LEMMA ExecutesRefines ==
  ASSUME TypeInv, OffsetInv, RoomInv, RoomInv', NEW a \in Apps, NEW i, NEW o,
         Executes(a, i, o)
  PROVE  Memory!Serve(a) \/ Memory!Fail(a)
<1>1. /\ Pend[a] = Asking(call[a]) /\ Pend' = [Pend EXCEPT ![a] = Done(o.res)]
      /\ Pend[a] # Idling
  BY PendExecutes, CallStates
<1>2. PICK b, w, b1, w1, q, d :
          /\ b = dev.bufs /\ w = owner /\ b1 = dev'.bufs /\ w1 = owner'
          /\ q = call[a] /\ d = dev
  OBVIOUS
<1>3. /\ conn = "up" /\ conn' = "up" /\ dev' = o.dev
      /\ IsTable(dev) /\ call[a] \in RequestsOn(known[a])
      /\ DOMAIN dev.bufs \subseteq DOMAIN owner
      /\ known[a] \subseteq {p \in DOMAIN owner : owner[p] = a}
      /\ \A p \in DOMAIN owner : owner'[p] = owner[p]
      /\ Mem[a] = Part("up", b, w, a)
  BY <1>2, TypeOKTable, CallIsRequest, Executed
  DEF Executes, TypeInv, TypeOK, Mem
<1>4. /\ IsDevice(d) /\ d.bufs = b /\ o.dev.bufs = b1
      /\ \A p \in DOMAIN b : w1[p] = w[p]
      /\ \A p \in known[a] : w[p] = a
  BY <1>2, <1>3 DEF IsTable
<1>5. CASE session # "open" \/ Refuses(d, q, o)
  <2>1. o.res = Refusal /\ dev'.bufs = dev.bufs /\ ~Allocates(d, q, o)
    <3>1. session # "open" => o.res = Refusal /\ o.dev = dev
      BY OutcomeParts DEF Executes
    <3>2. Refuses(d, q, o) => o.res = Refusal /\ o.dev.bufs = d.bufs
      BY DeviceParts DEF Refuses
    <3>3. o.res = Refusal /\ o.dev.bufs = dev.bufs
      BY <1>2, <1>5, <3>1, <3>2
    <3>4. QED
      BY <1>3, <3>3 DEF Allocates, Refusal
  <2>2. DOMAIN owner' = DOMAIN owner
    BY <1>2, <2>1, Executed
  <2>3. Mem' = Mem
    <3>1. \A c \in Apps : Part("up", b1, w1, c) = Part("up", b, w, c)
      <4> SUFFICES ASSUME NEW c \in Apps
                   PROVE  Part("up", b1, w1, c) = Part("up", b, w, c)
        OBVIOUS
      <4>1. b1 = b
        BY <1>2, <2>1
      <4>2. {p \in DOMAIN b1 : w1[p] = c} = {p \in DOMAIN b : w[p] = c}
        BY <1>4, <4>1
      <4>3. QED
        BY <4>1, <4>2, PartSame
    <3>2. QED
      BY <1>2, <1>3, <3>1 DEF Mem
  <2>4. QED
    BY <1>1, <2>1, <2>2, <2>3, MemoryFails
<1>6. CASE session = "open" /\ Allocates(d, q, o)
  <2>1. PICK n : n = dev.next
    OBVIOUS
  <2>2. /\ n \notin DOMAIN owner /\ DOMAIN owner' = DOMAIN owner \cup {n}
        /\ owner'[n] = a /\ n \in 1..LastPtr
    <3>1. ~(call[a].op = "malloc" => o.res = Refusal)
      BY <1>2, <1>6 DEF Allocates, Refusal
    <3>2. /\ n \notin DOMAIN owner /\ DOMAIN owner' = DOMAIN owner \cup {n}
          /\ owner'[n] = a
      BY <2>1, <3>1, Executed
    <3>3. DOMAIN owner' \subseteq 1..LastPtr
      BY DEF RoomInv, LastPtr
    <3>4. QED
      BY <3>2, <3>3
  <2>3. /\ q.op = "malloc" /\ o.res = [ok |-> TRUE, ptr |-> n]
        /\ b1 = [h \in DOMAIN b \cup {n} |-> IF h = n THEN Zeros(q.n) ELSE b[h]]
    BY <1>2, <1>4, <1>6, <2>1, DeviceParts DEF Allocates
  <2>4. /\ OnlyOf(a, b, w, b1, w1)
        /\ Part("up", b1, w1, a) = With(Part("up", b, w, a), n, Zeros(q.n))
    <3>1. n \notin DOMAIN b /\ w1[n] = a
      BY <1>2, <1>3, <2>2
    <3>2. /\ DOMAIN b1 = DOMAIN b \cup {n} /\ b1[n] = Zeros(q.n)
          /\ \A p \in DOMAIN b : b1[p] = b[p]
      BY <2>3, <3>1
    <3>3. \A p \in DOMAIN b : w1[p] = w[p]
      BY <1>4
    <3>4. Adds(b, w, a, n, Zeros(q.n), b1, w1)
      BY <3>1, <3>2, <3>3 DEF Adds
    <3>5. QED
      BY <3>4, PartAdds
  <2>5. PICK m : m = With(Mem[a], n, Zeros(q.n))
    OBVIOUS
  <2>6. Mem' = [Mem EXCEPT ![a] = m]
    <3>1. Part("up", b1, w1, a) = m
      BY <1>3, <2>4, <2>5
    <3>2. QED
      BY <1>2, <1>3, <2>4, <3>1, MemOthers
  <2>7. Serves(a, [ok |-> TRUE, ptr |-> n],
               [h \in DOMAIN Mem[a] \cup {n} |->
                   IF h = n THEN Zeros(q.n) ELSE Mem[a][h]])
    BY <1>1, <2>3, <2>5, <2>6 DEF Serves, With
  <2>8. QED
    BY <1>1, <1>2, <2>2, <2>3, <2>7, MemoryTakes
<1>7. CASE session = "open" /\ (\/ Frees(d, q, o) \/ Writes(d, q, o)
                                \/ Reads(d, q, o) \/ Syncs(d, q, o))
  <2>1. DOMAIN owner' = DOMAIN owner
    <3>1. ~Allocates(d, q, o)
      BY <1>7 DEF Allocates, Frees, Writes, Reads, Syncs
    <3>2. QED
      BY <1>2, <3>1, Executed
  <2>2. PICK M, m, r :
            M = Part("up", b, w, a) /\ m = Part("up", b1, w1, a) /\ r = o.res
    OBVIOUS
  <2>3. q \in RequestsOn(known[a]) /\ Mem[a] = M
    BY <1>2, <1>3, <2>2
  <2>4. CASE Frees(d, q, o)
    <3>1. /\ q.op = "free" /\ q.p \in DOMAIN b /\ r = Fine
          /\ b1 = [h \in DOMAIN b \ {q.p} |-> b[h]]
      <4>1. /\ q.op = "free" /\ q.p \in DOMAIN d.bufs /\ o.res = Fine
            /\ o.dev.bufs = [h \in DOMAIN d.bufs \ {q.p} |-> d.bufs[h]]
        BY <2>4, DeviceParts DEF Frees
      <4>2. QED
        BY <1>4, <2>2, <4>1
    <3>2. w[q.p] = a
      BY <1>4, <2>3, <3>1, RequestParts
    <3>3. /\ OnlyOf(a, b, w, b1, w1)
          /\ m = Without(M, q.p)
      <4>1. /\ DOMAIN b1 = DOMAIN b \ {q.p} /\ \A p \in DOMAIN b1 : b1[p] = b[p]
            /\ \A p \in DOMAIN b : w1[p] = w[p]
        BY <1>4, <3>1
      <4>2. Drops(b, w, a, q.p, b1, w1)
        BY <3>2, <4>1 DEF Drops
      <4>3. QED
        BY <2>2, <4>2, PartDrops
    <3>4. Serves(a, r, m)
      BY <1>1, <1>2, <1>3, <2>2, <3>3, MemOthers DEF Serves
    <3>5. q.p \in DOMAIN M
      BY <2>2, <3>1, <3>2, PartHas
    <3>6. Does(q, M, r, m)
      BY <3>1, <3>3, <3>5 DEF Does, Without
    <3>7. QED
      BY <1>1, <1>2, <2>1, <2>3, <3>4, <3>6, MemoryServes
  <2>5. CASE Writes(d, q, o)
    <3>1. /\ r = Fine
          /\ b1 = [b EXCEPT ![q.p] = Over(b[q.p], Written(d, q))]
          /\ \/ q.op = "htod" /\ Holds(d, q.p, Len(q.data))
             \/ q.op = "add" /\ \A h \in {q.x, q.y, q.p} : Holds(d, h, q.n)
      BY <1>4, <2>2, <2>5, DeviceParts DEF Writes
    <3>2. q.p \in DOMAIN b /\ w[q.p] = a
      BY <1>4, <2>3, <3>1, RequestParts DEF Holds
    <3>3. PICK v : v = Over(b[q.p], Written(d, q))
      OBVIOUS
    <3>4. /\ DOMAIN b1 = DOMAIN b /\ b1[q.p] = v
          /\ \A p \in DOMAIN b \ {q.p} : b1[p] = b[p]
      BY <3>1, <3>2, <3>3
    <3>5. /\ OnlyOf(a, b, w, b1, w1)
          /\ m = [M EXCEPT ![q.p] = v]
      <4>1. \A p \in DOMAIN b : w1[p] = w[p]
        BY <1>4
      <4>2. Sets(b, w, a, q.p, v, b1, w1)
        BY <3>2, <3>4, <4>1 DEF Sets
      <4>3. QED
        BY <2>2, <4>2, PartSets
    <3>6. Serves(a, r, m)
      BY <1>1, <1>2, <1>3, <2>2, <3>5, MemOthers DEF Serves
    <3>7. \A h \in DOMAIN b : w[h] = a => h \in DOMAIN M /\ M[h] = b[h]
      BY <2>2 DEF Part
    <3>8. CASE q.op = "htod" /\ Holds(d, q.p, Len(q.data))
      <4>1. q.p \in DOMAIN M /\ M[q.p] = b[q.p] /\ Len(q.data) <= Len(M[q.p])
        BY <1>4, <3>2, <3>7, <3>8 DEF Holds
      <4>2. m = [M EXCEPT ![q.p] = Over(M[q.p], q.data)]
        BY <3>3, <3>5, <3>8, <4>1 DEF Written
      <4>3. Does(q, M, r, m)
        BY <3>1, <3>8, <4>1, <4>2 DEF Does
      <4>4. QED
        BY <1>1, <1>2, <2>1, <2>3, <3>6, <4>3, MemoryServes
    <3>9. CASE q.op = "add" /\ \A h \in {q.x, q.y, q.p} : Holds(d, h, q.n)
      <4>1. \A h \in {q.x, q.y, q.p} : h \in DOMAIN b /\ w[h] = a
        BY <1>4, <2>3, <3>9, RequestParts DEF Holds
      <4>2. \A h \in {q.x, q.y, q.p} :
                h \in DOMAIN M /\ M[h] = b[h] /\ q.n <= Len(M[h])
        BY <1>4, <3>7, <3>9, <4>1 DEF Holds
      <4>3. m = [M EXCEPT ![q.p] = Over(M[q.p],
                    [j \in 1..q.n |-> Plus(M[q.x][j], M[q.y][j])])]
        <5>1. Written(d, q) = [j \in 1..q.n |-> Plus(b[q.x][j], b[q.y][j])]
          BY <1>4, <3>9 DEF Written
        <5>2. M[q.x] = b[q.x] /\ M[q.y] = b[q.y] /\ M[q.p] = b[q.p]
          BY <4>2
        <5>3. QED
          BY <3>3, <3>5, <5>1, <5>2
      <4>4. Does(q, M, r, m)
        BY <3>1, <3>9, <4>2, <4>3 DEF Does
      <4>5. QED
        BY <1>1, <1>2, <2>1, <2>3, <3>6, <4>4, MemoryServes
    <3>10. QED
      BY <3>1, <3>8, <3>9
  <2>6. CASE Reads(d, q, o) \/ Syncs(d, q, o)
    <3>1. b1 = b
      BY <1>2, <1>4, <2>6 DEF Reads, Syncs
    <3>2. m = M /\ OnlyOf(a, b, w, b1, w1)
      <4>1. \A c : {p \in DOMAIN b1 : w1[p] = c} = {p \in DOMAIN b : w[p] = c}
        BY <1>4, <3>1
      <4>2. \A c : Part("up", b1, w1, c) = Part("up", b, w, c)
        BY <3>1, <4>1, PartSame
      <4>3. QED
        BY <2>2, <4>2 DEF OnlyOf
    <3>3. Serves(a, r, m)
      BY <1>1, <1>2, <1>3, <2>2, <3>2, MemOthers DEF Serves
    <3>4. CASE Syncs(d, q, o)
      <4>1. q.op = "sync" /\ r = Fine
        BY <2>2, <3>4 DEF Syncs
      <4>2. Does(q, M, r, m)
        BY <3>2, <4>1 DEF Does
      <4>3. QED
        BY <1>1, <1>2, <2>1, <2>3, <3>3, <4>2, MemoryServes
    <3>5. CASE Reads(d, q, o)
      <4>1. /\ q.op = "dtoh" /\ q.p \in DOMAIN b /\ q.n <= Len(b[q.p])
            /\ r = [ok |-> TRUE, data |-> SubSeq(b[q.p], 1, q.n)]
        BY <1>4, <2>2, <3>5 DEF Reads, Holds
      <4>2. q.p \in DOMAIN M /\ M[q.p] = b[q.p]
        BY <1>4, <2>2, <2>3, <4>1, RequestParts DEF Part
      <4>3. Does(q, M, r, m)
        BY <3>2, <4>1, <4>2 DEF Does
      <4>4. QED
        BY <1>1, <1>2, <2>1, <2>3, <3>3, <4>3, MemoryServes
    <3>6. QED
      BY <2>6, <3>4, <3>5
  <2>7. QED
    BY <1>7, <2>4, <2>5, <2>6
<1>8. QED
  BY <1>2, <1>3, <1>4, <1>5, <1>6, <1>7, Outcomes DEF Executes

LEMMA PendStays ==
  ASSUME NEW a \in Apps, NEW x, Pend[a] = x, Pend' = [Pend EXCEPT ![a] = x]
  PROVE  Pend' = Pend
<1>1. PICK f : f = Pend
  OBVIOUS
<1>2. f = [b \in Apps |-> f[b]]
  BY <1>1 DEF Pend
<1>3. [f EXCEPT ![a] = x] = f
  BY <1>1, <1>2
<1>4. QED
  BY <1>1, <1>3

LEMMA AppRefines ==
  ASSUME TypeInv, RoomInv, NEW a \in Apps, AppStep(a)
  PROVE  Memory!Next \/ UNCHANGED Memory!mvars
<1>1. UNCHANGED <<conn, dev, owner, toClient>>
  BY DEF AppStep, Ask, Return, AppExit, host
<1>2. Mem' = Mem /\ DOMAIN owner' = DOMAIN owner
  BY <1>1, MemSame
<1>3. CASE Ask(a)
  <2>1. CASE UNCHANGED <<call, stage>>
    <3>1. Pend' = Pend
      BY <1>1, <1>3, <2>1, Asked DEF Pend
    <3>2. QED
      BY <1>2, <3>1, MemoryStutters
  <2>2. ASSUME NEW q \in RequestsOn(known[a]),
               call' = [call EXCEPT ![a] = q], stage' = [stage EXCEPT ![a] = "asked"]
        PROVE  Memory!Next
    <3>1. stage[a] = "idle" /\ ans' = ans
      BY <1>3, Asked
    <3>2. /\ call'[a] = q /\ stage'[a] = "asked"
          /\ \A b \in Apps \ {a} : call'[b] = call[b] /\ stage'[b] = stage[b]
      BY <2>2 DEF TypeInv, TypeOK
    <3>3. At(stage'[a], call'[a], ans'[a], toClient') = Asking(q)
      BY <3>2 DEF At, Asking
    <3>4. Pend' = [Pend EXCEPT ![a] = Asking(q)]
      BY <1>1, <3>1, <3>2, <3>3, PendOthers
    <3>5. Pend[a] = Idling
      BY <3>1 DEF Pend, At, Idling
    <3>6. known[a] \subseteq 1..LastPtr
      BY CallIsRequest DEF RoomInv, TypeInv
    <3>7. q \in RequestsOn(1..LastPtr)
      BY <3>6, RequestsGrow
    <3>8. Memory!Ask(a)
      BY <1>2, <3>4, <3>5, <3>7, MemoryAsks
    <3>9. QED
      BY <3>8 DEF Memory!Next
  <2>3. QED
    BY <1>3, <2>1, <2>2, Asked
<1>4. CASE Return(a)
  <2>1. /\ stage[a] = "answered" /\ stage'[a] = "idle"
        /\ \A b \in Apps \ {a} : /\ call'[b] = call[b] /\ stage'[b] = stage[b]
                                 /\ ans'[b] = ans[b]
    BY <1>4 DEF Return, TypeInv, TypeOK
  <2>2. At(stage'[a], call'[a], ans'[a], toClient') = Idling
    BY <2>1 DEF At, Idling
  <2>3. Pend' = [Pend EXCEPT ![a] = Idling]
    BY <1>1, <2>1, <2>2, PendOthers
  <2>4. Pend[a].at = "done"
    BY <2>1 DEF Pend, At
  <2>5. Memory!Tell(a)
    BY <1>2, <2>3, <2>4, MemoryTells
  <2>6. QED
    BY <2>5 DEF Memory!Next
<1>5. CASE AppExit(a)
  <2>1. Pend' = Pend
    BY <1>1, <1>5 DEF AppExit, Pend
  <2>2. QED
    BY <1>2, <2>1, MemoryStutters
<1>6. QED
  BY <1>3, <1>4, <1>5 DEF AppStep

LEMMA BridgeRefines ==
  ASSUME TypeInv, NEW a \in Apps, BridgeStep(a)
  PROVE  Memory!Next \/ UNCHANGED Memory!mvars
<1>1. UNCHANGED <<conn, dev, owner, call>>
  BY DEF BridgeStep, CallProvider, Receive, ReceiveFails, host
<1>2. Mem' = Mem /\ DOMAIN owner' = DOMAIN owner
  BY <1>1, MemSame
<1>3. ASSUME Pend[a] # Idling, Pend' = [Pend EXCEPT ![a] = Done(Refusal)]
      PROVE  Memory!Next
  BY <1>2, <1>3, MemoryFails DEF Memory!Next
<1>4. CASE CallProvider(a)
  <2>1. /\ stage[a] = "asked" /\ toClient = <<>> /\ toClient' = toClient
        /\ Pend[a] = Asking(call[a]) /\ Pend[a] # Idling
    BY <1>4, Sent, CallStates DEF Pend, At, Asking
  <2>2. CASE stage' = [stage EXCEPT ![a] = "waiting"] /\ ans' = ans
    <3>1. /\ stage'[a] = "waiting"
          /\ \A b \in Apps \ {a} : stage'[b] = stage[b]
      BY <2>2 DEF TypeInv, TypeOK
    <3>2. At(stage'[a], call'[a], ans'[a], toClient') = Asking(call[a])
      BY <1>1, <2>1, <3>1 DEF At, Asking
    <3>3. PICK x : x = Asking(call[a])
      OBVIOUS
    <3>4. Pend' = [Pend EXCEPT ![a] = x]
      BY <1>1, <2>1, <2>2, <3>1, <3>2, <3>3, PendOthers
    <3>5. Pend' = Pend
      BY <2>1, <3>3, <3>4, PendStays
    <3>6. QED
      BY <1>2, <3>5, MemoryStutters
  <2>3. CASE /\ stage' = [stage EXCEPT ![a] = "answered"]
             /\ ans' = [ans EXCEPT ![a] = Refusal]
    <3>1. /\ stage'[a] = "answered" /\ ans'[a] = Refusal
          /\ \A b \in Apps \ {a} : stage'[b] = stage[b] /\ ans'[b] = ans[b]
      BY <2>3 DEF TypeInv, TypeOK
    <3>2. At(stage'[a], call'[a], ans'[a], toClient') = Done(Refusal)
      BY <3>1 DEF At, Done
    <3>3. Pend' = [Pend EXCEPT ![a] = Done(Refusal)]
      BY <1>1, <2>1, <3>1, <3>2, PendOthers
    <3>4. QED
      BY <1>3, <2>1, <3>3
  <2>4. QED
    BY <1>4, <2>2, <2>3, Sent
<1>5. CASE Receive(a) \/ ReceiveFails(a)
  <2>1. PICK r \in Results :
            /\ Answered(a, r)
            /\ \/ conn = "down" /\ r = Refusal
               \/ toClient # <<>> /\ r = Head(toClient).res
    BY <1>5, Received
  <2>2. holder = {a} /\ stage[a] = "waiting"
    BY <1>5, Received
  <2>3. /\ stage'[a] = "answered" /\ ans'[a] = r
        /\ \A b \in Apps \ {a} : /\ stage'[b] = stage[b] /\ ans'[b] = ans[b]
                                 /\ stage[b] # "waiting"
    BY <2>1, <2>2 DEF Answered, TypeInv, TypeOK
  <2>4. At(stage'[a], call'[a], ans'[a], toClient') = Done(r)
    BY <2>3 DEF At, Done
  <2>5. Pend' = [Pend EXCEPT ![a] = Done(r)]
    BY <1>1, <2>3, <2>4, PendOthers
  <2>6. CASE r = Refusal
    <3>1. Pend[a] # Idling
      <4>1. Pend[a] = IF toClient # <<>> THEN Done(Head(toClient).res)
                                         ELSE Asking(call[a])
        BY <2>2 DEF Pend, At, Done, Asking
      <4>2. QED
        BY <4>1, CallStates
    <3>2. QED
      BY <1>3, <2>5, <2>6, <3>1
  <2>7. CASE toClient # <<>> /\ r = Head(toClient).res
    <3>1. Pend[a] = Done(r)
      BY <2>2, <2>7 DEF Pend, At, Done
    <3>2. Pend' = Pend
      BY <2>5, <3>1, PendStays
    <3>3. QED
      BY <1>2, <3>2, MemoryStutters
  <2>8. QED
    BY <2>1, <2>6, <2>7
<1>6. QED
  BY <1>4, <1>5 DEF BridgeStep

LEMMA HostRefines ==
  ASSUME TypeInv, OffsetInv, RoomInv, RoomInv', HostStep \/ ConnDrop
  PROVE  Memory!Next \/ UNCHANGED Memory!mvars
<1>1. CASE HandleCudaOp
  <2>1. PICK a, i, o : a \in Apps /\ Executes(a, i, o)
    BY <1>1, HandlesTheHolder
  <2>2. Memory!Serve(a) \/ Memory!Fail(a)
    BY <2>1, ExecutesRefines
  <2>3. QED
    BY <2>1, <2>2 DEF Memory!Next
<1>2. CASE OpenSession \/ SessionEnds
  <2>1. UNCHANGED <<conn, owner, stage, call, ans, toClient>>
    BY <1>2 DEF OpenSession, SessionEnds, apps
  <2>2. Mem' = Mem
    <3>1. CASE OpenSession
      <4>1. DOMAIN dev.bufs = {} /\ DOMAIN dev'.bufs = {}
        <5>1. Backend.bufs = <<>> /\ DOMAIN <<>> = {}
          BY DEF Backend
        <5>2. dev = Backend
          BY <3>1 DEF OpenSession, TypeInv, DeviceInv
        <5>3. [Next]_vars /\ (HandleCudaOp => UNCHANGED session) /\ session' # session
          BY <3>1 DEF Next, HostStep, HandleCudaOp, OpenSession
        <5>4. DOMAIN dev'.bufs = {}
          BY <5>3, TableSteps
        <5>5. QED
          BY <5>1, <5>2, <5>4
      <4>2. \A a \in Apps : Part(conn', dev'.bufs, owner', a) = <<>>
                            /\ Part(conn, dev.bufs, owner, a) = <<>>
        BY <4>1, PartEmpty
      <4>3. QED
        BY <4>2 DEF Mem
    <3>2. CASE SessionEnds
      <4>1. conn # "up" /\ conn' # "up"
        BY <3>2 DEF SessionEnds
      <4>2. \A a \in Apps : Part(conn', dev'.bufs, owner', a) = <<>>
                            /\ Part(conn, dev.bufs, owner, a) = <<>>
        BY <4>1, PartDown
      <4>3. QED
        BY <4>2 DEF Mem
    <3>3. QED
      BY <1>2, <3>1, <3>2
  <2>3. Pend' = Pend
    BY <2>1 DEF Pend
  <2>4. QED
    BY <2>1, <2>2, <2>3, MemoryStutters
<1>3. CASE Lost
  <2>1. conn' # "up" /\ UNCHANGED <<owner, stage, call, ans, toClient>>
    BY <1>3, LostParts
  <2>2. \A a \in Apps : Part(conn', dev'.bufs, owner', a) = <<>>
    BY <2>1, PartDown
  <2>3. Mem' = [a \in Apps |-> <<>>]
    BY <2>2 DEF Mem
  <2>4. Pend' = Pend
    BY <2>1 DEF Pend
  <2>5. Memory!Reset
    BY <2>1, <2>3, <2>4, MemoryResets
  <2>6. QED
    BY <2>5 DEF Memory!Next
<1>4. QED
  BY <1>1, <1>2, <1>3 DEF HostStep, Lost

LEMMA MemoryInit == Init => Memory!Init
<1> SUFFICES ASSUME Init PROVE Memory!Init
  OBVIOUS
<1>1. /\ DOMAIN dev.bufs = {} /\ DOMAIN owner = {}
      /\ \A a \in Apps : stage[a] = "idle"
  BY DEF Init, Backend
<1>2. \A a \in Apps : Part(conn, dev.bufs, owner, a) = <<>>
  BY <1>1, PartEmpty
<1>3. \A a \in Apps : At(stage[a], call[a], ans[a], toClient) = Idling
  BY <1>1 DEF At, Idling
<1>4. /\ Mem = [a \in Apps |-> <<>>] /\ Pend = [a \in Apps |-> Idling]
  BY <1>2, <1>3 DEF Mem, Pend
<1>5. QED
  BY <1>1, <1>4 DEF Memory!Init, Memory!Idle, Mem, Pend, Part, At, Idling

LEMMA MemoryStep ==
  TypeInv /\ OffsetInv /\ RoomInv /\ [Next]_vars => [Memory!Next]_(Memory!mvars)
<1> SUFFICES ASSUME TypeInv, OffsetInv, RoomInv, [Next]_vars
             PROVE  Memory!Next \/ UNCHANGED Memory!mvars
  OBVIOUS
<1>1. CASE UNCHANGED vars
  <2>1. Mem' = Mem /\ Pend' = Pend /\ DOMAIN owner' = DOMAIN owner
    BY <1>1 DEF vars, host, apps, Mem, Pend
  <2>2. QED
    BY <2>1, MemoryStutters
<1>2. ASSUME NEW a \in Apps, AppStep(a) \/ BridgeStep(a)
      PROVE  Memory!Next \/ UNCHANGED Memory!mvars
  BY <1>2, AppRefines, BridgeRefines
<1>3. CASE HostStep \/ ConnDrop
  BY <1>3, RoomStep, HostRefines
<1>4. QED
  BY <1>1, <1>2, <1>3 DEF Next

\* For any programs, sizes, limits, ids and failures, the mutex, the ids and the
\* table of the session give every program a memory of its own: every step of
\* the stub, the bridge, the connection and the provider is a step of
\* RemoteMemory or changes nothing in it (cuda_remote.rs:281-319,
\* cuda_backend.rs:200-304).
THEOREM MemoryImplemented == Spec => ImplementsMemory
<1>1. Init => RoomInv
  BY DEF Init, RoomInv, Mallocs
<1>2. Init => OffsetInv
  <2>1. Init => dev.next = FirstPtr /\ DOMAIN owner = {}
    BY DEF Init, Backend
  <2>2. FirstPtr \in Nat
    BY CudaAssumption DEF FirstPtr
  <2>3. QED
    BY <2>1, <2>2 DEF OffsetInv, OffsetsNameNothing
<1>3. Spec => [](OffsetInv /\ RoomInv)
  BY <1>1, <1>2, OffsetStep, RoomStep, TypeInvariant, PTL DEF Spec
<1>4. QED
  BY <1>3, MemoryInit, MemoryStep, TypeInvariant, PTL
  DEF Spec, ImplementsMemory, Memory!Spec
===============================================================================
