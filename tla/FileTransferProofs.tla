-------------------------- MODULE FileTransferProofs --------------------------
(***************************************************************************)
(* Theorems about FileTransfer: for any attempts at any paths, with files  *)
(* of any length, lost connections and crashes of the provider.            *)
(***************************************************************************)
EXTENDS FileTransfer, TLAPS

-------------------------------------------------------------------------------
(* What is on its way.                                                     *)

Frame == [type : {"offer"}]
         \cup [type : {"chunk"}, at : Nat, data : Seq(Nat), eof : BOOLEAN]
Ack   == [type : {"ack"}, ok : BOOLEAN, from : Nat]
Piece == [data : Seq(Nat), eof : BOOLEAN]
File  == Seq(Nat)

Typed ==
    /\ plan \in Plans
    /\ up       \in [Uploads -> {"idle", "offered", "sending", "waiting", "ok",
                                 "rejected", "failed"}]
    /\ phase    \in [Uploads -> Phases]
    /\ offset   \in [Uploads -> Nat]
    /\ connUp   \in [Uploads \cup Downloads -> BOOLEAN]
    /\ toServer \in [Uploads -> Seq(Frame)]
    /\ toClient \in [Uploads -> Seq(Ack)]
    /\ buf      \in [Uploads -> File]
    /\ partial  \in [Paths -> File \cup {Absent}]
    /\ losses   \in 0..plan.losses

\* The chunk that carries eof: the last block, or the only and empty chunk.
Size(u)      == Len(ContentOf(u))
LastChunk(u) == IF Size(u) = 0 THEN 0 ELSE Size(u) - 1
DataAt(u, k) == IF k < Size(u) THEN <<ContentOf(u)[k + 1]>> ELSE <<>>

\* How much the buffer holds, and how many frames are under way to it.
Held(u) == Len(buf[u])
Sent(u) == Len(toServer[u])

IsChunk(u, f, k) ==
    /\ f.type = "chunk" /\ f.at = k
    /\ f.data = DataAt(u, k)
    /\ f.eof <=> k = LastChunk(u)

\* The chunks under way continue the buffer, none missing in between.
Arriving(u) ==
    /\ Held(u) <= LastChunk(u)
    /\ Held(u) + Sent(u) <= LastChunk(u) + 1
    /\ \A i \in 1..Sent(u) :
           IsChunk(u, toServer[u][i], Held(u) + i - 1)

Offered(u) ==
    /\ phase[u] \in {"none", "receiving", "over"}
    /\ connUp[u] => phase[u] # "over"
    /\ phase[u] = "receiving" => toServer[u] = <<>>
    /\ toClient[u] # <<>> =>
           Len(toClient[u]) = 1 /\ toClient[u][1].from = Held(u)

Sending(u) ==
    /\ toClient[u] = <<>>
    /\ phase[u] \in {"receiving", "over"}
    /\ connUp[u] => phase[u] = "receiving"
    /\ phase[u] = "receiving" =>
           /\ Held(u) + Sent(u) <= LastChunk(u)
           /\ connUp[u] => offset[u] = Held(u) + Sent(u)

Waiting(u) ==
    /\ phase[u] # "none"
    /\ toClient[u] # <<>> =>
           /\ phase[u] \in {"over", "unverified"} /\ Len(toClient[u]) = 1
           /\ Held(u) = Size(u)
           /\ toClient[u][1].ok <=> HashOk(u)

\* How a consumer and its session stand to each other.
Session(u) ==
    /\ up[u] = "idle" => phase[u] = "none" /\ toServer[u] = <<>>
    /\ up[u] # "idle" => u \in plan.attempts
    /\ connUp[u] => Active(u)
    /\ offset[u] <= Size(u) /\ Held(u) <= Size(u)
    /\ phase[u] = "none" =>
           /\ buf[u] = <<>> /\ toClient[u] = <<>>
           /\ toServer[u] = <<>> \/ toServer[u] = <<[type |-> "offer"]>>
    /\ phase[u] = "receiving" => Arriving(u)
    /\ phase[u] \notin {"none", "receiving"} => toServer[u] = <<>>
    /\ phase[u] \notin {"none", "receiving", "over"} => Held(u) = Size(u)
    /\ up[u] = "offered" => Offered(u)
    /\ up[u] = "sending" => Sending(u)
    /\ up[u] = "waiting" => Waiting(u)
    /\ up[u] \in {"ok", "rejected"} =>
           /\ phase[u] \in {"over", "unverified"} /\ Held(u) = Size(u)
           /\ up[u] = "ok" <=> HashOk(u)

SInv == Typed /\ \A u \in Uploads : Session(u)

-------------------------------------------------------------------------------
(* Sequences.                                                              *)

LEMMA PlanFacts ==
  ASSUME Typed
  PROVE  /\ plan.losses \in Nat
         /\ \A a \in Uploads \cup Downloads : PathOf(a) \in Paths
         /\ \A u \in Uploads : /\ ContentOf(u) \in File /\ Size(u) \in Nat
                               /\ LastChunk(u) \in Nat /\ LastChunk(u) <= Size(u)
                               /\ Size(u) > 0 => LastChunk(u) = Size(u) - 1
                               /\ Size(u) = 0 => LastChunk(u) = 0
                               /\ \A k \in Nat : DataAt(u, k) \in File
<1>1. /\ plan.losses \in Nat
      /\ \A a \in Uploads \cup Downloads : PathOf(a) \in Paths
      /\ \A u \in Uploads : ContentOf(u) \in File
  BY TransferConstants DEF Typed, PathOf, ContentOf, File
<1>2. ASSUME NEW u \in Uploads
      PROVE  /\ Size(u) \in Nat
             /\ LastChunk(u) \in Nat /\ LastChunk(u) <= Size(u)
             /\ Size(u) > 0 => LastChunk(u) = Size(u) - 1
             /\ Size(u) = 0 => LastChunk(u) = 0
             /\ \A k \in Nat : DataAt(u, k) \in File
  <2>1. Size(u) \in Nat BY <1>1 DEF Size, File
  <2>2. /\ LastChunk(u) \in Nat /\ LastChunk(u) <= Size(u)
        /\ Size(u) > 0 => LastChunk(u) = Size(u) - 1
        /\ Size(u) = 0 => LastChunk(u) = 0
    BY <2>1 DEF LastChunk
  <2>3. ASSUME NEW k \in Nat PROVE DataAt(u, k) \in File
    <3>1. CASE k < Size(u)
      <4>1. ContentOf(u)[k + 1] \in Nat BY <3>1, <1>1, <2>1 DEF Size, File
      <4> QED BY <4>1, <3>1 DEF DataAt, File
    <3>2. CASE ~(k < Size(u)) BY <3>2 DEF DataAt, File
    <3> QED BY <3>1, <3>2
  <2> QED BY <2>1, <2>2, <2>3
<1> QED BY <1>1, <1>2

LEMMA UploadFacts ==
  ASSUME Typed, NEW u \in Uploads
  PROVE  /\ ContentOf(u) \in File /\ Size(u) \in Nat
         /\ LastChunk(u) \in Nat /\ LastChunk(u) <= Size(u)
         /\ Size(u) > 0 => LastChunk(u) = Size(u) - 1
         /\ Size(u) = 0 => LastChunk(u) = 0
         /\ \A k \in Nat : DataAt(u, k) \in File
         /\ offset[u] \in Nat /\ connUp[u] \in BOOLEAN
         /\ buf[u] \in File /\ Held(u) \in Nat
         /\ toServer[u] \in Seq(Frame) /\ Sent(u) \in Nat
         /\ toClient[u] \in Seq(Ack) /\ Len(toClient[u]) \in Nat
<1>1. /\ offset[u] \in Nat /\ connUp[u] \in BOOLEAN /\ buf[u] \in File
      /\ toServer[u] \in Seq(Frame) /\ toClient[u] \in Seq(Ack)
  BY DEF Typed
<1>2. /\ Held(u) \in Nat /\ Sent(u) \in Nat
      /\ Len(toClient[u]) \in Nat
  BY <1>1 DEF File, Held, Sent
<1> QED BY <1>1, <1>2, PlanFacts

\* The plan does not change, nor what is read off it.
LEMMA PlanKept ==
  ASSUME NEW u \in Uploads, plan' = plan
  PROVE  /\ ContentOf(u)' = ContentOf(u) /\ Size(u)' = Size(u)
         /\ LastChunk(u)' = LastChunk(u)
         /\ \A f, k : IsChunk(u, f, k)' <=> IsChunk(u, f, k)
<1>1. ContentOf(u)' = ContentOf(u) BY DEF ContentOf
<1>2. Size(u)' = Size(u) BY <1>1 DEF Size
<1>3. LastChunk(u)' = LastChunk(u) BY <1>2 DEF LastChunk
<1> QED BY <1>1, <1>2, <1>3 DEF IsChunk, DataAt

LEMMA AbsentIsNoFile == Absent \notin File
BY DEF Absent, File

LEMMA TailOfOne ==
  ASSUME NEW S, NEW q \in Seq(S), Len(q) = 1
  PROVE  Head(q) = q[1] /\ Tail(q) = <<>>
<1>1. q # <<>> OBVIOUS
<1>2. Tail(q) \in Seq(S) /\ Len(Tail(q)) = 0 BY <1>1
<1> DEFINE t == Tail(q)
<1>3. t \in Seq(S) /\ Len(t) = 0 BY <1>2
<1> HIDE DEF t
<1>4. t = <<>> BY <1>3
<1>5. Head(q) = q[1] BY <1>1
<1> QED BY <1>4, <1>5 DEF t

\* A chunk that continues the buffer is put behind it.
LEMMA SpliceAtEnd ==
  ASSUME NEW b \in File, NEW data \in File
  PROVE  Splice(b, Len(b), data) = b \o data
<1> DEFINE padded == [i \in 1..(IF Len(b) > Len(b) THEN Len(b) ELSE Len(b)) |->
                         IF i <= Len(b) THEN b[i] ELSE 0]
<1>1. Len(b) \in Nat /\ Len(data) \in Nat BY DEF File
<1>2. padded = b
  <2>1. b = [i \in 1..Len(b) |-> b[i]] BY DEF File
  <2>2. padded = [i \in 1..Len(b) |-> b[i]] BY <1>1
  <2> QED BY <2>1, <2>2
<1>3. ~(Len(b) + Len(data) < Len(b)) BY <1>1
<1>4. SubSeq(b, 1, Len(b)) = b BY DEF File
<1>5. (b \o data) \o <<>> = b \o data BY DEF File
<1> HIDE DEF padded
<1>6. Splice(b, Len(b), data) =
        SubSeq(padded, 1, Len(b)) \o data
          \o (IF Len(b) + Len(data) < Len(padded)
              THEN SubSeq(padded, Len(b) + Len(data) + 1, Len(padded)) ELSE <<>>)
  BY DEF Splice, padded
<1> QED BY <1>2, <1>3, <1>4, <1>5, <1>6

LEMMA PrefixFacts ==
  ASSUME NEW S, NEW q \in Seq(S), NEW n \in 0..Len(q)
  PROVE  /\ SubSeq(q, 1, n) \in Seq(S) /\ Len(SubSeq(q, 1, n)) = n
         /\ \A i \in 1..n : SubSeq(q, 1, n)[i] = q[i]
         /\ Len(q) \in Nat /\ n \in Nat /\ n <= Len(q)
         /\ n = 0 => SubSeq(q, 1, n) = <<>>
         /\ n = Len(q) => SubSeq(q, 1, n) = q
<1>1. Len(q) \in Nat /\ n \in Nat /\ n <= Len(q) OBVIOUS
<1>2. /\ SubSeq(q, 1, n) \in Seq(S) /\ Len(SubSeq(q, 1, n)) = n
      /\ \A i \in 1..n : SubSeq(q, 1, n)[i] = q[i]
  BY <1>1
<1>3. n = 0 => SubSeq(q, 1, n) = <<>> BY <1>1, <1>2
<1>4. n = Len(q) => SubSeq(q, 1, n) = q BY <1>1, <1>2
<1> QED BY <1>1, <1>2, <1>3, <1>4

\* A file operation may fail, which counts as something that went wrong.
LEMMA FaultsTyped ==
  ASSUME Typed, plan' = plan, Fault \/ losses' = losses
  PROVE  losses' \in 0..plan'.losses
<1>1. losses \in 0..plan.losses /\ plan.losses \in Nat
  BY PlanFacts DEF Typed
<1> QED BY <1>1 DEF Fault

-------------------------------------------------------------------------------
(* The steps.                                                              *)

LEMMA SInit == Init => SInv
<1> SUFFICES ASSUME Init PROVE SInv OBVIOUS
<1>1. plan.losses \in Nat BY TransferConstants DEF Init
<1>2. Typed
  <2>1. <<>> \in File /\ <<>> \in Seq(Frame) /\ <<>> \in Seq(Ack)
        /\ <<>> \in Seq(Piece)
    BY DEF File
  <2> QED BY <1>1, <2>1 DEF Init, Typed, Phases
<1>3. \A u \in Uploads : Size(u) \in Nat BY <1>2, PlanFacts
<1>4. ASSUME NEW u \in Uploads PROVE Session(u)
  <2>1. /\ up[u] = "idle" /\ phase[u] = "none" /\ toServer[u] = <<>>
        /\ toClient[u] = <<>> /\ buf[u] = <<>> /\ connUp[u] = FALSE
        /\ offset[u] = 0
    BY DEF Init
  <2>2. Held(u) = 0 BY <2>1 DEF Held
  <2> QED BY <2>1, <2>2, <1>3 DEF Session
<1> QED BY <1>2, <1>4 DEF SInv

\* What does not touch an upload leaves its session as it is.
LEMMA SessionKept ==
  ASSUME NEW u \in Uploads, Session(u),
         plan' = plan, up'[u] = up[u], phase'[u] = phase[u],
         connUp'[u] = connUp[u], offset'[u] = offset[u],
         toServer'[u] = toServer[u], toClient'[u] = toClient[u],
         buf'[u] = buf[u]
  PROVE  Session(u)'
<1>1. ContentOf(u)' = ContentOf(u) BY DEF ContentOf
<1>2. /\ (HashOk(u)' <=> HashOk(u)) /\ (Active(u)' <=> Active(u))
      /\ Held(u)' = Held(u) /\ Sent(u)' = Sent(u)
  BY <1>1 DEF HashOk, Active, Held, Sent
<1>5. Arriving(u)' <=> Arriving(u) BY <1>2, PlanKept DEF Arriving
<1>6. Offered(u)' <=> Offered(u) BY <1>2 DEF Offered
<1>7. Sending(u)' <=> Sending(u) BY <1>2, PlanKept DEF Sending
<1>8. Waiting(u)' <=> Waiting(u) BY <1>2, PlanKept DEF Waiting
<1> QED BY <1>2, <1>5, <1>6, <1>7, <1>8, PlanKept DEF Session

LEMMA KOffer ==
  ASSUME SInv, NEW u \in Uploads, SendOffer(u)
  PROVE  SInv'
<1>1. /\ plan' = plan /\ up[u] = "idle" /\ u \in plan.attempts
      /\ up' = [up EXCEPT ![u] = "offered"]
      /\ connUp' = [connUp EXCEPT ![u] = TRUE]
      /\ toServer' = [toServer EXCEPT ![u] = <<[type |-> "offer"]>>]
      /\ UNCHANGED <<offset, toClient, phase, buf, partial, losses>>
  BY DEF SendOffer, diskVars, downloadVars
<1>2. Typed'
  <2>1. <<[type |-> "offer"]>> \in Seq(Frame) BY DEF Frame
  <2> QED BY <1>1, <2>1 DEF SInv, Typed
<1>3. ASSUME NEW v \in Uploads, v # u PROVE Session(v)'
  BY <1>1, <1>3, SessionKept DEF SInv, Typed
<1>4. Session(u)'
  <2>1. Session(u) BY DEF SInv
  <2>2. /\ up'[u] = "offered" /\ connUp'[u] = TRUE
        /\ toServer'[u] = <<[type |-> "offer"]>>
        /\ phase'[u] = "none" /\ buf'[u] = <<>> /\ toClient'[u] = <<>>
        /\ offset'[u] = offset[u] /\ buf'[u] = buf[u]
    BY <1>1, <2>1 DEF SInv, Typed, Session
  <2>3. offset'[u] <= Size(u)' /\ Held(u)' <= Size(u)'
    BY <1>1, <2>1, <2>2, PlanKept DEF Session, Held
  <2>4. Offered(u)' BY <2>2 DEF Offered
  <2> QED BY <1>1, <2>2, <2>3, <2>4 DEF Session, Active
<1> QED BY <1>2, <1>3, <1>4 DEF SInv

LEMMA KResume ==
  ASSUME SInv, NEW u \in Uploads, ReadResume(u)
  PROVE  SInv'
<1> DEFINE from == Head(toClient[u]).from
           start == IF from <= Size(u) THEN from ELSE Size(u)
<1>0. Session(u) /\ Offered(u) /\ toClient[u] \in Seq(Ack)
  BY DEF SInv, Typed, ReadResume, Session
<1>1. /\ plan' = plan /\ up[u] = "offered" /\ toClient[u] # <<>>
      /\ up' = [up EXCEPT ![u] = "sending"]
      /\ offset' = [offset EXCEPT ![u] = start]
      /\ toClient' = [toClient EXCEPT ![u] = Tail(@)]
      /\ UNCHANGED <<connUp, toServer, phase, buf, partial, losses>>
  BY DEF ReadResume, diskVars, downloadVars, Size
<1>2. /\ Len(toClient[u]) = 1 /\ from = Held(u)
      /\ Tail(toClient[u]) = <<>> /\ phase[u] # "none"
  <2>1. Len(toClient[u]) = 1 /\ toClient[u][1].from = Held(u)
    BY <1>0, <1>1 DEF Offered
  <2>2. Head(toClient[u]) = toClient[u][1] /\ Tail(toClient[u]) = <<>>
    <3> DEFINE q == toClient[u]
    <3>1. q \in Seq(Ack) /\ Len(q) = 1 BY <1>0, <2>1
    <3> HIDE DEF q
    <3>2. Head(q) = q[1] /\ Tail(q) = <<>> BY <3>1
    <3> QED BY <3>2 DEF q
  <2> QED BY <1>0, <1>1, <2>1, <2>2 DEF Session
<1>3. Held(u) \in Nat /\ Held(u) <= Size(u) /\ Size(u) \in Nat
  BY <1>0, UploadFacts DEF SInv, Session
<1>4. start = Held(u) BY <1>2, <1>3
<1> HIDE DEF from, start
<1>5. Typed'
  <2>1. <<>> \in Seq(Ack) OBVIOUS
  <2> QED BY <1>1, <1>2, <1>3, <1>4, <2>1 DEF SInv, Typed
<1>6. ASSUME NEW v \in Uploads, v # u PROVE Session(v)'
  BY <1>1, <1>6, SessionKept DEF SInv, Typed
<1>7. Session(u)'
  <2>1. /\ up'[u] = "sending" /\ offset'[u] = Held(u)
        /\ toClient'[u] = <<>>
        /\ connUp'[u] = connUp[u] /\ toServer'[u] = toServer[u]
        /\ phase'[u] = phase[u] /\ buf'[u] = buf[u]
    BY <1>1, <1>2, <1>4 DEF SInv, Typed
  <2>2. /\ Size(u)' = Size(u) /\ LastChunk(u)' = LastChunk(u)
        /\ Held(u)' = Held(u) /\ Sent(u)' = Sent(u)
    BY <1>1, <2>1, PlanKept DEF Held, Sent
  <2>3. phase[u] = "receiving" =>
          /\ toServer[u] = <<>> /\ Held(u) <= LastChunk(u)
          /\ Sent(u) = 0
    BY <1>0, <1>1 DEF Offered, Session, Arriving, Sent
  <2>4. Sending(u)'
    <3>1. phase[u] \in {"receiving", "over"}
      BY <1>0, <1>2 DEF Offered
    <3>2. connUp[u] => phase[u] = "receiving" BY <1>0, <3>1 DEF Offered
    <3>3. phase[u] = "receiving" =>
            /\ Held(u)' + Sent(u)' <= LastChunk(u)'
            /\ offset'[u] = Held(u)' + Sent(u)'
      <4>1. Held(u) \in Nat BY <1>3
      <4> QED BY <4>1, <2>1, <2>2, <2>3
    <3> QED BY <2>1, <3>1, <3>2, <3>3 DEF Sending
  <2>5. Arriving(u)' <=> Arriving(u)
    BY <1>1, <2>1, <2>2, PlanKept DEF Arriving
  <2> QED BY <1>0, <1>1, <1>2, <1>3, <2>1, <2>2, <2>4, <2>5 DEF Session, Active
<1> QED BY <1>5, <1>6, <1>7 DEF SInv

LEMMA KChunk ==
  ASSUME SInv, NEW u \in Uploads, SendChunk(u)
  PROVE  SInv'
<1> DEFINE k == offset[u]
           data == DataAt(u, k)
           eof == k + Len(data) >= Size(u)
           f == [type |-> "chunk", at |-> k, data |-> data, eof |-> eof]
<1>0. Session(u) /\ Sending(u) /\ connUp[u] /\ up[u] = "sending"
  BY DEF SInv, SendChunk, Session
<1>1. /\ plan' = plan
      /\ toServer' = [toServer EXCEPT ![u] = Append(@, f)]
      /\ offset' = [offset EXCEPT ![u] = @ + Len(data)]
      /\ up' = [up EXCEPT ![u] = IF eof THEN "waiting" ELSE @]
      /\ UNCHANGED <<connUp, toClient, phase, buf, partial, losses>>
  BY DEF SendChunk, diskVars, downloadVars, DataAt, Size
<1>2. /\ phase[u] = "receiving" /\ toClient[u] = <<>>
      /\ k = Held(u) + Sent(u) /\ k <= LastChunk(u)
      /\ Arriving(u)
  BY <1>0 DEF Sending, Session
<1>3. data \in File /\ toServer[u] \in Seq(Frame)
  BY UploadFacts DEF SInv
<1>n. /\ k \in Nat /\ Size(u) \in Nat /\ LastChunk(u) \in Nat
      /\ LastChunk(u) <= Size(u)
      /\ Held(u) \in Nat /\ Sent(u) \in Nat
  BY UploadFacts DEF SInv
<1>m. k = Held(u) + Sent(u) /\ k <= LastChunk(u)
  BY <1>2
<1>4. /\ k + Len(data) \in Nat /\ k + Len(data) <= Size(u)
      /\ eof <=> k = LastChunk(u)
      /\ ~eof => k + Len(data) <= LastChunk(u) /\ Len(data) = 1
  <2>1. CASE k < Size(u)
    <3>1. Len(data) = 1 BY <2>1 DEF DataAt
    <3>2. LastChunk(u) = Size(u) - 1 BY <2>1, <1>n, UploadFacts DEF SInv
    <3> HIDE DEF k, data
    <3> QED BY <1>m, <1>n, <2>1, <3>1, <3>2
  <2>2. CASE ~(k < Size(u))
    <3>1. Len(data) = 0 BY <2>2 DEF DataAt
    <3>2. Size(u) = 0 /\ LastChunk(u) = 0
      <4>1. Size(u) = 0 \/ LastChunk(u) = Size(u) - 1
        BY <1>n, UploadFacts DEF SInv
      <4>2. Size(u) = 0
        <5> HIDE DEF k
        <5> QED BY <4>1, <1>m, <1>n, <2>2
      <4> QED BY <4>2, UploadFacts DEF SInv
    <3> HIDE DEF k, data
    <3> QED BY <1>m, <1>n, <3>1, <3>2
  <2> QED BY <2>1, <2>2
<1>5. f \in Frame /\ IsChunk(u, f, k)
  <2>1. eof \in BOOLEAN OBVIOUS
  <2>2. f \in Frame BY <1>3, <1>n, <2>1 DEF Frame, File
  <2>3. f.type = "chunk" /\ f.at = k /\ f.data = data /\ f.eof = eof OBVIOUS
  <2> QED BY <1>4, <2>2, <2>3 DEF IsChunk
<1> HIDE DEF k, data, eof, f
<1>6. Typed'
  <2>1. Append(toServer[u], f) \in Seq(Frame) BY <1>3, <1>5
  <2>2. toServer' \in [Uploads -> Seq(Frame)] BY <1>1, <2>1 DEF SInv, Typed
  <2>3. offset' \in [Uploads -> Nat] BY <1>1, <1>4 DEF SInv, Typed, k
  <2> QED BY <1>1, <2>2, <2>3 DEF SInv, Typed
<1>7. ASSUME NEW v \in Uploads, v # u PROVE Session(v)'
  BY <1>1, <1>7, SessionKept DEF SInv, Typed
<1>8. Session(u)'
  <2>1. /\ up'[u] = IF eof THEN "waiting" ELSE "sending"
        /\ offset'[u] = k + Len(data)
        /\ toServer'[u] = Append(toServer[u], f)
        /\ toClient'[u] = <<>> /\ connUp'[u] = connUp[u]
        /\ phase'[u] = "receiving" /\ buf'[u] = buf[u]
    BY <1>0, <1>1, <1>2 DEF SInv, Typed, k
  <2>2. /\ Size(u)' = Size(u) /\ LastChunk(u)' = LastChunk(u)
        /\ Held(u)' = Held(u)
    BY <1>1, <2>1, PlanKept DEF Held
  <2>3. /\ Sent(u)' = Sent(u) + 1
        /\ \A i \in 1..Sent(u) : toServer'[u][i] = toServer[u][i]
        /\ toServer'[u][Sent(u) + 1] = f
    <3> DEFINE q == toServer[u]
    <3>1. q \in Seq(Frame) /\ f \in Frame BY <1>3, <1>5
    <3> HIDE DEF q
    <3>2. /\ Len(Append(q, f)) = Len(q) + 1
          /\ \A i \in 1..Len(q) : Append(q, f)[i] = q[i]
          /\ Append(q, f)[Len(q) + 1] = f
      BY <3>1
    <3> QED BY <3>2, <2>1 DEF q, Sent
  <2>4. Arriving(u)'
    <3>1. \A g, j : IsChunk(u, g, j)' <=> IsChunk(u, g, j)
      BY <1>1, PlanKept
    <3>2. ASSUME NEW i \in 1..Sent(u)'
          PROVE  IsChunk(u, toServer'[u][i], Held(u) + i - 1)
      <4>1. CASE i \in 1..Sent(u)
        BY <4>1, <1>2, <2>3 DEF Arriving
      <4>2. CASE i = Sent(u) + 1
        <5>1. Held(u) + i - 1 = k BY <4>2, <1>m, <1>n
        <5> QED BY <4>2, <5>1, <1>5, <2>3
      <4> QED BY <4>1, <4>2, <1>n, <2>3
    <3>3. \A i \in 1..Sent(u)' :
            IsChunk(u, toServer[u][i], Held(u) + i - 1)'
      BY <3>1, <3>2, <2>2
    <3>4. /\ Held(u)' <= LastChunk(u)'
          /\ Held(u)' + Sent(u)' <= LastChunk(u)' + 1
      <4>1. Held(u) <= LastChunk(u) BY <1>2 DEF Arriving
      <4>2. Held(u) + (Sent(u) + 1) <= LastChunk(u) + 1
        BY <1>m, <1>n
      <4> QED BY <4>1, <4>2, <2>1, <2>2, <2>3
    <3> QED BY <3>3, <3>4 DEF Arriving
  <2>5. ~eof => Sending(u)'
    <3> SUFFICES ASSUME ~eof PROVE Sending(u)' OBVIOUS
    <3>1. /\ k + 1 = Held(u) + (Sent(u) + 1)
          /\ k + 1 <= LastChunk(u) /\ Len(data) = 1
      BY <1>m, <1>n, <1>4
    <3>2. /\ Held(u)' + Sent(u)' = k + 1
          /\ offset'[u] = k + 1
      <4>1. k + Len(data) = k + 1 BY <3>1
      <4> QED BY <4>1, <3>1, <2>1, <2>2, <2>3
    <3> QED BY <3>1, <3>2, <2>1, <2>2 DEF Sending
  <2>6. eof => Waiting(u)' BY <2>1 DEF Waiting
  <2>7. u \in plan.attempts /\ Held(u) <= Size(u)
    BY <1>0 DEF Session
  <2> QED BY <1>1, <1>4, <2>1, <2>2, <2>4, <2>5, <2>6, <2>7
          DEF Session, Active
<1> QED BY <1>6, <1>7, <1>8 DEF SInv

LEMMA KVerdict ==
  ASSUME SInv, NEW u \in Uploads, ReadVerdict(u) \/ UploadFails(u)
  PROVE  SInv'
<1>0. Session(u) /\ toClient[u] \in Seq(Ack) BY DEF SInv, Typed
<1>1. CASE ReadVerdict(u)
  <2>1. /\ plan' = plan /\ up[u] = "waiting" /\ toClient[u] # <<>>
        /\ up' = [up EXCEPT ![u] = IF Head(toClient[u]).ok THEN "ok"
                                   ELSE "rejected"]
        /\ toClient' = [toClient EXCEPT ![u] = <<>>]
        /\ connUp' = [connUp EXCEPT ![u] = FALSE]
        /\ UNCHANGED <<offset, toServer, phase, buf, partial, losses>>
    BY <1>1 DEF ReadVerdict, diskVars, downloadVars
  <2>2. /\ phase[u] \in {"over", "unverified"} /\ Held(u) = Size(u)
        /\ Head(toClient[u]).ok <=> HashOk(u)
    BY <1>0, <2>1 DEF Session, Waiting
  <2>3. Typed'
    <3>1. <<>> \in Seq(Ack) OBVIOUS
    <3> QED BY <2>1, <3>1 DEF SInv, Typed
  <2>4. ASSUME NEW v \in Uploads, v # u PROVE Session(v)'
    BY <2>1, <2>4, SessionKept DEF SInv, Typed
  <2>5. Session(u)'
    <3>1. /\ up'[u] \in {"ok", "rejected"}
          /\ up'[u] = "ok" <=> HashOk(u)
          /\ toClient'[u] = <<>> /\ connUp'[u] = FALSE
          /\ offset'[u] = offset[u] /\ toServer'[u] = toServer[u]
          /\ phase'[u] = phase[u] /\ buf'[u] = buf[u]
      BY <2>1, <2>2 DEF SInv, Typed
    <3>2. /\ Size(u)' = Size(u) /\ Held(u)' = Held(u)
          /\ HashOk(u)' <=> HashOk(u)
      BY <2>1, <3>1, PlanKept DEF Held, HashOk
    <3>3. /\ u \in plan'.attempts /\ toServer'[u] = <<>>
          /\ offset'[u] <= Size(u)' /\ Held(u)' <= Size(u)'
      BY <1>0, <2>1, <2>2, <3>1, <3>2 DEF Session
    <3> QED BY <2>2, <3>1, <3>2, <3>3 DEF Session
  <2> QED BY <2>3, <2>4, <2>5 DEF SInv
<1>2. CASE UploadFails(u)
  <2>1. /\ plan' = plan /\ Active(u) /\ ~connUp[u]
        /\ up' = [up EXCEPT ![u] = "failed"]
        /\ UNCHANGED <<offset, connUp, toServer, toClient, phase, buf, partial,
                       losses>>
    BY <1>2 DEF UploadFails, diskVars, downloadVars
  <2>2. Typed' BY <2>1 DEF SInv, Typed
  <2>3. ASSUME NEW v \in Uploads, v # u PROVE Session(v)'
    BY <2>1, <2>3, SessionKept DEF SInv, Typed
  <2>4. Session(u)'
    <3>1. /\ up'[u] = "failed" /\ up[u] # "idle"
          /\ UNCHANGED <<plan, offset, connUp, toServer, toClient, phase, buf>>
      BY <2>1 DEF SInv, Typed, Active
    <3>2. /\ Size(u)' = Size(u) /\ Held(u)' = Held(u)
          /\ Arriving(u)' <=> Arriving(u)
      BY <3>1, PlanKept DEF Held, Sent, Arriving
    <3> QED BY <1>0, <2>1, <3>1, <3>2 DEF Session
  <2> QED BY <2>2, <2>3, <2>4 DEF SInv
<1> QED BY <1>1, <1>2

LEMMA KHandleOffer ==
  ASSUME SInv, NEW u \in Uploads, HandleOffer(u)
  PROVE  SInv'
<1>0. Session(u) /\ phase[u] = "none" /\ toServer[u] # <<>>
  BY DEF SInv, HandleOffer
<1>1. /\ toServer[u] = <<[type |-> "offer"]>> /\ Tail(toServer[u]) = <<>>
      /\ toClient[u] = <<>> /\ buf[u] = <<>>
      /\ up[u] # "idle" /\ u \in plan.attempts
  <2>1. /\ toServer[u] = <<[type |-> "offer"]>>
        /\ toClient[u] = <<>> /\ buf[u] = <<>>
        /\ up[u] # "idle" /\ u \in plan.attempts
    BY <1>0 DEF Session
  <2>2. Tail(<<[type |-> "offer"]>>) = <<>> OBVIOUS
  <2> QED BY <2>1, <2>2
<1>2. UNCHANGED <<plan, up, offset, partial, losses>>
  BY DEF HandleOffer, diskVars, downloadVars
<1>3. up[u] \notin {"sending", "waiting", "ok", "rejected"}
  BY <1>0 DEF Session, Sending, Waiting
<1>4. CASE PathOf(u) \in UnsafePaths
  <2>1. /\ connUp' = [connUp EXCEPT ![u] = FALSE]
        /\ toServer' = [toServer EXCEPT ![u] = <<>>]
        /\ phase' = [phase EXCEPT ![u] = "over"]
        /\ UNCHANGED <<buf, toClient>>
    BY <1>4 DEF HandleOffer
  <2>2. Typed'
    <3>1. <<>> \in Seq(Frame) OBVIOUS
    <3> QED BY <1>2, <2>1, <3>1 DEF SInv, Typed, Phases
  <2>3. ASSUME NEW v \in Uploads, v # u PROVE Session(v)'
    BY <1>2, <2>1, <2>3, SessionKept DEF SInv, Typed
  <2>4. Session(u)'
    <3>1. /\ connUp'[u] = FALSE /\ toServer'[u] = <<>> /\ phase'[u] = "over"
          /\ buf'[u] = buf[u] /\ toClient'[u] = <<>>
          /\ up'[u] = up[u] /\ offset'[u] = offset[u]
      BY <1>1, <1>2, <2>1 DEF SInv, Typed
    <3>2. offset'[u] <= Size(u)' /\ Held(u)' <= Size(u)'
      BY <1>0, <1>2, <3>1, PlanKept DEF Session, Held
    <3>3. Offered(u)' BY <3>1 DEF Offered
    <3> QED BY <1>1, <1>2, <1>3, <3>1, <3>2, <3>3 DEF Session
  <2> QED BY <2>2, <2>3, <2>4 DEF SInv
<1>5. CASE PathOf(u) \notin UnsafePaths
  <2> DEFINE r == Resumed(u)
             ack == [type |-> "ack", ok |-> TRUE, from |-> Len(r)]
  <2>1. /\ toServer' = [toServer EXCEPT ![u] = <<>>]
        /\ phase' = [phase EXCEPT ![u] = "receiving"]
        /\ buf' = [buf EXCEPT ![u] = r]
        /\ toClient' = [toClient EXCEPT ![u] =
               IF connUp[u] THEN <<ack>> ELSE <<>>]
        /\ connUp' = connUp
    <3>1. Append(<<>>, ack) = <<ack>> OBVIOUS
    <3> QED BY <1>1, <1>5, <3>1 DEF HandleOffer
  <2>2. r \in File /\ Len(r) \in Nat /\ Len(r) <= LastChunk(u)
    <3>1. CASE partial[PathOf(u)] # Absent /\ Len(partial[PathOf(u)]) < Size(u)
      <4>1. r = partial[PathOf(u)] /\ r \in File
        BY <3>1, PlanFacts DEF SInv, Typed, Resumed, Size
      <4>2. Len(r) \in Nat BY <4>1 DEF File
      <4> HIDE DEF r
      <4> DEFINE l == Len(r)
      <4>3. l \in Nat /\ l < Size(u) BY <3>1, <4>1, <4>2
      <4> HIDE DEF l
      <4>4. l <= LastChunk(u) BY <4>3, UploadFacts DEF SInv
      <4> QED BY <4>1, <4>2, <4>4 DEF l
    <3>2. CASE ~(partial[PathOf(u)] # Absent
                   /\ Len(partial[PathOf(u)]) < Size(u))
      <4>1. r = <<>> BY <3>2 DEF Resumed, Size
      <4>2. r \in File /\ Len(r) = 0 BY <4>1 DEF File
      <4> QED BY <4>2, UploadFacts DEF SInv
    <3> QED BY <3>1, <3>2
  <2>3. ack \in Ack /\ ack.from = Len(r) BY <2>2 DEF Ack
  <2> HIDE DEF r, ack
  <2>4. Typed'
    <3>1. <<>> \in Seq(Frame) OBVIOUS
    <3>2. <<ack>> \in Seq(Ack) /\ <<>> \in Seq(Ack) BY <2>3
    <3> QED BY <1>2, <2>1, <2>2, <3>1, <3>2 DEF SInv, Typed, Phases
  <2>5. ASSUME NEW v \in Uploads, v # u PROVE Session(v)'
    BY <1>2, <2>1, <2>5, SessionKept DEF SInv, Typed
  <2>6. Session(u)'
    <3>1. /\ connUp'[u] = connUp[u] /\ toServer'[u] = <<>>
          /\ phase'[u] = "receiving" /\ buf'[u] = r
          /\ toClient'[u] = IF connUp[u] THEN <<ack>> ELSE <<>>
          /\ up'[u] = up[u] /\ offset'[u] = offset[u]
      BY <1>1, <1>2, <2>1 DEF SInv, Typed
    <3>2. /\ Held(u)' = Len(r) /\ Sent(u)' = 0
          /\ Size(u)' = Size(u) /\ LastChunk(u)' = LastChunk(u)
      BY <1>2, <3>1, PlanKept DEF Held, Sent
    <3> DEFINE l == Len(r)
    <3>3. /\ l \in Nat /\ l <= LastChunk(u) /\ LastChunk(u) \in Nat
          /\ Held(u)' = l /\ ack.from = l
          /\ Size(u) \in Nat /\ LastChunk(u) <= Size(u)
      BY <2>2, <2>3, <3>2, UploadFacts DEF SInv
    <3> HIDE DEF l
    <3>4. Arriving(u)' BY <3>2, <3>3 DEF Arriving
    <3>5. Offered(u)'
      <4>1. Len(<<ack>>) = 1 /\ <<ack>>[1] = ack OBVIOUS
      <4> QED BY <3>1, <3>3, <4>1 DEF Offered
    <3>6. offset'[u] <= Size(u)' /\ Held(u)' <= Size(u)'
      BY <1>0, <3>1, <3>2, <3>3 DEF Session
    <3>7. connUp'[u] => Active(u)' BY <1>0, <3>1 DEF Session, Active
    <3> QED BY <1>1, <1>2, <1>3, <3>1, <3>4, <3>5, <3>6, <3>7 DEF Session
  <2> QED BY <2>4, <2>5, <2>6 DEF SInv
<1> QED BY <1>4, <1>5

\* The chunk at the head of what arrives goes behind the buffer.
LEMMA ChunkFacts ==
  ASSUME SInv, NEW u \in Uploads, HandleChunk(u)
  PROVE  /\ UNCHANGED <<plan, up, offset, connUp, toClient>>
         /\ toServer' = [toServer EXCEPT ![u] = Tail(@)]
         /\ buf' = [buf EXCEPT ![u] = @ \o DataAt(u, Held(u))]
         /\ \E n \in 0..Len(buf'[u]) :
                \/ partial' = partial
                \/ partial' = [partial EXCEPT ![PathOf(u)] =
                                   SubSeq(buf'[u], 1, n)]
         /\ Fault \/ losses' = losses
         /\ phase' = [phase EXCEPT ![u] =
                          IF Held(u) = LastChunk(u) THEN "write" ELSE @]
         /\ phase[u] = "receiving" /\ toServer[u] # <<>>
<1> DEFINE chunk == Head(toServer[u])
<1>0. /\ Session(u) /\ phase[u] = "receiving" /\ toServer[u] # <<>>
      /\ Arriving(u)
  BY DEF SInv, HandleChunk, Session
<1>1. Sent(u) \in Nat /\ Sent(u) > 0 /\ chunk = toServer[u][1]
  <2> DEFINE q == toServer[u]
  <2>1. q \in Seq(Frame) /\ q # <<>> BY <1>0, UploadFacts DEF SInv
  <2> HIDE DEF q
  <2>2. Len(q) \in Nat /\ Len(q) > 0 /\ Head(q) = q[1] BY <2>1
  <2> QED BY <2>2 DEF q, Sent
<1>2. IsChunk(u, chunk, Held(u) + 1 - 1) BY <1>0, <1>1 DEF Arriving
<1>3. Held(u) + 1 - 1 = Held(u) BY UploadFacts DEF SInv
<1>4. /\ chunk.at = Held(u) /\ chunk.data = DataAt(u, Held(u))
      /\ chunk.eof <=> Held(u) = LastChunk(u)
  BY <1>2, <1>3 DEF IsChunk
<1>5. Splice(buf[u], chunk.at, chunk.data) = buf[u] \o DataAt(u, Held(u))
  <2>1. buf[u] \in File /\ DataAt(u, Held(u)) \in File
    BY UploadFacts DEF SInv
  <2> QED BY <1>4, <2>1, SpliceAtEnd DEF Held
<1>6. /\ buf' = [buf EXCEPT ![u] = buf[u] \o DataAt(u, Held(u))]
      /\ phase' = [phase EXCEPT ![u] =
                       IF Held(u) = LastChunk(u) THEN "write" ELSE @]
  BY <1>4, <1>5 DEF HandleChunk
<1>7. buf'[u] = buf[u] \o DataAt(u, Held(u)) BY <1>6 DEF SInv, Typed
<1>8. /\ \E n \in 0..Len(buf'[u]) :
             \/ partial' = partial
             \/ partial' = [partial EXCEPT ![PathOf(u)] =
                                SubSeq(buf'[u], 1, n)]
      /\ Fault \/ losses' = losses
  <2> DEFINE new == Splice(buf[u], chunk.at, chunk.data)
  <2>1. new = buf'[u] BY <1>5, <1>7
  <2>2. /\ \/ partial' = [partial EXCEPT ![PathOf(u)] = new]
           \/ partial' = partial
           \/ \E n \in 0..Len(new) :
                partial' = [partial EXCEPT ![PathOf(u)] = SubSeq(new, 1, n)]
        /\ Fault \/ losses' = losses
    BY DEF HandleChunk
  <2>3. new \in File
    <3> DEFINE b == buf[u]
               e == DataAt(u, Held(u))
    <3>1. b \in File /\ e \in File BY UploadFacts DEF SInv
    <3>2. new = b \o e BY <1>5
    <3> HIDE DEF b, e, new
    <3>3. b \o e \in File BY <3>1 DEF File
    <3> QED BY <3>2, <3>3
  <2> HIDE DEF new
  <2>4. /\ Len(new) \in 0..Len(new) /\ 0 \in 0..Len(new)
        /\ SubSeq(new, 1, Len(new)) = new
    BY <2>3 DEF File
  <2> QED BY <2>1, <2>2, <2>4
<1> QED BY <1>0, <1>6, <1>8 DEF HandleChunk

LEMMA KHandleChunk ==
  ASSUME SInv, NEW u \in Uploads, HandleChunk(u)
  PROVE  SInv'
<1> DEFINE d == DataAt(u, Held(u))
           last == Held(u) = LastChunk(u)
<1>0. Session(u) /\ Arriving(u) BY ChunkFacts DEF SInv, Session
<1>1. /\ d \in File /\ Held(u) \in Nat /\ Size(u) \in Nat
      /\ LastChunk(u) \in Nat /\ LastChunk(u) <= Size(u) /\ Sent(u) \in Nat
  BY UploadFacts DEF SInv
<1>2. /\ buf'[u] = buf[u] \o d /\ buf'[u] \in File
      /\ Held(u)' = Held(u) + Len(d)
  <2> DEFINE b == buf[u]
  <2>1. b \in File BY UploadFacts DEF SInv
  <2>2. buf'[u] = b \o d BY ChunkFacts DEF SInv, Typed
  <2> HIDE DEF b, d
  <2>3. b \o d \in File /\ Len(b \o d) = Len(b) + Len(d)
    BY <1>1, <2>1 DEF File
  <2> QED BY <2>2, <2>3 DEF b, Held
<1>3. /\ Len(d) \in Nat
      /\ Held(u) < Size(u) => Len(d) = 1
      /\ ~(Held(u) < Size(u)) => Len(d) = 0
  <2>1. CASE Held(u) < Size(u)
    <3>1. Len(d) = 1 BY <2>1 DEF DataAt
    <3> QED BY <2>1, <3>1
  <2>2. CASE ~(Held(u) < Size(u))
    <3>1. Len(d) = 0 BY <2>2 DEF DataAt
    <3> QED BY <2>2, <3>1
  <2> QED BY <2>1, <2>2
<1>4. /\ last => Held(u)' = Size(u)
      /\ ~last => Held(u)' = Held(u) + 1 /\ Held(u)' <= LastChunk(u)
  <2> DEFINE l == Len(d)
  <2>1. /\ Held(u)' = Held(u) + l /\ l \in Nat
        /\ Held(u) < Size(u) => l = 1
        /\ ~(Held(u) < Size(u)) => l = 0
    BY <1>2, <1>3
  <2>2. /\ Held(u) <= LastChunk(u)
        /\ Size(u) > 0 => LastChunk(u) = Size(u) - 1
        /\ Size(u) = 0 => LastChunk(u) = 0
    BY <1>0, UploadFacts DEF SInv, Arriving
  <2> HIDE DEF l
  <2> QED BY <1>1, <2>1, <2>2
<1>5. /\ toServer'[u] = Tail(toServer[u])
      /\ Tail(toServer[u]) \in Seq(Frame)
      /\ Sent(u)' = Sent(u) - 1 /\ Sent(u) > 0 /\ Sent(u)' \in Nat
      /\ \A i \in 1..Sent(u)' : toServer'[u][i] = toServer[u][i + 1]
  <2> DEFINE q == toServer[u]
  <2>1. q \in Seq(Frame) /\ q # <<>> BY ChunkFacts, UploadFacts DEF SInv
  <2>2. toServer'[u] = Tail(q) BY ChunkFacts DEF SInv, Typed
  <2> HIDE DEF q
  <2>3. /\ Tail(q) \in Seq(Frame) /\ Len(Tail(q)) = Len(q) - 1
        /\ Len(q) > 0 /\ Len(Tail(q)) \in Nat
        /\ \A i \in 1..Len(Tail(q)) : Tail(q)[i] = q[i + 1]
    BY <2>1
  <2> QED BY <2>2, <2>3 DEF q, Sent
<1> HIDE DEF d
<1>6. Typed'
  <2>1. PathOf(u) \in Paths BY PlanFacts DEF SInv
  <2>2. buf' \in [Uploads -> File]
    <3>1. buf' = [buf EXCEPT ![u] = buf[u] \o DataAt(u, Held(u))]
      BY ChunkFacts
    <3>2. buf[u] \o DataAt(u, Held(u)) \in File BY <1>2 DEF d
    <3>3. buf \in [Uploads -> File] BY DEF SInv, Typed
    <3> QED BY <3>1, <3>2, <3>3
  <2>5. partial' \in [Paths -> File \cup {Absent}]
    <3> DEFINE new == buf'[u]
    <3>1. PICK n \in 0..Len(new) :
            \/ partial' = partial
            \/ partial' = [partial EXCEPT ![PathOf(u)] = SubSeq(new, 1, n)]
      BY ChunkFacts
    <3>2. new \in File BY <1>2
    <3> HIDE DEF new
    <3>3. SubSeq(new, 1, n) \in File BY <3>2, PrefixFacts DEF File
    <3>4. partial \in [Paths -> File \cup {Absent}] BY DEF SInv, Typed
    <3> QED BY <2>1, <3>1, <3>3, <3>4
  <2>3. toServer' \in [Uploads -> Seq(Frame)]
    <3>1. toServer' = [toServer EXCEPT ![u] = Tail(toServer[u])]
      BY ChunkFacts
    <3>2. toServer \in [Uploads -> Seq(Frame)] BY DEF SInv, Typed
    <3> QED BY <1>5, <3>1, <3>2
  <2>4. phase' \in [Uploads -> Phases]
    BY ChunkFacts DEF SInv, Typed, Phases
  <2>6. losses' \in 0..plan'.losses BY ChunkFacts, FaultsTyped DEF SInv
  <2> QED BY <2>2, <2>3, <2>4, <2>5, <2>6, ChunkFacts DEF SInv, Typed
<1>7. ASSUME NEW v \in Uploads, v # u PROVE Session(v)'
  BY <1>7, SessionKept, ChunkFacts DEF SInv, Typed
<1>8. Session(u)'
  <2>1. /\ up'[u] = up[u] /\ offset'[u] = offset[u] /\ connUp'[u] = connUp[u]
        /\ toClient'[u] = toClient[u] /\ plan' = plan
        /\ phase'[u] = IF last THEN "write" ELSE "receiving"
        /\ phase[u] = "receiving" /\ toServer[u] # <<>>
        /\ Size(u)' = Size(u) /\ LastChunk(u)' = LastChunk(u)
    BY ChunkFacts, PlanKept DEF SInv, Typed
  <2>2. Held(u) + Sent(u) <= LastChunk(u) + 1 BY <1>0 DEF Arriving
  <2>3. last => toServer'[u] = <<>>
    <3> SUFFICES ASSUME last PROVE toServer'[u] = <<>> OBVIOUS
    <3>1. Sent(u) = 1 BY <1>1, <1>5, <2>2
    <3>2. toServer[u] \in Seq(Frame) /\ Len(toServer[u]) = 1
      BY <3>1, UploadFacts DEF SInv, Sent
    <3>3. Tail(toServer[u]) = <<>> BY <3>2, TailOfOne
    <3> QED BY <3>3, <1>5
  <2>4. ~last => Arriving(u)'
    <3> SUFFICES ASSUME ~last PROVE Arriving(u)' OBVIOUS
    <3>1. /\ Held(u)' <= LastChunk(u)' /\ Held(u)' = Held(u) + 1
          /\ Held(u)' + Sent(u)' <= LastChunk(u)' + 1
      BY <1>1, <1>4, <1>5, <2>1, <2>2
    <3>2. ASSUME NEW i \in 1..Sent(u)'
          PROVE  IsChunk(u, toServer'[u][i], Held(u)' + i - 1)
      <4>1. i + 1 \in 1..Sent(u) /\ i \in Int BY <1>1, <1>5
      <4>2. IsChunk(u, toServer[u][i + 1], Held(u) + (i + 1) - 1)
        BY <1>0, <4>1 DEF Arriving
      <4>3. Held(u) + (i + 1) - 1 = Held(u)' + i - 1 BY <1>1, <3>1, <4>1
      <4> QED BY <4>2, <4>3, <1>5
    <3>3. \A i \in 1..Sent(u)' :
            IsChunk(u, toServer[u][i], Held(u) + i - 1)'
      BY <3>2, <2>1, PlanKept
    <3> QED BY <3>1, <3>3 DEF Arriving
  <2>5. up[u] # "offered" /\ up[u] # "idle" /\ u \in plan.attempts
    BY <1>0, <2>1 DEF Session, Offered
  <2>6. up[u] = "sending" => Sending(u)'
    <3> SUFFICES ASSUME up[u] = "sending" PROVE Sending(u)' OBVIOUS
    <3>1. /\ Held(u) + Sent(u) <= LastChunk(u)
          /\ connUp[u] => offset[u] = Held(u) + Sent(u)
          /\ toClient[u] = <<>>
      BY <1>0, <2>1 DEF Session, Sending
    <3>2. ~last BY <1>1, <1>5, <3>1
    <3>3. Held(u)' + Sent(u)' = Held(u) + Sent(u)
      BY <3>2, <1>1, <1>4, <1>5
    <3> QED BY <2>1, <3>1, <3>2, <3>3 DEF Sending
  <2>7. up[u] = "waiting" => Waiting(u)'
    BY <1>0, <2>1 DEF Session, Waiting
  <2>8. offset'[u] <= Size(u)' /\ Held(u)' <= Size(u)'
    <3>1. offset'[u] <= Size(u)' BY <1>0, <2>1 DEF Session
    <3>2. Held(u)' <= Size(u)' BY <1>1, <1>4, <2>1
    <3> QED BY <3>1, <3>2
  <2>9. connUp'[u] => Active(u)' BY <1>0, <2>1 DEF Session, Active
  <2>10. up[u] \notin {"ok", "rejected"} BY <1>0, <2>1 DEF Session
  <2>11. last => Held(u)' = Size(u)' BY <1>4, <2>1
  <2> QED BY <2>1, <2>3, <2>4, <2>5, <2>6, <2>7, <2>8, <2>9, <2>10, <2>11
          DEF Session
<1> QED BY <1>6, <1>7, <1>8 DEF SInv

LEMMA KFile ==
  ASSUME SInv, NEW u \in Uploads, OpenDest(u) \/ FillDest(u) \/ CheckDest(u)
  PROVE  SInv'
<1>0. Session(u) BY DEF SInv
<1>1. /\ UNCHANGED <<plan, up, offset, toServer, toClient, buf, partial>>
      /\ phase[u] \in {"write", "filling", "check"}
      /\ Fault \/ UNCHANGED losses
  BY DEF OpenDest, FillDest, CheckDest
<1>2. /\ phase' \in [Uploads -> Phases]
      /\ phase'[u] \in {"filling", "check", "tidy", "kept", "over", "torn"}
      /\ connUp' \in [Uploads \cup Downloads -> BOOLEAN]
      /\ connUp'[u] => connUp[u]
      /\ \A v \in Uploads : v # u =>
           phase'[v] = phase[v] /\ connUp'[v] = connUp[v]
  <2>0. /\ phase \in [Uploads -> Phases]
        /\ connUp \in [Uploads \cup Downloads -> BOOLEAN]
    BY DEF SInv, Typed
  <2>1. CASE OpenDest(u)
    BY <2>0, <2>1 DEF OpenDest, LeaveSession, Phases
  <2>2. CASE FillDest(u)
    BY <2>0, <2>2 DEF FillDest, LeaveSession, Phases
  <2>3. CASE CheckDest(u) BY <2>0, <2>3 DEF CheckDest, Phases
  <2> QED BY <2>1, <2>2, <2>3
<1>3. Typed' BY <1>1, <1>2, FaultsTyped DEF SInv, Typed
<1>4. ASSUME NEW v \in Uploads, v # u PROVE Session(v)'
  BY <1>1, <1>2, <1>4, SessionKept DEF SInv
<1>5. Session(u)'
  <2>1. up[u] \notin {"idle", "offered", "sending", "ok", "rejected"}
    BY <1>0, <1>1 DEF Session, Offered, Sending
  <2>2. up[u] = "waiting" => toClient[u] = <<>>
    BY <1>0, <1>1 DEF Session, Waiting
  <2>3. /\ Held(u)' = Held(u) /\ Size(u)' = Size(u) /\ toServer[u] = <<>>
        /\ Active(u)' = Active(u) /\ Held(u) = Size(u)
    BY <1>0, <1>1, PlanKept DEF Held, Session, Active
  <2> QED BY <1>0, <1>1, <1>2, <2>1, <2>2, <2>3 DEF Session, Waiting
<1> QED BY <1>3, <1>4, <1>5 DEF SInv

LEMMA KTidy ==
  ASSUME SInv, NEW u \in Uploads, Tidy(u)
  PROVE  SInv'
<1> DEFINE ack == [type |-> "ack", ok |-> HashOk(u), from |-> 0]
<1>0. Session(u) BY DEF SInv
<1>1. /\ UNCHANGED <<plan, up, offset, connUp, toServer, buf>>
      /\ phase[u] \in {"tidy", "kept"} /\ Held(u) = Size(u)
      /\ phase' = [phase EXCEPT ![u] = IF @ = "kept" THEN "unverified"
                                       ELSE "over"]
      /\ \/ partial' = partial
         \/ partial' = [partial EXCEPT ![PathOf(u)] = Absent]
      /\ Fault \/ losses' = losses
  BY <1>0 DEF Tidy, Session
<1>2. up[u] \notin {"idle", "offered", "sending", "ok", "rejected"}
  BY <1>0, <1>1 DEF Session, Offered, Sending
<1>3. up[u] = "waiting" => toClient[u] = <<>>
  BY <1>0, <1>1 DEF Session, Waiting
<1>4. ack \in Ack /\ ack.ok = HashOk(u) BY DEF Ack, HashOk
<1>5. /\ toClient' = [toClient EXCEPT ![u] =
             IF connUp[u] THEN Append(toClient[u], ack) ELSE toClient[u]]
      /\ toClient'[u] =
             IF connUp[u] THEN Append(toClient[u], ack) ELSE toClient[u]
  BY DEF Tidy, SInv, Typed
<1> HIDE DEF ack
<1>6. Typed'
  <2>1. toClient[u] \in Seq(Ack) BY DEF SInv, Typed
  <2>2. Append(toClient[u], ack) \in Seq(Ack) BY <2>1, <1>4
  <2>3. toClient' \in [Uploads -> Seq(Ack)]
    BY <1>5, <2>1, <2>2 DEF SInv, Typed
  <2>4. losses' \in 0..plan'.losses BY <1>1, FaultsTyped DEF SInv
  <2>5. partial' \in [Paths -> File \cup {Absent}]
    BY <1>1 DEF SInv, Typed
  <2>6. phase' \in [Uploads -> Phases] BY <1>1 DEF SInv, Typed, Phases
  <2> QED BY <1>1, <2>3, <2>4, <2>5, <2>6 DEF SInv, Typed
<1>7. ASSUME NEW v \in Uploads, v # u PROVE Session(v)'
  BY <1>1, <1>5, <1>7, SessionKept DEF SInv, Typed
<1>8. Session(u)'
  <2>1. /\ Held(u)' = Held(u) /\ Size(u)' = Size(u) /\ toServer[u] = <<>>
        /\ (Active(u)' <=> Active(u)) /\ (HashOk(u)' <=> HashOk(u))
        /\ phase'[u] \in {"over", "unverified"}
    BY <1>0, <1>1, PlanKept DEF Held, Session, Active, HashOk, SInv, Typed
  <2>2. up[u] = "waiting" => Waiting(u)'
    <3>1. Append(<<>>, ack) = <<ack>> /\ Len(<<ack>>) = 1 /\ <<ack>>[1] = ack
      OBVIOUS
    <3>2. up[u] = "waiting" /\ toClient'[u] # <<>> => toClient'[u] = <<ack>>
      BY <1>3, <1>5, <3>1
    <3> QED BY <1>1, <1>4, <2>1, <3>1, <3>2 DEF Waiting
  <2>3. /\ u \in plan'.attempts /\ (connUp'[u] => Active(u)')
        /\ offset'[u] <= Size(u)' /\ Held(u)' <= Size(u)'
    BY <1>0, <1>1, <1>2, <2>1 DEF Session
  <2> QED BY <1>1, <1>2, <2>1, <2>2, <2>3 DEF Session
<1> QED BY <1>6, <1>7, <1>8 DEF SInv

LEMMA KSessionEnds ==
  ASSUME SInv, NEW u \in Uploads, SessionEnds(u)
  PROVE  SInv'
<1>0. Session(u) BY DEF SInv
<1>1. /\ UNCHANGED <<plan, up, offset, connUp, toServer, toClient, buf, partial,
                       losses>>
      /\ phase[u] = "receiving" /\ ~connUp[u] /\ toServer[u] = <<>>
      /\ phase' = [phase EXCEPT ![u] = "over"] /\ phase'[u] = "over"
  BY DEF SessionEnds, downloadVars, diskVars, SInv, Typed
<1>2. Typed' BY <1>1 DEF SInv, Typed, Phases
<1>3. ASSUME NEW v \in Uploads, v # u PROVE Session(v)'
  BY <1>1, <1>3, SessionKept DEF SInv, Typed
<1>4. Session(u)'
  <2>1. up[u] \notin {"idle", "ok", "rejected"} BY <1>0, <1>1 DEF Session
  <2>2. Held(u)' = Held(u) /\ Size(u)' = Size(u) /\ (Active(u)' <=> Active(u))
    BY <1>1, PlanKept DEF Held, Active
  <2>3. up[u] = "offered" => Offered(u)'
    BY <1>0, <1>1, <2>2 DEF Session, Offered
  <2>4. up[u] = "sending" => Sending(u)'
    BY <1>0, <1>1 DEF Session, Sending
  <2>5. up[u] = "waiting" => Waiting(u)'
    BY <1>0, <1>1 DEF Session, Waiting
  <2> QED BY <1>0, <1>1, <2>1, <2>2, <2>3, <2>4, <2>5 DEF Session
<1> QED BY <1>2, <1>3, <1>4 DEF SInv

LEMMA KDownload ==
  ASSUME SInv, NEW d \in Downloads, DownloadStep(d)
  PROVE  SInv'
<1>1. /\ UNCHANGED <<plan, up, offset, toServer, toClient, phase, buf,
                     partial, losses>>
      /\ connUp' \in [Uploads \cup Downloads -> BOOLEAN]
      /\ \A u \in Uploads : connUp'[u] = connUp[u]
  <2>1. \A u \in Uploads : u # d BY TransferConstants
  <2> QED BY <2>1 DEF DownloadStep, StartDownload, ServeDownload, ReadBlock,
                      StreamEnds, uploadVars, diskVars, SInv, Typed
<1>2. Typed' BY <1>1 DEF SInv, Typed
<1>3. ASSUME NEW u \in Uploads PROVE Session(u)'
  BY <1>1, SessionKept DEF SInv
<1> QED BY <1>2, <1>3 DEF SInv

\* What a lost connection leaves of an upload: a prefix of what was under way,
\* in both directions.
LEMMA SessionCut ==
  ASSUME SInv, NEW u \in Uploads, NEW n \in 0..Len(toServer[u]),
         NEW k \in 0..Len(toClient[u]),
         plan' = plan, up'[u] = up[u], phase'[u] = phase[u],
         connUp'[u] = FALSE, offset'[u] = offset[u], buf'[u] = buf[u],
         toServer'[u] = SubSeq(toServer[u], 1, n),
         toClient'[u] = SubSeq(toClient[u], 1, k)
  PROVE  Session(u)'
<1>0. Session(u) BY DEF SInv
<1>1. toServer[u] \in Seq(Frame) /\ toClient[u] \in Seq(Ack)
  BY DEF SInv, Typed
<1>2. /\ Sent(u)' = n /\ Sent(u) \in Nat /\ n \in Nat /\ n <= Sent(u)
      /\ \A i \in 1..Sent(u)' : toServer'[u][i] = toServer[u][i]
      /\ n = 0 => toServer'[u] = <<>>
      /\ n = Sent(u) => toServer'[u] = toServer[u]
  BY <1>1, PrefixFacts DEF Sent
<1>3. /\ toServer[u] = <<>> => toServer'[u] = <<>>
      /\ toServer[u] = <<[type |-> "offer"]>> =>
           toServer'[u] = <<>> \/ toServer'[u] = toServer[u]
  <2>1. toServer[u] = <<>> => Sent(u) = 0 BY DEF Sent
  <2>2. toServer[u] = <<[type |-> "offer"]>> => Sent(u) = 1 BY DEF Sent
  <2> QED BY <1>2, <2>1, <2>2
<1>4. /\ toClient[u] = <<>> => toClient'[u] = <<>>
      /\ Len(toClient[u]) = 1 =>
           toClient'[u] = <<>> \/ toClient'[u] = toClient[u]
  <2>1. /\ Len(toClient[u]) \in Nat /\ k \in Nat /\ k <= Len(toClient[u])
        /\ k = 0 => toClient'[u] = <<>>
        /\ k = Len(toClient[u]) => toClient'[u] = toClient[u]
    BY <1>1, PrefixFacts
  <2>2. toClient[u] = <<>> => Len(toClient[u]) = 0 OBVIOUS
  <2> DEFINE l == Len(toClient[u])
  <2>3. l \in Nat /\ k <= l /\ (toClient[u] = <<>> => l = 0)
    BY <2>1, <2>2
  <2> HIDE DEF l
  <2>4. (toClient[u] = <<>> => k = 0) /\ (l = 1 => k = 0 \/ k = l)
    BY <2>1, <2>3
  <2> QED BY <2>1, <2>4 DEF l
<1>5. /\ Held(u)' = Held(u) /\ Size(u)' = Size(u)
      /\ LastChunk(u)' = LastChunk(u) /\ (HashOk(u)' <=> HashOk(u))
  BY PlanKept DEF Held, HashOk
<1>6. phase[u] = "receiving" => Arriving(u)'
  <2> SUFFICES ASSUME phase[u] = "receiving" PROVE Arriving(u)' OBVIOUS
  <2>1. /\ Held(u) <= LastChunk(u) /\ Held(u) + Sent(u) <= LastChunk(u) + 1
        /\ \A i \in 1..Sent(u) : IsChunk(u, toServer[u][i], Held(u) + i - 1)
    BY <1>0 DEF Session, Arriving
  <2>2. Held(u)' + Sent(u)' <= LastChunk(u)' + 1
    BY <1>2, <1>5, <2>1, UploadFacts DEF SInv
  <2>3. \A i \in 1..Sent(u)' :
          IsChunk(u, toServer[u][i], Held(u) + i - 1)'
    <3>1. ASSUME NEW i \in 1..Sent(u)'
          PROVE  IsChunk(u, toServer'[u][i], Held(u)' + i - 1)
      <4>1. i \in 1..Sent(u) BY <1>2
      <4> QED BY <4>1, <2>1, <1>2, <1>5
    <3> QED BY <3>1, PlanKept
  <2> QED BY <1>5, <2>1, <2>2, <2>3 DEF Arriving
<1>7. up[u] = "offered" => Offered(u)'
  BY <1>0, <1>3, <1>4, <1>5 DEF Session, Offered
<1>8. up[u] = "sending" => Sending(u)'
  <2>1. phase[u] = "receiving" /\ up[u] = "sending" =>
          Held(u) + Sent(u)' <= LastChunk(u)
    BY <1>0, <1>2, UploadFacts DEF SInv, Session, Sending
  <2> QED BY <1>0, <1>4, <1>5, <2>1 DEF Session, Sending
<1>9. up[u] = "waiting" => Waiting(u)'
  BY <1>0, <1>4, <1>5 DEF Session, Waiting
<1>10. phase[u] = "none" =>
         /\ buf'[u] = <<>> /\ toClient'[u] = <<>>
         /\ toServer'[u] = <<>> \/ toServer'[u] = <<[type |-> "offer"]>>
  BY <1>0, <1>3, <1>4 DEF Session
<1> QED BY <1>0, <1>3, <1>5, <1>6, <1>7, <1>8, <1>9, <1>10 DEF Session

LEMMA KDrop ==
  ASSUME SInv, NEW a \in Uploads \cup Downloads, ConnDrop(a)
  PROVE  SInv'
<1>0. /\ UNCHANGED <<plan, up, offset, phase, buf, partial>>
      /\ connUp' = [connUp EXCEPT ![a] = FALSE]
      /\ Fault
  BY DEF ConnDrop, diskVars
<1>1. losses' \in 0..plan'.losses BY <1>0, FaultsTyped DEF SInv
<1>2. CASE a \in Uploads
  <2>1. PICK n \in 0..Len(toServer[a]) :
          toServer' = [toServer EXCEPT ![a] = SubSeq(@, 1, n)]
    BY <1>2 DEF ConnDrop
  <2>2. PICK k \in 0..Len(toClient[a]) :
          toClient' = [toClient EXCEPT ![a] = SubSeq(@, 1, k)]
    BY <1>2 DEF ConnDrop
  <2>4. /\ toServer'[a] = SubSeq(toServer[a], 1, n)
        /\ toClient'[a] = SubSeq(toClient[a], 1, k)
        /\ connUp'[a] = FALSE
        /\ \A v \in Uploads : v # a =>
             /\ toServer'[v] = toServer[v] /\ toClient'[v] = toClient[v]
             /\ connUp'[v] = connUp[v]
    BY <1>0, <1>2, <2>1, <2>2 DEF SInv, Typed
  <2>5. Typed'
    <3>1. toServer[a] \in Seq(Frame) /\ toClient[a] \in Seq(Ack)
      BY <1>2 DEF SInv, Typed
    <3>2. /\ SubSeq(toServer[a], 1, n) \in Seq(Frame)
          /\ SubSeq(toClient[a], 1, k) \in Seq(Ack)
      BY <3>1, PrefixFacts
    <3> QED BY <1>0, <1>1, <2>1, <2>2, <3>2 DEF SInv, Typed
  <2>6. ASSUME NEW v \in Uploads PROVE Session(v)'
    <3>1. CASE v = a BY <1>0, <2>4, <3>1, SessionCut
    <3>2. CASE v # a BY <1>0, <2>4, <3>2, SessionKept DEF SInv
    <3> QED BY <3>1, <3>2
  <2> QED BY <2>5, <2>6 DEF SInv
<1>3. CASE a \notin Uploads
  <2>1. toServer' = toServer /\ toClient' = toClient BY <1>3 DEF ConnDrop
  <2>2. Typed' BY <1>0, <1>1, <2>1 DEF SInv, Typed
  <2>3. ASSUME NEW v \in Uploads PROVE Session(v)'
    BY <1>0, <1>3, <2>1, SessionKept DEF SInv, Typed
  <2> QED BY <2>2, <2>3 DEF SInv
<1> QED BY <1>2, <1>3

LEMMA KCrash ==
  ASSUME SInv, AgentCrash
  PROVE  SInv'
<1>0. /\ UNCHANGED <<plan, up, offset, toClient, buf, partial>>
      /\ connUp' = [a \in Uploads \cup Downloads |-> FALSE]
      /\ toServer' = [u \in Uploads |-> <<>>]
      /\ Fault
  BY DEF AgentCrash, diskVars
<1>1. ASSUME NEW u \in Uploads
      PROVE  /\ phase[u] = "filling" => phase'[u] = "torn"
             /\ phase[u] \in {"check", "kept"} => phase'[u] = "unverified"
             /\ phase[u] \in {"receiving", "write", "tidy"} => phase'[u] = "over"
             /\ phase[u] \in {"none", "over", "torn", "unverified"} =>
                  phase'[u] = phase[u]
             /\ phase[u] \in Phases /\ phase'[u] \in Phases
  BY DEF AgentCrash, Crashed, SInv, Typed, Phases
<1>2. Typed'
  <2>1. losses' \in 0..plan'.losses BY <1>0, FaultsTyped DEF SInv
  <2>2. phase' \in [Uploads -> Phases] BY <1>1 DEF AgentCrash
  <2>3. <<>> \in Seq(Frame) OBVIOUS
  <2> QED BY <1>0, <2>1, <2>2, <2>3 DEF SInv, Typed
<1>3. ASSUME NEW u \in Uploads PROVE Session(u)'
  <2>0. Session(u) BY DEF SInv
  <2>1. /\ toServer'[u] = <<>> /\ connUp'[u] = FALSE
        /\ Held(u)' = Held(u) /\ Size(u)' = Size(u)
        /\ (HashOk(u)' <=> HashOk(u))
    BY <1>0, PlanKept DEF Held, HashOk
  <2>2. phase'[u] # "receiving" BY <1>1 DEF Phases
  <2>3. phase'[u] \notin {"none", "receiving", "over"} =>
          Held(u) = Size(u)
    BY <1>1, <2>0 DEF Session, Phases
  <2>4. up[u] = "offered" => Offered(u)'
    BY <1>0, <1>1, <2>0, <2>1 DEF Session, Offered
  <2>5. up[u] = "sending" => Sending(u)'
    BY <1>0, <1>1, <2>0, <2>1 DEF Session, Sending
  <2>6. up[u] = "waiting" => Waiting(u)'
    BY <1>0, <1>1, <2>0, <2>1 DEF Session, Waiting, Phases
  <2>7. up[u] = "idle" => phase'[u] = "none" BY <1>1, <2>0 DEF Session
  <2>8. up[u] \in {"ok", "rejected"} => phase'[u] = phase[u]
    BY <1>1, <2>0 DEF Session
  <2>9. phase'[u] = "none" => phase[u] = "none" BY <1>1 DEF Phases
  <2> QED BY <1>0, <2>0, <2>1, <2>2, <2>3, <2>4, <2>5, <2>6, <2>7, <2>8,
             <2>9 DEF Session
<1> QED BY <1>2, <1>3 DEF SInv

LEMMA SNext == SInv /\ [Next]_vars => SInv'
<1> SUFFICES ASSUME SInv, [Next]_vars PROVE SInv' OBVIOUS
<1>1. ASSUME NEW u \in Uploads,
             SendOffer(u) \/ ConsumerStep(u) \/ SessionStep(u)
      PROVE  SInv'
  BY <1>1, KOffer, KResume, KChunk, KVerdict, KHandleOffer, KHandleChunk,
     KFile, KTidy, KSessionEnds DEF ConsumerStep, SessionStep
<1>2. CASE UNCHANGED vars
  <2>1. Typed' BY <1>2 DEF SInv, Typed, vars
  <2>2. ASSUME NEW u \in Uploads PROVE Session(u)'
    BY <1>2, SessionKept DEF SInv, vars
  <2> QED BY <2>1, <2>2 DEF SInv
<1> QED BY <1>1, <1>2, KDownload, KDrop, KCrash DEF Next

LEMMA SAlways == Spec => []SInv
BY SInit, SNext, PTL DEF Spec

-------------------------------------------------------------------------------
(* Uploads.                                                                *)

\* An acknowledged upload left the bytes of the consumer's file in the
\* provider's buffer (remote.rs:383-458).
THEOREM AckedIsIntactHolds == Spec => []AckedIsIntact
<1>1. SInv => AckedIsIntact BY DEF SInv, Session, AckedIsIntact, HashOk
<1> QED BY <1>1, SAlways, PTL

-------------------------------------------------------------------------------
(* Attempts at one file.                                                   *)

LEMMA PlanConstant == [Next]_vars => plan' = plan
BY DEF Next, vars, SendOffer, ConsumerStep, SessionStep, ReadResume,
       SendChunk, ReadVerdict, UploadFails, HandleOffer, HandleChunk,
       OpenDest, FillDest, CheckDest, Tidy, SessionEnds, DownloadStep,
       StartDownload, ServeDownload, ReadBlock, StreamEnds, ConnDrop,
       AgentCrash

\* Nobody offers another file for the path of u.
Alike(u) == \A v \in plan.attempts \cap Uploads :
                PathOf(v) = PathOf(u) => ContentOf(v) = ContentOf(u)

Begins(b, c) == Len(b) <= Len(c) /\ \A i \in 1..Len(b) : b[i] = c[i]

\* What was assembled and what was left over is the file as far as it goes.
PInv ==
    \A u \in plan.attempts \cap Uploads : Alike(u) =>
        /\ Begins(buf[u], ContentOf(u))
        /\ \/ partial[PathOf(u)] = Absent
           \/ Begins(partial[PathOf(u)], ContentOf(u))

LEMMA BeginsEmpty ==
  ASSUME NEW c \in File
  PROVE  Begins(<<>>, c)
<1>1. Len(c) \in Nat /\ Len(<<>>) = 0 BY DEF File
<1> QED BY <1>1 DEF Begins

LEMMA BeginsWhole ==
  ASSUME NEW b \in File, NEW c \in File, Begins(b, c), Len(b) = Len(c)
  PROVE  b = c
<1>1. /\ b = [i \in 1..Len(b) |-> b[i]] /\ c = [i \in 1..Len(c) |-> c[i]]
  BY DEF File
<1>2. \A i \in 1..Len(b) : b[i] = c[i] BY DEF Begins
<1> QED BY <1>1, <1>2

LEMMA BeginsPrefix ==
  ASSUME NEW b \in File, NEW c \in File, Begins(b, c), NEW n \in 0..Len(b)
  PROVE  Begins(SubSeq(b, 1, n), c)
<1>1. /\ Len(SubSeq(b, 1, n)) = n /\ Len(b) \in Nat /\ Len(c) \in Nat
      /\ \A i \in 1..n : SubSeq(b, 1, n)[i] = b[i]
  BY PrefixFacts DEF File
<1>2. n <= Len(c) BY <1>1 DEF Begins
<1>3. \A i \in 1..n : b[i] = c[i] BY <1>1 DEF Begins
<1> QED BY <1>1, <1>2, <1>3 DEF Begins

LEMMA BeginsNext ==
  ASSUME Typed, NEW u \in Uploads, Begins(buf[u], ContentOf(u))
  PROVE  Begins(buf[u] \o DataAt(u, Held(u)), ContentOf(u))
<1> DEFINE b == buf[u]
           c == ContentOf(u)
           l == Len(b)
<1>1. b \in File /\ c \in File /\ l \in Nat /\ Len(c) \in Nat
  <2>1. b \in File /\ c \in File /\ Held(u) \in Nat /\ Size(u) \in Nat
    BY UploadFacts
  <2> QED BY <2>1 DEF Held, Size
<1>2. Held(u) = l /\ Size(u) = Len(c) BY DEF Held, Size
<1>3. Begins(b, c) OBVIOUS
<1>4. CASE l < Len(c)
  <2>1. DataAt(u, Held(u)) = <<c[l + 1]>> BY <1>2, <1>4 DEF DataAt
  <2>2. c[l + 1] \in Nat BY <1>1, <1>4 DEF File
  <2> DEFINE x == c[l + 1]
  <2> HIDE DEF b, c, x
  <2>3. /\ Len(b \o <<x>>) = l + 1 /\ (b \o <<x>>)[l + 1] = x
        /\ \A i \in 1..l : (b \o <<x>>)[i] = b[i]
    BY <1>1, <2>2 DEF x, File
  <2>4. Begins(b \o <<x>>, c)
    <3>1. \A i \in 1..(l + 1) : i \in 1..l \/ i = l + 1 BY <1>1
    <3>2. \A i \in 1..l : b[i] = c[i] BY <1>3 DEF Begins
    <3>3. l + 1 <= Len(c) BY <1>1, <1>4
    <3>4. c[l + 1] = x BY DEF x
    <3> QED BY <2>3, <3>1, <3>2, <3>3, <3>4 DEF Begins
  <2> QED BY <2>1, <2>4 DEF b, c, x
<1>5. CASE ~(l < Len(c))
  <2>1. DataAt(u, Held(u)) = <<>> BY <1>2, <1>5 DEF DataAt
  <2>2. b \o <<>> = b BY <1>1 DEF File
  <2> QED BY <1>3, <2>1, <2>2
<1> QED BY <1>4, <1>5

\* The buffers and left-overs change in three steps only.
LEMMA PiecesKept ==
  ASSUME [Next]_vars,
         \A u \in Uploads : ~HandleOffer(u) /\ ~HandleChunk(u) /\ ~Tidy(u)
  PROVE  buf' = buf /\ partial' = partial
BY DEF Next, vars, SendOffer, ConsumerStep, SessionStep, ReadResume,
       SendChunk, ReadVerdict, UploadFails, OpenDest, FillDest, CheckDest,
       SessionEnds, DownloadStep, StartDownload, ServeDownload, ReadBlock,
       StreamEnds, ConnDrop, AgentCrash, uploadVars, diskVars

LEMMA PStep == SInv /\ PInv /\ [Next]_vars => PInv'
<1> SUFFICES ASSUME SInv, PInv, [Next]_vars,
                    NEW u \in plan.attempts \cap Uploads, Alike(u)
             PROVE  /\ Begins(buf'[u], ContentOf(u))
                    /\ \/ partial'[PathOf(u)] = Absent
                       \/ Begins(partial'[PathOf(u)], ContentOf(u))
  <2>1. [Next]_vars => plan' = plan BY PlanConstant
  <2> QED BY <2>1 DEF PInv, Alike, PathOf, ContentOf
<1> DEFINE p == PathOf(u)
           c == ContentOf(u)
<1>0. /\ Begins(buf[u], c) /\ (partial[p] = Absent \/ Begins(partial[p], c))
      /\ p \in Paths /\ c \in File
  BY PlanFacts DEF PInv, SInv
<1>1. ASSUME NEW v \in Uploads, HandleOffer(v)
      PROVE  Begins(buf'[u], c) /\ partial' = partial
  <2>1. partial' = partial BY <1>1 DEF HandleOffer, diskVars
  <2>2. CASE v = u /\ PathOf(v) \notin UnsafePaths
    <3>1. buf'[u] = Resumed(u) BY <1>1, <2>2 DEF HandleOffer, SInv, Typed
    <3>2. Resumed(u) = <<>>
            \/ (partial[p] # Absent /\ Resumed(u) = partial[p])
      BY DEF Resumed
    <3> QED BY <1>0, <2>1, <3>1, <3>2, BeginsEmpty
  <2>3. CASE ~(v = u /\ PathOf(v) \notin UnsafePaths)
    <3>1. buf'[u] = buf[u] BY <1>1, <2>3 DEF HandleOffer, SInv, Typed
    <3> QED BY <1>0, <2>1, <3>1
  <2> QED BY <2>2, <2>3
<1>2. ASSUME NEW v \in Uploads, HandleChunk(v)
      PROVE  /\ Begins(buf'[u], c)
             /\ partial'[p] = Absent \/ Begins(partial'[p], c)
  <2>1. /\ buf' = [buf EXCEPT ![v] = @ \o DataAt(v, Held(v))]
        /\ buf'[v] = buf[v] \o DataAt(v, Held(v))
    <3>1. buf' = [buf EXCEPT ![v] = @ \o DataAt(v, Held(v))]
      BY <1>2, ChunkFacts
    <3>2. buf \in [Uploads -> File] BY DEF SInv, Typed
    <3> QED BY <3>1, <3>2
  <2>2. v \in plan.attempts BY <1>2, ChunkFacts DEF SInv, Session
  <2>3. ASSUME PathOf(v) = p PROVE Begins(buf'[v], c)
    <3>1. Alike(v) /\ ContentOf(v) = c BY <2>2, <2>3 DEF Alike
    <3>2. Begins(buf[v], ContentOf(v)) BY <2>2, <3>1 DEF PInv
    <3> QED BY <2>1, <3>1, <3>2, BeginsNext DEF SInv
  <2>4. Begins(buf'[u], c)
    <3>1. CASE v = u BY <2>3, <3>1
    <3>2. CASE v # u BY <1>0, <2>1, <3>2 DEF SInv, Typed
    <3> QED BY <3>1, <3>2
  <2>5. partial'[p] = Absent \/ Begins(partial'[p], c)
    <3>1. CASE PathOf(v) = p
      <4> DEFINE new == buf'[v]
      <4>1. PICK n \in 0..Len(new) :
              \/ partial' = partial
              \/ partial' = [partial EXCEPT ![PathOf(v)] = SubSeq(new, 1, n)]
        BY <1>2, ChunkFacts
      <4>2. new \in File BY SNext DEF SInv, Typed
      <4>3. Begins(new, c) BY <2>3, <3>1
      <4> HIDE DEF new
      <4>4. partial'[p] = partial[p] \/ partial'[p] = SubSeq(new, 1, n)
        BY <1>0, <3>1, <4>1 DEF SInv, Typed
      <4> QED BY <1>0, <4>2, <4>3, <4>4, BeginsPrefix
    <3>2. CASE PathOf(v) # p
      <4>0. PICK x : \/ partial' = partial
                     \/ partial' = [partial EXCEPT ![PathOf(v)] = x]
        BY <1>2, ChunkFacts
      <4>1. partial'[p] = partial[p]
        BY <1>0, <3>2, <4>0 DEF SInv, Typed
      <4> QED BY <1>0, <4>1
    <3> QED BY <3>1, <3>2
  <2> QED BY <2>4, <2>5
<1>3. ASSUME NEW v \in Uploads, Tidy(v)
      PROVE  /\ buf' = buf
             /\ partial'[p] = Absent \/ partial'[p] = partial[p]
  BY <1>0, <1>3 DEF Tidy, SInv, Typed
<1>4. ASSUME \A v \in Uploads :
               ~HandleOffer(v) /\ ~HandleChunk(v) /\ ~Tidy(v)
      PROVE  /\ Begins(buf'[u], c)
             /\ partial'[p] = Absent \/ Begins(partial'[p], c)
  BY <1>0, <1>4, PiecesKept
<1> HIDE DEF p, c
<1>5. /\ Begins(buf'[u], c)
      /\ partial'[p] = Absent \/ Begins(partial'[p], c)
  <2>1. CASE \E v \in Uploads : HandleOffer(v) BY <1>0, <1>1, <2>1
  <2>2. CASE \E v \in Uploads : HandleChunk(v) BY <1>2, <2>2
  <2>3. CASE \E v \in Uploads : Tidy(v) BY <1>0, <1>3, <2>3
  <2> QED BY <1>4, <2>1, <2>2, <2>3
<1> QED BY <1>5 DEF p, c

\* Attempts at the same file may overlap, break off and take over from each
\* other: none is ever told of a hash mismatch (remote.rs:378-391, 401-427).
THEOREM SameFileNeverRejectedHolds == Spec => []SameFileNeverRejected
<1>1. Init => PInv
  <2> SUFFICES ASSUME Init, NEW u \in plan.attempts \cap Uploads
               PROVE  /\ Begins(buf[u], ContentOf(u))
                      /\ partial[PathOf(u)] = Absent
    BY DEF PInv
  <2>1. SInv BY SInit
  <2>2. ContentOf(u) \in File /\ PathOf(u) \in Paths
    BY <2>1, PlanFacts DEF SInv
  <2> QED BY <2>2, BeginsEmpty DEF Init
<1>2. SInv /\ PInv => SameFileNeverRejected
  <2> SUFFICES ASSUME SInv, PInv, NEW u \in Uploads, up[u] = "rejected",
                      Alike(u)
               PROVE  FALSE
    BY DEF SameFileNeverRejected, Alike
  <2>1. /\ u \in plan.attempts /\ Held(u) = Size(u) /\ ~HashOk(u)
    BY DEF SInv, Session
  <2>2. Begins(buf[u], ContentOf(u)) BY <2>1 DEF PInv
  <2>3. Len(buf[u]) = Len(ContentOf(u)) BY <2>1 DEF Held, Size
  <2>4. buf[u] = ContentOf(u)
    BY <2>2, <2>3, UploadFacts, BeginsWhole DEF SInv
  <2> QED BY <2>1, <2>4 DEF HashOk
<1> QED BY <1>1, <1>2, PStep, SAlways, PTL DEF Spec

-------------------------------------------------------------------------------
(* Files on the disk.                                                      *)

FileTyped ==
    /\ dest    \in [Paths -> Uploads \cup {Absent}]
    /\ file    \in [Uploads -> File]
    /\ handle  \in [Uploads -> Uploads]
    /\ filled  \in [Uploads -> Nat]
    /\ holds   \in [Uploads -> SUBSET Uploads]

\* Before fs::write, and once it is done or was cut off.
Early == {"none", "receiving", "write"}
Late  == {"check", "tidy", "kept", "over", "torn", "unverified"}

\* What an upload has to do with the disk, and with a file it may have written.
Wrote(u) ==
    /\ filled[u] <= Held(u)
    /\ phase[u] \in Early => filled[u] = 0
    /\ phase[u] = "filling" => u \in holds[handle[u]]

Holder(u, i) ==
    /\ handle[u] = i /\ PathOf(u) = PathOf(i)
    /\ phase[u] \notin Early
    /\ phase[u] \in Late \ {"torn"} => filled[u] = Held(u)

\* A file that holds the writes of one upload has what that upload wrote; a
\* wrong one leads nowhere, unless its upload is not done with it.
Sole(u, i) ==
    /\ file[i] = Written(u)
    /\ dest[PathOf(i)] = i /\ ~HashOk(u) =>
           phase[u] \in {"filling", "torn", "check", "kept", "unverified"}

FInv ==
    /\ FileTyped
    /\ \A p \in Paths : dest[p] # Absent => PathOf(dest[p]) = p
    /\ \A u \in Uploads : Wrote(u)
    /\ \A i \in Uploads : \A u \in holds[i] : Holder(u, i)
    /\ \A i, u \in Uploads : holds[i] = {u} => Sole(u, i)

\* What no step does to an upload: it takes nothing back; once the session is
\* past receiving the buffer stays, and once it is past writing, what it wrote.
Forth(u) ==
    /\ phase[u] \notin {"none", "receiving"} =>
           phase'[u] \notin {"none", "receiving"} /\ buf'[u] = buf[u]
    /\ phase[u] \notin Early => phase'[u] \notin Early
    /\ phase[u] \in Late =>
           /\ phase'[u] \in Late /\ filled'[u] = filled[u]
           /\ phase[u] = "torn" <=> phase'[u] = "torn"

LEMMA StaysForth ==
  ASSUME NEW u \in Uploads,
         phase'[u] = phase[u], buf'[u] = buf[u],
         phase[u] \in Late => filled'[u] = filled[u]
  PROVE  Forth(u)
BY DEF Forth

LEMMA GoesForth ==
  ASSUME SInv, FileTyped, [Next]_vars, NEW u \in Uploads
  PROVE  Forth(u)
<1>0. /\ phase \in [Uploads -> Phases] /\ buf \in [Uploads -> File]
      /\ phase[u] \in Phases /\ filled \in [Uploads -> Nat]
  BY DEF SInv, Typed, FileTyped
<1>1. ASSUME NEW v \in Uploads,
             SendOffer(v) \/ ConsumerStep(v) \/ SessionStep(v)
      PROVE  Forth(u)
  <2>1. CASE SendOffer(v) \/ ConsumerStep(v)
    BY <2>1, StaysForth DEF SendOffer, ConsumerStep, ReadResume, SendChunk,
                ReadVerdict, UploadFails, diskVars, destVars
  <2>2. ASSUME v # u, SessionStep(v) PROVE Forth(u)
    <3>1. phase'[u] = phase[u] /\ buf'[u] = buf[u]
      BY <1>0, <2>2 DEF SessionStep, HandleOffer, HandleChunk, OpenDest,
         FillDest, CheckDest, Tidy, SessionEnds, LeaveSession
    <3>2. filled'[u] = filled[u]
      <4>1. CASE FillDest(v)
        <5>1. filled' = filled \/ filled' = [filled EXCEPT ![v] = @ + 1]
          BY <4>1 DEF FillDest
        <5> QED BY <1>0, <2>2, <5>1
      <4>2. CASE ~FillDest(v)
        BY <2>2, <4>2 DEF SessionStep, HandleOffer, HandleChunk, OpenDest,
           CheckDest, Tidy, SessionEnds, diskVars, destVars
      <4> QED BY <4>1, <4>2
    <3> QED BY <3>1, <3>2, StaysForth
  <2>3. CASE HandleOffer(u)
    BY <1>0, <2>3 DEF HandleOffer, Forth, Early, Late
  <2>4. CASE HandleChunk(u)
    BY <1>0, <2>4 DEF HandleChunk, Forth, Early, Late
  <2>5. CASE OpenDest(u)
    BY <1>0, <2>5 DEF OpenDest, LeaveSession, Forth, Early, Late
  <2>6. CASE FillDest(u)
    BY <1>0, <2>6 DEF FillDest, LeaveSession, Forth, Early, Late
  <2>7. CASE CheckDest(u)
    BY <1>0, <2>7 DEF CheckDest, Forth, Early, Late
  <2>8. CASE Tidy(u)
    BY <1>0, <2>8 DEF Tidy, Forth, Early, Late, destVars
  <2>9. CASE SessionEnds(u)
    BY <1>0, <2>9 DEF SessionEnds, Forth, Early, Late
  <2> QED BY <1>1, <2>1, <2>2, <2>3, <2>4, <2>5, <2>6, <2>7, <2>8, <2>9
          DEF SessionStep
<1>2. ASSUME NEW d \in Downloads, DownloadStep(d) PROVE Forth(u)
  BY <1>2, StaysForth DEF DownloadStep, StartDownload, ServeDownload,
     ReadBlock, StreamEnds, uploadVars, diskVars, destVars
<1>3. CASE \E a \in Uploads \cup Downloads : ConnDrop(a)
  BY <1>3, StaysForth DEF ConnDrop, diskVars, destVars
<1>4. CASE AgentCrash
  BY <1>0, <1>4 DEF AgentCrash, Crashed, Phases, Forth, Early, Late, diskVars,
                    destVars
<1>5. CASE UNCHANGED vars BY <1>5, StaysForth DEF vars
<1> QED BY <1>1, <1>2, <1>3, <1>4, <1>5 DEF Next

LEMMA Onward ==
  ASSUME SInv, FileTyped, [Next]_vars, NEW u \in Uploads
  PROVE  /\ plan' = plan /\ Forth(u)
         /\ phase[u] \in Phases /\ phase'[u] \in Phases
         /\ phase[u] # "none" => u \in plan.attempts
         /\ phase[u] \notin {"none", "receiving"} =>
              /\ Held(u)' = Held(u) /\ (HashOk(u)' <=> HashOk(u))
<1>1. plan' = plan BY PlanConstant
<1>2. /\ phase[u] # "none" => u \in plan.attempts
      /\ phase[u] \in Phases /\ phase'[u] \in Phases
  BY SNext DEF SInv, Typed, Session
<1> QED BY <1>1, <1>2, GoesForth DEF Forth, HashOk, ContentOf, Held

\* A step that is neither a write nor a check leaves the files, and a session in
\* between where it is or dead.
LEMMA FilesKept ==
  ASSUME SInv, [Next]_vars,
         \A u \in Uploads : ~OpenDest(u) /\ ~FillDest(u) /\ ~CheckDest(u)
  PROVE  /\ UNCHANGED <<dest, file, handle, filled, holds>>
         /\ \A u \in Uploads :
              /\ phase'[u] = "filling" => phase[u] = "filling"
              /\ phase'[u] \in {"filling", "torn"} <=>
                   phase[u] \in {"filling", "torn"}
              /\ phase'[u] \in {"check", "kept", "unverified"} <=>
                   phase[u] \in {"check", "kept", "unverified"}
<1>0. phase \in [Uploads -> Phases] BY DEF SInv, Typed
<1> DEFINE Same(u) ==
             /\ phase'[u] = "filling" => phase[u] = "filling"
             /\ phase'[u] \in {"filling", "torn"} <=>
                  phase[u] \in {"filling", "torn"}
             /\ phase'[u] \in {"check", "kept", "unverified"} <=>
                  phase[u] \in {"check", "kept", "unverified"}
<1>1. ASSUME NEW v \in Uploads,
             SendOffer(v) \/ ConsumerStep(v) \/ SessionStep(v)
      PROVE  /\ UNCHANGED <<dest, file, handle, filled, holds>>
             /\ \A u \in Uploads : Same(u)
  <2>1. CASE SendOffer(v) \/ ConsumerStep(v)
    BY <2>1 DEF SendOffer, ConsumerStep, ReadResume, SendChunk, ReadVerdict,
                UploadFails, diskVars, destVars
  <2>2. CASE HandleOffer(v)
    BY <1>0, <2>2 DEF HandleOffer, diskVars, destVars
  <2>3. CASE HandleChunk(v) BY <1>0, <2>3 DEF HandleChunk, destVars
  <2>4. CASE Tidy(v) BY <1>0, <2>4 DEF Tidy, destVars
  <2>5. CASE SessionEnds(v)
    BY <1>0, <2>5 DEF SessionEnds, diskVars, destVars
  <2> QED BY <1>1, <2>1, <2>2, <2>3, <2>4, <2>5 DEF SessionStep
<1>2. ASSUME NEW d \in Downloads, DownloadStep(d)
      PROVE  UNCHANGED <<dest, file, handle, filled, holds, phase>>
  BY <1>2 DEF DownloadStep, StartDownload, ServeDownload, ReadBlock,
     StreamEnds, uploadVars, diskVars, destVars
<1>3. CASE \E a \in Uploads \cup Downloads : ConnDrop(a)
  BY <1>3 DEF ConnDrop, diskVars, destVars
<1>4. CASE AgentCrash
  BY <1>0, <1>4 DEF AgentCrash, Crashed, Phases, diskVars, destVars
<1>5. CASE UNCHANGED vars BY <1>5 DEF vars
<1> QED BY <1>1, <1>2, <1>3, <1>4, <1>5 DEF Next

-------------------------------------------------------------------------------
(* The file invariant, step by step.                                       *)

LEMMA SpliceTyped ==
  ASSUME NEW b \in File, NEW at \in Nat, NEW data \in File
  PROVE  Splice(b, at, data) \in File
<1> DEFINE m == IF at > Len(b) THEN at ELSE Len(b)
           padded == [i \in 1..m |-> IF i <= Len(b) THEN b[i] ELSE 0]
           end == at + Len(data)
           rest == IF end < Len(padded)
                   THEN SubSeq(padded, end + 1, Len(padded)) ELSE <<>>
<1>1. m \in Nat /\ at <= m /\ end \in Nat /\ Len(b) \in Nat BY DEF File
<1>2. padded \in File /\ Len(padded) = m
  <2>1. \A i \in 1..m : (IF i <= Len(b) THEN b[i] ELSE 0) \in Nat
    BY <1>1 DEF File
  <2> HIDE DEF m
  <2> QED BY <1>1, <2>1 DEF File
<1> HIDE DEF padded
<1>3. rest \in File
  <2> HIDE DEF end, m
  <2>1. CASE end < Len(padded)
    <3>1. \A i \in (end + 1)..Len(padded) : padded[i] \in Nat
      BY <1>1, <1>2 DEF File
    <3>2. SubSeq(padded, end + 1, Len(padded)) \in Seq(Nat)
      BY <1>1, <1>2, <2>1 DEF File
    <3> QED BY <2>1, <3>2 DEF File
  <2>2. CASE ~(end < Len(padded)) BY <2>2 DEF File
  <2> QED BY <2>1, <2>2
<1>4. SubSeq(padded, 1, at) \in File
  <2> HIDE DEF m
  <2>1. at \in 0..Len(padded) BY <1>1, <1>2
  <2> QED BY <1>2, <2>1, PrefixFacts DEF File
<1>5. Splice(b, at, data) = SubSeq(padded, 1, at) \o data \o rest
  BY DEF Splice, padded
<1> HIDE DEF rest
<1>6. SubSeq(padded, 1, at) \o data \in File BY <1>4 DEF File
<1> DEFINE front == SubSeq(padded, 1, at) \o data
<1>7. front \in File /\ Splice(b, at, data) = front \o rest BY <1>5, <1>6
<1> HIDE DEF front
<1>8. front \o rest \in File BY <1>3, <1>7 DEF File
<1> QED BY <1>7, <1>8

\* One block more of what is written.
LEMMA SpliceNext ==
  ASSUME NEW b \in File, NEW n \in Nat, n < Len(b)
  PROVE  Splice(SubSeq(b, 1, n), n, <<b[n + 1]>>) = SubSeq(b, 1, n + 1)
<1>1. /\ Len(b) \in Nat /\ n \in 0..Len(b) /\ n + 1 \in 0..Len(b)
      /\ b[n + 1] \in Nat
  BY DEF File
<1> DEFINE front == SubSeq(b, 1, n)
           x == b[n + 1]
           more == SubSeq(b, 1, n + 1)
<1>2. /\ front \in File /\ Len(front) = n
      /\ \A i \in 1..n : front[i] = b[i]
  BY <1>1, PrefixFacts DEF File
<1>3. /\ more \in File /\ Len(more) = n + 1
      /\ \A i \in 1..(n + 1) : more[i] = b[i]
  BY <1>1, PrefixFacts DEF File
<1>4. <<x>> \in File BY <1>1 DEF File
<1> HIDE DEF front, more
<1>5. Splice(front, n, <<x>>) = front \o <<x>> BY <1>2, <1>4, SpliceAtEnd
<1>6. x \in Nat /\ more[n + 1] = x BY <1>1, <1>3
<1> HIDE DEF x
<1>7. /\ front \o <<x>> \in File /\ Len(front \o <<x>>) = n + 1
      /\ \A i \in 1..n : (front \o <<x>>)[i] = front[i]
      /\ (front \o <<x>>)[n + 1] = x
  BY <1>2, <1>6 DEF File
<1>8. \A i \in 1..(n + 1) : (front \o <<x>>)[i] = more[i]
  <2>1. \A i \in 1..(n + 1) : i \in 1..n \/ i = n + 1 OBVIOUS
  <2> QED BY <1>2, <1>3, <1>6, <1>7, <2>1
<1>9. Begins(front \o <<x>>, more) BY <1>3, <1>7, <1>8 DEF Begins
<1>10. front \o <<x>> = more BY <1>3, <1>7, <1>9, BeginsWhole
<1> QED BY <1>5, <1>10 DEF front, more, x

LEMMA FInit == Init => FInv
<1> SUFFICES ASSUME Init PROVE FInv OBVIOUS
<1>1. FileTyped
  <2>1. <<>> \in File BY DEF File
  <2> QED BY <2>1 DEF Init, FileTyped
<1>2. \A u \in Uploads : Wrote(u)
  <2> SUFFICES ASSUME NEW u \in Uploads PROVE Wrote(u) OBVIOUS
  <2>1. filled[u] = 0 /\ phase[u] = "none" /\ buf[u] = <<>> BY DEF Init
  <2>2. Held(u) = 0 BY <2>1 DEF Held
  <2>3. filled[u] <= Held(u) BY <2>1, <2>2
  <2> QED BY <2>1, <2>3 DEF Wrote
<1> QED BY <1>1, <1>2 DEF Init, FInv

\* What a step that leaves the files makes of them.
LEMMA FRest ==
  ASSUME SInv, FInv, [Next]_vars,
         \A u \in Uploads : ~OpenDest(u) /\ ~FillDest(u) /\ ~CheckDest(u)
  PROVE  FInv'
<1>1. FileTyped' BY FilesKept DEF FInv, FileTyped
<1>2. plan' = plan BY PlanConstant
<1>3. \A p \in Paths : dest'[p] # Absent => PathOf(dest[p])' = p
  BY <1>2, FilesKept DEF FInv, PathOf
<1>4. ASSUME NEW u \in Uploads PROVE Wrote(u)'
  <2>1. /\ Forth(u) /\ phase[u] \in Phases /\ phase'[u] \in Phases
        /\ phase[u] \notin {"none", "receiving"} => Held(u)' = Held(u)
    BY Onward DEF FInv
  <2>2. Wrote(u) /\ Held(u)' \in Nat
    <3>1. buf'[u] \in Seq(Nat) BY SNext DEF SInv, Typed, File
    <3>2. Len(buf'[u]) \in Nat BY <3>1
    <3> QED BY <3>2 DEF FInv, Held
  <2>3. filled'[u] = filled[u] /\ handle'[u] = handle[u] /\ holds' = holds
    BY FilesKept
  <2>4. filled'[u] <= Held(u)'
    <3>1. CASE phase[u] \in {"none", "receiving"}
      BY <2>2, <2>3, <3>1 DEF Wrote, Early
    <3>2. CASE phase[u] \notin {"none", "receiving"}
      BY <2>1, <2>2, <2>3, <3>2 DEF Wrote
    <3> QED BY <3>1, <3>2
  <2>5. phase'[u] \in Early => filled'[u] = 0
    BY <2>1, <2>2, <2>3 DEF Wrote, Forth
  <2>6. phase'[u] = "filling" => u \in holds'[handle'[u]]
    BY <2>2, <2>3, FilesKept DEF Wrote
  <2> QED BY <2>4, <2>5, <2>6 DEF Wrote
<1>5. ASSUME NEW i \in Uploads, NEW u \in Uploads, Holder(u, i)
      PROVE  Holder(u, i)'
  <2>1. /\ Forth(u) /\ phase[u] \in Phases /\ phase'[u] \in Phases
        /\ phase[u] \notin {"none", "receiving"} => Held(u)' = Held(u)
    BY Onward DEF FInv
  <2>2. /\ filled'[u] = filled[u] /\ handle'[u] = handle[u]
        /\ phase'[u] \in {"filling", "torn"} <=>
             phase[u] \in {"filling", "torn"}
    BY FilesKept
  <2>3. phase'[u] \in Late \ {"torn"} => phase[u] \in Late \ {"torn"}
    BY <1>5, <2>1, <2>2 DEF Holder, Early, Late, Phases
  <2> QED BY <1>2, <1>5, <2>1, <2>2, <2>3
          DEF Holder, Forth, PathOf, Early
<1>6. ASSUME NEW i \in Uploads, NEW u \in Uploads, u \in holds[i], Sole(u, i)
      PROVE  Sole(u, i)'
  <2>1. phase[u] \notin Early BY <1>6 DEF FInv, Holder
  <2>2. buf'[u] = buf[u] /\ (HashOk(u)' <=> HashOk(u))
    BY <2>1, Onward DEF FInv, Forth, Early
  <2>3. /\ UNCHANGED <<dest, file, filled>>
        /\ phase'[u] \in {"filling", "torn"} <=>
             phase[u] \in {"filling", "torn"}
        /\ phase'[u] \in {"check", "kept", "unverified"} <=>
             phase[u] \in {"check", "kept", "unverified"}
    BY FilesKept
  <2> QED BY <1>2, <1>6, <2>2, <2>3 DEF Sole, Written, PathOf
<1>7. /\ \A i \in Uploads : \A u \in holds'[i] : Holder(u, i)'
      /\ \A i, u \in Uploads : holds'[i] = {u} => Sole(u, i)'
  <2>1. /\ holds' = holds /\ \A i \in Uploads : holds[i] \subseteq Uploads
    BY FilesKept DEF FInv, FileTyped
  <2> QED BY <1>5, <1>6, <2>1 DEF FInv
<1> QED BY <1>1, <1>3, <1>4, <1>7 DEF FInv

\* The file is emptied, or created: it holds what u has written, nothing yet.
LEMMA FOpen ==
  ASSUME SInv, FInv, [Next]_vars, NEW u \in Uploads, OpenDest(u)
  PROVE  FInv'
<1>0. /\ plan' = plan /\ buf' = buf /\ filled' = filled /\ phase[u] = "write"
      /\ \A v \in Uploads : v # u => phase'[v] = phase[v]
      /\ FileTyped /\ PathOf(u) \in Paths
  BY PlanFacts DEF OpenDest, LeaveSession, SInv, Typed, FInv
<1>1. \A v, i \in Uploads :
        /\ HashOk(v)' = HashOk(v) /\ PathOf(v)' = PathOf(v)
        /\ Held(v)' = Held(v) /\ Written(v)' = Written(v)
  BY <1>0 DEF HashOk, PathOf, ContentOf, Held, Written
<1>2. \A i \in Uploads : u \notin holds[i]
  BY <1>0 DEF FInv, Holder, Early
<1>3. filled[u] = 0 BY <1>0 DEF FInv, Wrote, Early
<1>4. CASE phase'[u] = "over"
  <2>1. UNCHANGED <<dest, file, handle, holds>>
    BY <1>0, <1>4 DEF OpenDest, SInv, Typed
  <2>2. FileTyped' BY <1>0, <2>1 DEF FileTyped
  <2>3. ASSUME NEW v \in Uploads PROVE Wrote(v)'
    BY <1>0, <1>1, <1>4, <2>1 DEF FInv, Wrote, Early
  <2>4. ASSUME NEW i \in Uploads, NEW v \in holds[i] PROVE Holder(v, i)'
    <3>1. v # u /\ v \in Uploads /\ Holder(v, i)
      BY <1>0, <1>2 DEF FInv, FileTyped
    <3> QED BY <1>0, <1>1, <2>1, <3>1 DEF Holder
  <2>5. ASSUME NEW i \in Uploads, NEW v \in Uploads, holds[i] = {v}
        PROVE  Sole(v, i)'
    <3>1. v # u /\ Sole(v, i) BY <1>2, <2>5 DEF FInv
    <3> QED BY <1>0, <1>1, <2>1, <3>1 DEF Sole
  <2>6. \A p \in Paths : dest'[p] # Absent => PathOf(dest[p])' = p
    BY <1>0, <2>1 DEF FInv, PathOf
  <2> QED BY <2>1, <2>2, <2>3, <2>4, <2>5, <2>6 DEF FInv
<1>5. CASE phase'[u] # "over"
  <2>1. PICK i \in Uploads :
          /\ i = IF dest[PathOf(u)] = Absent THEN u ELSE dest[PathOf(u)]
          /\ dest' = [dest EXCEPT ![PathOf(u)] = i]
          /\ file' = [file EXCEPT ![i] = <<>>]
          /\ handle' = [handle EXCEPT ![u] = i]
          /\ holds' = [holds EXCEPT ![i] = {u} \cup Writers(i)]
          /\ phase'[u] = "filling"
    <3>1. dest[PathOf(u)] \in Uploads \cup {Absent}
      BY <1>0 DEF FileTyped
    <3> DEFINE j == IF dest[PathOf(u)] = Absent THEN u ELSE dest[PathOf(u)]
    <3>2. j \in Uploads BY <3>1
    <3>3. /\ dest' = [dest EXCEPT ![PathOf(u)] = j]
          /\ file' = [file EXCEPT ![j] = <<>>]
          /\ handle' = [handle EXCEPT ![u] = j]
          /\ holds' = [holds EXCEPT ![j] = {u} \cup Writers(j)]
          /\ phase'[u] = "filling"
      BY <1>5 DEF OpenDest, LeaveSession, SInv, Typed
    <3> QED BY <3>2, <3>3
  <2>2. PathOf(i) = PathOf(u) BY <1>0, <2>1 DEF FInv
  <2>3. Writers(i) \subseteq holds[i] /\ u \notin Writers(i)
    BY <1>0 DEF Writers, FInv, Wrote
  <2>4. FileTyped'
    <3>1. <<>> \in File BY DEF File
    <3>2. {u} \cup Writers(i) \in SUBSET Uploads BY DEF Writers
    <3> QED BY <1>0, <2>1, <3>1, <3>2 DEF FileTyped
  <2>5. /\ holds'[i] = {u} \cup Writers(i) /\ file'[i] = <<>>
        /\ handle'[u] = i /\ dest'[PathOf(u)] = i
        /\ \A j \in Uploads : j # i =>
             holds'[j] = holds[j] /\ file'[j] = file[j]
        /\ \A v \in Uploads : v # u => handle'[v] = handle[v]
        /\ \A p \in Paths : p # PathOf(u) => dest'[p] = dest[p]
    BY <1>0, <2>1 DEF FileTyped
  <2>6. ASSUME NEW v \in Uploads PROVE Wrote(v)'
    <3>0. Wrote(v) BY DEF FInv
    <3>1. CASE v = u BY <1>0, <1>1, <2>1, <2>5, <3>0, <3>1 DEF Wrote, Early
    <3>2. CASE v # u
      <4>1. phase[v] = "filling" => v \in holds'[handle[v]]
        <5> SUFFICES ASSUME phase[v] = "filling" PROVE v \in holds'[handle[v]]
          OBVIOUS
        <5>1. v \in holds[handle[v]] /\ handle[v] \in Uploads
          BY <1>0, <3>0 DEF Wrote, FileTyped
        <5>2. handle[v] = i => v \in Writers(i) BY DEF Writers
        <5> QED BY <2>5, <5>1, <5>2
      <4> QED BY <1>0, <1>1, <2>5, <3>0, <3>2, <4>1 DEF Wrote
    <3> QED BY <3>1, <3>2
  <2>7. ASSUME NEW j \in Uploads, NEW v \in holds'[j] PROVE Holder(v, j)'
    <3>1. CASE v = u
      <4>1. j = i BY <1>2, <2>5, <3>1
      <4>2. phase'[u] \notin Early /\ phase'[u] \notin Late
        BY <2>1 DEF Early, Late
      <4> QED BY <1>1, <2>2, <2>5, <3>1, <4>1, <4>2 DEF Holder
    <3>2. CASE v # u
      <4>1. v \in holds[j] /\ v \in Uploads
        BY <1>0, <2>3, <2>5, <3>2 DEF FileTyped
      <4>2. Holder(v, j) BY <4>1 DEF FInv
      <4> QED BY <1>0, <1>1, <2>5, <3>2, <4>1, <4>2 DEF Holder
    <3> QED BY <3>1, <3>2
  <2>8. ASSUME NEW j \in Uploads, NEW v \in Uploads, holds'[j] = {v}
        PROVE  Sole(v, j)'
    <3>1. CASE j = i
      <4>1. v = u BY <2>5, <2>8, <3>1
      <4>2. Written(u) = <<>> BY <1>3 DEF Written
      <4> QED BY <1>1, <2>1, <2>5, <3>1, <4>1, <4>2 DEF Sole
    <3>2. CASE j # i
      <4>1. holds[j] = {v} /\ v # u BY <1>2, <2>5, <2>8, <3>2
      <4>2. Sole(v, j) BY <4>1 DEF FInv
      <4>3. dest'[PathOf(j)] = j => dest[PathOf(j)] = j
        <5>1. PathOf(j) \in Paths BY PlanFacts DEF SInv
        <5> QED BY <2>5, <3>2, <5>1
      <4> QED BY <1>0, <1>1, <2>5, <3>2, <4>1, <4>2, <4>3 DEF Sole
    <3> QED BY <3>1, <3>2
  <2>9. \A p \in Paths : dest'[p] # Absent => PathOf(dest[p])' = p
    <3> SUFFICES ASSUME NEW p \in Paths, dest'[p] # Absent
                 PROVE  PathOf(dest'[p]) = p
      BY <1>0 DEF PathOf
    <3>1. CASE p = PathOf(u) BY <2>2, <2>5, <3>1
    <3>2. CASE p # PathOf(u) BY <2>5, <3>2 DEF FInv
    <3> QED BY <3>1, <3>2
  <2> QED BY <2>4, <2>6, <2>7, <2>8, <2>9 DEF FInv
<1> QED BY <1>4, <1>5

\* One block more, all of it, or as much as there is: in the one file that u
\* writes.
LEMMA FFill ==
  ASSUME SInv, FInv, [Next]_vars, NEW u \in Uploads, FillDest(u)
  PROVE  FInv'
<1> DEFINE n == filled[u]
<1>0. /\ plan' = plan /\ buf' = buf /\ phase[u] = "filling"
      /\ UNCHANGED <<dest, handle, holds>>
      /\ \A v \in Uploads : v # u => phase'[v] = phase[v]
      /\ FileTyped /\ buf[u] \in File /\ Held(u) \in Nat /\ n \in Nat
  BY UploadFacts DEF FillDest, LeaveSession, SInv, Typed, FInv, FileTyped
<1>1. \A v, i \in Uploads :
        /\ HashOk(v)' = HashOk(v) /\ PathOf(v)' = PathOf(v)
        /\ Held(v)' = Held(v)
  BY <1>0 DEF HashOk, PathOf, ContentOf, Held
<1>2. PICK h \in Uploads : h = handle[u] BY <1>0 DEF FileTyped
<1>3. u \in holds[h] /\ n <= Held(u)
  BY <1>0, <1>2 DEF FInv, Wrote
<1>4. /\ phase'[u] \in {"filling", "check", "torn"}
      /\ \/ /\ n < Held(u) /\ phase'[u] = "filling"
            /\ file' = [file EXCEPT ![h] =
                   Splice(file[h], n, <<buf[u][n + 1]>>)]
            /\ filled' = [filled EXCEPT ![u] = n + 1]
         \/ /\ UNCHANGED <<file, filled>> /\ phase'[u] # "filling"
            /\ phase'[u] = "check" => n = Held(u)
  BY <1>0, <1>2 DEF FillDest, LeaveSession, SInv, Typed, Held
<1>5. /\ FileTyped'
      /\ \A i \in Uploads : i # h => file'[i] = file[i]
      /\ \A v \in Uploads : v # u => filled'[v] = filled[v]
  <2>1. n < Held(u) => Splice(file[h], n, <<buf[u][n + 1]>>) \in File
    <3> SUFFICES ASSUME n < Held(u)
                 PROVE  Splice(file[h], n, <<buf[u][n + 1]>>) \in File
      OBVIOUS
    <3>1. buf[u][n + 1] \in Nat BY <1>0 DEF Held, File
    <3>2. <<buf[u][n + 1]>> \in File BY <3>1 DEF File
    <3>3. file[h] \in File BY <1>0 DEF FileTyped
    <3> QED BY <1>0, <3>2, <3>3, SpliceTyped
  <2> DEFINE more == Splice(file[h], n, <<buf[u][n + 1]>>)
  <2> HIDE DEF more
  <2>2. n < Held(u) => more \in File BY <2>1 DEF more
  <2>3. \/ /\ n < Held(u) /\ file' = [file EXCEPT ![h] = more]
           /\ filled' = [filled EXCEPT ![u] = n + 1]
        \/ UNCHANGED <<file, filled>>
    BY <1>4 DEF more
  <2> HIDE DEF n
  <2> QED BY <1>0, <2>2, <2>3 DEF FileTyped
<1>6. \A p \in Paths : dest'[p] # Absent => PathOf(dest[p])' = p
  BY <1>0 DEF FInv, PathOf
<1>7. ASSUME NEW v \in Uploads PROVE Wrote(v)'
  <2>0. Wrote(v) BY DEF FInv
  <2>1. CASE v = u
    <3>1. filled'[u] <= Held(u)
      <4>1. filled'[u] = n \/ (n < Held(u) /\ filled'[u] = n + 1)
        BY <1>0, <1>4 DEF FileTyped
      <4> HIDE DEF n
      <4> QED BY <1>0, <1>3, <4>1
    <3> QED BY <1>0, <1>1, <1>2, <1>3, <1>4, <2>1, <3>1 DEF Wrote, Early
  <2>2. CASE v # u
    BY <1>0, <1>1, <1>5, <2>0, <2>2 DEF Wrote
  <2> QED BY <2>1, <2>2
<1>8. ASSUME NEW i \in Uploads, NEW v \in holds'[i] PROVE Holder(v, i)'
  <2>0. Holder(v, i) /\ v \in Uploads
    BY <1>0, <1>8 DEF FInv, FileTyped
  <2>1. CASE v = u
    <3>1. phase'[u] \in Late \ {"torn"} => filled'[u] = Held(u)
      BY <1>4 DEF Late
    <3> QED BY <1>0, <1>1, <1>4, <2>0, <2>1, <3>1 DEF Holder, Early
  <2>2. CASE v # u
    BY <1>0, <1>1, <1>5, <2>0, <2>2 DEF Holder
  <2> QED BY <2>1, <2>2
<1>9. ASSUME NEW i \in Uploads, NEW v \in Uploads, holds'[i] = {v}
      PROVE  Sole(v, i)'
  <2>0. holds[i] = {v} /\ Sole(v, i) BY <1>0, <1>9 DEF FInv
  <2>1. CASE i = h
    <3>1. v = u BY <1>3, <2>0, <2>1
    <3>2. file'[h] = SubSeq(buf[u], 1, filled'[u])
      <4>1. file[h] = SubSeq(buf[u], 1, n)
        BY <2>0, <2>1, <3>1 DEF Sole, Written
      <4>2. n < Held(u) =>
              Splice(file[h], n, <<buf[u][n + 1]>>) = SubSeq(buf[u], 1, n + 1)
        BY <1>0, <4>1, SpliceNext DEF Held
      <4>3. CASE n < Held(u) /\ filled' = [filled EXCEPT ![u] = n + 1]
                   /\ file' = [file EXCEPT ![h] =
                          Splice(file[h], n, <<buf[u][n + 1]>>)]
        <5>1. filled'[u] = n + 1 BY <1>0, <4>3 DEF FileTyped
        <5>2. file'[h] = Splice(file[h], n, <<buf[u][n + 1]>>)
          BY <1>0, <4>3 DEF FileTyped
        <5> QED BY <4>2, <4>3, <5>1, <5>2
      <4>4. CASE UNCHANGED <<file, filled>> BY <4>1, <4>4
      <4> QED BY <1>4, <4>3, <4>4
    <3>3. file'[i] = Written(v)' BY <1>0, <2>1, <3>1, <3>2 DEF Written
    <3> QED BY <1>0, <1>1, <1>4, <2>0, <3>1, <3>3 DEF Sole
  <2>2. CASE i # h
    <3>1. v # u
      BY <1>2, <2>0, <2>2 DEF FInv, Holder
    <3>2. Written(v)' = Written(v) BY <1>0, <1>5, <3>1 DEF Written
    <3> QED BY <1>0, <1>1, <1>5, <2>0, <2>2, <3>1, <3>2 DEF Sole
  <2> QED BY <2>1, <2>2
<1> QED BY <1>5, <1>6, <1>7, <1>8, <1>9 DEF FInv

\* A wrong file loses its name, or stays with a session that knows.
LEMMA FCheck ==
  ASSUME SInv, FInv, [Next]_vars, NEW u \in Uploads, CheckDest(u)
  PROVE  FInv'
<1>0. /\ plan' = plan /\ buf' = buf /\ phase[u] = "check"
      /\ UNCHANGED <<file, handle, filled, holds>>
      /\ phase'[u] \in {"tidy", "kept"}
      /\ phase'[u] = "tidy" =>
           \/ HashOk(u) /\ dest' = dest
           \/ dest' = [dest EXCEPT ![PathOf(u)] = Absent]
      /\ phase'[u] = "kept" => dest' = dest
      /\ \A v \in Uploads : v # u => phase'[v] = phase[v]
      /\ FileTyped /\ PathOf(u) \in Paths
  BY PlanFacts DEF CheckDest, SInv, Typed, FInv
<1>1. \A v, i \in Uploads :
        /\ HashOk(v)' = HashOk(v) /\ PathOf(v)' = PathOf(v)
        /\ Held(v)' = Held(v) /\ Written(v)' = Written(v)
  BY <1>0 DEF HashOk, PathOf, ContentOf, Held, Written
<1>2. /\ FileTyped'
      /\ \A p \in Paths : dest'[p] = Absent \/ dest'[p] = dest[p]
      /\ dest' # dest => dest'[PathOf(u)] = Absent
  BY <1>0 DEF FileTyped
<1>3. \A p \in Paths : dest'[p] # Absent => PathOf(dest[p])' = p
  BY <1>0, <1>2 DEF FInv, PathOf
<1>4. ASSUME NEW v \in Uploads PROVE Wrote(v)'
  BY <1>0, <1>1 DEF FInv, Wrote, Early
<1>5. ASSUME NEW i \in Uploads, NEW v \in holds'[i] PROVE Holder(v, i)'
  <2>1. Holder(v, i) /\ v \in Uploads
    BY <1>0, <1>5 DEF FInv, FileTyped
  <2> QED BY <1>0, <1>1, <2>1 DEF Holder, Early, Late
<1>6. ASSUME NEW i \in Uploads, NEW v \in Uploads, holds'[i] = {v}
      PROVE  Sole(v, i)'
  <2>1. Sole(v, i) /\ Holder(v, i) /\ holds[i] = {v}
    BY <1>0, <1>6 DEF FInv
  <2>2. /\ PathOf(i) \in Paths /\ Absent # i /\ PathOf(v) = PathOf(i)
    BY <2>1, PlanFacts, TransferConstants DEF SInv, Holder
  <2>3. dest'[PathOf(i)] = i => dest[PathOf(i)] = i BY <1>2, <2>2
  <2>4. CASE v # u
    BY <1>0, <1>1, <2>1, <2>3, <2>4 DEF Sole
  <2>5. CASE v = u
    <3>1. dest'[PathOf(i)] = i /\ ~HashOk(u) => phase'[u] = "kept"
      BY <1>0, <1>2, <2>2, <2>5 DEF FileTyped
    <3> QED BY <1>0, <1>1, <2>1, <2>5, <3>1 DEF Sole
  <2> QED BY <2>4, <2>5
<1> QED BY <1>2, <1>3, <1>4, <1>5, <1>6 DEF FInv

LEMMA FStep == SInv /\ FInv /\ [Next]_vars => FInv'
BY FOpen, FFill, FCheck, FRest

LEMMA FAlways == Spec => [](SInv /\ FInv)
<1>1. SInv /\ FInv /\ [Next]_vars => SInv' /\ FInv' BY SNext, FStep
<1>2. Init => SInv /\ FInv BY SInit, FInit
<1> QED BY <1>1, <1>2, PTL DEF Spec

\* The destination is absent or what one upload left there: a whole file, the
\* beginning of one that is being written or was cut off, or a wrong one on its
\* way out or that could not be removed; unless writes to it met
\* (remote.rs:434-444).
THEOREM DestIsWholeHolds == Spec => []DestIsWhole
<1>1. SInv /\ FInv => DestIsWhole
  <2> SUFFICES ASSUME SInv, FInv, NEW p \in Paths, dest[p] # Absent,
                      NEW u \in Uploads, holds[dest[p]] = {u}
               PROVE  /\ u \in plan.attempts /\ PathOf(u) = p
                      /\ LeftBy(u, file[dest[p]])
    BY DEF DestIsWhole
  <2>1. PICK i \in Uploads : i = dest[p] BY DEF FInv, FileTyped
  <2>2. Sole(u, i) /\ Holder(u, i) /\ PathOf(i) = p
    BY <2>1 DEF FInv
  <2>3. phase[u] \in Phases /\ buf[u] \in File BY DEF SInv, Typed
  <2>4. u \in plan.attempts /\ PathOf(u) = p
    BY <2>2 DEF SInv, Session, Holder, Early
  <2>5. CASE phase[u] \in {"filling", "torn"}
    BY <2>1, <2>2, <2>4, <2>5 DEF Sole, LeftBy
  <2>6. CASE phase[u] \notin {"filling", "torn"}
    <3>1. filled[u] = Len(buf[u])
      BY <2>2, <2>3, <2>6 DEF Holder, Early, Late, Phases, Held
    <3>2. file[i] = buf[u] BY <2>2, <2>3, <3>1 DEF Sole, Written, File
    <3> QED BY <2>1, <2>2, <2>4, <2>6, <3>2 DEF Sole, LeftBy, HashOk
  <2> QED BY <2>1, <2>4, <2>5, <2>6
<1> QED BY <1>1, FAlways, PTL

-------------------------------------------------------------------------------
(* Downloads.                                                              *)

\* An upload of the path of d that is done with writing.
Left(u, d) ==
    /\ u \in plan.attempts /\ PathOf(u) = PathOf(d)
    /\ phase[u] \in Late
    /\ phase[u] # "torn" => filled[u] = Held(u)

\* The pieces under way are the next of the file; the last of the file has eof.
Carries(d, data) ==
    \E n \in Nat :
        /\ Len(got[d]) + n = Len(data) /\ Begins(got[d], data)
        /\ IF data = <<>>
           THEN \A i \in 1..Len(stream[d]) :
                    stream[d][i] = [data |-> <<>>, eof |-> TRUE]
           ELSE /\ n > 0 /\ Len(stream[d]) <= n
                /\ \A i \in 1..Len(stream[d]) : stream[d][i] =
                       [data |-> <<data[Len(got[d]) + i]>>, eof |-> i = n]

Download(d) ==
    /\ down[d] = "idle" => got[d] = <<>> /\ taken[d] = <<>>
    /\ down[d] = "opened" =>
           /\ got[d] = <<>> /\ source[d] \in Uploads
           /\ PathOf(source[d]) = PathOf(d)
           /\ d \notin blurred =>
                  Calm(source[d]) /\ Begins(taken[d], file[source[d]])
    /\ down[d] = "reading" /\ d \notin blurred =>
           \E u \in Uploads : Left(u, d) /\ Carries(d, Written(u))
    /\ down[d] = "eof" /\ d \notin blurred =>
           \E u \in Uploads : Left(u, d) /\ got[d] = Written(u)
    /\ down[d] = "cut" /\ d \notin blurred =>
           \E u \in Uploads : Left(u, d) /\ Begins(got[d], Written(u))

DownTyped ==
    /\ down   \in [Downloads -> {"idle", "opened", "reading", "eof", "cut",
                                 "failed"}]
    /\ source \in [Downloads -> Uploads \cup {Absent}]
    /\ taken  \in [Downloads -> File]
    /\ got    \in [Downloads -> File]
    /\ stream \in [Downloads -> Seq(Piece)]

DInv == DownTyped /\ \A d \in Downloads : Download(d)

\* A file goes out in pieces; a piece is no longer than the file.
LEMMA ChunksTyped ==
  ASSUME NEW data \in File
  PROVE  Chunks(data) \in Seq(Piece)
<1>1. CASE data = <<>>
  <2>1. [data |-> <<>>, eof |-> TRUE] \in Piece BY DEF Piece
  <2> QED BY <1>1, <2>1 DEF Chunks
<1>2. CASE data # <<>>
  <2>1. \A i \in 1..Len(data) :
          [data |-> <<data[i]>>, eof |-> i = Len(data)] \in Piece
    <3>1. \A i \in 1..Len(data) : data[i] \in Nat BY DEF File
    <3> QED BY <3>1 DEF Piece
  <2>2. Len(data) \in Nat BY DEF File
  <2> QED BY <1>2, <2>1, <2>2 DEF Chunks
<1> QED BY <1>1, <1>2

LEMMA DTypes == SInv /\ FInv /\ DInv /\ [Next]_vars => DownTyped'
<1> SUFFICES ASSUME SInv, FInv, DInv, [Next]_vars PROVE DownTyped' OBVIOUS
<1>0. DownTyped BY DEF DInv
<1>1. ASSUME NEW u \in Uploads,
             SendOffer(u) \/ ConsumerStep(u) \/ SessionStep(u)
      PROVE  UNCHANGED downloadVars
  BY <1>1 DEF SendOffer, ConsumerStep, SessionStep, ReadResume, SendChunk,
     ReadVerdict, UploadFails, HandleOffer, HandleChunk, OpenDest, FillDest,
     CheckDest, Tidy, SessionEnds
<1>2. ASSUME NEW d \in Downloads, StartDownload(d) PROVE DownTyped'
  <2>1. dest[PathOf(d)] \in Uploads \cup {Absent}
    BY PlanFacts DEF SInv, FInv, FileTyped
  <2> QED BY <1>0, <1>2, <2>1 DEF StartDownload, DownTyped
<1>3. ASSUME NEW d \in Downloads, ServeDownload(d) PROVE DownTyped'
  <2> DEFINE n == Len(taken[d])
  <2>1. PICK i \in Uploads : i = source[d]
    BY <1>3 DEF ServeDownload, DInv, Download
  <2>2. /\ file[i] \in File /\ taken[d] \in File /\ n \in Nat
        /\ Len(file[i]) \in Nat
    BY <1>0 DEF FInv, FileTyped, DownTyped, File
  <2>3. CASE n < Len(file[i])
    <3>1. file[i][n + 1] \in Nat BY <2>2, <2>3 DEF File
    <3>2. taken' = [taken EXCEPT ![d] = Append(taken[d], file[i][n + 1])]
      BY <1>3, <2>1, <2>3 DEF ServeDownload
    <3> HIDE DEF n
    <3>3. Append(taken[d], file[i][n + 1]) \in File
      BY <2>2, <3>1 DEF File
    <3>4. taken' \in [Downloads -> File]
      BY <1>0, <3>2, <3>3 DEF DownTyped
    <3>5. UNCHANGED <<down, stream, source, got>>
      BY <1>3, <2>1, <2>3 DEF ServeDownload, n
    <3> QED BY <1>0, <3>4, <3>5 DEF DownTyped
  <2>4. CASE ~(n < Len(file[i]))
    <3>1. /\ down' = [down EXCEPT ![d] = "reading"]
          /\ stream' = [stream EXCEPT ![d] = Chunks(taken[d])]
          /\ UNCHANGED <<taken, source, got>>
      BY <1>3, <2>1, <2>4 DEF ServeDownload
    <3>2. Chunks(taken[d]) \in Seq(Piece) BY <2>2, ChunksTyped
    <3> QED BY <1>0, <3>1, <3>2 DEF DownTyped
  <2> QED BY <2>3, <2>4
<1>4. ASSUME NEW d \in Downloads, ReadBlock(d) PROVE DownTyped'
  <2>1. stream[d] \in Seq(Piece) /\ stream[d] # <<>> /\ got[d] \in File
    BY <1>0, <1>4 DEF ReadBlock, DownTyped
  <2>2. Head(stream[d]) \in Piece /\ Tail(stream[d]) \in Seq(Piece)
    BY <2>1
  <2>3. got[d] \o Head(stream[d]).data \in File
    BY <2>1, <2>2 DEF Piece, File
  <2> QED BY <1>0, <1>4, <2>2, <2>3 DEF ReadBlock, DownTyped
<1>5. ASSUME NEW d \in Downloads, StreamEnds(d) PROVE DownTyped'
  BY <1>0, <1>5 DEF StreamEnds, DownTyped
<1>6. ASSUME NEW a \in Uploads \cup Downloads, ConnDrop(a) PROVE DownTyped'
  <2>1. CASE a \in Uploads BY <1>0, <1>6, <2>1 DEF ConnDrop, DownTyped
  <2>2. CASE a \notin Uploads
    <3>1. PICK k \in 0..Len(stream[a]) :
            stream' = [stream EXCEPT ![a] = SubSeq(@, 1, k)]
      BY <1>6, <2>2 DEF ConnDrop
    <3>2. stream[a] \in Seq(Piece) BY <1>0, <2>2 DEF DownTyped
    <3>3. SubSeq(stream[a], 1, k) \in Seq(Piece) BY <3>2, PrefixFacts
    <3> QED BY <1>0, <1>6, <3>1, <3>3 DEF ConnDrop, DownTyped
  <2> QED BY <2>1, <2>2
<1>7. CASE AgentCrash
  <2>1. <<>> \in Seq(Piece) OBVIOUS
  <2> QED BY <1>0, <1>7, <2>1 DEF AgentCrash, DownTyped
<1>8. CASE UNCHANGED vars BY <1>0, <1>8 DEF vars, DownTyped
<1> QED BY <1>0, <1>1, <1>2, <1>3, <1>4, <1>5, <1>6, <1>7, <1>8
        DEF Next, DownloadStep, downloadVars, DownTyped

\* What an upload left stays.
LEMMA LeftKept ==
  ASSUME SInv, FInv, [Next]_vars, NEW d \in Downloads, NEW u \in Uploads,
         Left(u, d)
  PROVE  Left(u, d)' /\ Written(u)' = Written(u)
<1>1. /\ plan' = plan /\ Forth(u)
      /\ phase[u] \notin {"none", "receiving"} => Held(u)' = Held(u)
  BY Onward DEF FInv
<1>2. phase[u] \notin {"none", "receiving"} BY DEF Left, Late
<1> QED BY <1>1, <1>2 DEF Left, Forth, PathOf, Written

LEMMA WrittenTyped ==
  ASSUME SInv, FInv, NEW u \in Uploads
  PROVE  Written(u) \in File
<1>1. /\ buf[u] \in File /\ filled[u] \in Nat /\ Held(u) \in Nat
      /\ filled[u] <= Held(u)
  BY UploadFacts DEF SInv, FInv, FileTyped, Wrote
<1>2. filled[u] \in 0..Len(buf[u]) BY <1>1 DEF Held
<1> QED BY <1>1, <1>2, PrefixFacts DEF Written, File

\* A file nobody writes, and that nobody opens to write, stays what it is.
LEMMA CalmKept ==
  ASSUME SInv, FInv, [Next]_vars, NEW d \in Downloads, NEW i \in Uploads,
         down[d] = "opened", source[d] = i, d \notin blurred', Calm(i)
  PROVE  Calm(i)' /\ file'[i] = file[i]
<1>0. /\ phase \in [Uploads -> Phases] /\ FileTyped
      /\ \A v \in Uploads : phase[v] = "filling" => handle[v] # i
      /\ \E u \in Uploads : holds[i] = {u}
  BY DEF SInv, Typed, FInv, Calm, Writers
<1> DEFINE Quiet == /\ holds'[i] = holds[i] /\ file'[i] = file[i]
                    /\ \A v \in Uploads : phase'[v] = "filling" => handle'[v] # i
<1>1. ASSUME NEW u \in Uploads, OpenDest(u) PROVE Quiet
  <2>1. CASE phase' = [phase EXCEPT ![u] = "over"]
               /\ UNCHANGED <<file, handle, holds>>
    BY <1>0, <2>1
  <2>2. CASE \E j : /\ file' = [file EXCEPT ![j] = <<>>]
                    /\ handle' = [handle EXCEPT ![u] = j]
                    /\ holds' = [holds EXCEPT ![j] = {u} \cup Writers(j)]
                    /\ phase' = [phase EXCEPT ![u] = "filling"]
                    /\ Readers(j) \subseteq blurred'
    <3>1. PICK j : /\ file' = [file EXCEPT ![j] = <<>>]
                   /\ handle' = [handle EXCEPT ![u] = j]
                   /\ holds' = [holds EXCEPT ![j] = {u} \cup Writers(j)]
                   /\ phase' = [phase EXCEPT ![u] = "filling"]
                   /\ Readers(j) \subseteq blurred'
      BY <2>2
    <3>2. j # i BY <3>1 DEF Readers
    <3> QED BY <1>0, <3>1, <3>2 DEF FileTyped
  <2>3. OpenDest(u) =>
          \/ /\ phase' = [phase EXCEPT ![u] = "over"]
             /\ UNCHANGED <<file, handle, holds>>
          \/ \E j : /\ file' = [file EXCEPT ![j] = <<>>]
                    /\ handle' = [handle EXCEPT ![u] = j]
                    /\ holds' = [holds EXCEPT ![j] = {u} \cup Writers(j)]
                    /\ phase' = [phase EXCEPT ![u] = "filling"]
                    /\ Readers(j) \subseteq blurred'
    BY DEF OpenDest, LeaveSession
  <2> HIDE DEF Quiet
  <2> QED BY <1>1, <2>1, <2>2, <2>3
<1>2. ASSUME NEW u \in Uploads, FillDest(u) PROVE Quiet
  <2>1. /\ UNCHANGED <<handle, holds>> /\ phase[u] = "filling"
        /\ \A v \in Uploads : phase'[v] = "filling" => phase[v] = "filling"
        /\ \/ file' = file
           \/ \E x : file' = [file EXCEPT ![handle[u]] = x]
    BY <1>0, <1>2 DEF FillDest, LeaveSession
  <2> QED BY <1>0, <2>1 DEF FileTyped
<1>3. ASSUME NEW u \in Uploads, CheckDest(u) PROVE Quiet
  BY <1>0, <1>3 DEF CheckDest
<1>4. ASSUME \A u \in Uploads : ~OpenDest(u) /\ ~FillDest(u) /\ ~CheckDest(u)
      PROVE  Quiet
  BY <1>0, <1>4, FilesKept
<1>5. Quiet => Calm(i)' /\ file'[i] = file[i]
  BY <1>0 DEF Calm, Writers
<1> HIDE DEF Quiet
<1> QED BY <1>1, <1>2, <1>3, <1>4, <1>5

LEMMA BlurGrows == [Next]_vars => blurred \subseteq blurred'
<1> SUFFICES ASSUME [Next]_vars PROVE blurred \subseteq blurred'
  OBVIOUS
<1>1. ASSUME NEW u \in Uploads, SendOffer(u) \/ ConsumerStep(u)
      PROVE  blurred \subseteq blurred'
  BY <1>1 DEF SendOffer, ConsumerStep, ReadResume, SendChunk, ReadVerdict,
              UploadFails, diskVars, destVars
<1>2. ASSUME NEW u \in Uploads, SessionStep(u)
      PROVE  blurred \subseteq blurred'
  <2>1. CASE HandleOffer(u) BY <2>1 DEF HandleOffer, diskVars, destVars
  <2>2. CASE HandleChunk(u) BY <2>2 DEF HandleChunk, destVars
  <2>3. CASE OpenDest(u) BY <2>3 DEF OpenDest
  <2>4. CASE FillDest(u) BY <2>4 DEF FillDest
  <2>5. CASE CheckDest(u) BY <2>5 DEF CheckDest
  <2>6. CASE Tidy(u) BY <2>6 DEF Tidy, destVars
  <2>7. CASE SessionEnds(u) BY <2>7 DEF SessionEnds, diskVars, destVars
  <2> QED
    BY <1>2, <2>1, <2>2, <2>3, <2>4, <2>5, <2>6, <2>7 DEF SessionStep
<1>3. ASSUME NEW d \in Downloads, DownloadStep(d)
      PROVE  blurred \subseteq blurred'
  BY <1>3 DEF DownloadStep, StartDownload, ServeDownload, ReadBlock,
              StreamEnds, diskVars, destVars
<1>4. CASE AgentCrash \/ \E a \in Uploads \cup Downloads : ConnDrop(a)
  BY <1>4 DEF AgentCrash, ConnDrop, diskVars, destVars
<1>5. CASE UNCHANGED vars BY <1>5 DEF vars
<1> QED BY <1>1, <1>2, <1>3, <1>4, <1>5 DEF Next

LEMMA CarriesKept ==
  ASSUME DownTyped, NEW d \in Downloads, NEW data, NEW k \in 0..Len(stream[d]),
         got'[d] = got[d], stream'[d] = SubSeq(stream[d], 1, k),
         Carries(d, data)
  PROVE  Carries(d, data)'
<1>1. /\ Len(stream'[d]) = k /\ k <= Len(stream[d]) /\ k \in Nat
      /\ \A i \in 1..k : stream'[d][i] = stream[d][i]
      /\ Len(stream[d]) \in Nat
  BY PrefixFacts DEF DownTyped
<1>2. PICK n \in Nat :
        /\ Len(got[d]) + n = Len(data) /\ Begins(got[d], data)
        /\ IF data = <<>>
           THEN \A i \in 1..Len(stream[d]) :
                    stream[d][i] = [data |-> <<>>, eof |-> TRUE]
           ELSE /\ n > 0 /\ Len(stream[d]) <= n
                /\ \A i \in 1..Len(stream[d]) : stream[d][i] =
                       [data |-> <<data[Len(got[d]) + i]>>, eof |-> i = n]
  BY DEF Carries
<1>3. \A i \in 1..k : i \in 1..Len(stream[d]) BY <1>1
<1>4. CASE data = <<>>
  BY <1>1, <1>2, <1>3, <1>4 DEF Carries
<1>5. CASE data # <<>>
  <2>1. n > 0 /\ k <= n BY <1>1, <1>2, <1>5
  <2>2. \A i \in 1..k : stream'[d][i] =
            [data |-> <<data[Len(got'[d]) + i]>>, eof |-> i = n]
    BY <1>1, <1>2, <1>3, <1>5
  <2>3. Len(got'[d]) + n = Len(data) /\ Begins(got'[d], data)
    BY <1>2
  <2> QED BY <1>1, <1>5, <2>1, <2>2, <2>3 DEF Carries, Begins
<1> QED BY <1>4, <1>5

\* The first pieces of a file carry all of it.
LEMMA CarriesAll ==
  ASSUME NEW d \in Downloads, NEW data \in File, got'[d] = <<>>,
         stream'[d] = Chunks(data)
  PROVE  Carries(d, data)'
<1> DEFINE n == Len(data)
<1>1. n \in Nat /\ Len(<<>>) = 0 /\ 0 + n = n BY DEF File
<1>2. Begins(<<>>, data) BY BeginsEmpty
<1>3. CASE data = <<>>
  <2>1. stream'[d] = <<[data |-> <<>>, eof |-> TRUE]>>
    BY <1>3 DEF Chunks
  <2>2. \A i \in 1..Len(stream'[d]) :
          stream'[d][i] = [data |-> <<>>, eof |-> TRUE]
    <3> DEFINE x == [data |-> <<>>, eof |-> TRUE]
    <3> HIDE DEF x
    <3>1. Len(<<x>>) = 1 /\ \A i \in 1..1 : <<x>>[i] = x OBVIOUS
    <3>2. stream'[d] = <<x>> BY <2>1 DEF x
    <3>3. \A i \in 1..Len(stream'[d]) : stream'[d][i] = x BY <3>1, <3>2
    <3> QED BY <3>3 DEF x
  <2> QED BY <1>1, <1>2, <1>3, <2>2 DEF Carries
<1>4. CASE data # <<>>
  <2>1. n > 0 BY <1>4, <1>1 DEF File
  <2>2. stream'[d] = [i \in 1..n |-> [data |-> <<data[i]>>, eof |-> i = n]]
    BY <1>4 DEF Chunks
  <2> HIDE DEF n
  <2>3. Len(stream'[d]) = n BY <1>1, <2>2
  <2>4. \A i \in 1..n : stream'[d][i] =
          [data |-> <<data[0 + i]>>, eof |-> i = n]
    <3>1. \A i \in 1..n : 0 + i = i BY <1>1
    <3> QED BY <2>2, <3>1
  <2>5. /\ 0 + n = n /\ n \in Nat /\ n > 0 /\ Len(stream'[d]) <= n
        /\ \A i \in 1..Len(stream'[d]) : stream'[d][i] =
             [data |-> <<data[0 + i]>>, eof |-> i = n]
    BY <1>1, <2>1, <2>3, <2>4
  <2>6. Len(got'[d]) = 0 /\ Begins(got'[d], data) /\ n = Len(data)
    BY <1>1, <1>2 DEF n
  <2> QED BY <1>4, <2>5, <2>6 DEF Carries
<1> QED BY <1>3, <1>4

\* One piece more, or the last one.
LEMMA ReadStep ==
  ASSUME DownTyped, NEW d \in Downloads, NEW data \in File, Carries(d, data),
         ReadBlock(d)
  PROVE  IF Head(stream[d]).eof THEN got'[d] = data ELSE Carries(d, data)'
<1> DEFINE g == got[d]
           q == stream[d]
           l == Len(g)
<1>0. /\ g \in File /\ q \in Seq(Piece) /\ q # <<>>
      /\ got'[d] = g \o Head(q).data /\ stream'[d] = Tail(q)
  BY DEF ReadBlock, DownTyped
<1>1. PICK n \in Nat :
        /\ l + n = Len(data) /\ Begins(g, data)
        /\ IF data = <<>>
           THEN \A i \in 1..Len(q) : q[i] = [data |-> <<>>, eof |-> TRUE]
           ELSE /\ n > 0 /\ Len(q) <= n
                /\ \A i \in 1..Len(q) : q[i] =
                       [data |-> <<data[l + i]>>, eof |-> i = n]
  BY DEF Carries
<1>2. Head(q) = q[1] /\ 1 \in 1..Len(q) /\ Len(q) \in Nat
  <2> HIDE DEF q
  <2> QED BY <1>0
<1>3. CASE data = <<>>
  <2>1. Head(q) = [data |-> <<>>, eof |-> TRUE] BY <1>1, <1>2, <1>3
  <2>2. l = 0 /\ g = <<>>
    <3>1. l \in Nat BY <1>0 DEF File
    <3>2. Len(data) = 0 BY <1>3
    <3> HIDE DEF l
    <3>3. l = 0 BY <1>1, <3>1, <3>2
    <3> QED BY <3>3, <1>0 DEF l, File
  <2>3. g \o <<>> = <<>> BY <2>2
  <2> QED BY <1>0, <1>3, <2>1, <2>3
<1>4. CASE data # <<>>
  <2> DEFINE x == data[l + 1]
             h == g \o <<x>>
             m == n - 1
             k == Len(q)
  <2>1. /\ n > 0 /\ k <= n /\ l + n = Len(data) /\ Begins(g, data)
        /\ \A i \in 1..k : q[i] = [data |-> <<data[l + i]>>, eof |-> i = n]
    BY <1>1, <1>4
  <2>2. l \in Nat /\ Len(data) \in Nat BY <1>0 DEF File
  <2>3. Head(q).data = <<x>> /\ (Head(q).eof <=> n = 1)
    <3>1. 1 \in 1..k BY <1>2
    <3>2. Head(q) = [data |-> <<data[l + 1]>>, eof |-> 1 = n]
      BY <1>2, <2>1, <3>1
    <3> HIDE DEF q, l
    <3>3. Head(q).data = <<x>> BY <3>2
    <3>4. Head(q).eof = (1 = n) BY <3>2
    <3> QED BY <3>3, <3>4 DEF q
  <2>4. x \in Nat
    <3> HIDE DEF l
    <3>1. l + 1 \in 1..Len(data) BY <2>1, <2>2
    <3> QED BY <3>1 DEF File
  <2> HIDE DEF x
  <2>5. /\ h \in File /\ Len(h) = l + 1 /\ h[l + 1] = x
        /\ \A i \in 1..l : h[i] = g[i]
    BY <1>0, <2>2, <2>4 DEF File
  <2>6. got'[d] = h BY <1>0, <2>3
  <2> HIDE DEF h
  <2>7. Begins(h, data)
    <3>1. \A i \in 1..l : g[i] = data[i] BY <2>1 DEF Begins
    <3> HIDE DEF l
    <3>2. \A i \in 1..(l + 1) : i \in 1..l \/ i = l + 1 BY <2>2
    <3>3. \A i \in 1..(l + 1) : h[i] = data[i]
      BY <2>5, <3>1, <3>2 DEF x
    <3>4. l + 1 <= Len(data) BY <2>1, <2>2
    <3> QED BY <2>5, <3>3, <3>4 DEF Begins
  <2>8. CASE n = 1
    <3>1. Len(h) = Len(data) BY <2>1, <2>5, <2>8
    <3>2. h = data BY <2>5, <2>7, <3>1, BeginsWhole
    <3> QED BY <2>3, <2>6, <2>8, <3>2
  <2>9. CASE n # 1
    <3>1. m \in Nat /\ m > 0 BY <2>1, <2>9
    <3>2. /\ Len(Tail(q)) = k - 1 /\ k \in Nat /\ k > 0
          /\ \A i \in 1..(k - 1) : Tail(q)[i] = q[i + 1]
      <4>1. q \in Seq(Piece) /\ q # <<>> BY <1>0
      <4> HIDE DEF q
      <4> QED BY <4>1
    <3>3. \A i \in 1..(k - 1) : Tail(q)[i] =
            [data |-> <<data[(l + 1) + i]>>, eof |-> i = m]
      <4> SUFFICES ASSUME NEW i \in 1..(k - 1)
                   PROVE  Tail(q)[i] =
                            [data |-> <<data[(l + 1) + i]>>, eof |-> i = m]
        OBVIOUS
      <4> HIDE DEF k
      <4>1. i + 1 \in 1..k /\ (i + 1 = n <=> i = m) /\ i \in Nat
        BY <3>1, <3>2
      <4>2. q[i + 1] = [data |-> <<data[l + (i + 1)]>>, eof |-> i + 1 = n]
        BY <2>1, <4>1
      <4> HIDE DEF l
      <4>3. l + (i + 1) = (l + 1) + i BY <2>2, <4>1
      <4>4. (i + 1 = n) = (i = m) BY <4>1
      <4> QED BY <3>2, <4>2, <4>3, <4>4
    <3>4. Len(h) + m = Len(data)
      <4> HIDE DEF l
      <4> QED BY <2>1, <2>2, <2>5
    <3>5. Len(Tail(q)) <= m
      <4> HIDE DEF k
      <4> QED BY <2>1, <3>2
    <3> HIDE DEF m, l, q, g, k
    <3>6. Carries(d, data)'
      <4>1. /\ got'[d] = h /\ stream'[d] = Tail(q) /\ data # <<>>
            /\ Len(h) + m = Len(data) /\ Begins(h, data)
            /\ m > 0 /\ m \in Nat /\ Len(Tail(q)) <= m
            /\ \A i \in 1..Len(Tail(q)) : Tail(q)[i] =
                 [data |-> <<data[Len(h) + i]>>, eof |-> i = m]
        BY <1>0, <1>4, <2>5, <2>6, <2>7, <3>1, <3>2, <3>3, <3>4, <3>5 DEF q, g
      <4> QED BY <4>1 DEF Carries
    <3> QED BY <2>3, <2>9, <3>6 DEF q
  <2> QED BY <2>8, <2>9
<1> QED BY <1>3, <1>4

\* A step of somebody else, which may cut the stream.
LEMMA DownloadKept ==
  ASSUME SInv, FInv, DInv, [Next]_vars, NEW d \in Downloads,
         down'[d] = down[d], got'[d] = got[d], source'[d] = source[d],
         taken'[d] = taken[d],
         NEW k \in 0..Len(stream[d]), stream'[d] = SubSeq(stream[d], 1, k)
  PROVE  Download(d)'
<1>0. Download(d) /\ plan' = plan /\ (d \notin blurred' => d \notin blurred)
  BY PlanConstant, BlurGrows DEF DInv
<1>1. down[d] = "idle" => got'[d] = <<>> /\ taken'[d] = <<>>
  BY <1>0 DEF Download
<1>2. ASSUME down[d] = "opened"
      PROVE  /\ got'[d] = <<>> /\ source'[d] \in Uploads
             /\ PathOf(source[d])' = PathOf(d)'
             /\ d \notin blurred' =>
                  Calm(source[d])' /\ Begins(taken[d], file[source[d]])'
  <2>1. PICK i \in Uploads : i = source[d] BY <1>0, <1>2 DEF Download
  <2>2. /\ got[d] = <<>> /\ PathOf(i) = PathOf(d)
        /\ d \notin blurred' => Calm(i) /\ Begins(taken[d], file[i])
    BY <1>0, <1>2, <2>1 DEF Download
  <2>3. d \notin blurred' => Calm(i)' /\ file'[i] = file[i]
    BY <1>2, <2>1, <2>2, CalmKept
  <2>4. d \notin blurred' =>
          Calm(source[d])' /\ Begins(taken'[d], file'[source'[d]])
    <3>1. Calm(i)' => Calm(source[d])' BY <2>1 DEF Calm, Writers
    <3> QED BY <2>1, <2>2, <2>3, <3>1
  <2> QED BY <1>0, <2>1, <2>2, <2>4 DEF PathOf, Begins
<1>3. ASSUME down[d] \in {"reading", "eof", "cut"}, d \notin blurred'
      PROVE  \E u \in Uploads :
               /\ Left(u, d)' /\ Written(u)' = Written(u)
               /\ down[d] = "reading" => Carries(d, Written(u))'
               /\ down[d] = "eof" => got[d] = Written(u)
               /\ down[d] = "cut" => Begins(got[d], Written(u))
  <2>1. PICK u \in Uploads :
          /\ Left(u, d)
          /\ down[d] = "reading" => Carries(d, Written(u))
          /\ down[d] = "eof" => got[d] = Written(u)
          /\ down[d] = "cut" => Begins(got[d], Written(u))
    BY <1>0, <1>3 DEF Download
  <2>2. Left(u, d)' /\ Written(u)' = Written(u) BY <2>1, LeftKept
  <2>3. PICK data : data = Written(u) OBVIOUS
  <2>4. Carries(d, data) => Carries(d, data)'
    BY CarriesKept DEF DInv
  <2>5. Carries(d, data)' => Carries(d, Written(u))'
    <3> DEFINE w == Written(u)
    <3>1. w' = data BY <2>2, <2>3
    <3> HIDE DEF w
    <3>2. Carries(d, data)' => Carries(d, w)' BY <3>1 DEF Carries
    <3> QED BY <3>2 DEF w
  <2> QED BY <2>1, <2>2, <2>3, <2>4, <2>5
<1> QED BY <1>1, <1>2, <1>3 DEF Download

\* A file at rest is what one upload that is done with it left.
LEMMA CalmIsLeft ==
  ASSUME SInv, FInv, NEW d \in Downloads, NEW i \in Uploads,
         Calm(i), PathOf(i) = PathOf(d)
  PROVE  \E u \in Uploads : Left(u, d) /\ file[i] = Written(u)
<1>1. PICK u \in Uploads : holds[i] = {u} BY DEF Calm
<1>2. Sole(u, i) /\ Holder(u, i) BY <1>1 DEF FInv
<1>3. phase[u] # "filling" BY <1>2 DEF Calm, Writers, Holder
<1>4. phase[u] \in Phases BY DEF SInv, Typed
<1>5. phase[u] \in Late BY <1>2, <1>3, <1>4 DEF Holder, Phases, Early, Late
<1>6. u \in plan.attempts BY <1>5 DEF SInv, Session, Late
<1>7. Left(u, d) BY <1>2, <1>5, <1>6 DEF Left, Holder
<1> QED BY <1>2, <1>7 DEF Sole

\* The download's own steps.
LEMMA OpenKeeps ==
  ASSUME SInv, FInv, DInv, [Next]_vars, NEW d \in Downloads, StartDownload(d)
  PROVE  Download(d)'
<1>1. /\ DownTyped /\ got[d] = <<>> /\ taken[d] = <<>>
      /\ UNCHANGED <<plan, phase, handle, holds, file, taken, got>>
  BY DEF DInv, Download, StartDownload, uploadVars
<1>2. CASE dest[PathOf(d)] = Absent
  <2>1. down'[d] = "failed" BY <1>1, <1>2 DEF StartDownload, DownTyped
  <2> QED BY <2>1 DEF Download
<1>3. CASE dest[PathOf(d)] # Absent
  <2>1. PICK i \in Uploads : i = dest[PathOf(d)]
    BY <1>3, PlanFacts DEF SInv, FInv, FileTyped
  <2>2. PathOf(d) \in Paths BY PlanFacts DEF SInv
  <2>3. PathOf(i) = PathOf(d) BY <1>3, <2>1, <2>2 DEF FInv
  <2>4. /\ down'[d] = "opened" /\ source'[d] = i
        /\ d \notin blurred' => Calm(i)
    BY <1>1, <1>3, <2>1 DEF StartDownload, DownTyped
  <2>5. Calm(i) => Calm(i)' BY <1>1 DEF Calm, Writers
  <2>6. Calm(i)' => Calm(source[d])'
    BY <2>4 DEF Calm, Writers
  <2>7. Begins(<<>>, file[i])
    <3>1. file[i] \in File BY DEF FInv, FileTyped
    <3> QED BY <3>1, BeginsEmpty
  <2>8. Begins(taken'[d], file'[source'[d]]) BY <1>1, <2>4, <2>7
  <2>9. PathOf(source[d])' = PathOf(d)' BY <1>1, <2>3, <2>4 DEF PathOf
  <2>10. got'[d] = <<>> /\ source'[d] \in Uploads BY <1>1, <2>4
  <2> QED BY <2>4, <2>5, <2>6, <2>8, <2>9, <2>10 DEF Download
<1> QED BY <1>2, <1>3

LEMMA ServeKeeps ==
  ASSUME SInv, FInv, DInv, [Next]_vars, NEW d \in Downloads, ServeDownload(d)
  PROVE  Download(d)'
<1>1. /\ DownTyped /\ got[d] = <<>> /\ down[d] = "opened"
      /\ UNCHANGED <<plan, phase, buf, filled, handle, holds, file, source,
                     got, blurred>>
  BY DEF DInv, Download, ServeDownload, uploadVars, diskVars, destVars
<1>2. PICK i \in Uploads : i = source[d]
  BY <1>1 DEF DInv, Download
<1>3. /\ PathOf(i) = PathOf(d)
      /\ d \notin blurred => Calm(i) /\ Begins(taken[d], file[i])
  BY <1>1, <1>2 DEF DInv, Download
<1> DEFINE t == taken[d]
           n == Len(t)
           f == file[i]
<1>4. t \in File /\ f \in File /\ n \in Nat /\ Len(f) \in Nat
  BY <1>1 DEF DownTyped, FInv, FileTyped, File
<1>5. CASE n < Len(f)
  <2>1. /\ down' = down
        /\ taken' = [taken EXCEPT ![d] = Append(taken[d], file[i][n + 1])]
    BY <1>2, <1>5 DEF ServeDownload
  <2> DEFINE x == f[n + 1]
             h == Append(t, x)
  <2>2. x \in Nat BY <1>4, <1>5 DEF File
  <2>3. taken'[d] = h BY <1>1, <2>1 DEF DownTyped
  <2> HIDE DEF x, f, t
  <2>4. /\ Len(h) = n + 1 /\ h[n + 1] = x
        /\ \A j \in 1..n : h[j] = t[j]
    BY <1>4, <2>2 DEF File
  <2> HIDE DEF h
  <2>5. Begins(t, f) => Begins(h, f)
    <3> SUFFICES ASSUME Begins(t, f) PROVE Begins(h, f) OBVIOUS
    <3>1. \A j \in 1..n : t[j] = f[j] BY DEF Begins
    <3>2. n + 1 <= Len(f)
      <4> HIDE DEF n
      <4> QED BY <1>4, <1>5
    <3>3. f[n + 1] = x BY DEF x
    <3>4. \A j \in 1..(n + 1) : h[j] = f[j]
      <4> HIDE DEF n
      <4>1. \A j \in 1..(n + 1) : j \in 1..n \/ j = n + 1 BY <1>4
      <4> QED BY <2>4, <3>1, <3>3, <4>1
    <3> HIDE DEF n
    <3> QED BY <2>4, <3>2, <3>4 DEF Begins
  <2>6. Calm(i) => Calm(source[d])' BY <1>1, <1>2 DEF Calm, Writers
  <2>7. d \notin blurred' => Calm(source[d])' /\ Begins(taken[d], file[source[d]])'
    <3>1. d \notin blurred' => Calm(source[d])' /\ Begins(h, f)
      BY <1>1, <1>3, <2>5, <2>6 DEF f, t
    <3>2. taken'[d] = h /\ file'[source'[d]] = f BY <1>1, <1>2, <2>3 DEF f
    <3> QED BY <3>1, <3>2
  <2>8. PathOf(source[d])' = PathOf(d)' BY <1>1, <1>2, <1>3 DEF PathOf
  <2>9. /\ down'[d] = "opened" /\ got'[d] = <<>> /\ source'[d] \in Uploads
    BY <1>1, <1>2, <2>1
  <2> QED BY <2>7, <2>8, <2>9 DEF Download
<1>6. CASE ~(n < Len(f))
  <2>1. down'[d] = "reading" /\ stream'[d] = Chunks(t)
    BY <1>1, <1>2, <1>6 DEF ServeDownload, DownTyped
  <2> SUFFICES ASSUME d \notin blurred'
               PROVE  \E u \in Uploads : Left(u, d)' /\ Carries(d, Written(u))'
    BY <2>1 DEF Download
  <2>2. Calm(i) /\ Begins(t, f) BY <1>1, <1>3
  <2>3. t = f
    <3> HIDE DEF t, f
    <3>1. n <= Len(f) BY <2>2 DEF Begins
    <3>2. n = Len(f)
      <4> HIDE DEF n
      <4> QED BY <1>4, <1>6, <3>1
    <3> QED BY <1>4, <2>2, <3>2, BeginsWhole
  <2>4. PICK u \in Uploads : Left(u, d) /\ f = Written(u)
    BY <1>3, <2>2, CalmIsLeft
  <2>5. Left(u, d)' BY <2>4, LeftKept
  <2>6. Written(u)' = Written(u) BY <2>4, LeftKept
  <2>7. PICK data \in File : data = t BY <1>4
  <2>8. Carries(d, data)' BY <1>1, <2>1, <2>7, CarriesAll
  <2>9. Carries(d, Written(u))'
    <3> DEFINE w == Written(u)
    <3>1. w' = data BY <2>3, <2>4, <2>6, <2>7
    <3> HIDE DEF w
    <3>2. Carries(d, data)' => Carries(d, w)' BY <3>1 DEF Carries
    <3> QED BY <2>8, <3>2 DEF w
  <2> QED BY <2>5, <2>9
<1> QED BY <1>5, <1>6

LEMMA ReadKeeps ==
  ASSUME SInv, FInv, DInv, [Next]_vars, NEW d \in Downloads, ReadBlock(d)
  PROVE  Download(d)'
<1>1. DownTyped /\ down[d] = "reading" /\ blurred' = blurred
  BY DEF DInv, ReadBlock, diskVars, destVars
<1>2. /\ Head(stream[d]).eof => down'[d] = "eof"
      /\ ~Head(stream[d]).eof => down'[d] = "reading"
  BY <1>1 DEF ReadBlock, DownTyped
<1> SUFFICES ASSUME d \notin blurred
             PROVE  \E u \in Uploads :
                      /\ Left(u, d)'
                      /\ Head(stream[d]).eof => got'[d] = Written(u)'
                      /\ ~Head(stream[d]).eof => Carries(d, Written(u))'
  BY <1>1, <1>2 DEF Download
<1>3. PICK u \in Uploads : Left(u, d) /\ Carries(d, Written(u))
  BY <1>1 DEF DInv, Download
<1>4. Left(u, d)' BY <1>3, LeftKept
<1>5. Written(u)' = Written(u) BY <1>3, LeftKept
<1>6. PICK data \in File : data = Written(u) BY WrittenTyped
<1>7. IF Head(stream[d]).eof THEN got'[d] = data ELSE Carries(d, data)'
  BY <1>1, <1>3, <1>6, ReadStep
<1>8. Carries(d, data)' => Carries(d, Written(u))'
  <2> DEFINE w == Written(u)
  <2>1. w' = data BY <1>5, <1>6
  <2> HIDE DEF w
  <2>2. Carries(d, data)' => Carries(d, w)' BY <2>1 DEF Carries
  <2> QED BY <2>2 DEF w
<1> QED BY <1>4, <1>5, <1>6, <1>7, <1>8

LEMMA EndKeeps ==
  ASSUME SInv, FInv, DInv, [Next]_vars, NEW d \in Downloads, StreamEnds(d)
  PROVE  Download(d)'
<1>1. /\ DownTyped /\ down[d] \in {"opened", "reading"}
      /\ down'[d] \in {"failed", "cut"}
      /\ got' = got /\ blurred' = blurred
  BY DEF DInv, DownTyped, StreamEnds, diskVars, destVars
<1> SUFFICES ASSUME d \notin blurred
             PROVE  \E u \in Uploads :
                      Left(u, d)' /\ Begins(got'[d], Written(u)')
  BY <1>1 DEF Download
<1>2. \E u \in Uploads : Left(u, d) /\ Begins(got[d], Written(u))
  <2>1. CASE down[d] = "opened"
    <3>1. PICK i \in Uploads : i = source[d]
      BY <2>1 DEF DInv, Download
    <3>2. PathOf(i) = PathOf(d) /\ Calm(i) /\ got[d] = <<>>
      BY <2>1, <3>1 DEF DInv, Download
    <3>3. PICK u \in Uploads : Left(u, d) BY <3>2, CalmIsLeft
    <3> QED BY <3>2, <3>3, WrittenTyped, BeginsEmpty
  <2>2. CASE down[d] = "reading"
    <3>1. PICK u \in Uploads : Left(u, d) /\ Carries(d, Written(u))
      BY <2>2 DEF DInv, Download
    <3> QED BY <3>1 DEF Carries
  <2> QED BY <1>1, <2>1, <2>2
<1>3. PICK u \in Uploads : Left(u, d) /\ Begins(got[d], Written(u)) BY <1>2
<1>4. Left(u, d)' BY <1>3, LeftKept
<1>5. Written(u)' = Written(u) BY <1>3, LeftKept
<1> QED BY <1>1, <1>3, <1>4, <1>5

\* Nobody else touches a download, but a loss may cut its stream.
LEMMA DownloadRest ==
  ASSUME SInv, FInv, DInv, [Next]_vars, NEW d \in Downloads, ~DownloadStep(d)
  PROVE  Download(d)'
<1>0. DownTyped /\ Len(stream[d]) \in Nat BY DEF DInv, DownTyped
<1>1. stream[d] = SubSeq(stream[d], 1, Len(stream[d]))
  BY <1>0, PrefixFacts DEF DownTyped
<1> DEFINE Still(k) ==
             /\ down'[d] = down[d] /\ got'[d] = got[d]
             /\ source'[d] = source[d] /\ taken'[d] = taken[d]
             /\ stream'[d] = SubSeq(stream[d], 1, k)
<1>2. ASSUME NEW u \in Uploads,
             SendOffer(u) \/ ConsumerStep(u) \/ SessionStep(u)
      PROVE  UNCHANGED downloadVars
  BY <1>2 DEF SendOffer, ConsumerStep, SessionStep, ReadResume, SendChunk,
     ReadVerdict, UploadFails, HandleOffer, HandleChunk, OpenDest, FillDest,
     CheckDest, Tidy, SessionEnds
<1>3. ASSUME NEW e \in Downloads, DownloadStep(e)
      PROVE  Still(Len(stream[d]))
  <2>1. e # d BY <1>3
  <2> QED BY <1>0, <1>1, <1>3, <2>1 DEF DownloadStep, StartDownload,
             ServeDownload, ReadBlock, StreamEnds, DownTyped
<1>4. ASSUME NEW a \in Uploads \cup Downloads, ConnDrop(a)
      PROVE  \E k \in 0..Len(stream[d]) : Still(k)
  <2>1. UNCHANGED <<down, source, taken, got>> BY <1>4 DEF ConnDrop
  <2>2. CASE stream' = stream BY <1>0, <1>1, <2>1, <2>2
  <2>3. CASE \E k \in 0..Len(stream[a]) :
               stream' = [stream EXCEPT ![a] = SubSeq(stream[a], 1, k)]
    <3>1. PICK k \in 0..Len(stream[a]) :
            stream' = [stream EXCEPT ![a] = SubSeq(stream[a], 1, k)]
      BY <2>3
    <3>2. CASE a = d BY <1>0, <2>1, <3>1, <3>2 DEF DownTyped
    <3>3. CASE a # d
      <4>1. stream'[d] = stream[d] BY <1>0, <3>1, <3>3 DEF DownTyped
      <4> QED BY <1>0, <1>1, <2>1, <4>1
    <3> QED BY <3>2, <3>3
  <2> HIDE DEF Still
  <2> QED BY <1>4, <2>2, <2>3 DEF ConnDrop
<1>5. ASSUME AgentCrash PROVE Still(0) /\ 0 \in 0..Len(stream[d])
  <2>1. /\ UNCHANGED <<down, source, taken, got>> /\ stream'[d] = <<>>
    BY <1>5 DEF AgentCrash
  <2>2. SubSeq(stream[d], 1, 0) = <<>> /\ 0 \in 0..Len(stream[d])
    BY <1>0 DEF DownTyped
  <2> QED BY <2>1, <2>2
<1>6. UNCHANGED vars => Still(Len(stream[d])) BY <1>1 DEF vars
<1>7. UNCHANGED downloadVars => Still(Len(stream[d]))
  BY <1>1 DEF downloadVars
<1>8. Len(stream[d]) \in 0..Len(stream[d]) BY <1>0
<1>9. \E k \in 0..Len(stream[d]) : Still(k)
  <2> HIDE DEF Still
  <2> QED BY <1>2, <1>3, <1>4, <1>5, <1>6, <1>7, <1>8 DEF Next
<1> QED BY <1>9, DownloadKept

LEMMA DStep == SInv /\ FInv /\ DInv /\ [Next]_vars => DInv'
<1> SUFFICES ASSUME SInv, FInv, DInv, [Next]_vars PROVE DInv' OBVIOUS
<1>1. ASSUME NEW d \in Downloads PROVE Download(d)'
  BY OpenKeeps, ServeKeeps, ReadKeeps, EndKeeps, DownloadRest
     DEF DownloadStep
<1> QED BY <1>1, DTypes DEF DInv

LEMMA DInit == Init => DInv
<1> SUFFICES ASSUME Init PROVE DInv OBVIOUS
<1>1. <<>> \in File /\ <<>> \in Seq(Piece) BY DEF File
<1>2. DownTyped BY <1>1 DEF Init, DownTyped
<1> QED BY <1>2 DEF Init, DInv, Download

LEMMA DAlways == Spec => [](SInv /\ FInv /\ DInv)
<1>1. SInv /\ FInv /\ DInv /\ [Next]_vars => SInv' /\ FInv' /\ DInv'
  BY SNext, FStep, DStep
<1>2. Init => SInv /\ FInv /\ DInv BY SInit, FInit, DInit
<1> QED BY <1>1, <1>2, PTL DEF Spec

\* What a download over a file at rest gives is what an upload of the path left
\* there, all of it or, when the stream was cut, its beginning
\* (remote.rs:190-202, 706-749).
THEOREM DownloadIsTrueHolds == Spec => []DownloadIsTrue
<1>1. SInv /\ FInv /\ DInv => DownloadIsTrue
  <2> SUFFICES ASSUME SInv, FInv, DInv, NEW d \in Downloads, d \notin blurred
               PROVE
      /\ down[d] = "eof" => \E u \in plan.attempts \cap Uploads :
                                PathOf(u) = PathOf(d) /\ Delivered(u, got[d])
      /\ down[d] = "cut" =>
            \E u \in plan.attempts \cap Uploads :
                /\ PathOf(u) = PathOf(d)
                /\ Len(got[d]) <= Len(buf[u])
                /\ got[d] = SubSeq(buf[u], 1, Len(got[d]))
    BY DEF DownloadIsTrue
  <2>0. got[d] \in File BY DEF DInv, DownTyped
  <2>1. ASSUME down[d] = "eof"
        PROVE  \E u \in plan.attempts \cap Uploads :
                   PathOf(u) = PathOf(d) /\ Delivered(u, got[d])
    <3>1. PICK u \in Uploads : Left(u, d) /\ got[d] = Written(u)
      BY <2>1 DEF DInv, Download
    <3>2. phase[u] # "torn" => Written(u) = buf[u]
      <4>1. buf[u] \in File BY DEF SInv, Typed
      <4> QED BY <3>1, <4>1 DEF Left, Written, Held, File
    <3>3. Delivered(u, got[d]) BY <3>1, <3>2 DEF Left, Late, Delivered
    <3> QED BY <3>1, <3>3 DEF Left
  <2>2. ASSUME down[d] = "cut"
        PROVE  \E u \in plan.attempts \cap Uploads :
                   /\ PathOf(u) = PathOf(d)
                   /\ Len(got[d]) <= Len(buf[u])
                   /\ got[d] = SubSeq(buf[u], 1, Len(got[d]))
    <3>1. PICK u \in Uploads : Left(u, d) /\ Begins(got[d], Written(u))
      BY <2>2 DEF DInv, Download
    <3> DEFINE b == buf[u]
               g == got[d]
               n == filled[u]
               w == Written(u)
               l == Len(g)
    <3>2. /\ b \in File /\ g \in File /\ n \in Nat /\ n <= Len(b)
          /\ Len(b) \in Nat /\ l \in Nat /\ w = SubSeq(b, 1, n)
      <4>1. b \in File /\ g \in File /\ n \in Nat /\ n <= Len(b)
        BY <2>0 DEF SInv, Typed, FInv, FileTyped, Wrote, Held
      <4> QED BY <4>1 DEF File, Written
    <3> HIDE DEF b, n
    <3>3. /\ Len(w) = n /\ w \in File /\ \A i \in 1..n : w[i] = b[i]
      BY <3>2, PrefixFacts DEF File
    <3>4. Begins(g, w) BY <3>1
    <3> HIDE DEF g, w
    <3>5. l <= n /\ \A i \in 1..l : g[i] = w[i] BY <3>3, <3>4 DEF Begins
    <3> DEFINE s == SubSeq(b, 1, l)
    <3>6. l \in 0..Len(b) /\ l <= Len(b)
      <4> HIDE DEF l
      <4> QED BY <3>2, <3>5
    <3>7. /\ s \in File /\ Len(s) = l /\ \A i \in 1..l : s[i] = b[i]
      BY <3>2, <3>6, PrefixFacts DEF File
    <3> HIDE DEF s
    <3>8. \A i \in 1..l : g[i] = s[i]
      <4>1. \A i \in 1..l : i \in 1..n
        <5> HIDE DEF l
        <5> QED BY <3>2, <3>5
      <4> QED BY <3>3, <3>5, <3>7, <4>1
    <3>9. g = s BY <3>2, <3>7, <3>8, BeginsWhole DEF Begins
    <3> QED BY <3>1, <3>6, <3>9 DEF Left, s, g, b
  <2> QED BY <2>1, <2>2
<1> QED BY <1>1, DAlways, PTL

\* Types, and what ties a consumer to its session and a session to its file
\* (remote.rs:350-458): the buffer never outgrows the offered file, and an
\* answered upload has no session at work.
THEOREM TypeCorrect == Spec => []TypeOK
<1>1. SInv /\ FInv /\ DInv => TypeOK
  <2> SUFFICES ASSUME SInv, FInv, DInv PROVE TypeOK OBVIOUS
  <2>1. /\ up \in [Uploads -> {"idle", "offered", "sending", "waiting", "ok",
                               "rejected", "failed"}]
        /\ phase \in [Uploads -> Phases]
        /\ losses \in 0..plan.losses /\ plan \in Plans
    BY DEF SInv, Typed
  <2>2. dest \in [Paths -> Uploads \cup {Absent}] BY DEF FInv, FileTyped
  <2>3. down \in [Downloads -> {"idle", "opened", "reading", "eof", "cut",
                                "failed"}]
    BY DEF DInv, DownTyped
  <2>4. ASSUME NEW u \in Uploads
        PROVE  /\ offset[u] \in 0..Len(ContentOf(u))
               /\ Len(buf[u]) <= Len(ContentOf(u))
               /\ filled[u] \in 0..Len(buf[u])
               /\ up[u] \in {"ok", "rejected"} =>
                      phase[u] \in {"over", "unverified"}
    <3>1. /\ offset[u] \in Nat /\ Size(u) \in Nat /\ Held(u) \in Nat
          /\ filled[u] \in Nat
      BY UploadFacts DEF SInv, FInv, FileTyped
    <3>2. /\ offset[u] <= Size(u) /\ Held(u) <= Size(u)
          /\ filled[u] <= Held(u)
          /\ up[u] \in {"ok", "rejected"} =>
                 phase[u] \in {"over", "unverified"}
      BY DEF SInv, Session, FInv, Wrote
    <3>3. offset[u] \in 0..Size(u) /\ filled[u] \in 0..Held(u)
      BY <3>1, <3>2
    <3> QED BY <3>2, <3>3 DEF Size, Held
  <2> QED BY <2>1, <2>2, <2>3, <2>4 DEF TypeOK
<1> QED BY <1>1, DAlways, PTL
===============================================================================
