---------------------------- MODULE FileTransfer ----------------------------
(***************************************************************************)
(* Files copied to and from a provider: upload_file against the FileOffer  *)
(* and FileChunk handlers of serve_peer_session, and                       *)
(* transfer_file_from_peer against serve_download                          *)
(* (crates/gpumesh-core/src/remote.rs).                                    *)
(*                                                                         *)
(* Every attempt has a transfer id and a connection of its own; attempts   *)
(* on the same path share, on the provider's disk, the destination and its *)
(* `.partial` file, without a lock.  A file is a sequence of blocks and a  *)
(* chunk carries one of them; SHA-256 tells different files apart.         *)
(*                                                                         *)
(* A file on the disk bears the name of the upload that created it; `dest` *)
(* says which file a path leads to.  fs::write empties a file and then     *)
(* fills it, fs::read takes what it finds: neither is one step, and both   *)
(* go on in a file that has lost its name.                                 *)
(***************************************************************************)
EXTENDS Integers, Sequences

CONSTANTS Uploads,     \* upload attempts
          Downloads,   \* download attempts
          Paths,       \* destinations, as the consumer names them
          UnsafePaths, \* those upload_dest rejects: absolute, or with `..`
          Plans        \* what consumers may be up to, one plan a behaviour

Absent == <<-1>>

ASSUME TransferConstants ==
    /\ Uploads \cap Downloads = {}
    /\ Absent \notin Uploads
    /\ UnsafePaths \subseteq Paths
    /\ \A q \in Plans :
           /\ q.attempts \subseteq Uploads \cup Downloads
           /\ q.path \in [Uploads \cup Downloads -> Paths]
           /\ DOMAIN q.content = Uploads
           /\ \A u \in Uploads : q.content[u] \in Seq(Nat)
           /\ q.losses \in Nat

VARIABLES
    plan,      \* the attempts that are made, the path of each, the bytes of
               \* the file each upload offers, and a bound on what goes wrong
    up,        \* where upload_file stands
    offset,    \* next block it sends
    connUp,    \* the attempt's connection is alive
    toServer,  \* frames of the upload on their way
    toClient,  \* FileAck frames on their way back
    phase,     \* where the provider's session stands with the upload
    buf,       \* the upload's buffer in the session
    dest,      \* the file at each path, or Absent
    file,      \* its blocks
    handle,    \* the file the upload writes to
    filled,    \* blocks it has written
    holds,     \* history: whose writes a file can hold, those since one that
               \* met no other
    partial,   \* the contents of the path's `.partial` file, or Absent
    down,      \* where transfer_file_from_peer stands
    source,    \* the file serve_download reads for it
    taken,     \* the blocks read so far
    blurred,   \* history: downloads whose file was written while they read it,
               \* or held writes that met
    got,       \* the blocks it has received
    stream,    \* frames of the download on their way
    losses     \* lost connections, crashes and failed file operations so far

uploadVars   == <<up, offset, toServer, toClient, phase, buf>>
destVars     == <<dest, file, handle, filled, holds, blurred>>
diskVars     == <<destVars, partial>>
downloadVars == <<down, source, taken, got, stream>>
vars == <<plan, up, offset, connUp, toServer, toClient, phase, buf, dest, file,
          handle, filled, holds, partial, down, source, taken, blurred, got,
          stream, losses>>

PathOf(a)    == plan.path[a]
ContentOf(u) == plan.content[u]

Init ==
    /\ plan \in Plans
    /\ up       = [u \in Uploads |-> "idle"]
    /\ offset   = [u \in Uploads |-> 0]
    /\ connUp   = [a \in Uploads \cup Downloads |-> FALSE]
    /\ toServer = [u \in Uploads |-> <<>>]
    /\ toClient = [u \in Uploads |-> <<>>]
    /\ phase    = [u \in Uploads |-> "none"]
    /\ buf      = [u \in Uploads |-> <<>>]
    /\ dest     = [p \in Paths |-> Absent]
    /\ file     = [u \in Uploads |-> <<>>]
    /\ handle   = [u \in Uploads |-> u]
    /\ filled   = [u \in Uploads |-> 0]
    /\ holds    = [u \in Uploads |-> {}]
    /\ partial  = [p \in Paths |-> Absent]
    /\ down     = [d \in Downloads |-> "idle"]
    /\ source   = [d \in Downloads |-> Absent]
    /\ taken    = [d \in Downloads |-> <<>>]
    /\ blurred  = {}
    /\ got      = [d \in Downloads |-> <<>>]
    /\ stream   = [d \in Downloads |-> <<>>]
    /\ losses   = 0

\* Something goes wrong, which the plan allows so often.
Fault ==
    /\ losses < plan.losses
    /\ losses' = losses + 1

-------------------------------------------------------------------------------
(* The uploading consumer: upload_file.                                    *)

\* Connect and send the FileOffer.
SendOffer(u) ==
    /\ u \in plan.attempts /\ up[u] = "idle"
    /\ up'       = [up EXCEPT ![u] = "offered"]
    /\ connUp'   = [connUp EXCEPT ![u] = TRUE]
    /\ toServer' = [toServer EXCEPT ![u] = <<[type |-> "offer"]>>]
    /\ UNCHANGED <<plan, offset, toClient, phase, buf, diskVars, downloadVars,
                   losses>>

\* The FileAck that says where to start; no further than the file's end.
ReadResume(u) ==
    /\ up[u] = "offered" /\ toClient[u] # <<>>
    /\ up'       = [up EXCEPT ![u] = "sending"]
    /\ offset'   = [offset EXCEPT ![u] =
                        LET from == Head(toClient[u]).from
                            size == Len(ContentOf(u))
                        IN  IF from <= size THEN from ELSE size]
    /\ toClient' = [toClient EXCEPT ![u] = Tail(@)]
    /\ UNCHANGED <<plan, connUp, toServer, phase, buf, diskVars, downloadVars,
                   losses>>

\* The next chunk; the last one, or the only and empty one when there is
\* nothing left to send, carries eof.
SendChunk(u) ==
    /\ up[u] = "sending" /\ connUp[u]
    /\ LET data == IF offset[u] < Len(ContentOf(u))
                   THEN <<ContentOf(u)[offset[u] + 1]>> ELSE <<>>
           eof  == offset[u] + Len(data) >= Len(ContentOf(u))
       IN  /\ toServer' = [toServer EXCEPT ![u] = Append(@,
                  [type |-> "chunk", at |-> offset[u], data |-> data,
                   eof |-> eof])]
           /\ offset' = [offset EXCEPT ![u] = @ + Len(data)]
           /\ up'     = [up EXCEPT ![u] = IF eof THEN "waiting" ELSE @]
    /\ UNCHANGED <<plan, connUp, toClient, phase, buf, diskVars, downloadVars,
                   losses>>

\* The final FileAck; the consumer closes the connection.
ReadVerdict(u) ==
    /\ up[u] = "waiting" /\ toClient[u] # <<>>
    /\ up'       = [up EXCEPT ![u] = IF Head(toClient[u]).ok THEN "ok"
                                     ELSE "rejected"]
    /\ toClient' = [toClient EXCEPT ![u] = <<>>]
    /\ connUp'   = [connUp EXCEPT ![u] = FALSE]
    /\ UNCHANGED <<plan, offset, toServer, phase, buf, diskVars, downloadVars,
                   losses>>

Active(u) == up[u] \in {"offered", "sending", "waiting"}

\* A send or a recv fails on the lost connection.
UploadFails(u) ==
    /\ Active(u) /\ ~connUp[u] /\ toClient[u] = <<>>
    /\ up' = [up EXCEPT ![u] = "failed"]
    /\ UNCHANGED <<plan, offset, connUp, toServer, toClient, phase, buf,
                   diskVars, downloadVars, losses>>

-------------------------------------------------------------------------------
(* The provider's session: FileOffer (Upload) and FileChunk.               *)

\* What is taken over from the `.partial` file of an earlier attempt.
Resumed(u) == LET left == partial[PathOf(u)]
              IN  IF left # Absent /\ Len(left) < Len(ContentOf(u))
                  THEN left ELSE <<>>

\* Mutant of HandleOffer: the left-over is reported but not loaded.
HandleOfferForgets(u) ==
    /\ toServer[u] # <<>> /\ Head(toServer[u]).type = "offer"
    /\ phase[u] = "none"
    /\ toServer' = [toServer EXCEPT ![u] = Tail(@)]
    /\ phase'    = [phase EXCEPT ![u] = "receiving"]
    /\ toClient' = [toClient EXCEPT ![u] = IF connUp[u]
           THEN Append(@, [type |-> "ack", ok |-> TRUE, from |-> Len(Resumed(u))])
           ELSE @]
    /\ UNCHANGED <<plan, up, offset, connUp, buf, diskVars, downloadVars,
                   losses>>

\* An unsafe path leaves the session through `?`, which closes the connection.
HandleOffer(u) ==
    /\ toServer[u] # <<>> /\ Head(toServer[u]).type = "offer"
    /\ phase[u] = "none"
    /\ IF PathOf(u) \in UnsafePaths
       THEN /\ connUp'   = [connUp EXCEPT ![u] = FALSE]
            /\ toServer' = [toServer EXCEPT ![u] = <<>>]
            /\ phase'    = [phase EXCEPT ![u] = "over"]
            /\ UNCHANGED <<plan, buf, toClient>>
       ELSE /\ toServer' = [toServer EXCEPT ![u] = Tail(@)]
            /\ phase'    = [phase EXCEPT ![u] = "receiving"]
            /\ buf'      = [buf EXCEPT ![u] = Resumed(u)]
            /\ toClient' = [toClient EXCEPT ![u] = IF connUp[u]
                   THEN Append(@, [type |-> "ack", ok |-> TRUE,
                                   from |-> Len(Resumed(u))])
                   ELSE @]
            /\ UNCHANGED connUp
    /\ UNCHANGED <<plan, up, offset, diskVars, downloadVars, losses>>

\* Where the chunk goes: past the end after a padding of zeros, at the end,
\* inside the buffer, or over its tail.
Splice(b, at, data) ==
    LET padded == [i \in 1..(IF at > Len(b) THEN at ELSE Len(b)) |->
                       IF i <= Len(b) THEN b[i] ELSE 0]
        end    == at + Len(data)
    IN  SubSeq(padded, 1, at) \o data
            \o (IF end < Len(padded) THEN SubSeq(padded, end + 1, Len(padded))
                                     ELSE <<>>)

\* A chunk goes into the buffer and the buffer to the `.partial` file, as far as
\* that succeeds; the last one ends the upload.
HandleChunk(u) ==
    /\ toServer[u] # <<>> /\ Head(toServer[u]).type = "chunk"
    /\ phase[u] = "receiving"
    /\ LET chunk == Head(toServer[u])
           new   == Splice(buf[u], chunk.at, chunk.data)
       IN  /\ buf'     = [buf EXCEPT ![u] = new]
           /\ \/ /\ partial' = [partial EXCEPT ![PathOf(u)] = new]
                 /\ UNCHANGED losses
              \/ Fault /\ UNCHANGED partial
              \/ /\ Fault
                 /\ \E n \in 0..Len(new) : partial' =
                        [partial EXCEPT ![PathOf(u)] = SubSeq(new, 1, n)]
           /\ phase'   = [phase EXCEPT ![u] = IF chunk.eof THEN "write" ELSE @]
    /\ toServer' = [toServer EXCEPT ![u] = Tail(@)]
    /\ UNCHANGED <<plan, up, offset, connUp, toClient, destVars, downloadVars>>

\* Mutant of HashOk: only the length is compared.
HashOkLength(u) == Len(buf[u]) = Len(ContentOf(u))

HashOk(u) == buf[u] = ContentOf(u)

\* Those who are at work in the file i.
Writers(i) == {u \in Uploads : phase[u] = "filling" /\ handle[u] = i}
Readers(i) == {d \in Downloads : down[d] = "opened" /\ source[d] = i}

\* `?` leaves the session and closes its connection.
LeaveSession(u, at) ==
    /\ phase'  = [phase EXCEPT ![u] = at]
    /\ connUp' = [connUp EXCEPT ![u] = FALSE]

\* fs::write opens the destination, which empties it, or creates it; before the
\* hash is compared.  It may fail.
OpenDest(u) ==
    /\ phase[u] = "write"
    /\ \/ LET i == IF dest[PathOf(u)] = Absent THEN u ELSE dest[PathOf(u)]
          IN  /\ dest'    = [dest EXCEPT ![PathOf(u)] = i]
              /\ file'    = [file EXCEPT ![i] = <<>>]
              /\ handle'  = [handle EXCEPT ![u] = i]
              /\ holds'   = [holds EXCEPT ![i] = {u} \cup Writers(i)]
              /\ blurred' = blurred \cup Readers(i)
              /\ phase'   = [phase EXCEPT ![u] = "filling"]
              /\ UNCHANGED <<connUp, losses>>
       \/ /\ Fault /\ LeaveSession(u, "over")
          /\ UNCHANGED <<dest, file, handle, holds, blurred>>
    /\ UNCHANGED <<plan, up, offset, toServer, toClient, buf, filled, partial,
                   downloadVars>>

\* It writes the buffer, in one or several pieces, and may fail in the middle.
FillDest(u) ==
    /\ phase[u] = "filling"
    /\ \/ /\ filled[u] < Len(buf[u])
          /\ file'   = [file EXCEPT ![handle[u]] =
                            Splice(@, filled[u], <<buf[u][filled[u] + 1]>>)]
          /\ filled' = [filled EXCEPT ![u] = @ + 1]
          /\ UNCHANGED <<phase, connUp, losses>>
       \/ /\ filled[u] = Len(buf[u])
          /\ phase' = [phase EXCEPT ![u] = "check"]
          /\ UNCHANGED <<file, filled, connUp, losses>>
       \/ Fault /\ LeaveSession(u, "torn") /\ UNCHANGED <<file, filled>>
    /\ UNCHANGED <<plan, up, offset, toServer, toClient, buf, dest, handle,
                   holds, blurred, partial, downloadVars>>

\* Mutant of CheckDest: a wrong hash is answered, and the file kept.
CheckDestKeeps(u) ==
    /\ phase[u] = "check"
    /\ phase' = [phase EXCEPT ![u] = "tidy"]
    /\ UNCHANGED <<plan, up, offset, connUp, toServer, toClient, buf, diskVars,
                   downloadVars, losses>>

\* A wrong hash removes whatever file now is at the destination; that this
\* fails is ignored.
CheckDest(u) ==
    /\ phase[u] = "check"
    /\ \/ /\ HashOk(u) /\ UNCHANGED <<dest, losses>>
          /\ phase' = [phase EXCEPT ![u] = "tidy"]
       \/ /\ ~HashOk(u)
          /\ dest'  = [dest EXCEPT ![PathOf(u)] = Absent]
          /\ phase' = [phase EXCEPT ![u] = "tidy"]
          /\ UNCHANGED losses
       \/ /\ ~HashOk(u) /\ Fault /\ UNCHANGED dest
          /\ phase' = [phase EXCEPT ![u] = "kept"]
    /\ UNCHANGED <<plan, up, offset, connUp, toServer, toClient, buf, file,
                   handle, filled, holds, blurred, partial, downloadVars>>

\* Mutant of Tidy: only success is answered.
TidySilent(u) ==
    /\ phase[u] \in {"tidy", "kept"}
    /\ partial'  = [partial EXCEPT ![PathOf(u)] = Absent]
    /\ phase'    = [phase EXCEPT ![u] = IF @ = "kept" THEN "unverified"
                                        ELSE "over"]
    /\ toClient' = [toClient EXCEPT ![u] = IF connUp[u] /\ HashOk(u)
           THEN Append(@, [type |-> "ack", ok |-> TRUE, from |-> 0])
           ELSE @]
    /\ UNCHANGED <<plan, up, offset, connUp, toServer, buf, destVars,
                   downloadVars, losses>>

\* The `.partial` file is removed and the verdict sent.
Tidy(u) ==
    /\ phase[u] \in {"tidy", "kept"}
    /\ \/ partial' = [partial EXCEPT ![PathOf(u)] = Absent] /\ UNCHANGED losses
       \/ Fault /\ UNCHANGED partial
    /\ phase'    = [phase EXCEPT ![u] = IF @ = "kept" THEN "unverified"
                                        ELSE "over"]
    /\ toClient' = [toClient EXCEPT ![u] = IF connUp[u]
           THEN Append(@, [type |-> "ack", ok |-> HashOk(u), from |-> 0])
           ELSE @]
    /\ UNCHANGED <<plan, up, offset, connUp, toServer, buf, destVars,
                   downloadVars>>

\* recv fails or ends: the session and its buffer go, the `.partial` stays.
SessionEnds(u) ==
    /\ phase[u] = "receiving" /\ ~connUp[u] /\ toServer[u] = <<>>
    /\ phase' = [phase EXCEPT ![u] = "over"]
    /\ UNCHANGED <<plan, up, offset, connUp, toServer, toClient, buf, diskVars,
                   downloadVars, losses>>

-------------------------------------------------------------------------------
(* Downloads.                                                              *)

\* Mutant of Chunks: eof is computed one block early.
ChunksEarlyEof(data) ==
    IF data = <<>> THEN <<[data |-> <<>>, eof |-> TRUE]>>
    ELSE [i \in 1..Len(data) |->
             [data |-> <<data[i]>>, eof |-> i + 1 >= Len(data)]]

\* send_file_chunks: a chunk per block, or an empty one for an empty file.
Chunks(data) ==
    IF data = <<>> THEN <<[data |-> <<>>, eof |-> TRUE]>>
    ELSE [i \in 1..Len(data) |-> [data |-> <<data[i]>>, eof |-> i = Len(data)]]

\* A file nobody writes, and whose writes did not meet.
Calm(i) == Writers(i) = {} /\ \E u \in Uploads : holds[i] = {u}

\* Connect, ask for the path, and serve_download opens the file.
StartDownload(d) ==
    /\ d \in plan.attempts /\ down[d] = "idle"
    /\ LET i == dest[PathOf(d)]
       IN  IF i = Absent
           THEN /\ down' = [down EXCEPT ![d] = "failed"]
                /\ UNCHANGED <<connUp, source, blurred>>
           ELSE /\ down'    = [down EXCEPT ![d] = "opened"]
                /\ connUp'  = [connUp EXCEPT ![d] = TRUE]
                /\ source'  = [source EXCEPT ![d] = i]
                /\ blurred' = IF Calm(i) THEN blurred ELSE blurred \cup {d}
    /\ UNCHANGED <<plan, uploadVars, dest, file, handle, filled, holds,
                   partial, taken, got, stream, losses>>

\* fs::read takes what is there, in one or several pieces; all of it is then
\* queued.
ServeDownload(d) ==
    /\ down[d] = "opened" /\ connUp[d]
    /\ LET n == Len(taken[d])
       IN  IF n < Len(file[source[d]])
           THEN /\ taken' = [taken EXCEPT ![d] =
                                 Append(@, file[source[d]][n + 1])]
                /\ UNCHANGED <<down, stream>>
           ELSE /\ down'   = [down EXCEPT ![d] = "reading"]
                /\ stream' = [stream EXCEPT ![d] = Chunks(taken[d])]
                /\ UNCHANGED taken
    /\ UNCHANGED <<plan, uploadVars, connUp, diskVars, source, got, losses>>

\* The next chunk; the one with eof ends the loop.
ReadBlock(d) ==
    /\ down[d] = "reading" /\ stream[d] # <<>>
    /\ got'    = [got EXCEPT ![d] = @ \o Head(stream[d]).data]
    /\ stream' = [stream EXCEPT ![d] = Tail(@)]
    /\ down'   = [down EXCEPT ![d] = IF Head(stream[d]).eof THEN "eof" ELSE @]
    /\ UNCHANGED <<plan, uploadVars, connUp, diskVars, source, taken, losses>>

\* The stream ends before eof: an error, or, when the provider's side was
\* dropped in an orderly way, None, which breaks out of the loop.  What was
\* received is written to the local file, and Ok returned as after eof; a wrong
\* size is only logged.
StreamEnds(d) ==
    /\ down[d] \in {"opened", "reading"} /\ ~connUp[d] /\ stream[d] = <<>>
    /\ \E end \in {"failed", "cut"} : down' = [down EXCEPT ![d] = end]
    /\ UNCHANGED <<plan, uploadVars, connUp, diskVars, source, taken, got,
                   stream, losses>>

-------------------------------------------------------------------------------
(* Losses.                                                                 *)

\* A connection is lost with any suffix of the frames under way.
ConnDrop(a) ==
    /\ connUp[a] /\ Fault
    /\ connUp' = [connUp EXCEPT ![a] = FALSE]
    /\ IF a \in Uploads
       THEN /\ \E n \in 0..Len(toServer[a]) :
                   toServer' = [toServer EXCEPT ![a] = SubSeq(@, 1, n)]
            /\ \E n \in 0..Len(toClient[a]) :
                   toClient' = [toClient EXCEPT ![a] = SubSeq(@, 1, n)]
            /\ UNCHANGED stream
       ELSE /\ \E n \in 0..Len(stream[a]) :
                   stream' = [stream EXCEPT ![a] = SubSeq(@, 1, n)]
            /\ UNCHANGED <<toServer, toClient>>
    /\ UNCHANGED <<plan, up, offset, phase, buf, diskVars, down, source, taken,
                   got>>

\* Where a crash leaves an upload: a file it was filling stays cut off, one it
\* had not checked, or could not remove, stays unverified.
Crashed(at) ==
    CASE at = "filling"                        -> "torn"
      [] at \in {"check", "kept"}              -> "unverified"
      [] at \in {"receiving", "write", "tidy"} -> "over"
      [] OTHER                                 -> at

\* The agent dies, and another one starts: all sessions are gone, the files
\* stay as they are.
AgentCrash ==
    /\ Fault /\ \E a \in Uploads \cup Downloads : connUp[a]
    /\ connUp'   = [a \in Uploads \cup Downloads |-> FALSE]
    /\ toServer' = [u \in Uploads |-> <<>>]
    /\ phase'    = [u \in Uploads |-> Crashed(phase[u])]
    /\ stream'   = [d \in Downloads |-> <<>>]
    /\ UNCHANGED <<plan, up, offset, toClient, buf, diskVars, down, source,
                   taken, got>>

-------------------------------------------------------------------------------

ConsumerStep(u) ==
    ReadResume(u) \/ SendChunk(u) \/ ReadVerdict(u) \/ UploadFails(u)

SessionStep(u) ==
    \/ HandleOffer(u) \/ HandleChunk(u) \/ OpenDest(u) \/ FillDest(u)
    \/ CheckDest(u)   \/ Tidy(u)        \/ SessionEnds(u)

DownloadStep(d) ==
    \/ StartDownload(d) \/ ServeDownload(d) \/ ReadBlock(d) \/ StreamEnds(d)

Next ==
    \/ \E u \in Uploads : SendOffer(u) \/ ConsumerStep(u) \/ SessionStep(u)
    \/ \E d \in Downloads : DownloadStep(d)
    \/ \E a \in Uploads \cup Downloads : ConnDrop(a)
    \/ AgentCrash

Spec == Init /\ [][Next]_vars

\* A consumer that started keeps running and tokio keeps polling the session.
FairSpec ==
    Spec /\ \A u \in Uploads :
                WF_vars(ConsumerStep(u)) /\ WF_vars(SessionStep(u))

-------------------------------------------------------------------------------
(* Properties.                                                             *)

Phases == {"none", "receiving", "write", "filling", "check", "tidy", "kept",
           "over", "torn", "unverified"}

\* Types, and what ties a consumer to its session: the buffer never outgrows
\* the offered file, and an answered upload has no session at work.
TypeOK ==
    /\ up    \in [Uploads -> {"idle", "offered", "sending", "waiting", "ok",
                              "rejected", "failed"}]
    /\ phase \in [Uploads -> Phases]
    /\ down  \in [Downloads -> {"idle", "opened", "reading", "eof", "cut",
                                "failed"}]
    /\ dest  \in [Paths -> Uploads \cup {Absent}]
    /\ losses \in 0..plan.losses
    /\ plan \in Plans
    /\ \A u \in Uploads :
           /\ offset[u] \in 0..Len(ContentOf(u))
           /\ Len(buf[u]) <= Len(ContentOf(u))
           /\ filled[u] \in 0..Len(buf[u])
           /\ up[u] \in {"ok", "rejected"} => phase[u] \in {"over", "unverified"}

\* An upload is acknowledged only when the bytes the provider assembled, also
\* from the left-over of other attempts, are the bytes of the consumer's file
\* (remote.rs:383-458).
AckedIsIntact == \A u \in Uploads : up[u] = "ok" => buf[u] = ContentOf(u)

\* What the upload has written.
Written(u) == SubSeq(buf[u], 1, filled[u])

\* A file as some upload of the path leaves it: the whole of what was offered;
\* as much as it has written so far, or had when it was cut off; or bytes of a
\* wrong hash, until they are removed or when they were not.
LeftBy(u, data) ==
    \/ data = ContentOf(u)
    \/ phase[u] \in {"filling", "torn"} /\ data = Written(u)
    \/ phase[u] \in {"check", "kept", "unverified"} /\ data = buf[u]

\* At any time the destination is absent or holds what one upload has left
\* there: the whole of its file, except while it stands between the truncation
\* and the hash check, was cut off there, or failed to remove a wrong file; and
\* except after two writes to it met, until the next one (remote.rs:434-444).
DestIsWhole ==
    \A p \in Paths : dest[p] # Absent =>
        \/ \E u \in plan.attempts \cap Uploads :
               PathOf(u) = p /\ LeftBy(u, file[dest[p]])
        \/ \A u \in Uploads : holds[dest[p]] # {u}

\* However attempts at the same file overlap, are cut off and resume from each
\* other's left-over, none of them is told of a hash mismatch
\* (remote.rs:378-391, 401-427).
SameFileNeverRejected ==
    \A u \in Uploads :
        (\A v \in plan.attempts \cap Uploads :
            PathOf(v) = PathOf(u) => ContentOf(v) = ContentOf(u))
        => up[u] # "rejected"

\* Every upload that started is answered, or fails with its connection.
UploadIsAnswered == \A u \in Uploads : Active(u) ~> ~Active(u)

\* A file as a session that is past writing has left it: whole, cut off, or of
\* a wrong hash.
Delivered(u, data) ==
    \/ data = ContentOf(u)
    \/ phase[u] = "torn" /\ data = Written(u)
    \/ phase[u] \notin {"none", "receiving", "write"} /\ data = buf[u]

\* A download that returned Ok over a file nobody wrote meanwhile holds what an
\* upload had left at its path: all of it after eof, its beginning when the
\* stream ended before (remote.rs:190-202, 706-749).
DownloadIsTrue ==
    \A d \in Downloads \ blurred :
        /\ down[d] = "eof" => \E u \in plan.attempts \cap Uploads :
                                  PathOf(u) = PathOf(d) /\ Delivered(u, got[d])
        /\ down[d] = "cut" =>
              \E u \in plan.attempts \cap Uploads :
                  /\ PathOf(u) = PathOf(d)
                  /\ Len(got[d]) <= Len(buf[u])
                  /\ got[d] = SubSeq(buf[u], 1, Len(got[d]))
=============================================================================
