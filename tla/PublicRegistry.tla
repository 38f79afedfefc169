--------------------------- MODULE PublicRegistry ---------------------------
(* The public GPU registry: nodes that share with `--public` sign a listing  *)
(* of their GPU and repeat it every 45 seconds, the control plane keeps the  *)
(* last one of each node and `gpumesh search` reads those that are young     *)
(* enough.                                                                   *)
(*                                                                           *)
(* Times are kept as ages: how many units ago a listing was signed (by the   *)
(* clock of its node, so a clock that is ahead gives a negative age) and how *)
(* many units ago the control plane took it.  Ages stop growing at CAP,      *)
(* where every comparison of the code has long been decided.                 *)
(*                                                                           *)
(* Requests are separate HTTP connections: they overtake each other, are     *)
(* held up and get lost.  Each handler saves a copy of the whole state after *)
(* it has released the lock, so saves overtake each other too (the file      *)
(* itself is modelled by ControlPlane).                                      *)
EXTENDS Integers, FiniteSets

CONSTANTS
  Nodes,          \* the nodes that may share publicly
  ANNOUNCE_TTL,   \* the oldest signature the control plane accepts
  PUBLIC_TTL,     \* how long a listing is served after it was taken
  FUTURE,         \* how far ahead of its own clock the control plane accepts
  CAP,            \* the age at which ages stop growing
  Settings,       \* the networks and clocks to consider
  MaxInFlight,    \* bound on requests on their way
  MaxSaves,       \* bound on saves not yet done
  MaxLosses,      \* bound on lost requests
  MaxCrashes      \* bound on crashes of the control plane

ASSUME TimesAssumption ==
  /\ ANNOUNCE_TTL \in Nat /\ PUBLIC_TTL \in Nat /\ FUTURE \in Nat
  /\ CAP \in Nat /\ CAP >= ANNOUNCE_TTL + PUBLIC_TTL
\* prompt: every request arrives or is lost within a time unit; ahead: by how
\* much the clock of each node is ahead of that of the control plane.
ASSUME SettingsAssumption ==
  Settings \subseteq [prompt : BOOLEAN, ahead : [Nodes -> Int]]
ASSUME BoundsAssumption ==
  /\ MaxInFlight \in Nat /\ MaxSaves \in Nat
  /\ MaxLosses \in Nat /\ MaxCrashes \in Nat

VARIABLES
  setting,   \* the network and the clocks of this behaviour
  listed,    \* public_listing in the config file of each node
  agent,     \* is the sharing agent of the node running?
  stopFile,  \* does the stop file of the node exist?
  beat,      \* has the agent had its tick in this time unit?
  requests,  \* requests on their way to the control plane
  public,    \* the control plane's listings, in memory
  saves,     \* copies of `public` that handlers are about to write
  file,      \* `public` as the state file has it
  up,        \* is the control plane running?
  missed,    \* history: heartbeats of the agent lost since the last one taken
  losses, crashes

nodeVars == <<listed, agent, stopFile, beat>>
planeVars == <<setting, public, saves, file, up>>
vars == <<setting, listed, agent, stopFile, beat, requests, public, saves, file,
          up, missed, losses, crashes>>

None == [issued |-> CAP, updated |-> CAP, present |-> FALSE]
Entry == [issued : -FUTURE .. CAP, updated : 0 .. CAP, present : BOOLEAN]
Request == [kind : {"listing", "unannounce"}, node : Nodes, issued : Int]

\* The types of the variables; the control plane never holds a listing that
\* was signed further in the future than it accepts.
TypeOK ==
  /\ setting \in Settings
  /\ listed \in [Nodes -> BOOLEAN] /\ agent \in [Nodes -> BOOLEAN]
  /\ stopFile \in [Nodes -> BOOLEAN] /\ beat \in [Nodes -> BOOLEAN]
  /\ requests \subseteq Request
  /\ public \in [Nodes -> Entry] /\ file \in [Nodes -> Entry]
  /\ saves \subseteq [Nodes -> Entry]
  /\ up \in BOOLEAN
  /\ missed \in [Nodes -> Nat]
  /\ losses \in Nat /\ crashes \in Nat

Init ==
  /\ setting \in Settings
  /\ listed = [n \in Nodes |-> FALSE] /\ agent = [n \in Nodes |-> FALSE]
  /\ stopFile = [n \in Nodes |-> FALSE] /\ beat = [n \in Nodes |-> FALSE]
  /\ requests = {}
  /\ public = [n \in Nodes |-> None] /\ file = public /\ saves = {}
  /\ up = TRUE
  /\ missed = [n \in Nodes |-> PUBLIC_TTL]
  /\ losses = 0 /\ crashes = 0

-----------------------------------------------------------------------------
(* The nodes.                                                                *)

\* A request of node n, signed now by its own clock, sets out.  On a prompt
\* network `share stop` has its answer before anything else is begun.
Sends(n, kind) ==
  /\ Cardinality(requests) < MaxInFlight
  /\ setting.prompt => \A r \in requests : r.node = n => r.kind = "listing"
  /\ requests' = requests \cup
       {[kind |-> kind, node |-> n, issued |-> -setting.ahead[n]]}

\* `gpumesh share --public`: the stop file of an earlier stop is removed, the
\* config saved and the first listing sent.
StartShare(n) ==
  /\ ~agent[n]
  /\ agent' = [agent EXCEPT ![n] = TRUE]
  /\ listed' = [listed EXCEPT ![n] = TRUE]
  /\ stopFile' = [stopFile EXCEPT ![n] = FALSE]
  /\ beat' = [beat EXCEPT ![n] = TRUE]
  /\ Sends(n, "listing")
  /\ missed' = [missed EXCEPT ![n] = PUBLIC_TTL]
  /\ UNCHANGED <<planeVars, losses, crashes>>

\* disable_share, with the config the caller has in memory: the unannounce is
\* sent only if that config says the node was listed.
Disable(n, wasPublic) ==
  /\ listed' = [listed EXCEPT ![n] = FALSE]
  /\ IF wasPublic THEN Sends(n, "unannounce") ELSE UNCHANGED requests

\* A tick of the agent that finds the stop file, or sharing turned off in the
\* config file: the agent disables sharing itself, with the config it has in
\* memory, and ends.
AgentStops(n) ==
  /\ agent[n] /\ ~beat[n]
  /\ stopFile[n] \/ ~listed[n]
  /\ Disable(n, TRUE)
  /\ agent' = [agent EXCEPT ![n] = FALSE]
  /\ stopFile' = [stopFile EXCEPT ![n] = FALSE]
  /\ UNCHANGED <<beat, planeVars, missed, losses, crashes>>

\* A tick that finds nothing: the heartbeat.
Heartbeat(n) ==
  /\ agent[n] /\ ~beat[n]
  /\ ~stopFile[n] /\ listed[n]
  /\ Sends(n, "listing")
  /\ beat' = [beat EXCEPT ![n] = TRUE]
  /\ UNCHANGED <<listed, agent, stopFile, planeVars, missed, losses,
                 crashes>>

\* `gpumesh share stop`, a process of its own: it writes the stop file, reads
\* the config from disk, disables sharing and ends the agent when it finds its
\* process (`killed`).  A second stop finds the node not listed and sends no
\* unannounce, whatever became of the first one.
StopShare(n, killed) ==
  /\ Disable(n, listed[n])
  /\ stopFile' = [stopFile EXCEPT ![n] = TRUE]
  /\ agent' = [agent EXCEPT ![n] = @ /\ ~killed]
  /\ UNCHANGED <<beat, planeVars, missed, losses, crashes>>

\* The agent dies: its config still says it is listed.
AgentCrash(n) ==
  /\ agent[n]
  /\ agent' = [agent EXCEPT ![n] = FALSE]
  /\ UNCHANGED <<listed, stopFile, beat, requests, planeVars, missed,
                 losses, crashes>>

-----------------------------------------------------------------------------
(* The control plane.                                                        *)

\* Mutant: a listing may be as old as it likes.
FreshAnyAge(r) == r.issued >= -FUTURE

\* verify_public_listing and public_unannounce look at the signed time: not
\* too old and not too far in the future.
Fresh(r) == r.issued <= ANNOUNCE_TTL /\ r.issued >= -FUTURE

\* persist_state copies the state under the lock and writes it after.
Saving(s) ==
  /\ Cardinality(saves) < MaxSaves
  /\ saves' = saves \cup {s}

\* Mutant: only the first listing of a node counts its time.
HandleListingOnce(r) ==
  /\ up /\ r.kind = "listing"
  /\ requests' = requests \ {r}
  /\ IF Fresh(r)
       THEN /\ public' = [public EXCEPT ![r.node] =
                 IF @.present THEN @
                 ELSE [issued |-> r.issued, updated |-> 0, present |-> TRUE]]
            /\ Saving(public')
            /\ missed' = [missed EXCEPT ![r.node] = 0]
       ELSE UNCHANGED <<public, saves, missed>>
  /\ UNCHANGED <<setting, nodeVars, file, up, losses, crashes>>

\* public_announce: a fresh listing replaces the one of its node, whether it
\* was signed before or after it.
HandleListing(r) ==
  /\ up /\ r.kind = "listing"
  /\ requests' = requests \ {r}
  /\ IF Fresh(r)
       THEN /\ public' = [public EXCEPT ![r.node] =
                 [issued |-> r.issued, updated |-> 0, present |-> TRUE]]
            /\ Saving(public')
            /\ missed' = [missed EXCEPT ![r.node] = 0]
       ELSE UNCHANGED <<public, saves, missed>>
  /\ UNCHANGED <<setting, nodeVars, file, up, losses, crashes>>

\* public_unannounce: a fresh one removes the listing of its node; the answer
\* is 404 when there is none.
HandleUnannounce(r) ==
  /\ up /\ r.kind = "unannounce"
  /\ requests' = requests \ {r}
  /\ IF Fresh(r) /\ public[r.node].present
       THEN /\ public' = [public EXCEPT ![r.node] = None]
            /\ Saving(public')
       ELSE UNCHANGED <<public, saves>>
  /\ UNCHANGED <<setting, nodeVars, file, up, missed, losses, crashes>>

\* One of the saves in progress reaches the file.
Save(s) ==
  /\ up
  /\ saves' = saves \ {s}
  /\ file' = s
  /\ UNCHANGED <<setting, nodeVars, requests, public, up, missed,
                 losses, crashes>>

\* The control plane dies, and is started again from the file.
Crash ==
  /\ up /\ crashes < MaxCrashes
  /\ crashes' = crashes + 1
  /\ up' = FALSE
  /\ saves' = {}
  /\ UNCHANGED <<setting, nodeVars, requests, public, file, missed,
                 losses>>

Restart ==
  /\ ~up
  /\ up' = TRUE
  /\ public' = file
  /\ UNCHANGED <<setting, nodeVars, requests, saves, file, missed,
                 losses, crashes>>

\* A request is lost on its way.
Lose(r) ==
  /\ losses < MaxLosses
  /\ losses' = losses + 1
  /\ requests' = requests \ {r}
  /\ missed' = [missed EXCEPT ![r.node] =
       IF r.kind = "listing" /\ @ < PUBLIC_TTL THEN @ + 1 ELSE @]
  /\ UNCHANGED <<nodeVars, planeVars, crashes>>

-----------------------------------------------------------------------------
(* Time.                                                                     *)

Older(a) == IF a < CAP THEN a + 1 ELSE a
Aged(s) == [n \in Nodes |->
  [s[n] EXCEPT !.issued = Older(@), !.updated = Older(@)]]

\* One unit passes.  An agent has at most one tick in it: exactly one when the
\* network is prompt, but its loop waits for the answer to a heartbeat without
\* a timeout.
Tick ==
  /\ setting.prompt => requests = {} /\ \A n \in Nodes : agent[n] => beat[n]
  /\ beat' = [n \in Nodes |-> FALSE]
  /\ requests' = {[r EXCEPT !.issued = Older(@)] : r \in requests}
  /\ public' = Aged(public) /\ file' = Aged(file)
  /\ saves' = {Aged(s) : s \in saves}
  /\ UNCHANGED <<setting, listed, agent, stopFile, up, missed, losses,
                 crashes>>

Next ==
  \/ \E n \in Nodes :
       \/ StartShare(n) \/ AgentStops(n) \/ Heartbeat(n) \/ AgentCrash(n)
       \/ \E killed \in BOOLEAN : StopShare(n, killed)
  \/ \E r \in requests : HandleListing(r) \/ HandleUnannounce(r) \/ Lose(r)
  \/ \E s \in saves : Save(s)
  \/ Crash \/ Restart \/ Tick

Spec == Init /\ [][Next]_vars

\* Time passes whatever the nodes and the control plane do.
TimedSpec == Spec /\ WF_vars(Tick)

-----------------------------------------------------------------------------
\* Mutant: a search looks at the lifetime of no listing.
ServedForever(n) == up /\ public[n].present

\* What `gpumesh search` is given: the listings that were taken less than
\* PUBLIC_TTL ago.
Served(n) == up /\ public[n].present /\ public[n].updated < PUBLIC_TTL

\* However long requests are held up and whatever the state file brings back,
\* a search only finds a listing that its node signed, by its own clock, less
\* than both lifetimes ago.
ListedIsRecent ==
  \A n \in Nodes : Served(n) => public[n].issued < ANNOUNCE_TTL + PUBLIC_TTL

\* A node that has stopped for good disappears from searches, even if its
\* unannounce was lost, overtaken by a heartbeat or undone by a restart of the
\* control plane: it is sharing again and again, or it is at last not served.
\* (On a slow network, where time does not wait for any request.)
StoppedFades ==
  ~setting.prompt => \A n \in Nodes : []<>agent[n] \/ <>[]~Served(n)

\* On a prompt network all heartbeats of a lifetime but two may be lost in a
\* row without the listing of a sharing node leaving the searches, as long as
\* the control plane runs: two of them, with 45 and 180 seconds.
StaysListed ==
  setting.prompt /\ crashes = 0 =>
    \A n \in Nodes :
      agent[n] /\ listed[n] /\ ~stopFile[n] /\ missed[n] + 1 < PUBLIC_TTL
        => Served(n)
=============================================================================
