---------------------------- MODULE ControlProofs ----------------------------
(* What holds of the control plane for all nodes and any number of requests, *)
(* handlers, losses, saves and crashes: first of the public registry, for    *)
(* all clocks and lifetimes; then of the metadata store and its state file.  *)
EXTENDS PublicRegistry, ControlPlane, TLAPS

-----------------------------------------------------------------------------
(* The public registry.                                                      *)

Listings == [Nodes -> Entry]

\* A listing was at most ANNOUNCE_TTL old when it was taken, and ages since as
\* fast as the time since then.
Lag(s) == \A n \in Nodes : s[n].issued <= s[n].updated + ANNOUNCE_TTL
IInv == /\ TypeOK
        /\ Lag(public) /\ Lag(file) /\ \A s \in saves : Lag(s)

\* What ages stays what it was: in range, and no younger than its signature
\* allows.
LEMMA AgedKeeps ==
  ASSUME NEW s \in Listings, Lag(s)
  PROVE  Aged(s) \in Listings /\ Lag(Aged(s))
<1> USE TimesAssumption
<1>1. ASSUME NEW n \in Nodes
      PROVE  /\ s[n] \in Entry
             /\ s[n].issued \in -FUTURE .. CAP
             /\ s[n].updated \in 0 .. CAP
             /\ s[n].issued <= s[n].updated + ANNOUNCE_TTL
  BY DEF Listings, Entry, Lag
<1>2. ASSUME NEW n \in Nodes
      PROVE  /\ Aged(s)[n] = [s[n] EXCEPT !.issued = Older(@),
                                         !.updated = Older(@)]
             /\ Aged(s)[n].issued = Older(s[n].issued)
             /\ Aged(s)[n].updated = Older(s[n].updated)
  BY <1>1 DEF Aged, Entry
<1>3. ASSUME NEW n \in Nodes
      PROVE  /\ Older(s[n].issued) \in -FUTURE .. CAP
             /\ Older(s[n].updated) \in 0 .. CAP
             /\ Older(s[n].issued) <= Older(s[n].updated) + ANNOUNCE_TTL
  BY <1>1 DEF Older
<1>4. ASSUME NEW n \in Nodes PROVE Aged(s)[n] \in Entry
  BY <1>1, <1>2, <1>3 DEF Entry
<1>5. Aged(s) \in Listings BY <1>4 DEF Listings, Aged
<1>6. Lag(Aged(s)) BY <1>2, <1>3 DEF Lag
<1> QED BY <1>5, <1>6

\* A fresh listing, as it is taken, is an entry that satisfies the bound.
LEMMA TakenKeeps ==
  ASSUME NEW s \in Listings, Lag(s), NEW r \in Request, Fresh(r)
  PROVE  LET t == [s EXCEPT ![r.node] =
                     [issued |-> r.issued, updated |-> 0, present |-> TRUE]]
         IN  t \in Listings /\ Lag(t)
<1> USE TimesAssumption
<1>1. r.node \in Nodes /\ r.issued \in -FUTURE .. CAP
      /\ r.issued <= ANNOUNCE_TTL
  BY DEF Request, Fresh
<1>2. [issued |-> r.issued, updated |-> 0, present |-> TRUE] \in Entry
  BY <1>1 DEF Entry
<1> QED BY <1>1, <1>2 DEF Listings, Lag

\* Nothing listed satisfies it as well.
LEMMA RemovedKeeps ==
  ASSUME NEW s \in Listings, Lag(s), NEW n \in Nodes
  PROVE  [s EXCEPT ![n] = None] \in Listings /\ Lag([s EXCEPT ![n] = None])
<1>1. None \in Entry BY TimesAssumption DEF None, Entry
<1>2. None.issued <= None.updated + ANNOUNCE_TTL BY TimesAssumption DEF None
<1> QED BY <1>1, <1>2 DEF Listings, Lag

LEMMA InitInv == Init => IInv
<1> SUFFICES ASSUME Init PROVE IInv OBVIOUS
<1> USE TimesAssumption
<1>1. None \in Entry BY DEF None, Entry
<1>2. public \in Listings /\ Lag(public)
  BY <1>1 DEF Init, Listings, Lag, None
<1>3. TypeOK BY <1>2 DEF Init, TypeOK, Listings
<1> QED BY <1>2, <1>3 DEF Init, IInv

\* What a node sends is a request; no node touches the listings.
NodeStep(n) ==
  \/ StartShare(n) \/ AgentStops(n) \/ Heartbeat(n) \/ AgentCrash(n)
  \/ \E killed \in BOOLEAN : StopShare(n, killed)

LEMMA SendsType ==
  ASSUME TypeOK, NEW n \in Nodes, NEW kind \in {"listing", "unannounce"},
         Sends(n, kind)
  PROVE  requests' \subseteq Request
<1>1. -setting.ahead[n] \in Int BY SettingsAssumption DEF TypeOK
<1> QED BY <1>1 DEF TypeOK, Sends, Request

LEMMA NodeInv ==
  ASSUME IInv, NEW n \in Nodes, NodeStep(n)
  PROVE  IInv'
<1>1. UNCHANGED planeVars
  BY DEF NodeStep, StartShare, AgentStops, Heartbeat, AgentCrash, StopShare
<1>2. requests' \subseteq Request
  <2>1. CASE StartShare(n) BY <2>1, SendsType DEF IInv, StartShare
  <2>2. CASE AgentStops(n) BY <2>2, SendsType DEF IInv, AgentStops, Disable
  <2>3. CASE Heartbeat(n) BY <2>3, SendsType DEF IInv, Heartbeat
  <2>4. CASE AgentCrash(n) BY <2>4 DEF IInv, TypeOK, AgentCrash
  <2>5. ASSUME NEW killed \in BOOLEAN, StopShare(n, killed)
        PROVE  requests' \subseteq Request
    <3>1. CASE listed[n]
      BY <2>5, <3>1, SendsType DEF IInv, StopShare, Disable
    <3>2. CASE ~listed[n]
      BY <2>5, <3>2 DEF IInv, TypeOK, StopShare, Disable
    <3> QED BY <3>1, <3>2
  <2> QED BY <2>1, <2>2, <2>3, <2>4, <2>5 DEF NodeStep
<1>3. /\ listed' \in [Nodes -> BOOLEAN] /\ agent' \in [Nodes -> BOOLEAN]
      /\ stopFile' \in [Nodes -> BOOLEAN] /\ beat' \in [Nodes -> BOOLEAN]
  BY DEF IInv, TypeOK, NodeStep, StartShare, AgentStops, Heartbeat, AgentCrash,
         StopShare, Disable
<1>4. /\ missed' \in [Nodes -> Nat]
      /\ losses' \in Nat /\ crashes' \in Nat
  <2>1. CASE StartShare(n)
    BY <2>1, TimesAssumption DEF IInv, TypeOK, StartShare
  <2>2. CASE ~StartShare(n)
    BY <2>2
       DEF IInv, TypeOK, NodeStep, AgentStops, Heartbeat, AgentCrash, StopShare
  <2> QED BY <2>1, <2>2
<1>5. TypeOK' BY <1>1, <1>2, <1>3, <1>4 DEF IInv, TypeOK, planeVars
<1> QED BY <1>1, <1>5 DEF IInv, planeVars, Lag

\* A request taken from those on their way: listings stay typed and bounded.
LEMMA HandledInv ==
  ASSUME IInv, NEW r \in requests, HandleListing(r) \/ HandleUnannounce(r)
  PROVE  IInv'
<1>1. r \in Request /\ r.node \in Nodes BY DEF IInv, TypeOK, Request
<1>2. public \in Listings /\ Lag(public) BY DEF IInv, TypeOK, Listings
<1>3. public' \in Listings /\ Lag(public')
  <2>1. CASE HandleListing(r)
    BY <2>1, <1>1, <1>2, TakenKeeps DEF HandleListing
  <2>2. CASE HandleUnannounce(r)
    BY <2>2, <1>1, <1>2, RemovedKeeps DEF HandleUnannounce
  <2> QED BY <2>1, <2>2
<1>4. saves' \subseteq saves \cup {public'}
  BY DEF HandleListing, HandleUnannounce, Saving
<1>5. /\ saves' \subseteq Listings /\ \A s \in saves' : Lag(s)
  BY <1>3, <1>4 DEF IInv, TypeOK, Listings
<1>6. requests' \subseteq Request
  BY DEF IInv, TypeOK, HandleListing, HandleUnannounce
<1>7. missed' \in [Nodes -> Nat]
  BY <1>1 DEF IInv, TypeOK, HandleListing, HandleUnannounce
<1>8. UNCHANGED <<setting, nodeVars, file, up, losses, crashes>>
  BY DEF HandleListing, HandleUnannounce
<1>9. TypeOK'
  BY <1>3, <1>5, <1>6, <1>7, <1>8 DEF IInv, TypeOK, Listings, nodeVars
<1>10. Lag(file') BY <1>8 DEF IInv
<1> QED BY <1>3, <1>5, <1>9, <1>10 DEF IInv, Lag

\* Saves, crashes, restarts and losses move listings about, and change none.
LEMMA PlaneInv ==
  ASSUME IInv,
         \/ \E s \in saves : Save(s)
         \/ \E r \in requests : Lose(r)
         \/ Crash \/ Restart
  PROVE  IInv'
<1>1. ASSUME NEW s \in saves, Save(s) PROVE IInv'
  <2>1. TypeOK' BY <1>1 DEF IInv, TypeOK, Save, nodeVars
  <2> QED BY <2>1, <1>1 DEF IInv, Save, Lag
<1>2. ASSUME NEW r \in requests, Lose(r) PROVE IInv'
  <2>1. missed' \in [Nodes -> Nat]
    BY <1>2 DEF IInv, TypeOK, Request, Lose
  <2>2. requests' \subseteq Request /\ losses' \in Nat
    BY <1>2 DEF IInv, TypeOK, Lose
  <2>3. UNCHANGED <<nodeVars, planeVars, crashes>> BY <1>2 DEF Lose
  <2>4. TypeOK'
    BY <2>1, <2>2, <2>3 DEF IInv, TypeOK, nodeVars, planeVars
  <2> QED BY <2>3, <2>4 DEF IInv, planeVars, Lag
<1>3. CASE Crash
  <2>1. saves' = {} /\ up' \in BOOLEAN BY <1>3 DEF Crash
  <2>2. UNCHANGED <<setting, nodeVars, requests, public, file, missed,
                    losses>>
    BY <1>3 DEF Crash
  <2>3. crashes \in Nat /\ crashes' = crashes + 1
    BY <1>3 DEF IInv, TypeOK, Crash
  <2>4. crashes' \in Nat BY <2>3
  <2>5. TypeOK' BY <2>1, <2>2, <2>4 DEF IInv, TypeOK, nodeVars
  <2> QED BY <2>1, <2>2, <2>5 DEF IInv, Lag
<1>4. CASE Restart
  <2>1. TypeOK' BY <1>4 DEF IInv, TypeOK, Restart, nodeVars
  <2> QED BY <2>1, <1>4 DEF IInv, Restart, Lag
<1> QED BY <1>1, <1>2, <1>3, <1>4

LEMMA TickInv ==
  ASSUME IInv, Tick
  PROVE  IInv'
<1>1. public' \in Listings /\ Lag(public') /\ file' \in Listings /\ Lag(file')
  BY AgedKeeps DEF IInv, TypeOK, Listings, Tick
<1>2. \A s \in saves' : s \in Listings /\ Lag(s)
  BY AgedKeeps DEF IInv, TypeOK, Listings, Tick
<1>3. requests' \subseteq Request
  <2>1. ASSUME NEW r \in requests
        PROVE  [r EXCEPT !.issued = Older(@)] \in Request
    <3>1. r \in Request /\ r.issued \in Int BY DEF IInv, TypeOK, Request
    <3>2. Older(r.issued) \in Int BY <3>1 DEF Older
    <3> QED BY <3>1, <3>2 DEF Request
  <2> QED BY <2>1 DEF Tick
<1>4. beat' \in [Nodes -> BOOLEAN] BY DEF Tick
<1>5. TypeOK'
  BY <1>1, <1>2, <1>3, <1>4 DEF IInv, TypeOK, Tick, Listings
<1> QED BY <1>1, <1>2, <1>5 DEF IInv

LEMMA NextInv == IInv /\ [Next]_vars => IInv'
<1> SUFFICES ASSUME IInv, [Next]_vars PROVE IInv' OBVIOUS
<1>1. ASSUME NEW n \in Nodes, NodeStep(n) PROVE IInv'
  BY <1>1, NodeInv
<1>2. ASSUME NEW r \in requests, HandleListing(r) \/ HandleUnannounce(r)
      PROVE  IInv'
  BY <1>2, HandledInv
<1>3. CASE \/ \E s \in saves : Save(s)
           \/ \E r \in requests : Lose(r)
           \/ Crash \/ Restart
  BY <1>3, PlaneInv
<1>4. CASE Tick BY <1>4, TickInv
<1>5. CASE UNCHANGED vars
  <2>1. TypeOK' BY <1>5 DEF IInv, TypeOK, vars
  <2> QED BY <2>1, <1>5 DEF IInv, vars, Lag
<1> QED BY <1>1, <1>2, <1>3, <1>4, <1>5 DEF Next, NodeStep

\* The variables keep their types, and the control plane never holds a listing
\* signed further in the future than it accepts (HandleListing, Fresh).
THEOREM TypeCorrect == Spec => []TypeOK
<1>1. IInv => TypeOK BY DEF IInv
<1> QED BY <1>1, InitInv, NextInv, PTL DEF Spec

\* Held-up requests, saves out of order and restarts from an old file never
\* bring back into a search what was signed both lifetimes ago or earlier.
THEOREM ListedIsRecentHolds == Spec => []ListedIsRecent
<1>1. IInv => ListedIsRecent
  <2> SUFFICES ASSUME IInv, NEW n \in Nodes, Served(n)
               PROVE  public[n].issued < ANNOUNCE_TTL + PUBLIC_TTL
    BY DEF ListedIsRecent
  <2>1. public[n].issued \in Int /\ public[n].updated \in Int
    BY TimesAssumption DEF IInv, TypeOK, Entry
  <2>2. public[n].issued <= public[n].updated + ANNOUNCE_TTL
    BY DEF IInv, Lag
  <2>3. public[n].updated < PUBLIC_TTL BY DEF Served
  <2> QED BY <2>1, <2>2, <2>3, TimesAssumption
<1> QED BY <1>1, InitInv, NextInv, PTL DEF Spec
-----------------------------------------------------------------------------
(* On a prompt network a listing stays as long as not too many of its        *)
(* heartbeats are lost.                                                      *)

Pending(n) == \E r \in requests : r.node = n /\ r.kind = "listing"

\* A node whose heartbeats count: it shares, and one was taken since.
Steady(n) == agent[n] /\ listed[n] /\ missed[n] < PUBLIC_TTL

\* The listing of such a node ages one unit per heartbeat lost, and one more
\* until that of the present unit is taken.
KeepsUp(n) ==
  /\ public[n].present
  /\ public[n].updated <= missed[n] + 1
  /\ beat[n] /\ ~Pending(n) => public[n].updated <= missed[n]

\* Requests are as old as their node's clock makes them, a listing was taken
\* only if that clock is acceptable, and a node whose unannounce is on its way
\* is not listed.
PInv ==
  setting.prompt /\ crashes = 0 =>
    /\ up
    /\ \A r \in requests : /\ r.issued = -setting.ahead[r.node]
                           /\ listed[r.node] => r.kind = "listing"
    /\ \A n \in Nodes : missed[n] < PUBLIC_TTL =>
         /\ -setting.ahead[n] <= ANNOUNCE_TTL
         /\ -setting.ahead[n] >= -FUTURE
    /\ \A n \in Nodes : Steady(n) => KeepsUp(n)

LEMMA PNodes ==
  ASSUME IInv, PInv, NEW m \in Nodes, NodeStep(m)
  PROVE  PInv'
<1> SUFFICES ASSUME setting.prompt, crashes = 0
             PROVE  PInv'
  BY DEF NodeStep, StartShare, AgentStops, Heartbeat, AgentCrash, StopShare,
         planeVars, PInv
<1> USE TimesAssumption
<1>1. /\ UNCHANGED <<setting, public, up, crashes>>
      /\ \A n \in Nodes : missed'[n] = missed[n] \/ missed'[n] = PUBLIC_TTL
  BY DEF NodeStep, StartShare, AgentStops, Heartbeat, AgentCrash, StopShare,
         planeVars, IInv, TypeOK
<1>2. /\ up'
      /\ \A n \in Nodes : missed'[n] < PUBLIC_TTL =>
           /\ -setting'.ahead[n] <= ANNOUNCE_TTL
           /\ -setting'.ahead[n] >= -FUTURE
  BY <1>1 DEF PInv
<1>3. \A r \in requests' : r.issued = -setting.ahead[r.node]
  BY DEF PInv, NodeStep, StartShare, AgentStops, Heartbeat, AgentCrash,
         StopShare, Disable, Sends
<1>4. \A r \in requests' : listed'[r.node] => r.kind = "listing"
  <2>1. CASE StartShare(m)
    BY <2>1 DEF StartShare, Sends, PInv, IInv, TypeOK, Request
  <2>2. CASE AgentStops(m)
    BY <2>2 DEF AgentStops, Disable, Sends, PInv, IInv, TypeOK, Request
  <2>3. CASE Heartbeat(m)
    BY <2>3 DEF Heartbeat, Sends, PInv, IInv, TypeOK, Request
  <2>4. CASE AgentCrash(m) BY <2>4 DEF AgentCrash, PInv
  <2>5. ASSUME NEW killed \in BOOLEAN, StopShare(m, killed)
        PROVE  \A r \in requests' : listed'[r.node] => r.kind = "listing"
    BY <2>5 DEF StopShare, Disable, Sends, PInv, IInv, TypeOK, Request
  <2> QED BY <2>1, <2>2, <2>3, <2>4, <2>5 DEF NodeStep
<1>5. ASSUME NEW n \in Nodes, Steady(n)' PROVE KeepsUp(n)'
  <2>1. CASE StartShare(m)
    <3>1. n # m BY <2>1, <1>5 DEF StartShare, Steady, IInv, TypeOK
    <3>2. Steady(n) /\ beat'[n] = beat[n] /\ missed'[n] = missed[n]
      BY <2>1, <3>1, <1>5 DEF StartShare, Steady, IInv, TypeOK
    <3>3. Pending(n) => Pending(n)' BY <2>1 DEF StartShare, Sends, Pending
    <3> QED BY <3>2, <3>3, <1>1 DEF PInv, KeepsUp
  <2>2. CASE AgentStops(m)
    <3>1. n # m BY <2>2, <1>5 DEF AgentStops, Steady, IInv, TypeOK
    <3>2. Steady(n) /\ beat'[n] = beat[n] /\ missed'[n] = missed[n]
      BY <2>2, <3>1, <1>5 DEF AgentStops, Disable, Steady, IInv, TypeOK
    <3>3. Pending(n) => Pending(n)'
      BY <2>2 DEF AgentStops, Disable, Sends, Pending
    <3> QED BY <3>2, <3>3, <1>1 DEF PInv, KeepsUp
  <2>3. CASE Heartbeat(m)
    <3>1. Steady(n) /\ missed'[n] = missed[n]
      BY <2>3, <1>5 DEF Heartbeat, Steady
    <3>2. Pending(n) => Pending(n)' BY <2>3 DEF Heartbeat, Sends, Pending
    <3>3. n = m => Pending(n)'
      <4>1. [kind |-> "listing", node |-> m, issued |-> -setting.ahead[m]]
              \in requests'
        BY <2>3 DEF Heartbeat, Sends
      <4> QED BY <4>1 DEF Pending
    <3>4. n # m => beat'[n] = beat[n]
      BY <2>3 DEF Heartbeat, IInv, TypeOK
    <3> QED BY <3>1, <3>2, <3>3, <3>4, <1>1 DEF PInv, KeepsUp
  <2>4. CASE AgentCrash(m)
    <3>1. Steady(n) BY <2>4, <1>5 DEF AgentCrash, Steady, IInv, TypeOK
    <3> QED BY <2>4, <3>1, <1>1 DEF AgentCrash, PInv, KeepsUp, Pending
  <2>5. ASSUME NEW killed \in BOOLEAN, StopShare(m, killed)
        PROVE  KeepsUp(n)'
    <3>1. n # m /\ Steady(n)
      BY <2>5, <1>5 DEF StopShare, Disable, Steady, IInv, TypeOK
    <3>2. Pending(n) => Pending(n)'
      BY <2>5 DEF StopShare, Disable, Sends, Pending
    <3> QED BY <2>5, <3>1, <3>2, <1>1 DEF StopShare, PInv, KeepsUp
  <2> QED BY <2>1, <2>2, <2>3, <2>4, <2>5 DEF NodeStep
<1> QED BY <1>1, <1>2, <1>3, <1>4, <1>5 DEF PInv

LEMMA PHandled ==
  ASSUME IInv, PInv, NEW r \in requests,
         HandleListing(r) \/ HandleUnannounce(r)
  PROVE  PInv'
<1> SUFFICES ASSUME setting.prompt, crashes = 0
             PROVE  PInv'
  BY DEF HandleListing, HandleUnannounce, PInv
<1> USE TimesAssumption
<1>1. r \in Request /\ r.node \in Nodes BY DEF IInv, TypeOK, Request
<1>2. /\ r.issued = -setting.ahead[r.node]
      /\ listed[r.node] => r.kind = "listing"
  BY DEF PInv
<1>3. /\ UNCHANGED <<setting, listed, agent, beat, up, crashes>>
      /\ requests' = requests \ {r}
  BY DEF HandleListing, HandleUnannounce, nodeVars
<1>4. \A s \in requests' : /\ s.issued = -setting.ahead[s.node]
                           /\ listed[s.node] => s.kind = "listing"
  BY <1>3 DEF PInv
<1>5. ASSUME NEW n \in Nodes, n # r.node
      PROVE  /\ missed'[n] = missed[n] /\ public'[n] = public[n]
             /\ Pending(n)' <=> Pending(n)
  <2>1. missed'[n] = missed[n] /\ public'[n] = public[n]
    BY <1>1, <1>5 DEF HandleListing, HandleUnannounce, IInv, TypeOK
  <2>2. Pending(n)' <=> Pending(n) BY <1>3, <1>5 DEF Pending
  <2> QED BY <2>1, <2>2
<1>6. CASE HandleListing(r)
  <2>1. CASE Fresh(r)
    <3>1. /\ missed'[r.node] = 0
          /\ public'[r.node] = [issued |-> r.issued, updated |-> 0,
                                present |-> TRUE]
      BY <1>1, <1>6, <2>1 DEF HandleListing, IInv, TypeOK
    <3>2. KeepsUp(r.node)' BY <3>1 DEF KeepsUp
    <3>3. /\ -setting.ahead[r.node] <= ANNOUNCE_TTL
          /\ -setting.ahead[r.node] >= -FUTURE
      BY <2>1, <1>2 DEF Fresh
    <3> QED BY <1>3, <1>4, <1>5, <3>2, <3>3 DEF PInv, Steady, KeepsUp
  <2>2. CASE ~Fresh(r)
    <3>1. UNCHANGED <<public, missed>> BY <1>6, <2>2 DEF HandleListing
    <3>2. ~(missed[r.node] < PUBLIC_TTL)
      BY <2>2, <1>1, <1>2 DEF Fresh, PInv
    <3>3. ASSUME NEW n \in Nodes, Steady(n)' PROVE KeepsUp(n)'
      <4>1. n # r.node /\ Steady(n) BY <3>1, <3>2, <3>3, <1>3 DEF Steady
      <4> QED BY <4>1, <3>1, <1>3, <1>5 DEF PInv, KeepsUp
    <3> QED BY <1>3, <1>4, <3>1, <3>3 DEF PInv
  <2> QED BY <2>1, <2>2
<1>7. CASE HandleUnannounce(r)
  <2>1. missed' = missed BY <1>7 DEF HandleUnannounce
  <2>2. ~listed[r.node] BY <1>7, <1>2 DEF HandleUnannounce
  <2>3. ASSUME NEW n \in Nodes, Steady(n)' PROVE KeepsUp(n)'
    <3>1. n # r.node /\ Steady(n) BY <2>1, <2>2, <2>3, <1>3 DEF Steady
    <3> QED BY <3>1, <1>3, <1>5 DEF PInv, KeepsUp
  <2> QED BY <1>3, <1>4, <2>1, <2>3 DEF PInv
<1> QED BY <1>6, <1>7

LEMMA PLost ==
  ASSUME IInv, PInv, NEW r \in requests, Lose(r)
  PROVE  PInv'
<1> SUFFICES ASSUME setting.prompt, crashes = 0
             PROVE  PInv'
  BY DEF Lose, planeVars, PInv
<1> USE TimesAssumption
<1>1. r \in Request /\ r.node \in Nodes BY DEF IInv, TypeOK, Request
<1>2. /\ UNCHANGED <<setting, listed, agent, beat, up, crashes, public>>
      /\ requests' = requests \ {r}
  BY DEF Lose, nodeVars, planeVars
<1>3. \A s \in requests' : /\ s.issued = -setting.ahead[s.node]
                           /\ listed[s.node] => s.kind = "listing"
  BY <1>2 DEF PInv
<1>4. \A n \in Nodes : missed[n] \in Nat /\ public[n].updated \in Nat
  BY DEF IInv, TypeOK, Entry
<1>5. \A n \in Nodes : /\ missed'[n] >= missed[n]
                       /\ n # r.node => missed'[n] = missed[n]
  BY <1>1, <1>4 DEF Lose, IInv, TypeOK
<1>6. r.kind = "listing" /\ missed[r.node] < PUBLIC_TTL
        => missed'[r.node] = missed[r.node] + 1
  BY <1>1 DEF Lose, IInv, TypeOK
<1>7. \A n \in Nodes : missed'[n] < PUBLIC_TTL => missed[n] < PUBLIC_TTL
  BY <1>1, <1>4, <1>5, <1>6 DEF Lose, IInv, TypeOK
<1>8. ASSUME NEW n \in Nodes, Steady(n)' PROVE KeepsUp(n)'
  <2>1. Steady(n) /\ KeepsUp(n) BY <1>8, <1>2, <1>7 DEF Steady, PInv
  <2>2. /\ public'[n].present
        /\ public'[n].updated <= missed'[n] + 1
    BY <2>1, <1>2, <1>4, <1>5, <1>7 DEF KeepsUp, Lose, IInv, TypeOK
  <2>3. CASE n = r.node
    <3>1. r.kind = "listing" BY <2>1, <2>3 DEF Steady, PInv
    <3>2. public'[n].updated <= missed'[n]
      BY <2>1, <2>3, <3>1, <1>2, <1>6 DEF Steady, KeepsUp
    <3> QED BY <2>2, <3>2 DEF KeepsUp
  <2>4. CASE n # r.node
    <3>1. Pending(n) => Pending(n)' BY <2>4, <1>2 DEF Pending
    <3> QED BY <2>1, <2>2, <2>4, <3>1, <1>2, <1>5 DEF KeepsUp
  <2> QED BY <2>3, <2>4
<1> QED BY <1>2, <1>3, <1>7, <1>8 DEF PInv

\* Time passes only when the heartbeat of the unit was taken or lost.
LEMMA PTick ==
  ASSUME IInv, PInv, Tick
  PROVE  PInv'
<1> SUFFICES ASSUME setting.prompt, crashes = 0
             PROVE  PInv'
  BY DEF Tick, PInv
<1> USE TimesAssumption
<1>1. requests = {} /\ \A n \in Nodes : agent[n] => beat[n] BY DEF Tick
<1>2. requests' = {} BY <1>1 DEF Tick
<1>3. UNCHANGED <<setting, listed, agent, up, missed, crashes>> BY DEF Tick
<1>4. \A n \in Nodes : beat'[n] = FALSE BY DEF Tick
<1>5. ASSUME NEW n \in Nodes, Steady(n)' PROVE KeepsUp(n)'
  <2>1. Steady(n) /\ KeepsUp(n) BY <1>5, <1>3 DEF Steady, PInv
  <2>2. public[n].updated <= missed[n]
    BY <2>1, <1>1 DEF Steady, KeepsUp, Pending
  <2>3. /\ public[n] \in Entry /\ public[n].updated \in Nat
        /\ missed[n] \in Nat
    BY DEF IInv, TypeOK, Entry
  <2>4. /\ public'[n].present = public[n].present
        /\ public'[n].updated = Older(public[n].updated)
    BY <2>3 DEF Tick, Aged, Entry
  <2>5. Older(public[n].updated) <= public[n].updated + 1
    BY <2>3 DEF Older
  <2>6. Older(public[n].updated) \in Nat BY <2>3 DEF Older
  <2> QED BY <2>1, <2>2, <2>3, <2>4, <2>5, <2>6, <1>3, <1>4 DEF KeepsUp
<1> QED BY <1>2, <1>3, <1>5 DEF PInv

LEMMA PNext == IInv /\ PInv /\ [Next]_vars => PInv'
<1> SUFFICES ASSUME IInv, PInv, [Next]_vars PROVE PInv' OBVIOUS
<1>1. ASSUME NEW n \in Nodes, NodeStep(n) PROVE PInv'
  BY <1>1, PNodes
<1>2. ASSUME NEW r \in requests, HandleListing(r) \/ HandleUnannounce(r)
      PROVE  PInv'
  BY <1>2, PHandled
<1>3. ASSUME NEW r \in requests, Lose(r) PROVE PInv'
  BY <1>3, PLost
<1>4. ASSUME NEW s \in saves, Save(s) PROVE PInv'
  BY <1>4 DEF Save, nodeVars, PInv, Steady, KeepsUp, Pending
<1>5. CASE Crash
  <2>1. crashes \in Nat /\ crashes' = crashes + 1
    BY <1>5 DEF IInv, TypeOK, Crash
  <2>2. crashes' # 0 BY <2>1
  <2> QED BY <2>2 DEF PInv
<1>6. CASE Restart
  BY <1>6 DEF Restart, PInv
<1>7. CASE Tick BY <1>7, PTick
<1>8. CASE UNCHANGED vars
  BY <1>8 DEF vars, PInv, Steady, KeepsUp, Pending
<1> QED BY <1>1, <1>2, <1>3, <1>4, <1>5, <1>6, <1>7, <1>8 DEF Next, NodeStep

\* On a prompt network, whatever the clocks and however the node was started,
\* stopped and started again, a sharing node is found as long as its heartbeats
\* are not lost a lifetime long (Heartbeat, HandleListing; the search).
THEOREM StaysListedHolds == Spec => []StaysListed
<1>1. Init => PInv
  <2> SUFFICES ASSUME Init PROVE PInv OBVIOUS
  <2>1. \A n \in Nodes : ~(missed[n] < PUBLIC_TTL)
    BY TimesAssumption DEF Init
  <2> QED BY <2>1 DEF Init, PInv, Steady
<1>2. IInv /\ PInv => StaysListed
  <2> SUFFICES ASSUME IInv, PInv, setting.prompt, crashes = 0,
                      NEW n \in Nodes, agent[n], listed[n],
                      missed[n] + 1 < PUBLIC_TTL
               PROVE  Served(n)
    BY DEF StaysListed
  <2>1. missed[n] \in Nat /\ public[n].updated \in Nat
    BY DEF IInv, TypeOK, Entry
  <2>2. Steady(n) /\ up BY <2>1, TimesAssumption DEF Steady, PInv
  <2>3. KeepsUp(n) BY <2>2 DEF PInv
  <2> QED BY <2>1, <2>2, <2>3, TimesAssumption DEF KeepsUp, Served
<1> QED BY <1>1, <1>2, InitInv, NextInv, PNext, PTL DEF Spec

-----------------------------------------------------------------------------
(* The metadata store.  Nothing is assumed of its constants.                 *)

\* How the store is changed.
Applied(s, r) == IF r.kind = "sync" THEN Synced(s, r) ELSE Upsert(s, r)

LEMMA AppliedType ==
  ASSUME NEW s \in Store, NEW r \in Update
  PROVE  /\ Applied(s, r) \in Store
         /\ Applied(s, r).nodes = [s.nodes EXCEPT ![r.node] = r.ver]
<1>1. r.node \in Senders /\ r.ver \in Nat \ {0} /\ r.ver \in Nat
  BY DEF Update
<1>2. <<r.node, r.ver>> \in Saying BY <1>1 DEF Saying
<1>3. s.nodes \in [Senders -> Nat]
      /\ s.peers \in [Senders -> SUBSET Saying]
  BY DEF Store
<1>4. [s.peers EXCEPT ![r.node] = {<<r.node, r.ver>>}]
        \in [Senders -> SUBSET Saying]
  BY <1>1, <1>2, <1>3
<1>5. Upsert(s, r) \in Store
      /\ Upsert(s, r).nodes = [s.nodes EXCEPT ![r.node] = r.ver]
      /\ Upsert(s, r).gpus = s.gpus /\ Upsert(s, r).jobs = s.jobs
  BY <1>1, <1>3, <1>4 DEF Upsert, Store
<1>6. ASSUME NEW says \in SUBSET Saying
      PROVE  Replace(says, r) \in SUBSET Saying
  BY <1>2 DEF Replace
<1>7. [n \in Senders |-> IF n \in PairedWith[r.node]
                         THEN {<<r.node, r.ver>>} ELSE Upsert(s, r).peers[n]]
        \in [Senders -> SUBSET Saying]
  BY <1>2, <1>5 DEF Store
<1>8. Synced(s, r) \in Store
      /\ Synced(s, r).nodes = [s.nodes EXCEPT ![r.node] = r.ver]
  BY <1>2, <1>5, <1>6, <1>7 DEF Synced, Store
<1> QED BY <1>5, <1>8 DEF Applied

LEMMA HandleApplies ==
  ASSUME NEW r, Handle(r) PROVE store' = Applied(store, r)
BY DEF Handle, Applied

-----------------------------------------------------------------------------
\* Types.

LEMMA InitType == StoreInit => StoreTypeOK
BY DEF StoreInit, StoreTypeOK, EmptyStore, Store, Without, Saying

\* What a handler is after its next step.
LEMMA HandlerType ==
  ASSUME StoreTypeOK, NEW h \in handlers
  PROVE  /\ h.req \in Update
         /\ h.at # "changed" => h.copy \in Store
         /\ h.at # "changed" => [h EXCEPT !.at = "opened"] \in Holding
         /\ h.at # "changed" => [h EXCEPT !.at = "written"] \in Holding
         /\ [req |-> h.req, at |-> "copied", copy |-> store] \in Holding
<1>1. h \in Changed \/ h \in Holding BY DEF StoreTypeOK
<1>2. CASE h \in Changed BY <1>2 DEF Changed, Holding, StoreTypeOK
<1>3. CASE h \in Holding BY <1>3 DEF Holding, StoreTypeOK
<1> QED BY <1>1, <1>2, <1>3

LEMMA StepType == StoreTypeOK /\ [StoreNext]_storeVars => StoreTypeOK'
<1> SUFFICES ASSUME StoreTypeOK, [StoreNext]_storeVars PROVE StoreTypeOK'
  OBVIOUS
<1>1. ASSUME NEW n \in Senders, NEW kind \in {"announce", "sync"},
             Send(n, kind)
      PROVE  StoreTypeOK'
  <2>1. sent' \in [Senders -> Nat] /\ sent'[n] \in Nat \ {0}
    BY <1>1 DEF Send, StoreTypeOK
  <2>2. inbox' \subseteq Update BY <1>1, <2>1 DEF Send, StoreTypeOK, Update
  <2> QED BY <1>1, <2>1, <2>2 DEF Send, StoreTypeOK
<1>2. ASSUME NEW r \in inbox, Handle(r) PROVE StoreTypeOK'
  <2>1. r \in Update BY <1>2 DEF StoreTypeOK
  <2>2. store' \in Store
    <3>1. store' = Applied(store, r) BY <1>2, HandleApplies
    <3>2. Applied(store, r) \in Store BY <2>1, AppliedType DEF StoreTypeOK
    <3> QED BY <3>1, <3>2
  <2>3. [req |-> r, at |-> "changed"] \in Changed BY <2>1 DEF Changed
  <2> QED BY <1>2, <2>1, <2>2, <2>3 DEF Handle, StoreTypeOK
<1>3. ASSUME NEW r \in inbox, Fail(r) PROVE StoreTypeOK'
  BY <1>3 DEF Fail, StoreTypeOK
<1>4. ASSUME NEW h \in handlers, Copy(h) PROVE StoreTypeOK'
  BY <1>4, HandlerType DEF Copy, Step, StoreTypeOK
<1>5. ASSUME NEW h \in handlers, Open(h) PROVE StoreTypeOK'
  <2>1. [h EXCEPT !.at = "opened"] \in Holding
    BY <1>5, HandlerType DEF Open
  <2>2. EmptyStore \in Store
    BY DEF EmptyStore, Store
  <2> QED BY <1>5, <2>1, <2>2 DEF Open, Step, StoreTypeOK, Without
<1>6. ASSUME NEW h \in handlers, Write(h) PROVE StoreTypeOK'
  <2>1. [h EXCEPT !.at = "written"] \in Holding /\ h.copy \in Store
    BY <1>6, HandlerType DEF Write
  <2>2. EmptyStore \in Store
    BY DEF EmptyStore, Store
  <2> QED BY <1>6, <2>1, <2>2 DEF Write, Step, StoreTypeOK, Without, Holds
<1>7. ASSUME NEW h \in handlers, Answer(h) PROVE StoreTypeOK'
  <2>1. <<h.req.node, h.req.ver>> \in Saying
    BY HandlerType DEF Update, Saying
  <2> QED BY <1>7, <2>1 DEF Answer, StoreTypeOK
<1>8. ASSUME NEW h \in handlers, Refuse(h) PROVE StoreTypeOK'
  BY <1>8 DEF Refuse, StoreTypeOK
<1>9. CASE StoreCrash
  <2>1. falls' \in Nat BY <1>9 DEF StoreCrash, StoreTypeOK
  <2>2. on' \in BOOLEAN BY <1>9 DEF StoreCrash
  <2> QED BY <1>9, <2>1, <2>2, Zenon DEF StoreCrash, StoreTypeOK
<1>10. CASE StoreRestart BY <1>10 DEF StoreRestart, StoreTypeOK
<1>11. CASE UNCHANGED storeVars BY <1>11 DEF storeVars, StoreTypeOK
<1> QED BY <1>1, <1>2, <1>3, <1>4, <1>5, <1>6, <1>7, <1>8, <1>9, <1>10, <1>11
        DEF StoreNext

\* The store, its copies and the file have their shape, and the file is empty
\* unless it holds a store.
THEOREM StoreTypeCorrect == StoreSpec => []StoreTypeOK
BY InitType, StepType, PTL DEF StoreSpec

-----------------------------------------------------------------------------
\* No sync is mixed with another: Whole is inductive together with the types.

LEMMA AppliedWhole ==
  ASSUME NEW s \in Store, Whole(s), NEW r \in Update
  PROVE  Whole(Applied(s, r))
<1> DEFINE new == Replace(s.gpus, r)
<1>1. Upsert(s, r).gpus = s.gpus /\ Upsert(s, r).jobs = s.jobs
  BY DEF Upsert, Store
<1>2. Synced(s, r).gpus = new /\ Synced(s, r).jobs = new
  BY <1>1 DEF Synced, Upsert, Store, Whole
<1>3. \A x, y \in new : x[1] = y[1] => x = y
  BY DEF Replace, Whole
<1> QED BY <1>1, <1>2, <1>3 DEF Applied, Whole

LEMMA EmptyWhole == Whole(EmptyStore)
BY DEF Whole, EmptyStore

LEMMA InitWhole == StoreInit => SyncIsWhole
BY EmptyWhole DEF StoreInit, SyncIsWhole, Without

LEMMA StepWhole ==
  StoreTypeOK /\ SyncIsWhole /\ [StoreNext]_storeVars => SyncIsWhole'
<1> SUFFICES ASSUME StoreTypeOK, SyncIsWhole, [StoreNext]_storeVars
             PROVE  SyncIsWhole'
  OBVIOUS
<1>1. ASSUME NEW n \in Senders, NEW kind \in {"announce", "sync"},
             Send(n, kind)
      PROVE  SyncIsWhole'
  BY <1>1 DEF Send, SyncIsWhole, Whole
<1>2. ASSUME NEW r \in inbox, Handle(r) PROVE SyncIsWhole'
  <2>1. store' = Applied(store, r) BY <1>2, HandleApplies
  <2>2. Whole(Applied(store, r)) BY AppliedWhole DEF StoreTypeOK, SyncIsWhole
  <2>3. Whole(store)' BY <2>1, <2>2 DEF Whole
  <2>4. \A h \in handlers' : h.at # "changed" => h \in handlers
    BY <1>2 DEF Handle
  <2>5. Whole(disk.data)' BY <1>2 DEF Handle, SyncIsWhole, Whole
  <2> QED BY <2>3, <2>4, <2>5 DEF SyncIsWhole, Whole
<1>3. ASSUME NEW r \in inbox, Fail(r) PROVE SyncIsWhole'
  BY <1>3 DEF Fail, SyncIsWhole, Whole
<1>4. ASSUME NEW h \in handlers, Copy(h) PROVE SyncIsWhole'
  BY <1>4 DEF Copy, Step, SyncIsWhole, Whole
<1>5. ASSUME NEW h \in handlers, Open(h) PROVE SyncIsWhole'
  <2>1. [h EXCEPT !.at = "opened"].copy = h.copy
    BY <1>5 DEF Open, StoreTypeOK, Changed, Holding
  <2>2. Whole(h.copy) BY <1>5 DEF Open, SyncIsWhole
  <2>3. \A g \in handlers' : g.at # "changed" => Whole(g.copy)
    BY <1>5, <2>1, <2>2 DEF Open, Step, SyncIsWhole
  <2>4. Whole(disk.data)' BY <1>5, EmptyWhole DEF Open, Without, Whole
  <2> QED BY <1>5, <2>3, <2>4 DEF Open, SyncIsWhole, Whole
<1>6. ASSUME NEW h \in handlers, Write(h) PROVE SyncIsWhole'
  <2>1. [h EXCEPT !.at = "written"].copy = h.copy
    BY <1>6 DEF Write, StoreTypeOK, Changed, Holding
  <2>2. Whole(h.copy) BY <1>6 DEF Write, SyncIsWhole
  <2>3. \A g \in handlers' : g.at # "changed" => Whole(g.copy)
    BY <1>6, <2>1, <2>2 DEF Write, Step, SyncIsWhole
  <2>4. Whole(disk.data)'
    BY <1>6, <2>2, EmptyWhole DEF Write, Without, Holds, Whole
  <2> QED BY <1>6, <2>3, <2>4 DEF Write, SyncIsWhole, Whole
<1>7. ASSUME NEW h \in handlers, Answer(h) PROVE SyncIsWhole'
  BY <1>7 DEF Answer, SyncIsWhole, Whole
<1>8. ASSUME NEW h \in handlers, Refuse(h) PROVE SyncIsWhole'
  BY <1>8 DEF Refuse, SyncIsWhole, Whole
<1>9. CASE StoreCrash BY <1>9 DEF StoreCrash, SyncIsWhole, Whole
<1>10. CASE StoreRestart BY <1>10 DEF StoreRestart, SyncIsWhole, Whole
<1>11. CASE UNCHANGED storeVars BY <1>11 DEF storeVars, SyncIsWhole, Whole
<1> QED BY <1>1, <1>2, <1>3, <1>4, <1>5, <1>6, <1>7, <1>8, <1>9, <1>10, <1>11
        DEF StoreNext

\* However many handlers, saves, crashes and restarts interleave, neither the
\* memory nor a copy nor the file mixes two syncs of a node.
THEOREM SyncIsWholeHolds == StoreSpec => []SyncIsWhole
BY InitType, StepType, InitWhole, StepWhole, PTL DEF StoreSpec

-----------------------------------------------------------------------------
\* One request at a time.  The invariant says, of each stage of the only
\* handler there can be, what its copy and the file hold, and that memory, and
\* the file if it can be read, are as recent as what was answered.

OneAtATime ==
  /\ \A r, q \in inbox : r = q
  /\ \A h, g \in handlers : h = g
  /\ inbox = {} \/ handlers = {}
  /\ ~on => handlers = {}

Latest(r) == r.ver = sent[r.node]

StageInv ==
  \A h \in handlers :
    /\ Latest(h.req) /\ store.nodes[h.req.node] = h.req.ver
    /\ h.at # "changed" => h.copy = store
    /\ h.at = "opened" => disk = Without("cut")
    /\ h.at = "written" => disk = Holds(store)

AsRecentAs(s) ==
  /\ \A n \in Senders : s.nodes[n] <= sent[n]
  /\ \A x \in answered : s.nodes[x[1]] >= x[2]

SerialInv ==
  ~overlap =>
    /\ OneAtATime
    /\ \A r \in inbox : Latest(r)
    /\ StageInv
    /\ on => AsRecentAs(store)
    /\ Readable => AsRecentAs(disk.data)
    /\ failures = 0 => IdleFileIsMemory

\* The parts of SerialInv, for requests that come one at a time.
Serial ==
  /\ ~overlap
  /\ OneAtATime
  /\ \A r \in inbox : Latest(r)
  /\ StageInv
  /\ on => AsRecentAs(store)
  /\ Readable => AsRecentAs(disk.data)
  /\ failures = 0 => IdleFileIsMemory

LEMMA InitSerial == StoreInit => SerialInv
<1> SUFFICES ASSUME StoreInit PROVE SerialInv OBVIOUS
<1>1. \A n \in Senders : EmptyStore.nodes[n] <= sent[n]
  BY DEF StoreInit, EmptyStore
<1> QED BY <1>1 DEF StoreInit, SerialInv, OneAtATime, StageInv, AsRecentAs,
                    IdleFileIsMemory, Readable, Without

LEMMA SendSerial ==
  ASSUME StoreTypeOK, Serial, NEW n \in Senders,
         NEW kind \in {"announce", "sync"}, Send(n, kind)
  PROVE  Serial'
<1>1. inbox = {} /\ handlers = {} BY DEF Serial, Send
<1>2. sent' = [sent EXCEPT ![n] = @ + 1] /\ sent \in [Senders -> Nat]
  BY DEF Send, StoreTypeOK
<1>3. \A m \in Senders : sent[m] <= sent'[m] BY <1>2
<1>4. \A s \in Store : AsRecentAs(s) => AsRecentAs(s)'
  <2> SUFFICES ASSUME NEW s \in Store, AsRecentAs(s) PROVE AsRecentAs(s)'
    OBVIOUS
  <2>1. \A m \in Senders :
            s.nodes[m] \in Nat /\ sent[m] \in Nat /\ sent'[m] \in Nat
    BY <1>2 DEF Store
  <2>2. \A m \in Senders : s.nodes[m] <= sent'[m]
    BY <1>3, <2>1 DEF AsRecentAs
  <2>3. answered' = answered BY DEF Send
  <2> QED BY <2>2, <2>3 DEF AsRecentAs
<1>5. UNCHANGED <<overlap, store, handlers, disk, on, answered, failures>>
  BY DEF Send
<1>6. store \in Store /\ disk.data \in Store BY DEF StoreTypeOK
<1>7. (on => AsRecentAs(store))' BY <1>4, <1>5, <1>6 DEF Serial
<1>8. (Readable => AsRecentAs(disk.data))'
  BY <1>4, <1>5, <1>6 DEF Serial, Readable
<1>9. (\A r, q \in inbox : r = q)' /\ (\A r \in inbox : Latest(r))'
  BY <1>1 DEF Send, Latest
<1>10. OneAtATime' BY <1>1, <1>5, <1>9 DEF OneAtATime
<1>11. StageInv' BY <1>1, <1>5 DEF StageInv
<1>12. (failures = 0 => IdleFileIsMemory)'
  BY <1>5 DEF Serial, IdleFileIsMemory, Readable
<1> QED BY <1>5, <1>7, <1>8, <1>9, <1>10, <1>11, <1>12 DEF Serial

LEMMA HandleSerial ==
  ASSUME StoreTypeOK, Serial, NEW r \in inbox, Handle(r)
  PROVE  Serial'
<1> DEFINE new == [req |-> r, at |-> "changed"]
<1>1. r \in Update /\ store \in Store /\ sent \in [Senders -> Nat]
      /\ r.node \in Senders /\ r.ver \in Nat
  BY DEF StoreTypeOK, Update
<1>2. inbox' = {} /\ handlers' = {new}
  BY DEF Serial, OneAtATime, Handle
<1>3. UNCHANGED <<overlap, sent, disk, on, answered, failures>> /\ on
  BY DEF Handle
<1>4. store' = Applied(store, r) BY HandleApplies
<1>5. store'.nodes = [store.nodes EXCEPT ![r.node] = r.ver]
      /\ store.nodes \in [Senders -> Nat]
  BY <1>1, <1>4, AppliedType DEF Store
<1>6. r.ver = sent[r.node] BY DEF Serial, Latest
<1>7. AsRecentAs(store) BY <1>3 DEF Serial
<1>8. \A n \in Senders : /\ store.nodes[n] <= store'.nodes[n]
                       /\ store'.nodes[n] <= sent[n]
                       /\ store.nodes[n] \in Nat /\ store'.nodes[n] \in Nat
  BY <1>1, <1>5, <1>6, <1>7 DEF AsRecentAs
<1>9. \A x \in answered : x[1] \in Senders /\ x[2] \in Nat
  BY DEF StoreTypeOK, Saying
<1>10. \A x \in answered : store'.nodes[x[1]] >= x[2]
  BY <1>7, <1>8, <1>9 DEF AsRecentAs
<1>11. AsRecentAs(store)' BY <1>3, <1>8, <1>10 DEF AsRecentAs
<1>12. StageInv'
  <2>1. new.req = r /\ new.at = "changed" OBVIOUS
  <2>2. store'.nodes[r.node] = r.ver BY <1>1, <1>5
  <2>3. Latest(r)' BY <1>3, <1>6 DEF Latest
  <2> HIDE DEF new
  <2> QED BY <1>2, <2>1, <2>2, <2>3 DEF StageInv, Latest
<1>13. OneAtATime' BY <1>2, <1>3 DEF OneAtATime
<1>14. (Readable => AsRecentAs(disk.data))'
  BY <1>3 DEF Serial, Readable, AsRecentAs
<1>15. IdleFileIsMemory' BY <1>2 DEF IdleFileIsMemory
<1> QED BY <1>2, <1>3, <1>11, <1>12, <1>13, <1>14, <1>15 DEF Serial

LEMMA FailSerial ==
  ASSUME StoreTypeOK, Serial, NEW r \in inbox, Fail(r)
  PROVE  Serial'
<1>1. UNCHANGED <<overlap, sent, store, handlers, disk, on, answered,
                  failures>>
      /\ inbox' \subseteq inbox
  BY DEF Fail
<1>2. OneAtATime' BY <1>1 DEF Serial, OneAtATime
<1>3. (\A q \in inbox : Latest(q))' BY <1>1 DEF Serial, Latest
<1>4. StageInv'
  <2>1. handlers' = {} BY <1>1 DEF Serial, OneAtATime
  <2> QED BY <2>1 DEF StageInv
<1>5. (on => AsRecentAs(store))' /\ (Readable => AsRecentAs(disk.data))'
  BY <1>1 DEF Serial, Readable, AsRecentAs
<1>6. (failures = 0 => IdleFileIsMemory)'
  BY <1>1 DEF Serial, Readable, IdleFileIsMemory
<1> QED BY <1>1, <1>2, <1>3, <1>4, <1>5, <1>6 DEF Serial

\* A step of the only handler, that leaves requests and memory alone.
LEMMA HandlerStepSerial ==
  ASSUME StoreTypeOK, Serial, NEW h \in handlers, NEW g,
         g.req = h.req, handlers' = (handlers \ {h}) \cup {g},
         g.at # "changed" => g.copy = store,
         g.at = "opened" => disk' = Without("cut"),
         g.at = "written" => disk' = Holds(store),
         disk' = disk \/ disk' = Without("cut") \/ disk' = Holds(store),
         UNCHANGED <<overlap, sent, inbox, store, on, answered, failures>>
  PROVE  Serial'
<1>1. handlers' = {g} /\ handlers = {h} /\ inbox = {} /\ on
  BY DEF Serial, OneAtATime
<1>2. OneAtATime' BY <1>1 DEF OneAtATime
<1>3. (\A r \in inbox : Latest(r))' BY <1>1
<1>4. StageInv'
  <2>1. Latest(h.req) /\ store.nodes[h.req.node] = h.req.ver
    BY DEF Serial, StageInv
  <2>2. g.req.ver = sent'[g.req.node] /\ store'.nodes[g.req.node] = g.req.ver
    BY <2>1 DEF Latest
  <2>3. g.at # "changed" => g.copy = store' OBVIOUS
  <2>4. /\ g.at = "opened" => disk' = Without("cut")
        /\ g.at = "written" => disk' = Holds(store')
    BY DEF Holds
  <2>5. StageInv' <=> \A k \in handlers' :
            /\ k.req.ver = sent'[k.req.node]
            /\ store'.nodes[k.req.node] = k.req.ver
            /\ k.at # "changed" => k.copy = store'
            /\ k.at = "opened" => disk' = Without("cut")
            /\ k.at = "written" => disk' = Holds(store')
    BY DEF StageInv, Latest, Without, Holds
  <2> QED BY <1>1, <2>2, <2>3, <2>4, <2>5
<1>5. (on => AsRecentAs(store))' BY DEF Serial, AsRecentAs
<1>6. AsRecentAs(store) BY <1>1 DEF Serial
<1>7. (Readable => AsRecentAs(disk.data))'
  BY <1>6 DEF Serial, Readable, AsRecentAs, Without, Holds
<1>8. IdleFileIsMemory' BY <1>1 DEF IdleFileIsMemory
<1> QED BY <1>2, <1>3, <1>4, <1>5, <1>7, <1>8 DEF Serial

LEMMA AnswerSerial ==
  ASSUME StoreTypeOK, Serial, NEW h \in handlers, Answer(h)
  PROVE  Serial'
<1>1. handlers = {h} /\ handlers' = {} /\ inbox = {} /\ on
  BY DEF Serial, OneAtATime, Answer
<1>2. UNCHANGED <<overlap, sent, inbox, store, disk, on, failures>>
      /\ answered' = answered \cup {<<h.req.node, h.req.ver>>}
  BY DEF Answer
<1>3. disk = Holds(store) /\ store.nodes[h.req.node] = h.req.ver
  BY DEF Answer, Serial, StageInv
<1>4. AsRecentAs(store) /\ h.req.ver \in Nat
  BY <1>1, HandlerType DEF Serial, Update
<1>5. AsRecentAs(store)' BY <1>2, <1>3, <1>4 DEF AsRecentAs
<1>6. disk'.data = store' /\ Readable' BY <1>2, <1>3 DEF Holds, Readable
<1>7. AsRecentAs(disk.data)' BY <1>5, <1>6 DEF AsRecentAs
<1>8. OneAtATime' /\ StageInv' /\ (\A r \in inbox : Latest(r))'
  BY <1>1, <1>2 DEF OneAtATime, StageInv
<1>9. IdleFileIsMemory' BY <1>6 DEF IdleFileIsMemory
<1> QED BY <1>2, <1>5, <1>7, <1>8, <1>9 DEF Serial

LEMMA RefuseSerial ==
  ASSUME StoreTypeOK, Serial, NEW h \in handlers, Refuse(h)
  PROVE  Serial'
<1>1. handlers = {h} /\ handlers' = {} /\ inbox = {} /\ on
  BY DEF Serial, OneAtATime, Refuse
<1>2. UNCHANGED <<overlap, sent, inbox, store, disk, on, answered>>
      /\ failures' # 0
  BY DEF Refuse, StoreTypeOK
<1>3. OneAtATime' /\ StageInv' /\ (\A r \in inbox : Latest(r))'
  BY <1>1, <1>2 DEF OneAtATime, StageInv
<1>4. (on => AsRecentAs(store))' /\ (Readable => AsRecentAs(disk.data))'
  BY <1>2 DEF Serial, AsRecentAs, Readable
<1> QED BY <1>2, <1>3, <1>4 DEF Serial

LEMMA CrashSerial ==
  ASSUME StoreTypeOK, Serial, StoreCrash
  PROVE  Serial'
<1>1. /\ UNCHANGED <<overlap, sent, inbox, store, disk, answered, failures>>
      /\ ~on' /\ handlers' = {}
  BY DEF StoreCrash
<1>2. OneAtATime' /\ StageInv' BY <1>1 DEF Serial, OneAtATime, StageInv
<1>3. (\A r \in inbox : Latest(r))' BY <1>1 DEF Serial, Latest
<1>4. (Readable => AsRecentAs(disk.data))'
  BY <1>1 DEF Serial, AsRecentAs, Readable
<1> QED BY <1>1, <1>2, <1>3, <1>4 DEF Serial, IdleFileIsMemory

LEMMA RestartSerial ==
  ASSUME StoreTypeOK, Serial, StoreRestart
  PROVE  Serial'
<1>1. /\ UNCHANGED <<overlap, sent, inbox, handlers, disk, answered, failures>>
      /\ on' /\ store' = disk.data /\ Readable
  BY DEF StoreRestart
<1>2. handlers = {} BY DEF Serial, OneAtATime, StoreRestart
<1>3. OneAtATime' /\ StageInv' BY <1>1, <1>2 DEF Serial, OneAtATime, StageInv
<1>4. (\A r \in inbox : Latest(r))' BY <1>1 DEF Serial, Latest
<1>5. AsRecentAs(disk.data)' BY <1>1 DEF Serial, AsRecentAs
<1>6. AsRecentAs(store)' BY <1>1, <1>5 DEF AsRecentAs
<1>7. IdleFileIsMemory' BY <1>1 DEF IdleFileIsMemory, Readable
<1> QED BY <1>1, <1>3, <1>4, <1>5, <1>6, <1>7 DEF Serial

LEMMA StepSerial ==
  StoreTypeOK /\ SerialInv /\ [StoreNext]_storeVars => SerialInv'
<1> SUFFICES ASSUME StoreTypeOK, SerialInv, [StoreNext]_storeVars, ~overlap'
             PROVE  Serial'
  BY DEF SerialInv, Serial
<1>1. overlap' = overlap
  BY DEF StoreNext, storeVars, Send, Handle, Fail, Copy, Open, Write, Answer,
         Refuse, StoreCrash, StoreRestart
<1>2. Serial BY <1>1 DEF SerialInv, Serial
<1>3. ASSUME NEW h \in handlers, Copy(h) PROVE Serial'
  <2> DEFINE g == [req |-> h.req, at |-> "copied", copy |-> store]
  <2>1. g.req = h.req /\ g.at = "copied" /\ g.copy = store OBVIOUS
  <2> QED BY <1>2, <1>3, <2>1, HandlerStepSerial DEF Copy, Step
<1>4. ASSUME NEW h \in handlers, Open(h) PROVE Serial'
  <2> DEFINE g == [h EXCEPT !.at = "opened"]
  <2>1. g.req = h.req /\ g.at = "opened" /\ g.copy = h.copy
    BY <1>4 DEF Open, StoreTypeOK, Changed, Holding
  <2>2. h.copy = store BY <1>2, <1>4 DEF Open, Serial, StageInv
  <2> QED BY <1>2, <1>4, <2>1, <2>2, HandlerStepSerial DEF Open, Step
<1>5. ASSUME NEW h \in handlers, Write(h) PROVE Serial'
  <2> DEFINE g == [h EXCEPT !.at = "written"]
  <2>1. g.req = h.req /\ g.at = "written" /\ g.copy = h.copy
    BY <1>5 DEF Write, StoreTypeOK, Changed, Holding
  <2>2. h.copy = store /\ disk = Without("cut")
    BY <1>2, <1>5 DEF Write, Serial, StageInv
  <2>3. disk' = Holds(store) BY <1>5, <2>2 DEF Write
  <2> QED BY <1>2, <1>5, <2>1, <2>2, <2>3, HandlerStepSerial DEF Write, Step
<1>6. CASE UNCHANGED storeVars
  BY <1>2, <1>6 DEF storeVars, Serial, OneAtATime, Latest, StageInv,
                    AsRecentAs, Readable, IdleFileIsMemory, Without, Holds
<1> QED BY <1>2, <1>3, <1>4, <1>5, <1>6, SendSerial, HandleSerial, FailSerial,
           AnswerSerial, RefuseSerial, CrashSerial, RestartSerial DEF StoreNext

\* With requests that come one at a time and no failed save, an idle control
\* plane has saved its memory, whatever crashes and restarts there were.
THEOREM FileIsMemoryHolds == StoreSpec => []FileIsMemory
<1>1. SerialInv => FileIsMemory BY DEF SerialInv, FileIsMemory
<1> QED BY <1>1, InitType, StepType, InitSerial, StepSerial, PTL DEF StoreSpec

\* With requests that come one at a time, what was answered with success is in
\* every file that a restart can read.
THEOREM AnsweredIsSavedHolds == StoreSpec => []AnsweredIsSaved
<1>1. SerialInv => AnsweredIsSaved
  BY DEF SerialInv, AnsweredIsSaved, AsRecentAs
<1> QED BY <1>1, InitType, StepType, InitSerial, StepSerial, PTL DEF StoreSpec
=============================================================================
