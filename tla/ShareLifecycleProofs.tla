------------------------- MODULE ShareLifecycleProofs -------------------------
(***************************************************************************)
(* Theorems about ShareLifecycle, for any number of servers, stops and     *)
(* edits: the types, and the three safety properties of commands that do   *)
(* not overlap.                                                            *)
(***************************************************************************)
EXTENDS ShareLifecycle, TLAPS

-------------------------------------------------------------------------------
(* The inductive invariant.                                                *)

\* The port is bound once, overlap or not.
OneBound == \A r, s \in Servers : Bound(r) /\ Bound(s) => r = s

\* Commands that do not overlap: one at a time is starting, stopping, editing.
OneByOne ==
    /\ \A r, s \in Servers : at[r] \in Starting /\ at[s] \in Starting => r = s
    /\ stop.at # "idle" \/ edit.at # "idle" =>
           \A s \in Servers : at[s] \notin Starting
    /\ stop.at = "idle" \/ edit.at = "idle"

\* The stop file is written, and the stop is still at work.
Sent == stop.at \in {"written", "hung", "disabled", "killed"}

PidInv == \A s \in Servers :
    /\ Running(s) \/ at[s] = "listed" => pidFile = s \/ stopFile
    /\ at[s] \in {"cleared", "listed"} => ~stopFile
    /\ Bound(s) /\ Sent => stopFile

\* Whatever makes a tick end its server was asked of that server.
AskedInv == \A s \in Servers :
    /\ Running(s) /\ (stopFile \/ Sent) => asked[s] # "no"
    /\ Running(s) /\ kind[s] = "share" /\ ~config.sharing => asked[s] # "no"
    /\ at[s] \in {"stopping", "withdrawing", "disabled", "unlisted"}
           => asked[s] # "no"

\* No copy of the configuration is from the future.
NumberInv ==
    /\ settled <= edits /\ config.setting <= edits
    /\ \A s \in Servers : copy[s].setting <= edits
    /\ stop.copy.setting <= edits /\ edit.copy.setting <= edits

\* No copy that may be written back is older than what is settled.
CopyInv ==
    /\ config.setting >= settled
    /\ \A s \in Servers : Up(s) => copy[s].setting >= settled
    /\ stop.at \in {"booted", "written"} => stop.copy.setting >= settled
    /\ edit.at = "loaded" => edit.copy.setting >= settled

IInv ==
    /\ TypeOK /\ OneBound /\ NumberInv
    /\ ~overlap => OneByOne /\ PidInv /\ AskedInv /\ CopyInv

-------------------------------------------------------------------------------
(* Types and the port.                                                     *)

LEMMA TypeInit == Init => TypeOK
<1> SUFFICES ASSUME Init PROVE TypeOK
  OBVIOUS
<1>1. [at |-> "idle", copy |-> Default] \in [at : StopStages, copy : Config]
  BY DEF Default, Config, StopStages
<1>2. [at |-> "idle", copy |-> Default]
          \in [at : {"idle", "loaded"}, copy : Config]
  BY DEF Default, Config
<1>3. config \in Config /\ copy \in [Servers -> Config]
  BY DEF Init, Default, Config
<1>4. at \in [Servers -> Stages] /\ kind \in [Servers -> Kinds]
  BY DEF Init, Stages, Kinds
<1>5. stops \in 0..MaxStops /\ edits \in 0..MaxEdits /\ settled \in Nat
  BY BoundsType DEF Init
<1>6. asked \in [Servers -> {"no", "off", "stop", "withdrawn"}]
  BY DEF Init
<1>7. stop \in [at : StopStages, copy : Config]
      /\ edit \in [at : {"idle", "loaded"}, copy : Config]
  BY <1>1, <1>2 DEF Init
<1>8. QED
  BY <1>3, <1>4, <1>5, <1>6, <1>7, Zenon DEF Init, TypeOK

LEMMA EndType ==
  ASSUME TypeOK, NEW s \in Servers, End(s)
  PROVE  /\ at' \in [Servers -> Stages] /\ kind' \in [Servers -> Kinds]
         /\ copy' \in [Servers -> Config]
<1>1. Default \in Config
  BY DEF Default, Config
<1>2. QED
  BY <1>1 DEF TypeOK, End, Goto, Stages, Kinds

LEMMA TypeStep == TypeOK /\ [Next]_vars => TypeOK'
<1> SUFFICES ASSUME TypeOK, [Next]_vars PROVE TypeOK'
  OBVIOUS
<1> USE BoundsType, NoPidType
<1> USE DEF
    TypeOK, Config, Default, Kinds, Stages, StopStages, files, servers,
    commands, world, history
<1>1. ASSUME NEW s \in Servers, NEW k \in Kinds, Boot(s, k) PROVE TypeOK'
  BY <1>1 DEF Boot, Goto
<1>2. ASSUME NEW s \in Servers, Bind(s) PROVE TypeOK'
  <2>1. CASE \E r \in Servers : Bound(r)
    <3>1. End(s)
      BY <1>2, <2>1 DEF Bind
    <3>2. QED
      BY <1>2, <3>1, EndType DEF Bind
  <2>2. CASE ~\E r \in Servers : Bound(r)
    BY <1>2, <2>2 DEF Bind, Move, Goto
  <2>3. QED
    BY <2>1, <2>2
<1>3. ASSUME NEW s \in Servers, ClearStop(s) PROVE TypeOK'
  BY <1>3 DEF ClearStop, Move, Goto
<1>4. ASSUME NEW s \in Servers, WritePid(s) PROVE TypeOK'
  BY <1>4 DEF WritePid, Move, Goto
<1>5. ASSUME NEW s \in Servers, Enable(s) PROVE TypeOK'
  <2>1. copy' \in [Servers -> Config]
    BY <1>5 DEF Enable
  <2>2. copy'[s] \in Config
    BY <2>1
  <2>3. at' \in [Servers -> Stages]
    BY <1>5 DEF Enable, Goto
  <2>4. QED
    BY <1>5, <2>1, <2>2, <2>3 DEF Enable
<1>6. ASSUME NEW s \in Servers, Tick(s) PROVE TypeOK'
  BY <1>6 DEF Tick, Move, Goto
<1>7. ASSUME NEW s \in Servers, Disable(s) PROVE TypeOK'
  <2>1. copy' \in [Servers -> Config]
    BY <1>7 DEF Disable
  <2>2. copy'[s] \in Config
    BY <2>1
  <2>3. at' \in [Servers -> Stages]
    BY <1>7 DEF Disable, Goto
  <2>4. QED
    BY <1>7, <2>1, <2>2, <2>3 DEF Disable
<1>8. ASSUME NEW s \in Servers, RemovePid(s) PROVE TypeOK'
  BY <1>8 DEF RemovePid, Move, Goto
<1>9. ASSUME NEW s \in Servers, RemoveStop(s) PROVE TypeOK'
  BY <1>9 DEF RemoveStop, End, Goto
<1>10. ASSUME NEW s \in Servers, Bail(s) PROVE TypeOK'
  BY <1>10 DEF Bail, End, Goto
<1>11. ASSUME NEW s \in Servers, Hang(s) PROVE TypeOK'
  BY <1>11 DEF Hang, Move, Goto
<1>12. ASSUME NEW s \in Servers, ControlPlaneAnswers(s) PROVE TypeOK'
  BY <1>12 DEF ControlPlaneAnswers, Move, Goto
<1>13. ASSUME NEW s \in Servers, Die(s) PROVE TypeOK'
  BY <1>13 DEF Die, End, Goto
<1>14. CASE BeginStop
  BY <1>14 DEF BeginStop, Often
<1>15. CASE WriteStop
  BY <1>15 DEF WriteStop, StopGoes
<1>16. CASE StopDisables
  <2>1. stop.copy \in Config
    OBVIOUS
  <2>2. config' \in Config
    BY <1>16, <2>1 DEF StopDisables
  <2>3. stop' \in [at : StopStages, copy : Config]
    BY <1>16 DEF StopDisables
  <2>4. QED
    BY <1>16, <2>2, <2>3 DEF StopDisables
<1>17. CASE StopReturns
  BY <1>17 DEF StopReturns, StopGoes
<1>18. CASE Kill
  <2>1. stop' \in [at : StopStages, copy : Config]
    BY <1>18 DEF Kill, StopGoes
  <2>2. /\ at' \in [Servers -> Stages] /\ kind' \in [Servers -> Kinds]
        /\ copy' \in [Servers -> Config]
    <3>1. CASE pidFile # NoPid /\ End(pidFile)
      BY <3>1, EndType
    <3>2. CASE UNCHANGED servers
      BY <3>2
    <3>3. QED
      BY <1>18, <3>1, <3>2 DEF Kill
  <2>3. QED
    BY <1>18, <2>1, <2>2 DEF Kill
<1>19. CASE StopRemovesPid
  BY <1>19 DEF StopRemovesPid, StopGoes
<1>20. CASE BeginEdit
  BY <1>20 DEF BeginEdit, Often
<1>21. CASE SaveEdit
  BY <1>21 DEF SaveEdit
<1>22. CASE UNCHANGED vars
  BY <1>22 DEF vars
<1>23. QED
  BY <1>1, <1>2, <1>3, <1>4, <1>5, <1>6, <1>7, <1>8,
     <1>9, <1>10, <1>11, <1>12, <1>13, <1>14, <1>15, <1>16,
     <1>17, <1>18, <1>19, <1>20, <1>21, <1>22
  DEF Next, ServerStep, StopStep

LEMMA PortStep == TypeOK /\ OneBound /\ [Next]_vars => OneBound'
<1> SUFFICES ASSUME TypeOK, OneBound, [Next]_vars PROVE OneBound'
  OBVIOUS
<1> USE DEF
    TypeOK, OneBound, Bound, Up, Down, files, servers, commands, world,
    history
<1>1. ASSUME NEW s \in Servers, NEW k \in Kinds, Boot(s, k) PROVE OneBound'
  BY <1>1 DEF Boot, Goto
<1>2. ASSUME NEW s \in Servers, Bind(s) PROVE OneBound'
  BY <1>2 DEF Bind, Move, Goto, End
<1>3. ASSUME NEW s \in Servers, ClearStop(s) PROVE OneBound'
  BY <1>3 DEF ClearStop, Move, Goto
<1>4. ASSUME NEW s \in Servers, WritePid(s) PROVE OneBound'
  BY <1>4 DEF WritePid, Move, Goto
<1>5. ASSUME NEW s \in Servers, Enable(s) PROVE OneBound'
  BY <1>5 DEF Enable, Goto
<1>6. ASSUME NEW s \in Servers, Tick(s) PROVE OneBound'
  BY <1>6 DEF Tick, Move, Goto
<1>7. ASSUME NEW s \in Servers, Disable(s) PROVE OneBound'
  BY <1>7 DEF Disable, Goto
<1>8. ASSUME NEW s \in Servers, RemovePid(s) PROVE OneBound'
  BY <1>8 DEF RemovePid, Move, Goto
<1>9. ASSUME NEW s \in Servers, RemoveStop(s) PROVE OneBound'
  BY <1>9 DEF RemoveStop, End, Goto
<1>10. ASSUME NEW s \in Servers, Bail(s) PROVE OneBound'
  BY <1>10 DEF Bail, End, Goto
<1>11. ASSUME NEW s \in Servers, Hang(s) PROVE OneBound'
  BY <1>11 DEF Hang, Move, Goto
<1>12. ASSUME NEW s \in Servers, ControlPlaneAnswers(s) PROVE OneBound'
  BY <1>12 DEF ControlPlaneAnswers, Move, Goto
<1>13. ASSUME NEW s \in Servers, Die(s) PROVE OneBound'
  BY <1>13 DEF Die, End, Goto
<1>14. CASE BeginStop
  BY <1>14 DEF BeginStop
<1>15. CASE WriteStop
  BY <1>15 DEF WriteStop
<1>16. CASE StopDisables
  BY <1>16 DEF StopDisables
<1>17. CASE StopReturns
  BY <1>17 DEF StopReturns
<1>18. CASE Kill
  BY <1>18 DEF Kill, End, Goto
<1>19. CASE StopRemovesPid
  BY <1>19 DEF StopRemovesPid
<1>20. CASE BeginEdit
  BY <1>20 DEF BeginEdit
<1>21. CASE SaveEdit
  BY <1>21 DEF SaveEdit
<1>22. CASE UNCHANGED vars
  BY <1>22 DEF vars
<1>23. QED
  BY <1>1, <1>2, <1>3, <1>4, <1>5, <1>6, <1>7, <1>8,
     <1>9, <1>10, <1>11, <1>12, <1>13, <1>14, <1>15, <1>16,
     <1>17, <1>18, <1>19, <1>20, <1>21, <1>22
  DEF Next, ServerStep, StopStep

-------------------------------------------------------------------------------
(* One command at a time.                                                  *)

LEMMA OrderStep ==
  ASSUME TypeOK, OneByOne, ~overlap, [Next]_vars
  PROVE  OneByOne'
<1> USE DEF
    TypeOK, OneByOne, Starting, StopStages, files, servers, commands, world,
    history
<1>1. ASSUME NEW s \in Servers, NEW k \in Kinds, Boot(s, k) PROVE OneByOne'
  BY <1>1 DEF Boot, Goto, MayBegin, Quiet
<1>2. ASSUME NEW s \in Servers, Bind(s) PROVE OneByOne'
  BY <1>2 DEF Bind, Move, Goto, End
<1>3. ASSUME NEW s \in Servers, ClearStop(s) PROVE OneByOne'
  BY <1>3 DEF ClearStop, Move, Goto
<1>4. ASSUME NEW s \in Servers, WritePid(s) PROVE OneByOne'
  BY <1>4 DEF WritePid, Move, Goto
<1>5. ASSUME NEW s \in Servers, Enable(s) PROVE OneByOne'
  BY <1>5 DEF Enable, Goto
<1>6. ASSUME NEW s \in Servers, Tick(s) PROVE OneByOne'
  BY <1>6 DEF Tick, Move, Goto
<1>7. ASSUME NEW s \in Servers, Disable(s) PROVE OneByOne'
  BY <1>7 DEF Disable, Goto
<1>8. ASSUME NEW s \in Servers, RemovePid(s) PROVE OneByOne'
  BY <1>8 DEF RemovePid, Move, Goto
<1>9. ASSUME NEW s \in Servers, RemoveStop(s) PROVE OneByOne'
  BY <1>9 DEF RemoveStop, End, Goto
<1>10. ASSUME NEW s \in Servers, Bail(s) PROVE OneByOne'
  BY <1>10 DEF Bail, End, Goto
<1>11. ASSUME NEW s \in Servers, Hang(s) PROVE OneByOne'
  BY <1>11 DEF Hang, Move, Goto
<1>12. ASSUME NEW s \in Servers, ControlPlaneAnswers(s) PROVE OneByOne'
  BY <1>12 DEF ControlPlaneAnswers, Move, Goto
<1>13. ASSUME NEW s \in Servers, Die(s) PROVE OneByOne'
  BY <1>13 DEF Die, End, Goto
<1>14. CASE BeginStop
  BY <1>14 DEF BeginStop, MayBegin, Quiet, Often
<1>15. CASE WriteStop
  BY <1>15 DEF WriteStop, StopGoes
<1>16. CASE StopDisables
  BY <1>16 DEF StopDisables
<1>17. CASE StopReturns
  BY <1>17 DEF StopReturns, StopGoes
<1>18. CASE Kill
  BY <1>18 DEF Kill, StopGoes, End, Goto
<1>19. CASE StopRemovesPid
  BY <1>19 DEF StopRemovesPid, StopGoes
<1>20. CASE BeginEdit
  BY <1>20 DEF BeginEdit, MayBegin, Quiet, Often
<1>21. CASE SaveEdit
  BY <1>21 DEF SaveEdit
<1>22. CASE UNCHANGED vars
  BY <1>22 DEF vars
<1>23. QED
  BY <1>1, <1>2, <1>3, <1>4, <1>5, <1>6, <1>7, <1>8,
     <1>9, <1>10, <1>11, <1>12, <1>13, <1>14, <1>15, <1>16,
     <1>17, <1>18, <1>19, <1>20, <1>21, <1>22
  DEF Next, ServerStep, StopStep

LEMMA PidStep ==
  ASSUME TypeOK, OneBound, OneByOne, PidInv, ~overlap, [Next]_vars
  PROVE  PidInv'
<1> USE DEF
    TypeOK, OneBound, OneByOne, PidInv, Sent, Running, Bound, Up, Down,
    Starting, files, servers, commands, world, history
<1>1. ASSUME NEW s \in Servers, NEW k \in Kinds, Boot(s, k) PROVE PidInv'
  BY <1>1 DEF Boot, Goto, MayBegin, Quiet
<1>2. ASSUME NEW s \in Servers, Bind(s) PROVE PidInv'
  BY <1>2 DEF Bind, Move, Goto, End
<1>3. ASSUME NEW s \in Servers, ClearStop(s) PROVE PidInv'
  BY <1>3 DEF ClearStop, Move, Goto, FilesFirst
<1>4. ASSUME NEW s \in Servers, WritePid(s) PROVE PidInv'
  BY <1>4 DEF WritePid, Move, Goto
<1>5. ASSUME NEW s \in Servers, Enable(s) PROVE PidInv'
  BY <1>5 DEF Enable, Goto
<1>6. ASSUME NEW s \in Servers, Tick(s) PROVE PidInv'
  BY <1>6 DEF Tick, Move, Goto, FilesFirst
<1>7. ASSUME NEW s \in Servers, Disable(s) PROVE PidInv'
  BY <1>7 DEF Disable, Goto
<1>8. ASSUME NEW s \in Servers, RemovePid(s) PROVE PidInv'
  BY <1>8 DEF RemovePid, Move, Goto
<1>9. ASSUME NEW s \in Servers, RemoveStop(s) PROVE PidInv'
  BY <1>9 DEF RemoveStop, End, Goto
<1>10. ASSUME NEW s \in Servers, Bail(s) PROVE PidInv'
  BY <1>10 DEF Bail, End, Goto
<1>11. ASSUME NEW s \in Servers, Hang(s) PROVE PidInv'
  BY <1>11 DEF Hang, Move, Goto
<1>12. ASSUME NEW s \in Servers, ControlPlaneAnswers(s) PROVE PidInv'
  BY <1>12 DEF ControlPlaneAnswers, Move, Goto
<1>13. ASSUME NEW s \in Servers, Die(s) PROVE PidInv'
  BY <1>13 DEF Die, End, Goto
<1>14. CASE BeginStop
  BY <1>14 DEF BeginStop, MayBegin, Quiet, Often
<1>15. CASE WriteStop
  BY <1>15 DEF WriteStop, StopGoes
<1>16. CASE StopDisables
  BY <1>16 DEF StopDisables
<1>17. CASE StopReturns
  BY <1>17 DEF StopReturns, StopGoes
<1>18. CASE Kill
  BY <1>18 DEF Kill, StopGoes, End, Goto
<1>19. CASE StopRemovesPid
  BY <1>19 DEF StopRemovesPid, StopGoes
<1>20. CASE BeginEdit
  BY <1>20 DEF BeginEdit, MayBegin, Quiet, Often
<1>21. CASE SaveEdit
  BY <1>21 DEF SaveEdit
<1>22. CASE UNCHANGED vars
  BY <1>22 DEF vars
<1>23. QED
  BY <1>1, <1>2, <1>3, <1>4, <1>5, <1>6, <1>7, <1>8,
     <1>9, <1>10, <1>11, <1>12, <1>13, <1>14, <1>15, <1>16,
     <1>17, <1>18, <1>19, <1>20, <1>21, <1>22
  DEF Next, ServerStep, StopStep

LEMMA AskedStep ==
  ASSUME TypeOK, OneBound, OneByOne, PidInv, AskedInv, ~overlap, [Next]_vars
  PROVE  AskedInv'
<1> USE DEF
    TypeOK, Config, OneBound, OneByOne, PidInv, AskedInv, Sent, Running,
    Bound, Up, Down, Starting, files, servers, commands, world, history
<1>1. ASSUME NEW s \in Servers, NEW k \in Kinds, Boot(s, k) PROVE AskedInv'
  BY <1>1 DEF Boot, Goto, MayBegin, Quiet
<1>2. ASSUME NEW s \in Servers, Bind(s) PROVE AskedInv'
  BY <1>2 DEF Bind, Move, Goto, End
<1>3. ASSUME NEW s \in Servers, ClearStop(s) PROVE AskedInv'
  BY <1>3 DEF ClearStop, Move, Goto, FilesFirst
<1>4. ASSUME NEW s \in Servers, WritePid(s) PROVE AskedInv'
  BY <1>4 DEF WritePid, Move, Goto
<1>5. ASSUME NEW s \in Servers, Enable(s) PROVE AskedInv'
  BY <1>5 DEF Enable, Goto
<1>6. ASSUME NEW s \in Servers, Tick(s) PROVE AskedInv'
  BY <1>6 DEF Tick, Move, Goto, FilesFirst, WantsStop
<1>7. ASSUME NEW s \in Servers, Disable(s) PROVE AskedInv'
  BY <1>7 DEF Disable, Goto
<1>8. ASSUME NEW s \in Servers, RemovePid(s) PROVE AskedInv'
  BY <1>8 DEF RemovePid, Move, Goto
<1>9. ASSUME NEW s \in Servers, RemoveStop(s) PROVE AskedInv'
  BY <1>9 DEF RemoveStop, End, Goto
<1>10. ASSUME NEW s \in Servers, Bail(s) PROVE AskedInv'
  BY <1>10 DEF Bail, End, Goto
<1>11. ASSUME NEW s \in Servers, Hang(s) PROVE AskedInv'
  BY <1>11 DEF Hang, Move, Goto, WantsStop
<1>12. ASSUME NEW s \in Servers, ControlPlaneAnswers(s) PROVE AskedInv'
  BY <1>12 DEF ControlPlaneAnswers, Move, Goto
<1>13. ASSUME NEW s \in Servers, Die(s) PROVE AskedInv'
  BY <1>13 DEF Die, End, Goto
<1>14. CASE BeginStop
  BY <1>14 DEF BeginStop, MayBegin, Quiet, Often
<1>15. CASE WriteStop
  BY <1>15 DEF WriteStop, StopGoes
<1>16. CASE StopDisables
  BY <1>16 DEF StopDisables
<1>17. CASE StopReturns
  BY <1>17 DEF StopReturns, StopGoes
<1>18. CASE Kill
  BY <1>18 DEF Kill, StopGoes, End, Goto
<1>19. CASE StopRemovesPid
  BY <1>19 DEF StopRemovesPid, StopGoes
<1>20. CASE BeginEdit
  BY <1>20 DEF BeginEdit, MayBegin, Quiet, Often
<1>21. CASE SaveEdit
  BY <1>21 DEF SaveEdit
<1>22. CASE UNCHANGED vars
  BY <1>22 DEF vars
<1>23. QED
  BY <1>1, <1>2, <1>3, <1>4, <1>5, <1>6, <1>7, <1>8,
     <1>9, <1>10, <1>11, <1>12, <1>13, <1>14, <1>15, <1>16,
     <1>17, <1>18, <1>19, <1>20, <1>21, <1>22
  DEF Next, ServerStep, StopStep

-------------------------------------------------------------------------------
(* The copies of the configuration.                                        *)

LEMMA NumberStep == TypeOK /\ NumberInv /\ [Next]_vars => NumberInv'
<1> SUFFICES ASSUME TypeOK, NumberInv, [Next]_vars PROVE NumberInv'
  OBVIOUS
<1> USE DEF
    TypeOK, Config, Default, NumberInv, files, servers, commands, world,
    history
<1>1. ASSUME NEW s \in Servers, NEW k \in Kinds, Boot(s, k) PROVE NumberInv'
  BY <1>1 DEF Boot, Goto
<1>2. ASSUME NEW s \in Servers, Bind(s) PROVE NumberInv'
  BY <1>2 DEF Bind, Move, Goto, End
<1>3. ASSUME NEW s \in Servers, ClearStop(s) PROVE NumberInv'
  BY <1>3 DEF ClearStop, Move, Goto
<1>4. ASSUME NEW s \in Servers, WritePid(s) PROVE NumberInv'
  BY <1>4 DEF WritePid, Move, Goto
<1>5. ASSUME NEW s \in Servers, Enable(s) PROVE NumberInv'
  BY <1>5 DEF Enable, Goto
<1>6. ASSUME NEW s \in Servers, Tick(s) PROVE NumberInv'
  BY <1>6 DEF Tick, Move, Goto
<1>7. ASSUME NEW s \in Servers, Disable(s) PROVE NumberInv'
  BY <1>7 DEF Disable, Goto
<1>8. ASSUME NEW s \in Servers, RemovePid(s) PROVE NumberInv'
  BY <1>8 DEF RemovePid, Move, Goto
<1>9. ASSUME NEW s \in Servers, RemoveStop(s) PROVE NumberInv'
  BY <1>9 DEF RemoveStop, End, Goto
<1>10. ASSUME NEW s \in Servers, Bail(s) PROVE NumberInv'
  BY <1>10 DEF Bail, End, Goto
<1>11. ASSUME NEW s \in Servers, Hang(s) PROVE NumberInv'
  BY <1>11 DEF Hang, Move, Goto
<1>12. ASSUME NEW s \in Servers, ControlPlaneAnswers(s) PROVE NumberInv'
  BY <1>12 DEF ControlPlaneAnswers, Move, Goto
<1>13. ASSUME NEW s \in Servers, Die(s) PROVE NumberInv'
  BY <1>13 DEF Die, End, Goto
<1>14. CASE BeginStop
  BY <1>14 DEF BeginStop, Often
<1>15. CASE WriteStop
  BY <1>15 DEF WriteStop, StopGoes
<1>16. CASE StopDisables
  BY <1>16 DEF StopDisables
<1>17. CASE StopReturns
  BY <1>17 DEF StopReturns, StopGoes
<1>18. CASE Kill
  BY <1>18 DEF Kill, StopGoes, End, Goto
<1>19. CASE StopRemovesPid
  BY <1>19 DEF StopRemovesPid, StopGoes
<1>20. CASE BeginEdit
  BY <1>20 DEF BeginEdit, Often
<1>21. CASE SaveEdit
  BY <1>21 DEF SaveEdit
<1>22. CASE UNCHANGED vars
  BY <1>22 DEF vars
<1>23. QED
  BY <1>1, <1>2, <1>3, <1>4, <1>5, <1>6, <1>7, <1>8,
     <1>9, <1>10, <1>11, <1>12, <1>13, <1>14, <1>15, <1>16,
     <1>17, <1>18, <1>19, <1>20, <1>21, <1>22
  DEF Next, ServerStep, StopStep

LEMMA CopyStep ==
  ASSUME TypeOK, OneByOne, NumberInv, CopyInv, ~overlap, [Next]_vars
  PROVE  CopyInv'
<1> USE DEF
    TypeOK, Config, Default, OneByOne, NumberInv, CopyInv, Up, Down, Starting,
    StopStages, files, servers, commands, world, history
<1>1. ASSUME NEW s \in Servers, NEW k \in Kinds, Boot(s, k) PROVE CopyInv'
  BY <1>1 DEF Boot, Goto, MayBegin, Quiet
<1>2. ASSUME NEW s \in Servers, Bind(s) PROVE CopyInv'
  BY <1>2 DEF Bind, Move, Goto, End
<1>3. ASSUME NEW s \in Servers, ClearStop(s) PROVE CopyInv'
  BY <1>3 DEF ClearStop, Move, Goto
<1>4. ASSUME NEW s \in Servers, WritePid(s) PROVE CopyInv'
  BY <1>4 DEF WritePid, Move, Goto
<1>5. ASSUME NEW s \in Servers, Enable(s) PROVE CopyInv'
  BY <1>5 DEF Enable, Goto
<1>6. ASSUME NEW s \in Servers, Tick(s) PROVE CopyInv'
  BY <1>6 DEF Tick, Move, Goto
<1>7. ASSUME NEW s \in Servers, Disable(s) PROVE CopyInv'
  BY <1>7 DEF Disable, Goto
<1>8. ASSUME NEW s \in Servers, RemovePid(s) PROVE CopyInv'
  BY <1>8 DEF RemovePid, Move, Goto
<1>9. ASSUME NEW s \in Servers, RemoveStop(s) PROVE CopyInv'
  BY <1>9 DEF RemoveStop, End, Goto
<1>10. ASSUME NEW s \in Servers, Bail(s) PROVE CopyInv'
  BY <1>10 DEF Bail, End, Goto
<1>11. ASSUME NEW s \in Servers, Hang(s) PROVE CopyInv'
  BY <1>11 DEF Hang, Move, Goto
<1>12. ASSUME NEW s \in Servers, ControlPlaneAnswers(s) PROVE CopyInv'
  BY <1>12 DEF ControlPlaneAnswers, Move, Goto
<1>13. ASSUME NEW s \in Servers, Die(s) PROVE CopyInv'
  BY <1>13 DEF Die, End, Goto
<1>14. CASE BeginStop
  BY <1>14 DEF BeginStop, MayBegin, Quiet, Often
<1>15. CASE WriteStop
  BY <1>15 DEF WriteStop, StopGoes
<1>16. CASE StopDisables
  BY <1>16 DEF StopDisables
<1>17. CASE StopReturns
  BY <1>17 DEF StopReturns, StopGoes
<1>18. CASE Kill
  BY <1>18 DEF Kill, StopGoes, End, Goto
<1>19. CASE StopRemovesPid
  BY <1>19 DEF StopRemovesPid, StopGoes
<1>20. CASE BeginEdit
  BY <1>20 DEF BeginEdit, MayBegin, Quiet, Often
<1>21. CASE SaveEdit
  BY <1>21 DEF SaveEdit
<1>22. CASE UNCHANGED vars
  BY <1>22 DEF vars
<1>23. QED
  BY <1>1, <1>2, <1>3, <1>4, <1>5, <1>6, <1>7, <1>8,
     <1>9, <1>10, <1>11, <1>12, <1>13, <1>14, <1>15, <1>16,
     <1>17, <1>18, <1>19, <1>20, <1>21, <1>22
  DEF Next, ServerStep, StopStep

-------------------------------------------------------------------------------
(* The theorems.                                                           *)

LEMMA InvInit == Init => IInv
<1> SUFFICES ASSUME Init PROVE IInv
  OBVIOUS
<1>1. TypeOK
  BY TypeInit
<1>2. OneBound /\ NumberInv
  BY DEF Init, OneBound, Bound, Up, Down, NumberInv, Default
<1>3. OneByOne /\ PidInv /\ AskedInv /\ CopyInv
  BY DEF Init, OneByOne, PidInv, AskedInv, CopyInv, Starting, Running, Bound,
         Up, Down, Sent, Default
<1>4. QED
  BY <1>1, <1>2, <1>3 DEF IInv

LEMMA InvStep == IInv /\ [Next]_vars => IInv'
<1> SUFFICES ASSUME IInv, [Next]_vars PROVE IInv'
  OBVIOUS
<1>1. TypeOK' /\ OneBound' /\ NumberInv'
  BY TypeStep, PortStep, NumberStep DEF IInv
<1>2. overlap' = overlap
  BY DEF Next, ServerStep, StopStep, Boot, Bind, ClearStop, WritePid, Enable,
         Tick, Disable, RemovePid, RemoveStop, Bail, Hang, ControlPlaneAnswers,
         Die, BeginStop, WriteStop, StopDisables, StopReturns, Kill,
         StopRemovesPid, BeginEdit, SaveEdit, vars, world
<1>3. ~overlap => OneByOne' /\ PidInv' /\ AskedInv' /\ CopyInv'
  BY OrderStep, PidStep, AskedStep, CopyStep DEF IInv
<1>4. QED
  BY <1>1, <1>2, <1>3 DEF IInv

LEMMA Invariant == Spec => []IInv
<1>1. Init => IInv
  BY InvInit
<1>2. IInv /\ [Next]_vars => IInv'
  BY InvStep
<1>3. QED
  BY <1>1, <1>2, PTL DEF Spec

\* The files, the servers and the commands keep their shape, and the bounds are
\* kept, for any number of servers (all of ShareLifecycle).
THEOREM TypeCorrect == Spec => []TypeOK
<1>1. IInv => TypeOK
  BY DEF IInv
<1>2. QED
  BY <1>1, Invariant, PTL

\* However many servers have come, failed and died before, the pid file names
\* the one that serves (commands.rs:658-662, 103, 725).
THEOREM PidNamesTheServerHolds == Spec => []PidNamesTheServer
<1>1. IInv => PidNamesTheServer
  BY DEF IInv, PidInv, PidNamesTheServer
<1>2. QED
  BY <1>1, Invariant, PTL

\* A server that is about to end was asked to: by a stop made while it ran, or
\* by its configuration (commands.rs:658, 716-722).
THEOREM NobodyStopsUnaskedHolds == Spec => []NobodyStopsUnasked
<1>1. IInv => NobodyStopsUnasked
  BY DEF IInv, AskedInv, NobodyStopsUnasked
<1>2. QED
  BY <1>1, Invariant, PTL

\* What was set while no server was up is never written over by an older copy
\* (node.rs:174).
THEOREM EditsSurviveHolds == Spec => []EditsSurvive
<1>1. IInv => EditsSurvive
  BY DEF IInv, CopyInv, EditsSurvive
<1>2. QED
  BY <1>1, Invariant, PTL

=============================================================================
