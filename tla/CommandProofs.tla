---------------------------- MODULE CommandProofs ----------------------------
(***************************************************************************)
(* The commands that one thread drives alone: the installation of the      *)
(* service and its undoing, the setup in tabs and the commands that edit   *)
(* the backend, and the edits of the wake words; for any number of         *)
(* commands and faults, any catalog, words, spellings and encoders.  And   *)
(* the edits of the configuration, for any number of editors at once.      *)
(***************************************************************************)
EXTENDS ServiceInstall, GuidedSetup, WordEdits, ConfigEdit, FiniteSetTheorems, WellFoundedInduction, TLAPS

Units == {"none", "new", "old", "user", "packaged"}
Place == {"idle", "config", "write", "reload", "effective", "enable", "restart", "installed",
          "undo", "unit undone", "reloaded", "enablement undone", "service undone",
          "config undone", "not restored", "disable", "remove", "forget", "removed", "refused",
          "start", "stop", "ended", "done"}
Results == {"none", "failed", "half", "installed", "removed", "refused", "ended"}
Op == [pc : Place, start : BOOLEAN, wasActive : BOOLEAN, wasEnabled : BOOLEAN,
       enableTried : BOOLEAN, restartTried : BOOLEAN, misread : BOOLEAN, crashed : BOOLEAN, previous : Units,
       original : {"missing", "broken", "whole"}, before : Units, result : Results]

ServiceTypes ==
  /\ unit \in Units /\ package \in Units /\ loaded \in Units /\ active \in Units
  /\ override \in BOOLEAN /\ enabled \in BOOLEAN
  /\ conf \in {"missing", "broken", "whole"}
  /\ op \in Op

\* The way forward, and the way back.
Forward == {"config", "write", "reload", "effective", "enable", "restart", "installed"}
Back == {"undo", "unit undone", "reloaded", "enablement undone", "service undone", "config undone"}

\* What the command has noted is what it has found, and what it tries it notes before.
Noted ==
  /\ op.pc \in Forward \cup Back => (op.wasActive <=> op.before # NoUnit)
  /\ op.pc \in {"config", "write"} => unit = op.previous
  /\ op.pc \in {"config", "write", "reload", "effective", "enable"} => ~op.enableTried
  /\ op.pc \in {"config", "write", "reload", "effective", "enable", "restart"} => ~op.restartTried
  /\ op.pc \in Forward \cup Back /\ ~op.restartTried =>
       active = op.before \/ (op.crashed /\ active = NoUnit)

\* What is there, the further the installation has come.
Built ==
  /\ op.pc \in {"reload", "effective", "enable", "restart", "installed"} => unit = "new"
  /\ op.pc \in {"enable", "restart", "installed"} => loaded = "new" /\ ~override
  /\ op.pc \in {"restart", "installed"} => enabled
  /\ op.pc = "installed" /\ op.start /\ ~op.crashed => active = "new"

\* What is back, the further its undoing has come.
Restored ==
  /\ op.pc \in {"unit undone", "reloaded", "enablement undone", "service undone"} /\ op.restartTried =>
       active = NoUnit
  /\ op.pc \in {"reloaded", "enablement undone", "service undone", "config undone"} => unit = op.previous
  /\ op.pc \in {"service undone", "config undone"} /\ op.enableTried /\ ~op.misread =>
       enabled = op.wasEnabled
  /\ op.pc = "config undone" =>
       /\ active # NoUnit => op.wasActive
       /\ op.wasActive /\ ~op.crashed => active = IF op.restartTried THEN loaded ELSE op.before

\* What a removal has taken away.
Removed ==
  /\ op.pc \in {"remove", "forget", "removed"} => active = NoUnit /\ ~enabled
  /\ op.pc \in {"forget", "removed"} => unit = NoUnit

ServiceInv == ServiceTypes /\ Noted /\ Built /\ Restored /\ Removed /\ ServiceUndone

-----------------------------------------------------------------------------
\* Between two commands nothing is noted.
LEMMA NoOpTyped == NoOp \in Op /\ NoOp.pc = "idle"
  BY DEF NoOp, NoUnit, Op, Place, Units, Results

\* Every machine the first command may find.
LEMMA ServiceInitially == ASSUME ServiceInit PROVE ServiceInv
<1>1. unit \in Units /\ package \in Units /\ loaded \in Units /\ active \in Units
  BY DEF ServiceInit, Units, NoUnit
<1>2. ServiceTypes
  BY <1>1, NoOpTyped DEF ServiceInit, ServiceTypes
<1>3. op.pc = "idle"
  BY NoOpTyped DEF ServiceInit
<1> QED
  BY <1>2, <1>3 DEF ServiceInv, Noted, Built, Restored, Removed, Forward, Back, ServiceUndone

\* A step of a command moves it to another place, and changes nothing else of what it
\* has noted.
LEMMA GotoTyped ==
  ASSUME op \in Op, NEW pc \in Place, Goto(pc)
  PROVE  op' \in Op
  BY DEF Goto, Op

\* So does a command that fails.
LEMMA UnlessTyped ==
  ASSUME op \in Op, NEW pc \in Place, Unless(pc)
  PROVE  op' \in Op
  BY GotoTyped DEF Unless

\* systemd reads the user's file, or the package's.
LEMMA ReloadTyped ==
  ASSUME ServiceTypes, NEW to \in Place, NEW failed \in Place, Reload(to, failed)
  PROVE  ServiceTypes'
<1>1. op' \in Op
  BY GotoTyped, UnlessTyped DEF Reload, ServiceTypes
<1> QED
  BY <1>1 DEF Reload, ServiceTypes, Quiet

\* The service starts, or not.
LEMMA RestartTyped ==
  ASSUME ServiceTypes, NEW to \in Place, NEW failed \in Place, Restart(to, failed)
  PROVE  ServiceTypes'
<1>1. op' \in Op
  BY GotoTyped, UnlessTyped DEF Restart, ServiceTypes
<1> QED
  BY <1>1 DEF Restart, ServiceTypes, NoUnit, Units

\* Every step keeps the types.
LEMMA TypesKept ==
  ASSUME ServiceTypes, ServiceStep
  PROVE  ServiceTypes'
<1> DEFINE Rest == /\ unit \in Units /\ package \in Units /\ loaded \in Units /\ active \in Units
                   /\ override \in BOOLEAN /\ enabled \in BOOLEAN
                   /\ conf \in {"missing", "broken", "whole"}
<1>0. op \in Op /\ Rest
  BY DEF ServiceTypes
<1>a. SUFFICES op' \in Op /\ Rest'
  BY DEF ServiceTypes
<1>b. /\ op.previous \in Units /\ op.original \in {"missing", "broken", "whole"}
      /\ op.wasEnabled \in BOOLEAN
  BY <1>0 DEF Op
<1>1. CASE BeginInstall
  <2>1. PICK start \in BOOLEAN, wasEnabled \in {enabled, FALSE} :
          op' = [NoOp EXCEPT !.pc = "config", !.start = start, !.original = conf,
                             !.before = active, !.wasActive = active # NoUnit,
                             !.wasEnabled = wasEnabled, !.misread = enabled # wasEnabled,
                             !.previous = unit]
    BY <1>1 DEF BeginInstall
  <2>2. op' \in Op
    <3> DEFINE found == active # NoUnit
               misread == enabled # wasEnabled
    <3>1. found \in BOOLEAN /\ misread \in BOOLEAN
      OBVIOUS
    <3>2. op' = [NoOp EXCEPT !.pc = "config", !.start = start, !.original = conf, !.before = active,
                             !.wasActive = found, !.wasEnabled = wasEnabled, !.misread = misread,
                             !.previous = unit]
      BY <2>1
    <3>3. wasEnabled \in BOOLEAN /\ conf \in {"missing", "broken", "whole"} /\ active \in Units /\ unit \in Units
      BY <1>0
    <3>4. NoOp \in Op /\ "config" \in Place
      BY NoOpTyped DEF Place
    <3> HIDE DEF found, misread
    <3>5. start \in BOOLEAN
      OBVIOUS
    <3>6. [NoOp EXCEPT !.pc = "config", !.start = start, !.original = conf, !.before = active,
                       !.wasActive = found, !.wasEnabled = wasEnabled, !.misread = misread,
                       !.previous = unit] \in Op
      BY ONLY <3>1, <3>3, <3>4, <3>5 DEF Op
    <3> QED
      BY ONLY <3>2, <3>6
  <2>3. Rest'
    BY <1>0, <1>1 DEF BeginInstall
  <2> QED
    BY <2>2, <2>3
<1>2. CASE EnsureConfig
  <2>1. op' \in Op
    BY <1>0, <1>2, GotoTyped, UnlessTyped DEF EnsureConfig, Place
  <2>2. Rest'
    BY <1>0, <1>2 DEF EnsureConfig, Quiet
  <2> QED
    BY <2>1, <2>2
<1>3. CASE WriteUnit
  <2>1. op' \in Op
    BY <1>0, <1>3, GotoTyped, UnlessTyped DEF WriteUnit, Place
  <2>2. Rest'
    BY <1>0, <1>3 DEF WriteUnit, Quiet, Units, NoUnit, Goto, Unless, Op
  <2> QED
    BY <2>1, <2>2
<1>4. CASE ReloadNew
  BY <1>4, ReloadTyped DEF ReloadNew, Place, ServiceTypes
<1>5. CASE CheckEffective
  <2>1. op' \in Op
    BY <1>0, <1>5, GotoTyped, UnlessTyped DEF CheckEffective, Place
  <2>2. Rest'
    BY <1>0, <1>5 DEF CheckEffective, Quiet, Units, NoUnit, Goto, Unless, Op
  <2> QED
    BY <2>1, <2>2
<1>6. CASE Enable
  <2>1. op' \in Op
    BY <1>0, <1>6, ZenonT(40) DEF Enable, Op, Place, Results
  <2>2. Rest'
    BY <1>0, <1>6 DEF Enable
  <2> QED
    BY <2>1, <2>2
<1>7. CASE RestartNew
  <2>1. op' \in Op
    BY <1>0, <1>7, ZenonT(40) DEF RestartNew, Op, Place, Results
  <2>2. Rest'
    BY <1>0, <1>7 DEF RestartNew, Quiet, Units, NoUnit, Op
  <2> QED
    BY <2>1, <2>2
<1>8. CASE StopNew
  <2>1. op' \in Op
    BY <1>0, <1>8, GotoTyped, UnlessTyped DEF StopNew, Place
  <2>2. Rest'
    BY <1>0, <1>8 DEF StopNew, Quiet, Units, NoUnit, Goto, Unless, Op
  <2> QED
    BY <2>1, <2>2
<1>9. CASE UndoUnit
  <2>1. op' \in Op
    BY <1>0, <1>9, GotoTyped, UnlessTyped DEF UndoUnit, Place
  <2>2. Rest'
    BY <1>0, <1>b, <1>9 DEF UndoUnit, Quiet
  <2> QED
    BY <2>1, <2>2
<1>10. CASE ReloadOld
  BY <1>10, ReloadTyped DEF ReloadOld, Place, ServiceTypes
<1>11. CASE UndoEnable
  <2>1. op' \in Op
    BY <1>0, <1>11, GotoTyped, UnlessTyped DEF UndoEnable, Place
  <2>2. Rest'
    BY <1>0, <1>b, <1>11 DEF UndoEnable, Quiet
  <2> QED
    BY <2>1, <2>2
<1>12. CASE UndoActive
  <2>1. CASE UNCHANGED faults /\ Quiet /\ \E pc \in Place : Goto(pc)
    BY <1>0, <2>1, GotoTyped DEF Quiet
  <2>2. CASE \E to, failed \in Place : Restart(to, failed)
    BY <2>2, RestartTyped DEF ServiceTypes
  <2> QED
    BY <1>12, <2>1, <2>2 DEF UndoActive, Place
<1>13. CASE UndoConfig
  <2>1. op' \in Op
    BY <1>0, <1>13, ZenonT(30) DEF UndoConfig, Op, Place, Results
  <2>2. Rest'
    BY <1>0, <1>b, <1>13 DEF UndoConfig, Quiet
  <2> QED
    BY <2>1, <2>2
<1>14. CASE Installed
  <2>1. op' \in Op
    BY <1>0, <1>14 DEF Installed, Op, Place, Results
  <2>2. Rest'
    BY <1>0, <1>14 DEF Installed, Quiet, Units, NoUnit, Op
  <2> QED
    BY <2>1, <2>2
<1>15. CASE BeginOther
  <2>1. PICK pc \in {"disable", "start", "stop"} : op' = [NoOp EXCEPT !.pc = pc]
    BY <1>15 DEF BeginOther
  <2>2. op' \in Op
    BY <2>1, NoOpTyped DEF Op, Place
  <2>3. Rest'
    BY <1>0, <1>15 DEF BeginOther
  <2> QED
    BY <2>2, <2>3
<1>16. CASE Disable
  <2>1. op' \in Op
    BY <1>0, <1>16, GotoTyped, UnlessTyped DEF Disable, Place
  <2>2. Rest'
    BY <1>0, <1>16, ZenonT(40) DEF Disable, Quiet, Units, NoUnit, Goto, Unless, Op
  <2> QED
    BY <2>1, <2>2
<1>17. CASE RemoveUnit
  <2>1. op' \in Op
    BY <1>0, <1>17, GotoTyped, UnlessTyped DEF RemoveUnit, Place
  <2>2. Rest'
    BY <1>0, <1>17 DEF RemoveUnit, Quiet, Units, NoUnit, Goto, Unless, Op
  <2> QED
    BY <2>1, <2>2
<1>18. CASE Forget
  BY <1>18, ReloadTyped DEF Forget, Place, ServiceTypes
<1>19. CASE StartUnit
  <2>1. CASE UNCHANGED faults /\ Quiet /\ \E pc \in Place : Goto(pc)
    BY <1>0, <2>1, GotoTyped DEF Quiet
  <2>2. CASE \E to, failed \in Place : Restart(to, failed)
    BY <2>2, RestartTyped DEF ServiceTypes
  <2> QED
    BY <1>19, <2>1, <2>2 DEF StartUnit, Place
<1>20. CASE StopUnit
  <2>1. op' \in Op
    BY <1>0, <1>20, GotoTyped, UnlessTyped DEF StopUnit, Place
  <2>2. Rest'
    BY <1>0, <1>20 DEF StopUnit, Quiet, Units, NoUnit, Goto, Unless, Op
  <2> QED
    BY <2>1, <2>2
<1>21. CASE Ended
  <2>1. op' \in Op
    BY <1>0, <1>21 DEF Ended, Op, Place, Results
  <2>2. Rest'
    BY <1>0, <1>21 DEF Ended, Quiet, Units, NoUnit, Op
  <2> QED
    BY <2>1, <2>2
<1>22. CASE NextCommand
  BY <1>0, <1>22, NoOpTyped DEF NextCommand, Quiet
<1>23. CASE Dies
  BY <1>0, <1>23 DEF Dies, Op, Units, NoUnit
<1> QED
  BY <1>1, <1>2, <1>3, <1>4, <1>5, <1>6, <1>7, <1>8, <1>9, <1>10, <1>11, <1>12, <1>13, <1>14, <1>15, <1>16, <1>17, <1>18, <1>19, <1>20, <1>21, <1>22, <1>23 DEF ServiceStep

\* Only its place is another, whatever the step does besides.
LEMMA GotoMoves ==
  ASSUME op \in Op, NEW pc \in Place, Goto(pc)
  PROVE  /\ op'.pc = pc
         /\ UNCHANGED <<op.wasActive, op.wasEnabled, op.enableTried, op.restartTried, op.misread, op.crashed,
                        op.previous, op.original, op.before, op.result, op.start>>
  BY DEF Goto, Op

\* Every step keeps the rest of the invariant.
LEMMA ServiceInductive ==
  ASSUME ServiceInv, ServiceStep
  PROVE  Noted' /\ Built' /\ Restored' /\ Removed' /\ ServiceUndone'
<1> USE DEF ServiceInv, ServiceTypes, Op, Noted, Built, Restored, Removed, ServiceUndone, Forward, Back
<1>1. CASE BeginInstall
  <2>1. PICK start \in BOOLEAN, wasEnabled \in {enabled, FALSE} :
          op' = [NoOp EXCEPT !.pc = "config", !.start = start, !.original = conf,
                             !.before = active, !.wasActive = active # NoUnit,
                             !.wasEnabled = wasEnabled, !.misread = enabled # wasEnabled,
                             !.previous = unit]
    BY <1>1 DEF BeginInstall
  <2>2. /\ op'.pc = "config" /\ op'.before = active /\ op'.previous = unit
        /\ op'.enableTried = FALSE /\ op'.restartTried = FALSE
    BY <2>1 DEF NoOp
  <2>3. op'.wasActive = (active # NoUnit)
    BY <2>1 DEF NoOp
  <2>4. unit' = unit /\ active' = active
    BY <1>1 DEF BeginInstall
  <2> QED
    BY <2>2, <2>3, <2>4
<1>2. CASE EnsureConfig
  <2>1. UNCHANGED <<unit, active>> /\ op.pc = "config"
    BY <1>2 DEF EnsureConfig, Quiet
  <2>2. \E pc \in {"write", "config undone"} : Goto(pc)
    BY <1>2 DEF EnsureConfig, Unless
  <2>3. /\ op'.pc \in {"write", "config undone"}
        /\ UNCHANGED <<op.wasActive, op.enableTried, op.restartTried, op.misread, op.crashed, op.previous, op.before>>
    BY <2>2, GotoMoves DEF Place
  <2> QED
    BY <2>1, <2>3 DEF NoUnit
<1>3. CASE WriteUnit
  BY <1>3, ZenonT(30) DEF WriteUnit, Goto, Unless, Quiet, NoUnit
<1>4. CASE ReloadNew
  BY <1>4, ZenonT(30) DEF ReloadNew, Reload, Goto, Unless, Quiet, NoUnit
<1>5. CASE CheckEffective
  BY <1>5 DEF CheckEffective, Goto, Effective, Quiet, NoUnit
<1>6. CASE Enable
  BY <1>6, ZenonT(40) DEF Enable, NoUnit
<1>7. CASE RestartNew
  BY <1>7, ZenonT(40) DEF RestartNew, NoUnit
<1>8. CASE StopNew
  BY <1>8, ZenonT(30) DEF StopNew, Goto, Unless, Quiet, NoUnit
<1>9. CASE UndoUnit
  BY <1>9, ZenonT(30) DEF UndoUnit, Goto, Unless, Quiet, NoUnit
<1>10. CASE ReloadOld
  BY <1>10, ZenonT(30) DEF ReloadOld, Reload, Goto, Unless, Quiet, NoUnit
<1>11. CASE UndoEnable
  BY <1>11, ZenonT(30) DEF UndoEnable, Goto, Unless, Quiet, NoUnit
<1>12. CASE UndoActive
  <2>1. CASE op.wasActive /\ op.restartTried
    <3>1. CASE active' = loaded /\ Goto("config undone") /\ UNCHANGED <<unit, loaded, enabled>>
      BY <1>12, <2>1, <3>1, GotoMoves DEF UndoActive, Place
    <3>2. CASE Goto("not restored")
      BY <3>2, GotoMoves DEF Place
    <3> QED
      BY <1>12, <2>1, <3>1, <3>2 DEF UndoActive, Restart, Unless
  <2>2. CASE ~(op.wasActive /\ op.restartTried)
    <3>1. op.pc = "service undone" /\ Goto("config undone") /\ UNCHANGED <<unit, loaded, active, enabled>>
      BY <1>12, <2>2 DEF UndoActive, Quiet
    <3> QED
      BY <2>2, <3>1, GotoMoves DEF Place
  <2> QED
    BY <2>1, <2>2
<1>13. CASE UndoConfig
  BY <1>13, ZenonT(40) DEF UndoConfig, NoUnit
<1>14. CASE Installed
  BY <1>14 DEF Installed, Quiet, NoUnit
<1>15. CASE BeginOther
  BY <1>15 DEF BeginOther, NoOp, NoUnit
<1>16. CASE Disable
  BY <1>16, ZenonT(30) DEF Disable, Goto, Unless, NoUnit
<1>17. CASE RemoveUnit
  <2>1. op.pc = "remove" /\ UNCHANGED <<active, enabled>>
    BY <1>17 DEF RemoveUnit, Quiet
  <2>2. CASE unit' = NoUnit /\ Goto("forget")
    BY <2>1, <2>2, GotoMoves DEF Place
  <2>3. CASE Goto("refused")
    BY <2>3, GotoMoves DEF Place
  <2> QED
    BY <1>17, <2>2, <2>3 DEF RemoveUnit, Unless
<1>18. CASE Forget
  <2>1. op.pc = "forget" /\ UNCHANGED <<active, enabled, unit>>
    BY <1>18 DEF Forget, Reload, Quiet
  <2>2. CASE Goto("removed")
    BY <2>1, <2>2, GotoMoves DEF Place
  <2>3. CASE Goto("refused")
    BY <2>3, GotoMoves DEF Place
  <2> QED
    BY <1>18, <2>2, <2>3 DEF Forget, Reload, Unless
<1>19. CASE StartUnit
  BY <1>19 DEF StartUnit, Restart, Goto, Unless, Quiet, NoUnit
<1>20. CASE StopUnit
  BY <1>20 DEF StopUnit, Goto, Unless, Quiet, NoUnit
<1>21. CASE Ended
  BY <1>21 DEF Ended, Quiet, NoUnit
<1>22. CASE NextCommand
  BY <1>22 DEF NextCommand, Quiet, NoOp, NoUnit
<1>23. CASE Dies
  <2>1. /\ active' = NoUnit /\ op'.crashed /\ op.pc # "done"
        /\ UNCHANGED <<unit, loaded, override, enabled, conf>>
        /\ UNCHANGED <<op.pc, op.wasActive, op.wasEnabled, op.enableTried, op.restartTried, op.misread,
                       op.previous, op.original, op.before, op.result, op.start>>
    BY <1>23 DEF Dies
  <2> QED
    BY <2>1
<1> QED
  BY <1>1, <1>2, <1>3, <1>4, <1>5, <1>6, <1>7, <1>8, <1>9, <1>10, <1>11, <1>12, <1>13, <1>14, <1>15, <1>16, <1>17, <1>18, <1>19, <1>20, <1>21, <1>22, <1>23 DEF ServiceStep

\* No command leaves what ServiceInv excludes.
THEOREM ServiceInvariant == ServiceSpec => []ServiceInv
<1>1. ServiceInit => ServiceInv
  BY ServiceInitially
<1>2. ServiceInv /\ [ServiceStep]_serviceVars => ServiceInv'
  <2>1. ASSUME ServiceInv, ServiceStep PROVE ServiceInv'
    BY <2>1, TypesKept, ServiceInductive DEF ServiceInv
  <2>2. ASSUME ServiceInv, UNCHANGED serviceVars PROVE ServiceInv'
    <3>1. UNCHANGED <<unit, package, loaded, override, enabled, active, conf, op>>
      BY <2>2 DEF serviceVars
    <3>2. ServiceTypes'
      BY <2>2, <3>1 DEF ServiceInv, ServiceTypes
    <3>3. Noted' /\ Built'
      BY <2>2, <3>1 DEF ServiceInv, Noted, Built
    <3>4. Restored' /\ Removed' /\ ServiceUndone'
      BY <2>2, <3>1 DEF ServiceInv, Restored, Removed, ServiceUndone
    <3> QED
      BY <3>2, <3>3, <3>4 DEF ServiceInv
  <2> QED
    BY <2>1, <2>2
<1> QED
  BY <1>1, <1>2, PTL DEF ServiceSpec

\* For any number of commands and of faults in each: an installation that fails and does
\* not say that its undoing failed too has changed nothing, unless the service stopped by
\* itself meanwhile; one that succeeds has started what it has written, and a removal
\* leaves nothing (install and uninstall of setup/systemd.rs).
THEOREM FailedInstallUndone == ServiceSpec => []ServiceUndone
  BY ServiceInvariant, PTL DEF ServiceInv

-----------------------------------------------------------------------------
(* BackendChoice and GuidedSetup *)

BackendFields == {"kind", "runtime", "device", "id", "library", "family", "model"}

\* What every command leaves of the two tables: the library is for the backend that is
\* named, but for a cloud.
Sane(b) ==
  /\ DOMAIN b = BackendFields /\ b.kind \in Kind /\ b.runtime \in Runtime
  /\ Shaped(b)
  /\ b.kind = "cloud" \/ b.library \in {NoLibrary, <<b.kind, b.runtime>>}

\* What is picked is picked page after page, and was on its page.
OnPages(picks) ==
  /\ picks \in [Tabs -> Nat]
  /\ \A t \in 1 .. 4 : picks[t] # Unpicked =>
       /\ t > 1 => picks[t - 1] # Unpicked
       /\ picks[t] \in Page(t, picks).enabled

\* Where the keys may be.
Cursor ==
  /\ screen \in {"closed", "loop", "keys", "apply", "applied"} /\ tab \in Tabs
  /\ screen = "closed" => tab = 1 /\ shown = 0 /\ choices = Fresh
  /\ screen = "loop" => shown # tab
  /\ screen = "keys" => shown = tab /\ (tab < Review => choices[tab] # Unpicked)
  /\ screen = "apply" => tab = Review
  /\ \A t \in 1 .. 3 : t < tab => choices[t] # Unpicked

\* What is shown last is what is chosen.
Agrees ==
  screen \in {"keys", "apply"} /\ tab = Review =>
    /\ choices[3] # Unpicked /\ choices[4] # Unpicked
    /\ reviewed = [runtime |-> RuntimeOf(choices), device |-> DeviceOf(choices),
                   model |-> Models[choices[3]], microphone |-> Microphones[choices[4]]]

SavedAsShown ==
  screen = "applied" =>
    [runtime |-> backend.runtime, device |-> backend.device, model |-> backend.model,
     microphone |-> microphone] = reviewed

GuidedInv ==
  /\ Sane(backend) /\ Sane(base) /\ SetupCoherent
  /\ OnPages(choices) /\ Cursor /\ Agrees /\ SavedAsShown

\* A model that is activated goes with the backend, the runtime and the device it gets.
Coherent(b) ==
  /\ Shaped(b)
  /\ CompatibleWith(b.model, b) /\ b.family = Family(b.model)
  /\ b.library \in {NoLibrary, <<b.kind, b.runtime>>}

-----------------------------------------------------------------------------
\* What is assumed of a catalog.
LEMMA CatalogFacts ==
  /\ \A m \in Model : BackendOf[m] \in {"audiocpp", "whispercpp", "openvino-genai"}
  /\ \A k \in {"audiocpp", "whispercpp", "openvino-genai"} : DefaultOf[k] \in Model /\ BackendOf[DefaultOf[k]] = k
  BY CatalogAssumption DEF CatalogAssumption, Kind

LEMMA ActivateCoherent ==
  ASSUME NEW b, Sane(b), NEW m \in Model
  PROVE  LET c == Activate(m, b) IN Sane(c) /\ Coherent(c) /\ c.model = m /\ c.kind = BackendOf[m]
<1> DEFINE kept == IF CompatibleWith(m, b) THEN b
              ELSE [b EXCEPT !.library = NoLibrary, !.device = "cpu", !.id = 0,
                             !.runtime = IF BackendOf[m] = "openvino-genai" THEN "openvino" ELSE "default"]
           c == [kept EXCEPT !.kind = BackendOf[m], !.family = Family(m), !.model = m]
<1>1. BackendOf[m] \in {"audiocpp", "whispercpp", "openvino-genai"}
  BY CatalogFacts
<1>2. /\ DOMAIN kept = BackendFields /\ kept.runtime \in Runtime
      /\ kept.runtime # "cuda" => kept.id = 0
      /\ Compatible(m, BackendOf[m], kept.runtime, kept.device)
      /\ kept.library \in {NoLibrary, <<BackendOf[m], kept.runtime>>}
  <2>1. CASE CompatibleWith(m, b)
    <3>1. kept = b
      BY <2>1
    <3>2. Compatible(m, b.kind, b.runtime, b.device) /\ b.kind = BackendOf[m]
      BY <2>1 DEF CompatibleWith, Compatible
    <3> HIDE DEF kept
    <3> QED
      BY <1>1, <3>1, <3>2 DEF Sane, Shaped
  <2>2. CASE ~CompatibleWith(m, b)
    <3>1. /\ kept.library = NoLibrary /\ kept.device = "cpu" /\ kept.id = 0 /\ DOMAIN kept = BackendFields
          /\ kept.runtime = IF BackendOf[m] = "openvino-genai" THEN "openvino" ELSE "default"
      BY <2>2 DEF Sane, BackendFields
    <3> HIDE DEF kept
    <3> QED
      BY <1>1, <3>1 DEF Compatible, Fits, Runtime
  <2> QED
    BY <2>1, <2>2
<1> HIDE DEF kept
<1>3. /\ DOMAIN c = BackendFields /\ c.kind = BackendOf[m] /\ c.family = Family(m) /\ c.model = m
      /\ c.runtime = kept.runtime /\ c.device = kept.device /\ c.id = kept.id /\ c.library = kept.library
  BY <1>2 DEF BackendFields
<1> HIDE DEF c
<1>4. Sane(c) /\ Coherent(c)
  BY <1>1, <1>2, <1>3 DEF Sane, Coherent, Shaped, Canonical, CompatibleWith, Compatible, Kind
<1> QED
  BY <1>3, <1>4 DEF Activate, kept, c

\* What a runtime is chosen with.
LEMMA CandidateSound ==
  ASSUME NEW b, Sane(b), NEW runtime \in Runtime, NEW device, NEW ids, NEW directory
  PROVE  LET c == RuntimeCandidate(b, runtime, device, ids, directory) IN
         /\ DOMAIN c = BackendFields
         /\ c.kind = KindFor(b, runtime) /\ c.kind \in {"audiocpp", "whispercpp", "openvino-genai"}
         /\ c.runtime = runtime /\ c.device = device
         /\ runtime # "cuda" => c.id = 0
         /\ c.library \in {NoLibrary, <<c.kind, c.runtime>>}
         /\ Selectable(b, runtime, device) =>
              CompatibleWith(c.model, c) /\ c.family = Family(c.model)
<1> DEFINE kind == KindFor(b, runtime)
           withModel == IF b.model \in Model /\ Compatible(b.model, kind, runtime, device) THEN b
                        ELSE Activate(DefaultOf[kind], b)
           cleared == IF withModel.kind # kind \/ withModel.runtime # runtime
                        THEN [withModel EXCEPT !.library = NoLibrary] ELSE withModel
           id == IF runtime # "cuda" THEN 0
                 ELSE IF ids # {} THEN CHOOSE n \in ids : TRUE
                 ELSE IF b.kind = kind /\ b.runtime = runtime THEN b.id ELSE 0
           chosen == [cleared EXCEPT !.kind = kind, !.runtime = runtime, !.device = device, !.id = id,
                        !.library = IF directory THEN <<kind, runtime>> ELSE @]
           family == IF kind = "audiocpp" THEN Family(SetupModelOf(chosen)) ELSE NoFamily
           c == [chosen EXCEPT !.family = family]
<1>1. kind \in {"audiocpp", "whispercpp", "openvino-genai"}
  BY DEF KindFor
<1>2. /\ DOMAIN withModel = BackendFields
      /\ withModel.kind = kind /\ withModel.runtime = runtime => withModel.library \in {NoLibrary, <<kind, runtime>>}
      /\ withModel.model \in Model /\ BackendOf[withModel.model] = kind
      /\ Selectable(b, runtime, device) => Compatible(withModel.model, kind, runtime, device)
  <2>1. CASE b.model \in Model /\ Compatible(b.model, kind, runtime, device)
    <3>1. withModel = b
      BY <2>1
    <3> HIDE DEF withModel
    <3> QED
      BY <1>1, <2>1, <3>1 DEF Sane, Compatible
  <2>2. CASE ~(b.model \in Model /\ Compatible(b.model, kind, runtime, device))
    <3>1. withModel = Activate(DefaultOf[kind], b)
      BY <2>2
    <3>2. DefaultOf[kind] \in Model /\ BackendOf[DefaultOf[kind]] = kind
      BY <1>1, CatalogFacts
    <3>3. Selectable(b, runtime, device) => Compatible(DefaultOf[kind], kind, runtime, device)
      BY DEF Selectable
    <3> HIDE DEF withModel, kind
    <3>4. Sane(withModel) /\ Coherent(withModel) /\ withModel.model = DefaultOf[kind]
      BY <3>1, <3>2, ActivateCoherent
    <3> QED
      BY <3>2, <3>3, <3>4 DEF Sane, Coherent
  <2> QED
    BY <2>1, <2>2
<1> HIDE DEF withModel
<1>3. /\ DOMAIN cleared = BackendFields /\ cleared.library \in {NoLibrary, <<kind, runtime>>}
      /\ cleared.model = withModel.model
  <2> HIDE DEF kind
  <2> QED
    BY <1>2 DEF BackendFields
<1> HIDE DEF cleared, id
<1>4. /\ DOMAIN chosen = BackendFields /\ chosen.kind = kind /\ chosen.runtime = runtime
      /\ chosen.device = device /\ chosen.id = id /\ chosen.model = withModel.model
      /\ chosen.library \in {NoLibrary, <<kind, runtime>>}
  <2> HIDE DEF kind
  <2> QED
    BY <1>3 DEF BackendFields
<1> HIDE DEF chosen, family
<1>5. /\ DOMAIN c = BackendFields /\ c.kind = kind /\ c.runtime = runtime
      /\ c.device = device /\ c.id = id /\ c.model = withModel.model
      /\ c.library \in {NoLibrary, <<kind, runtime>>} /\ c.family = family
  <2> HIDE DEF kind
  <2> QED
    BY <1>4 DEF BackendFields
<1> HIDE DEF c
<1>6. Selectable(b, runtime, device) => CompatibleWith(c.model, c) /\ c.family = Family(c.model)
  <2>1. ASSUME Selectable(b, runtime, device) PROVE CompatibleWith(chosen.model, chosen)
    BY <1>1, <1>2, <1>4, <2>1 DEF CompatibleWith
  <2>2. ASSUME Selectable(b, runtime, device) PROVE family = Family(chosen.model)
    BY <1>2, <1>4, <2>1, <2>2 DEF SetupModelOf, family, Family
  <2> QED
    BY <1>4, <1>5, <2>1, <2>2 DEF CompatibleWith
<1>7. runtime # "cuda" => id = 0
  BY DEF id
<1>8. c = RuntimeCandidate(b, runtime, device, ids, directory)
  BY DEF RuntimeCandidate, c, family, chosen, id, cleared, withModel
<1> HIDE DEF kind
<1> QED
  BY <1>1, <1>5, <1>6, <1>7, <1>8 DEF kind

\* One key that is set or unset.
LEMMA ChangedKeeps ==
  ASSUME NEW b, Sane(b), NEW c \in Changed(b)
  PROVE  /\ DOMAIN c = BackendFields /\ c.kind \in Kind /\ c.runtime \in Runtime
         /\ c.runtime = b.runtime => c.kind = "cloud" \/ c.library \in {NoLibrary, <<c.kind, c.runtime>>}
<1> USE DEF Sane, BackendFields
<1>1. CASE \E k \in Kind : c = [b EXCEPT !.kind = k, !.library = IF @ = NoLibrary THEN @ ELSE <<k, b.runtime>>]
  BY <1>1
<1>2. CASE \E r \in Runtime : c = [b EXCEPT !.runtime = r]
  BY <1>2
<1>3. CASE \E v : c = [b EXCEPT !.device = v] \/ c = [b EXCEPT !.id = v] \/ c = [b EXCEPT !.model = v]
                  \/ c = [b EXCEPT !.family = v]
  BY <1>3
<1>4. CASE \E l \in {NoLibrary, <<b.kind, b.runtime>>} : c = [b EXCEPT !.library = l]
  BY <1>4
<1> QED
  BY <1>1, <1>2, <1>3, <1>4 DEF Changed

\* Every command that edits the two tables.
LEMMA BackendKeeps ==
  ASSUME Sane(backend), BackendStep
  PROVE  Sane(backend') /\ SetupCoherent'
<1>1. CASE ConfigSet
  <2>1. PICK c \in Changed(backend) :
          LET mutated == IF c.runtime = backend.runtime THEN c
                         ELSE [c EXCEPT !.device = IF c.runtime = "openvino" THEN "cpu" ELSE "auto",
                                        !.library = NoLibrary, !.family = NoFamily, !.id = 0]
          IN Shaped(mutated) /\ Saves(mutated, "config")
    BY <1>1 DEF ConfigSet
  <2> DEFINE mutated == IF c.runtime = backend.runtime THEN c
                        ELSE [c EXCEPT !.device = IF c.runtime = "openvino" THEN "cpu" ELSE "auto",
                                       !.library = NoLibrary, !.family = NoFamily, !.id = 0]
  <2>2. /\ DOMAIN mutated = BackendFields /\ mutated.kind \in Kind /\ mutated.runtime \in Runtime
        /\ mutated.kind = "cloud" \/ mutated.library \in {NoLibrary, <<mutated.kind, mutated.runtime>>}
    <3>1. CASE c.runtime = backend.runtime
      BY <3>1, ChangedKeeps
    <3>2. CASE c.runtime # backend.runtime
      BY <3>2, ChangedKeeps DEF BackendFields
    <3> QED
      BY <3>1, <3>2
  <2>3. Shaped(mutated) /\ Saves(mutated, "config")
    BY <2>1
  <2> HIDE DEF mutated
  <2> QED
    BY <2>2, <2>3 DEF Saves, Sane, SetupCoherent
<1>2. CASE CloudConfigure
  <2> DEFINE c == [backend EXCEPT !.kind = "cloud", !.runtime = "default", !.device = "remote",
                                  !.id = 0, !.family = NoFamily]
  <2>1. DOMAIN c = BackendFields /\ c.kind = "cloud" /\ c.runtime = "default" /\ c.device = "remote" /\ c.id = 0
    BY DEF Sane, BackendFields
  <2>2. backend' = c /\ by' = "cloud"
    BY <1>2 DEF CloudConfigure, Saves
  <2> HIDE DEF c
  <2> QED
    BY <2>1, <2>2 DEF Sane, Shaped, Canonical, Kind, Runtime, SetupCoherent
<1>3. CASE SetupRuntime
  <2>1. PICK runtime \in Runtime, device \in Device, ids \in {{}, {0}, {1}}, directory \in BOOLEAN :
          /\ Selectable(backend, runtime, device)
          /\ LET c == RuntimeCandidate(backend, runtime, device, ids, directory) IN
             Shaped(c) /\ Saves(c, "setup")
    BY <1>3 DEF SetupRuntime
  <2> DEFINE c == RuntimeCandidate(backend, runtime, device, ids, directory)
  <2>2. backend' = c /\ Shaped(c)
    BY <2>1 DEF Saves
  <2>3. /\ DOMAIN c = BackendFields /\ c.kind \in {"audiocpp", "whispercpp", "openvino-genai"}
        /\ c.runtime = runtime /\ c.library \in {NoLibrary, <<c.kind, c.runtime>>}
        /\ CompatibleWith(c.model, c) /\ c.family = Family(c.model)
    BY <2>1, CandidateSound
  <2> HIDE DEF c
  <2> QED
    BY <2>2, <2>3 DEF Sane, SetupCoherent, Kind
<1>4. CASE SetupModel
  <2>1. PICK model \in Model : Saves(Activate(model, backend), "setup")
    BY <1>4 DEF SetupModel
  <2> QED
    BY <2>1, ActivateCoherent DEF Saves, SetupCoherent, Coherent
<1> QED
  BY <1>1, <1>2, <1>3, <1>4 DEF BackendStep

-----------------------------------------------------------------------------
\* The least of numbers is one of them.
LEMMA LeastIsOne == ASSUME NEW S, S \subseteq Nat, S # {} PROVE Min(S) \in S
<1>1. PICK n \in S : \A m \in S : ~(<<m, n>> \in OpToRel(<, Nat))
  BY NatLessThanWellFounded, WFMin
<1>2. \A m \in S : ~(m < n)
  BY <1>1, Zenon DEF OpToRel
<1>3. \A m \in S : n =< m
  BY <1>2
<1> QED
  BY <1>3 DEF Min

\* The pages.
LEMMA PagesOffer ==
  ASSUME NEW picks, picks \in [Tabs -> Nat], picks[1] \in 0 .. 3
  PROVE  /\ RuntimeOf(picks) \in Runtime
         /\ Len(Devices(picks)) \in Nat \ {0} /\ DOMAIN Devices(picks) = 1 .. Len(Devices(picks))
         /\ 1 \in DOMAIN Devices(picks)
         /\ Page(1, picks).enabled = 1 .. 3 /\ Page(1, picks).recommended \in 1 .. 3
         /\ Page(2, picks).enabled = DOMAIN Devices(picks) /\ Page(2, picks).recommended \in DOMAIN Devices(picks)
         /\ Page(3, picks).enabled = {i \in DOMAIN Models :
              Models[i] \in ready /\ Compatible(Models[i], CandidateOf(picks).kind, RuntimeOf(picks), DeviceOf(picks))}
         /\ Page(4, picks).enabled = DOMAIN Microphones
         /\ Page(Review, picks).enabled = {1}
<1>1. \A x : PositionOr(x, Runtimes, 1) \in 1 .. 3
  BY DEF PositionOr, Position, Runtimes
<1>2. RuntimeOf(picks) \in Runtime
  BY <1>1 DEF RuntimeOf, InitialRuntime, Runtimes, Runtime, Unpicked
<1>3. /\ Len(Devices(picks)) \in Nat \ {0} /\ DOMAIN Devices(picks) = 1 .. Len(Devices(picks))
      /\ 1 \in DOMAIN Devices(picks)
  <2>1. /\ RuntimeOf(picks) = "default" => Devices(picks) = <<"cpu">>
        /\ RuntimeOf(picks) = "openvino" => Devices(picks) = <<"npu", "gpu", "cpu">>
        /\ RuntimeOf(picks) = "cuda" => Devices(picks) = <<"auto", "gpu">>
    BY DEF Devices, DevicesOf
  <2>2. Devices(picks) \in {<<"cpu">>, <<"npu", "gpu", "cpu">>, <<"auto", "gpu">>}
    BY <1>2, <2>1 DEF Runtime
  <2>3. \A s \in {<<"cpu">>, <<"npu", "gpu", "cpu">>, <<"auto", "gpu">>} :
          Len(s) \in Nat \ {0} /\ DOMAIN s = 1 .. Len(s) /\ 1 \in DOMAIN s
    OBVIOUS
  <2> QED
    BY <2>2, <2>3
<1>4. \A x : PositionOr(x, Devices(picks), 1) \in DOMAIN Devices(picks)
  BY <1>3 DEF PositionOr, Position
<1>5. Page(1, picks) = RuntimePage /\ Page(2, picks) = DevicePage(picks) /\ Page(3, picks) = ModelPage(picks)
      /\ Page(4, picks) = MicrophonePage /\ Page(Review, picks) = ReviewPage
  BY DEF Page, Review
<1>6. RuntimePage.enabled = 1 .. 3 /\ RuntimePage.recommended \in 1 .. 3
  BY <1>1 DEF RuntimePage, Runtimes
<1>7. DevicePage(picks).enabled = 1 .. Len(Devices(picks)) /\ DevicePage(picks).recommended \in DOMAIN Devices(picks)
  BY <1>4 DEF DevicePage
<1>8. ModelPage(picks).enabled = {i \in DOMAIN Models :
              Models[i] \in ready /\ Compatible(Models[i], CandidateOf(picks).kind, RuntimeOf(picks), DeviceOf(picks))}
  BY DEF ModelPage
<1>9. MicrophonePage.enabled = DOMAIN Microphones /\ ReviewPage.enabled = {1}
  BY MenuAssumption DEF MicrophonePage, ReviewPage
<1> QED
  BY <1>2, <1>3, <1>5, <1>6, <1>7, <1>8, <1>9

\* Without the picks of a page and of those after it the page is the same.
LEMMA PageLooksBack ==
  ASSUME NEW p, NEW q, NEW t \in Tabs, \A s \in 1 .. 2 : s < t => p[s] = q[s]
  PROVE  Page(t, p) = Page(t, q)
<1>1. t > 1 => Devices(p) = Devices(q) /\ RuntimeOf(p) = RuntimeOf(q)
  BY DEF Devices, RuntimeOf, Tabs
<1>2. t > 2 => DeviceOf(p) = DeviceOf(q) /\ CandidateOf(p) = CandidateOf(q)
  <2>1. t > 2 => DeviceIndex(p) = DeviceIndex(q)
    BY DEF DeviceIndex, Tabs
  <2>2. t > 2 => DeviceOf(p) = DeviceOf(q)
    BY <1>1, <2>1 DEF DeviceOf, Tabs
  <2>3. RuntimeOf(p) = RuntimeOf(q) /\ DeviceOf(p) = DeviceOf(q) => CandidateOf(p) = CandidateOf(q)
    BY Zenon DEF CandidateOf
  <2> QED
    BY <1>1, <2>2, <2>3 DEF Tabs
<1>3. t = 2 => DevicePage(p) = DevicePage(q)
  BY <1>1 DEF DevicePage
<1>4. t = 3 => ModelPage(p) = ModelPage(q)
  BY <1>1, <1>2 DEF ModelPage
<1> QED
  BY <1>3, <1>4 DEF Page, Tabs, Review

\* Of a page one item is picked, and of the pages after it none, or none has changed.
LEMMA Repicked ==
  ASSUME NEW p, OnPages(p), NEW q \in [Tabs -> Nat], NEW t \in Tabs,
         t > 1 => p[t - 1] # Unpicked,
         t < Review => q[t] \in Page(t, p).enabled,
         \A s \in 1 .. 4 : s < t => q[s] = p[s],
         (\A s \in 1 .. 4 : s > t => q[s] = Unpicked) \/ (\A s \in 1 .. 4 : q[s] = p[s])
  PROVE  OnPages(q)
<1>1. ASSUME NEW u \in 1 .. 4, q[u] # Unpicked
      PROVE (u > 1 => q[u - 1] # Unpicked) /\ q[u] \in Page(u, q).enabled
  <2>1. CASE u < t \/ (\A s \in 1 .. 4 : q[s] = p[s])
    <3>1. q[u] = p[u] /\ (u > 1 => q[u - 1] = p[u - 1])
      BY <2>1 DEF Tabs
    <3>2. Page(u, p) = Page(u, q)
      <4>1. \A s \in 1 .. 2 : s < u => p[s] = q[s]
        BY <2>1 DEF Tabs
      <4>2. u \in Tabs
        BY DEF Tabs
      <4> QED
        BY <4>1, <4>2, PageLooksBack
    <3> QED
      BY <1>1, <3>1, <3>2 DEF OnPages
  <2>2. CASE u = t
    <3>1. Page(u, p) = Page(u, q)
      <4>1. \A s \in 1 .. 2 : s < u => p[s] = q[s]
        BY <2>2 DEF Tabs
      <4> QED
        BY <2>2, <4>1, PageLooksBack
    <3>2. u > 1 => q[u - 1] = p[u - 1]
      BY <2>2
    <3> QED
      BY <2>2, <3>1, <3>2 DEF Review
  <2>3. CASE u > t /\ ~(\A s \in 1 .. 4 : q[s] = p[s])
    BY <1>1, <2>3
  <2> QED
    BY <2>1, <2>2, <2>3 DEF Tabs
<1> QED
  BY <1>1 DEF OnPages

\* The runtime that is picked.
LEMMA FirstPick == ASSUME NEW p, OnPages(p) PROVE p \in [Tabs -> Nat] /\ p[1] \in 0 .. 3
<1>1. p \in [Tabs -> Nat] /\ (p[1] # Unpicked => p[1] \in Page(1, p).enabled)
  BY DEF OnPages
<1>2. Page(1, p).enabled = 1 .. 3
  <2>1. Len(Runtimes) = 3
    BY DEF Runtimes
  <2>2. Page(1, p) = RuntimePage
    BY DEF Page, Review
  <2> QED
    BY <2>1, <2>2 DEF RuntimePage
<1> QED
  BY <1>1, <1>2 DEF Tabs, Unpicked

\* What is enabled of a page are items of it.
LEMMA EnabledItems ==
  ASSUME NEW p, OnPages(p), NEW t \in Tabs
  PROVE  Page(t, p).enabled \subseteq Nat \ {0}
<1>1. DOMAIN Models \subseteq Nat \ {0} /\ DOMAIN Microphones \subseteq Nat \ {0}
  BY MenuAssumption
<1>2. Page(3, p).enabled \subseteq DOMAIN Models
  BY FirstPick, PagesOffer
<1> QED
  BY <1>1, <1>2, FirstPick, PagesOffer, SMTT(20) DEF Tabs, Review

\* The device that is picked is one of the runtime's.
LEMMA DeviceFits ==
  ASSUME NEW p, OnPages(p)
  PROVE  RuntimeOf(p) \in Runtime /\ DeviceIndex(p) \in DOMAIN Devices(p)
<1>1. p[2] # Unpicked => p[2] \in Page(2, p).enabled
  BY DEF OnPages
<1> QED
  BY <1>1, FirstPick, PagesOffer DEF DeviceIndex

\* While nothing else of the screen changes the pages are the same.
LEMMA SamePages ==
  ASSUME UNCHANGED <<base, saved, advice, ready>>, NEW p, choices' = p
  PROVE  /\ OnPages(p) <=> OnPages(choices)'
         /\ RuntimeOf(choices)' = RuntimeOf(p) /\ DeviceOf(choices)' = DeviceOf(p)
  BY DEF OnPages, Page, RuntimePage, DevicePage, ModelPage, MicrophonePage, ReviewPage,
         RuntimeOf, InitialRuntime, Devices, DeviceOf, DeviceIndex, CandidateOf, Advised

\* A closed screen.
LEMMA CloseKeeps ==
  ASSUME GuidedInv, Close, UNCHANGED <<backend, by>>
  PROVE  GuidedInv'
<1>1. /\ screen' = "closed" /\ tab' = 1 /\ shown' = 0 /\ choices' = Fresh /\ base' = DefaultBackend
  BY DEF Close
<1>2. OnPages(choices)'
  BY <1>1 DEF OnPages, Fresh, Unpicked, Tabs
<1>3. Sane(DefaultBackend)
  BY DEF Sane, DefaultBackend, BackendFields, Shaped, Canonical, Fits, Kind, Runtime
<1>4. Cursor' /\ Agrees' /\ SavedAsShown'
  BY <1>1 DEF Cursor, Agrees, SavedAsShown, Fresh, Tabs
<1> QED
  BY <1>1, <1>2, <1>3, <1>4 DEF GuidedInv, SetupCoherent

\* The actions of the screen.
LEMMA OpenKeeps == ASSUME GuidedInv, Open PROVE GuidedInv'
<1>1. /\ screen = "closed" /\ screen' = "loop" /\ base' = backend
      /\ UNCHANGED <<backend, by, tab, shown, choices>>
  BY DEF Open, backendVars
<1>2. tab = 1 /\ shown = 0 /\ choices = Fresh
  BY <1>1 DEF GuidedInv, Cursor
<1>3. OnPages(choices)'
  BY <1>1, <1>2 DEF OnPages, Fresh, Unpicked, Tabs
<1>4. Cursor' /\ Agrees' /\ SavedAsShown'
  BY <1>1, <1>2 DEF Cursor, Agrees, SavedAsShown, Tabs
<1> QED
  BY <1>1, <1>3, <1>4 DEF GuidedInv, SetupCoherent

LEMMA ShowKeeps == ASSUME GuidedInv, Show PROVE GuidedInv'
<1> DEFINE page == Page(tab, choices)
           on == IF choices[tab] \in page.enabled THEN choices[tab]
                 ELSE IF page.preferred \in page.enabled THEN page.preferred ELSE Min(page.enabled)
<1>1. /\ screen = "loop" /\ shown # tab /\ tab \in Tabs /\ OnPages(choices)
      /\ \A t \in 1 .. 3 : t < tab => choices[t] # Unpicked
  BY DEF GuidedInv, Cursor, Show
<1>2. /\ page.enabled # {} /\ screen' = "keys" /\ shown' = tab
      /\ choices' = IF tab < Review /\ choices[tab] = Unpicked THEN [choices EXCEPT ![tab] = on] ELSE choices
      /\ tab = Review => reviewed' = [runtime |-> RuntimeOf(choices), device |-> DeviceOf(choices),
                                      model |-> Models[choices[3]], microphone |-> Microphones[choices[4]]]
      /\ tab = Review => choices[3] # Unpicked /\ choices[4] # Unpicked
      /\ UNCHANGED <<backend, by, tab, base, saved, advice, ready, microphone>>
  BY <1>1 DEF Show, Entered, Renders, backendVars
<1>3. on \in page.enabled /\ on \in Nat \ {0}
  BY <1>1, <1>2, EnabledItems, LeastIsOne
<1> HIDE DEF on, page
<1>4. choices \in [Tabs -> Nat]
  BY <1>1 DEF OnPages
<1>5. OnPages(choices')
  <2>1. CASE tab < Review /\ choices[tab] = Unpicked
    <3>1. choices' = [choices EXCEPT ![tab] = on]
      BY <1>2, <2>1
    <3>2. choices' \in [Tabs -> Nat] /\ choices'[tab] = on /\ \A s \in Tabs \ {tab} : choices'[s] = choices[s]
      BY <1>1, <1>3, <1>4, <3>1
    <3>3. \A s \in 1 .. 4 : s > tab => choices[s] = Unpicked
      BY <1>1, <2>1 DEF OnPages, Tabs
    <3>4. tab > 1 => choices[tab - 1] # Unpicked
      BY <1>1, <2>1 DEF Tabs, Review
    <3>5. /\ \A s \in 1 .. 4 : s < tab => choices'[s] = choices[s]
          /\ \A s \in 1 .. 4 : s > tab => choices'[s] = Unpicked
      BY <3>2, <3>3 DEF Tabs
    <3> QED
      BY <1>1, <1>3, <3>2, <3>4, <3>5, Repicked DEF page
  <2>2. CASE ~(tab < Review /\ choices[tab] = Unpicked)
    BY <1>1, <1>2, <2>2
  <2> QED
    BY <2>1, <2>2
<1>6. /\ OnPages(choices)'
      /\ RuntimeOf(choices)' = RuntimeOf(choices') /\ DeviceOf(choices)' = DeviceOf(choices')
  BY <1>2, <1>5, SamePages
<1>7. Cursor'
  <2>1. \A s \in 1 .. 4 : choices[s] # Unpicked => choices'[s] # Unpicked
    BY <1>1, <1>2, <1>3, <1>4 DEF Tabs, Unpicked
  <2>2. tab < Review => choices'[tab] # Unpicked
    BY <1>1, <1>2, <1>3, <1>4 DEF Unpicked
  <2> QED
    BY <1>1, <1>2, <2>1, <2>2 DEF Cursor
<1>8. Agrees' /\ SavedAsShown'
  <2>1. ASSUME tab = Review PROVE Agrees'
    <3>1. choices' = choices
      BY <1>2, <2>1 DEF Review
    <3> QED
      BY <1>2, <1>6, <2>1, <3>1 DEF Agrees
  <2> QED
    BY <1>2, <2>1 DEF Agrees, SavedAsShown
<1> QED
  BY <1>2, <1>6, <1>7, <1>8 DEF GuidedInv, SetupCoherent

LEMMA MoveKeeps == ASSUME GuidedInv, Move \/ Finish PROVE GuidedInv'
<1>1. /\ screen = "keys" /\ screen' \in {"keys", "apply"} /\ (screen' = "apply" => tab = Review)
      /\ UNCHANGED <<backend, by, tab, shown, choices, base, saved, advice, ready, microphone, reviewed>>
  BY DEF GuidedInv, Cursor, Move, Finish, Pressed, backendVars
<1>2. OnPages(choices)' /\ RuntimeOf(choices)' = RuntimeOf(choices) /\ DeviceOf(choices)' = DeviceOf(choices)
  BY <1>1, SamePages DEF GuidedInv
<1>3. Cursor' /\ Agrees' /\ SavedAsShown'
  BY <1>1, <1>2 DEF GuidedInv, Cursor, Agrees, SavedAsShown
<1> QED
  BY <1>1, <1>2, <1>3 DEF GuidedInv, SetupCoherent

LEMMA SpaceKeepsPages == ASSUME GuidedInv, Space PROVE GuidedInv'
<1>1. /\ screen = "keys" /\ screen' = "keys" /\ hover \in Page(tab, choices).enabled
      /\ choices' = [t \in Tabs |-> IF t = tab THEN hover
                                    ELSE IF t > tab /\ choices[tab] # hover THEN Unpicked ELSE choices[t]]
      /\ UNCHANGED <<backend, by, tab, shown, base, saved, advice, ready, microphone, reviewed>>
  BY DEF GuidedInv, Cursor, Space, Pressed, backendVars
<1>2. /\ tab \in Tabs /\ shown = tab /\ OnPages(choices)
      /\ \A t \in 1 .. 3 : t < tab => choices[t] # Unpicked
  BY <1>1 DEF GuidedInv, Cursor
<1>3. hover \in Nat \ {0} /\ choices \in [Tabs -> Nat]
  BY <1>1, <1>2, EnabledItems DEF OnPages
<1>4. /\ choices' \in [Tabs -> Nat] /\ choices'[tab] = hover
      /\ \A s \in Tabs : s < tab => choices'[s] = choices[s]
      /\ (\A s \in Tabs : s > tab => choices'[s] = Unpicked) \/ (\A s \in Tabs : choices'[s] = choices[s])
  BY <1>1, <1>2, <1>3 DEF Tabs, Unpicked
<1>5. tab > 1 => choices[tab - 1] # Unpicked
  BY <1>1, <1>2 DEF GuidedInv, Agrees, Tabs, Review
<1>6. OnPages(choices')
  <2>1. /\ \A s \in 1 .. 4 : s < tab => choices'[s] = choices[s]
        /\ (\A s \in 1 .. 4 : s > tab => choices'[s] = Unpicked) \/ (\A s \in 1 .. 4 : choices'[s] = choices[s])
    BY <1>4 DEF Tabs
  <2>2. tab < Review => choices'[tab] \in Page(tab, choices).enabled
    BY <1>1, <1>4
  <2> QED
    BY <1>2, <1>4, <1>5, <2>1, <2>2, Repicked
<1>7. /\ OnPages(choices)'
      /\ RuntimeOf(choices)' = RuntimeOf(choices') /\ DeviceOf(choices)' = DeviceOf(choices')
  BY <1>1, <1>6, SamePages
<1>8. Cursor'
  BY <1>1, <1>2, <1>3, <1>4 DEF Cursor, Tabs, Unpicked
<1>9. Agrees'
  <2>1. ASSUME tab = Review PROVE Agrees'
    <3>1. \A s \in 1 .. 4 : choices'[s] = choices[s]
      BY <1>4, <2>1 DEF Tabs, Review
    <3>2. RuntimeOf(choices') = RuntimeOf(choices) /\ DeviceOf(choices') = DeviceOf(choices)
      BY <3>1 DEF RuntimeOf, DeviceOf, DeviceIndex, Devices
    <3> QED
      BY <1>1, <1>7, <2>1, <3>1, <3>2 DEF GuidedInv, Agrees
  <2> QED
    BY <1>1, <2>1 DEF Agrees
<1> QED
  BY <1>1, <1>7, <1>8, <1>9 DEF GuidedInv, SetupCoherent, SavedAsShown

LEMMA TurnKeeps == ASSUME GuidedInv, Turn PROVE GuidedInv'
<1>1. /\ screen = "keys" /\ shown = tab /\ tab \in Tabs
      /\ tab' \in Tabs /\ tab' # tab /\ tab' =< tab + 1 /\ (tab' > tab => choices[tab] # Unpicked)
      /\ screen' = IF shown' = tab' THEN "keys" ELSE "loop"
      /\ UNCHANGED <<backend, by, shown, choices, base, saved, advice, ready, microphone, reviewed>>
  BY DEF GuidedInv, Cursor, Turn, Pressed, backendVars, Tabs, Review
<1>2. screen' = "loop" /\ shown' # tab'
  BY <1>1
<1>3. OnPages(choices)'
  BY <1>1, SamePages DEF GuidedInv
<1>4. Cursor' /\ Agrees' /\ SavedAsShown'
  BY <1>1, <1>2 DEF GuidedInv, Cursor, Agrees, SavedAsShown, Tabs
<1> QED
  BY <1>1, <1>3, <1>4 DEF GuidedInv, SetupCoherent

\* The recommendation of a page is an item of it.
LEMMA RecommendedKeeps ==
  ASSUME NEW p, OnPages(p), NEW t \in 1 .. 4, t > 1 => p[t - 1] # Unpicked,
         \A s \in 1 .. 4 : s >= t => p[s] = Unpicked
  PROVE  LET q == Recommended(t, p) IN
         /\ OnPages(q) /\ \A s \in 1 .. 4 : s # t => q[s] = p[s]
         /\ t < 3 => q[t] # Unpicked
<1> DEFINE page == Page(t, p)
           on == IF page.recommended \in page.enabled THEN page.recommended
                 ELSE IF page.enabled = {} THEN Unpicked ELSE Min(page.enabled)
           q == [p EXCEPT ![t] = on]
<1>1. t \in Tabs /\ t < Review /\ p \in [Tabs -> Nat] /\ page.enabled \subseteq Nat \ {0}
  BY EnabledItems DEF OnPages, Tabs, Review
<1>2. on \in page.enabled \/ on = Unpicked
  BY <1>1, LeastIsOne
<1>3. t < 3 => on \in page.enabled
  BY FirstPick, PagesOffer
<1> HIDE DEF on, page
<1>4. q \in [Tabs -> Nat] /\ q[t] = on /\ \A s \in Tabs : s # t => q[s] = p[s]
  BY <1>1, <1>2 DEF Unpicked
<1>5. \A s \in 1 .. 4 : s # t => q[s] = p[s]
  BY <1>4 DEF Tabs
<1>6. OnPages(q)
  <2>1. CASE on = Unpicked
    <3>1. \A s \in 1 .. 4 : q[s] = p[s]
      BY <1>4, <1>5, <2>1
    <3> HIDE DEF q
    <3>2. ASSUME NEW u \in 1 .. 4 PROVE Page(u, q) = Page(u, p)
      BY <3>1, PageLooksBack DEF Tabs
    <3> QED
      BY <1>4, <3>1, <3>2 DEF OnPages
  <2>2. CASE on \in page.enabled
    <3> HIDE DEF q
    <3>1. /\ \A s \in 1 .. 4 : s < t => q[s] = p[s]
          /\ \A s \in 1 .. 4 : s > t => q[s] = Unpicked
      BY <1>5
    <3> QED
      BY <1>1, <1>4, <2>2, <3>1, Repicked DEF page
  <2> QED
    BY <1>2, <2>1, <2>2
<1>7. q = Recommended(t, p)
  BY DEF Recommended, Best, on, page
<1>8. t < 3 => q[t] # Unpicked
  BY <1>1, <1>3, <1>4 DEF Unpicked
<1> HIDE DEF q
<1> QED
  BY <1>5, <1>6, <1>7, <1>8

\* The recommendations, page after page.
PageAt(t, f) == IF t = 0 THEN Fresh ELSE Recommended(t, f[t - 1])

LEMMA DefaultsInTurn ==
  Defaults = Recommended(4, Recommended(3, Recommended(2, Recommended(1, Fresh))))
<1> DEFINE r1 == Recommended(1, Fresh)
           r2 == Recommended(2, r1)
           r3 == Recommended(3, r2)
           r4 == Recommended(4, r3)
           Pages == 0 .. 4
           IsFilled(f) == f = [t \in Pages |-> PageAt(t, f)]
           g == [t \in Pages |-> IF t = 0 THEN Fresh ELSE IF t = 1 THEN r1 ELSE IF t = 2 THEN r2
                                ELSE IF t = 3 THEN r3 ELSE r4]
           f == CHOOSE f : IsFilled(f)
<1>1. ASSUME NEW t \in Pages PROVE PageAt(t, g) = g[t]
  <2>1. /\ g[0] = Fresh /\ g[1] = r1 /\ g[2] = r2 /\ g[3] = r3 /\ g[4] = r4
        /\ 4 - 1 = 3 /\ 3 - 1 = 2 /\ 2 - 1 = 1 /\ 1 - 1 = 0
    OBVIOUS
  <2> HIDE DEF g
  <2>2. t = 0 \/ t = 1 \/ t = 2 \/ t = 3 \/ t = 4
    OBVIOUS
  <2> QED
    BY <2>1, <2>2 DEF PageAt
<1>2. IsFilled(g)
  BY <1>1
<1> HIDE DEF g
<1>3. IsFilled(f)
  BY <1>2
<1>4. Defaults = f[4]
  BY DEF Defaults, PageAt
<1> HIDE DEF f
<1>5. \A t \in Pages : f[t] = PageAt(t, f)
  BY <1>3
<1>6. f[0] = Fresh
  BY <1>5 DEF PageAt
<1>7. f[1] = r1
  BY <1>5, <1>6 DEF PageAt
<1>8. f[2] = r2
  BY <1>5, <1>7 DEF PageAt
<1>9. f[3] = r3
  BY <1>5, <1>8 DEF PageAt
<1>10. f[4] = r4
  BY <1>5, <1>9 DEF PageAt
<1> QED
  BY <1>4, <1>10

\* All the recommendations at once.
LEMMA RecommendKeeps == ASSUME GuidedInv, Recommend PROVE GuidedInv'
<1> DEFINE r1 == Recommended(1, Fresh)
           r2 == Recommended(2, r1)
           r3 == Recommended(3, r2)
           r4 == Recommended(4, r3)
<1>1. OnPages(Fresh) /\ \A s \in 1 .. 4 : Fresh[s] = Unpicked
  BY DEF OnPages, Fresh, Unpicked, Tabs
<1>2. Defaults = r4
  BY DefaultsInTurn
<1>3. OnPages(r1) /\ r1[1] # Unpicked /\ r1[2] = Unpicked /\ r1[3] = Unpicked /\ r1[4] = Unpicked
  BY <1>1, RecommendedKeeps
<1> HIDE DEF r1
<1>4. OnPages(r2) /\ r2[1] # Unpicked /\ r2[2] # Unpicked /\ r2[3] = Unpicked /\ r2[4] = Unpicked
  <2>1. \A s \in 1 .. 4 : s >= 2 => r1[s] = Unpicked
    BY <1>3
  <2> QED
    BY <1>3, <2>1, RecommendedKeeps
<1> HIDE DEF r2
<1>5. OnPages(r3) /\ r3[1] # Unpicked /\ r3[2] # Unpicked /\ r3[4] = Unpicked
  <2>1. \A s \in 1 .. 4 : s >= 3 => r2[s] = Unpicked
    BY <1>4
  <2> QED
    BY <1>4, <2>1, RecommendedKeeps
<1> HIDE DEF r3
<1>6. CASE Defaults[3] = Unpicked
  <2>1. Close /\ UNCHANGED <<backend, by>>
    BY <1>6 DEF Recommend, backendVars
  <2> QED
    BY <2>1, CloseKeeps
<1>7. CASE Defaults[3] # Unpicked
  <2>1. r4[3] = r3[3]
    BY DEF Recommended
  <2>2. r3[3] # Unpicked
    BY <1>2, <1>7, <2>1
  <2>3. OnPages(r4) /\ r4[1] # Unpicked /\ r4[2] # Unpicked /\ r4[3] # Unpicked
    <3>1. \A s \in 1 .. 4 : s >= 4 => r3[s] = Unpicked
      BY <1>5
    <3> QED
      BY <1>5, <2>2, <3>1, RecommendedKeeps
  <2> HIDE DEF r4
  <2>4. /\ screen = "keys" /\ shown' = 0 /\ tab' = Review /\ choices' = r4
        /\ screen' = IF shown' = tab' THEN "keys" ELSE "loop"
        /\ UNCHANGED <<backend, by, base, saved, advice, ready, microphone, reviewed>>
    BY <1>2, <1>7 DEF Recommend, Pressed, backendVars
  <2>5. screen' = "loop"
    BY <2>4 DEF Review
  <2>6. OnPages(choices)'
    BY <2>3, <2>4, SamePages
  <2>7. Cursor' /\ Agrees' /\ SavedAsShown'
    BY <2>3, <2>4, <2>5 DEF Cursor, Agrees, SavedAsShown, Tabs, Review
  <2> QED
    BY <2>4, <2>6, <2>7 DEF GuidedInv, SetupCoherent
<1> QED
  BY <1>6, <1>7

\* What is applied was on its page for the device and the runtime that are picked.
LEMMA ApplyKeeps == ASSUME GuidedInv, Apply PROVE GuidedInv'
<1>1. CASE Close /\ UNCHANGED <<backendVars, microphone>>
  BY <1>1, CloseKeeps DEF backendVars
<1>2. CASE /\ Saves(Applied, "setup") /\ microphone' = Microphones[Returned[4]]
           /\ screen' = "applied" /\ UNCHANGED <<tab, hover, shown, choices, base, saved, advice, ready, reviewed, backs>>
  <2>1. /\ tab = Review /\ choices[3] # Unpicked
        /\ reviewed = [runtime |-> RuntimeOf(choices), device |-> DeviceOf(choices),
                       model |-> Models[choices[3]], microphone |-> Microphones[choices[4]]]
        /\ OnPages(choices) /\ choices \in [Tabs -> Nat] /\ Sane(base) /\ choices[4] # Unpicked
    BY DEF Apply, GuidedInv, Cursor, Agrees, OnPages
  <2> DEFINE b == CandidateOf(choices)
             m == Models[choices[3]]
  <2>2. m \in Model /\ Compatible(m, b.kind, RuntimeOf(choices), DeviceOf(choices))
    <3>1. choices[3] \in Page(3, choices).enabled
      BY <2>1 DEF OnPages
    <3> QED
      BY <2>1, <3>1, FirstPick, PagesOffer, MenuAssumption
  <2>3. /\ DOMAIN b = BackendFields /\ b.kind \in {"audiocpp", "whispercpp", "openvino-genai"}
        /\ b.runtime = RuntimeOf(choices) /\ b.runtime \in Runtime /\ b.device = DeviceOf(choices)
        /\ b.runtime # "cuda" => b.id = 0
        /\ b.library \in {NoLibrary, <<b.kind, b.runtime>>}
    <3>1. RuntimeOf(choices) \in Runtime
      BY <2>1, DeviceFits
    <3>2. PICK ids, directory : b = RuntimeCandidate(base, RuntimeOf(choices), DeviceOf(choices), ids, directory)
      BY Zenon DEF CandidateOf
    <3> HIDE DEF b
    <3> QED
      BY <2>1, <3>1, <3>2, CandidateSound
  <2> HIDE DEF b, m
  <2>4. CompatibleWith(m, b)
    BY <2>2, <2>3 DEF CompatibleWith
  <2>5. Sane(b)
    BY <2>2, <2>3 DEF Sane, Shaped, Canonical, Compatible, Kind
  <2>6. /\ backend' = Activate(m, b) /\ by' = "setup" /\ microphone' = Microphones[choices[4]]
    <3>1. \A t \in 1 .. 4 : choices[t] # Unpicked
      BY <2>1 DEF GuidedInv, Cursor, Review
    <3>2. Returned[1] = choices[1] /\ Returned[2] = choices[2] /\ Returned[3] = choices[3] /\ Returned[4] = choices[4]
      BY <3>1 DEF Returned, Tabs
    <3>3. CandidateOf(Returned) = b
      BY <3>2 DEF CandidateOf, RuntimeOf, DeviceOf, DeviceIndex, Devices, b
    <3> QED
      BY <1>2, <3>2, <3>3 DEF Saves, Applied, m
  <2>7. Sane(backend') /\ Coherent(backend') /\ backend'.model = m
    BY <2>2, <2>5, <2>6, ActivateCoherent
  <2>8. backend'.runtime = b.runtime /\ backend'.device = b.device
    <3>1. Activate(m, b) = [b EXCEPT !.kind = BackendOf[m], !.family = Family(m), !.model = m]
      BY <2>4 DEF Activate
    <3> QED
      BY <2>3, <2>6, <3>1 DEF BackendFields
  <2>9. OnPages(choices)'
    BY <1>2, <2>1, SamePages
  <2>10. Cursor' /\ Agrees' /\ SavedAsShown'
    BY <1>2, <2>1, <2>3, <2>6, <2>7, <2>8 DEF GuidedInv, Cursor, Agrees, SavedAsShown, m
  <2> QED
    BY <1>2, <2>6, <2>7, <2>9, <2>10 DEF GuidedInv, SetupCoherent, Coherent
<1> QED
  BY <1>1, <1>2 DEF Apply

\* The configuration that nobody has written.
LEMMA GuidedInitially == ASSUME GuidedInit PROVE GuidedInv
<1>1. /\ backend = DefaultBackend /\ base = DefaultBackend /\ by = "nobody"
      /\ screen = "closed" /\ tab = 1 /\ shown = 0 /\ choices = Fresh
  BY DEF GuidedInit, BackendInit, Closed
<1>2. Sane(DefaultBackend)
  BY DEF Sane, DefaultBackend, BackendFields, Shaped, Canonical, Fits, Kind, Runtime
<1>3. OnPages(choices)
  BY <1>1 DEF OnPages, Fresh, Unpicked, Tabs
<1> QED
  BY <1>1, <1>2, <1>3 DEF GuidedInv, SetupCoherent, Cursor, Agrees, SavedAsShown, Fresh, Tabs

\* A command beside the screen.
LEMMA CommandKeeps ==
  ASSUME GuidedInv, screen = "closed", BackendStep, UNCHANGED <<screenVars, microphone>>
  PROVE  GuidedInv'
<1>1. UNCHANGED <<screen, tab, shown, choices, base, saved, advice, ready, reviewed>>
  BY DEF screenVars
<1>2. Sane(backend') /\ SetupCoherent'
  BY BackendKeeps DEF GuidedInv
<1>3. OnPages(choices)'
  BY <1>1, SamePages DEF GuidedInv
<1> QED
  BY <1>1, <1>2, <1>3 DEF GuidedInv, Cursor, Agrees, SavedAsShown

\* However the keys went and whatever commands came between: what is picked on a page was
\* offered by it in view of what is picked before, and what the last page shows is what
\* is picked (sync, handle and review_defaults of setup/tabbed.rs).
THEOREM GuidedInvariant == GuidedSpec => []GuidedInv
<1>1. GuidedInv /\ [GuidedStep]_guidedVars => GuidedInv'
  <2>1. ASSUME GuidedInv, Unshown \/ Cancel \/ Leave PROVE GuidedInv'
    BY <2>1, CloseKeeps DEF Unshown, Cancel, Leave, backendVars
  <2>2. ASSUME GuidedInv, GuidedStep PROVE GuidedInv'
    BY <2>1, <2>2, OpenKeeps, ShowKeeps, MoveKeeps, SpaceKeepsPages, TurnKeeps, RecommendKeeps, ApplyKeeps,
       CommandKeeps DEF GuidedStep
  <2>3. ASSUME GuidedInv, UNCHANGED guidedVars PROVE GuidedInv'
    <3>1. UNCHANGED <<backend, by, screen, tab, shown, choices, base, saved, advice, ready, reviewed, microphone>>
      BY <2>3 DEF guidedVars, screenVars, backendVars
    <3>2. OnPages(choices)' /\ RuntimeOf(choices)' = RuntimeOf(choices) /\ DeviceOf(choices)' = DeviceOf(choices)
      BY <2>3, <3>1, SamePages DEF GuidedInv
    <3> QED
      BY <2>3, <3>1, <3>2 DEF GuidedInv, Cursor, Agrees, SavedAsShown, SetupCoherent
  <2> QED
    BY <2>2, <2>3
<1> QED
  BY <1>1, GuidedInitially, PTL DEF GuidedSpec

\* For any catalog and any microphones: what a setup saves is what its last page has
\* shown, its device is one of the runtime's, and backend, model, family and library fit
\* together, after any edits of the configuration (guided_tabbed_setup, activate,
\* runtime_selection_candidate).
THEOREM SavedWasReviewed == GuidedSpec => []ReviewedIsSaved
<1>1. GuidedInv => ReviewedIsSaved
  BY DeviceFits DEF GuidedInv, SavedAsShown, ReviewedIsSaved
<1> QED
  BY <1>1, GuidedInvariant, PTL

-----------------------------------------------------------------------------
(* WordEdits *)

Fields == {"enabled", "phrase", "aliases", "engine", "heads", "active", "tuned"}
IsWord(w) == DOMAIN w = Fields /\ w.enabled \in BOOLEAN /\ w.active \in BOOLEAN

WordTypes ==
  /\ \A i \in DOMAIN words : i \in Id /\ IsWord(words[i])
  /\ \A n \in DOMAIN engines : engines[n] \in Profile
  /\ standard \in Profile

\* A head is used on the very profile that the training of the word has made.
HeadKept == \A i \in DOMAIN words \ byHand : words[i].active =>
  /\ \E profile \in Profile : words[i].engine = ManagedProfileId(i, profile)
  /\ engines[words[i].engine].encoder \in words[i].heads

WordInv == WordTypes /\ ValidateEngineReferences(words, engines) /\ HeadKept

-----------------------------------------------------------------------------
USE DEF Fields, ManagedProfileId

\* The names of what a training has made tell the word, and are not the default.
LEMMA ManagedNames ==
  ASSUME NEW i, NEW j, NEW p, NEW q
  PROVE  /\ ManagedProfileId(i, p) # Default
         /\ ManagedProfileId(i, p) = ManagedProfileId(j, q) => i = j /\ p = q
  BY DEF Default

LEMMA NewWordTyped ==
  ASSUME NEW phrase
  PROVE  IsWord(NewWord(phrase)) /\ ~NewWord(phrase).active /\ NewWord(phrase).engine = Default
  BY DEF IsWord, NewWord

LEMMA ProfileTyped ==
  ASSUME WordInv, NEW name \in {Default} \cup DOMAIN engines
  PROVE  EngineProfile(name, engines, standard) \in Profile
  BY DEF WordInv, WordTypes, EngineProfile

LEMMA WordsInitially == ASSUME WordInit PROVE WordInv
<1>1. PICK id \in Id, phrase \in Variant :
        /\ words = [i \in {id} |-> NewWord(phrase)] /\ engines = << >>
        /\ standard = [encoder |-> "asr", device |-> "cpu"]
  BY DEF WordInit
<1>2. WordTypes
  BY <1>1, NewWordTyped DEF WordTypes, Profile, Placement
<1>3. ValidateEngineReferences(words, engines) /\ HeadKept
  BY <1>1, NewWordTyped DEF ValidateEngineReferences, HeadKept
<1> QED
  BY <1>2, <1>3 DEF WordInv

\* What the words that stay need for the invariant, when no profile changes.
LEMMA ProfilesStay ==
  ASSUME WordInv, engines' = engines, standard' \in Profile,
         ValidateEngineReferences(words', engines'),
         \A i \in DOMAIN words' : i \in Id /\ IsWord(words'[i]),
         \A i \in DOMAIN words' \ byHand' : words'[i].active =>
           /\ i \in DOMAIN words \ byHand /\ words[i].active
           /\ words'[i].engine = words[i].engine /\ words[i].heads \subseteq words'[i].heads
  PROVE  WordInv'
<1>1. WordTypes'
  BY DEF WordInv, WordTypes
<1>2. HeadKept'
  BY DEF WordInv, HeadKept
<1> QED
  BY <1>1, <1>2 DEF WordInv

\* A word as the engines see it.
Use(w) == <<w.engine, w.active, w.enabled>>

\* A command of one word that loads and trains nothing.
LEMMA EditedKeeps ==
  ASSUME WordInv, NEW ws, Edited(ws), DOMAIN ws \subseteq Id,
         \A i \in DOMAIN ws : IsWord(ws[i]),
         \A i \in DOMAIN ws \cap DOMAIN words : Use(ws[i]) = Use(words[i]) /\ ws[i].heads = words[i].heads,
         \A i \in DOMAIN ws \ DOMAIN words : ~ws[i].active
  PROVE  /\ WordInv' /\ Undisturbed
         /\ \A n : ~Gone(n)
<1>1. /\ words' = ws /\ engines' = engines /\ standard' = standard /\ byHand' = byHand \cap DOMAIN ws
      /\ ValidateEngineReferences(ws, engines)
  BY DEF Edited, Saved
<1>2. \A i \in DOMAIN ws \cap DOMAIN words :
        ws[i].engine = words[i].engine /\ ws[i].active = words[i].active /\ ws[i].enabled = words[i].enabled
  BY DEF Use
<1>3. WordInv'
  BY <1>1, <1>2, ProfilesStay DEF WordInv, WordTypes
<1>4. Undisturbed
  BY <1>1, <1>2 DEF Undisturbed, RunsOn
<1> QED
  BY <1>1, <1>3, <1>4 DEF Gone

LEMMA AddKeeps ==
  ASSUME WordInv, NEW id \in Id, Add(id) \/ AddAlias(id) \/ RemoveAlias(id) \/ RemoveWakeWord(id) \/ Tune(id)
  PROVE  /\ WordInv' /\ Undisturbed
         /\ \A n : ~Gone(n)
<1> USE DEF WordInv, WordTypes
<1>1. CASE Add(id)
  <2>1. PICK phrase \in Variant : Edited(With(id, NewWord(phrase)))
    BY <1>1 DEF Add
  <2> DEFINE ws == With(id, NewWord(phrase))
  <2>2. /\ DOMAIN ws = DOMAIN words \cup {id} /\ ws[id] = NewWord(phrase)
        /\ \A i \in DOMAIN words : ws[i] = words[i]
    BY <1>1 DEF Add, With
  <2> HIDE DEF ws
  <2>3. id \notin DOMAIN words
    BY <1>1 DEF Add
  <2> QED
    BY <2>1, <2>2, <2>3, NewWordTyped, EditedKeeps DEF ws
<1>2. CASE AddAlias(id)
  <2>1. PICK aliases : Edited([words EXCEPT ![id].aliases = aliases])
    BY <1>2 DEF AddAlias
  <2> DEFINE ws == [words EXCEPT ![id].aliases = aliases]
  <2>2. DOMAIN ws = DOMAIN words /\ \A i \in DOMAIN words :
          IsWord(ws[i]) /\ Use(ws[i]) = Use(words[i]) /\ ws[i].heads = words[i].heads
    BY DEF IsWord, Use
  <2> HIDE DEF ws
  <2> QED
    BY <2>1, <2>2, EditedKeeps DEF ws
<1>3. CASE RemoveAlias(id)
  <2>1. PICK aliases : Edited([words EXCEPT ![id].aliases = aliases])
    BY <1>3 DEF RemoveAlias
  <2> DEFINE ws == [words EXCEPT ![id].aliases = aliases]
  <2>2. DOMAIN ws = DOMAIN words /\ \A i \in DOMAIN words :
          IsWord(ws[i]) /\ Use(ws[i]) = Use(words[i]) /\ ws[i].heads = words[i].heads
    BY DEF IsWord, Use
  <2> HIDE DEF ws
  <2> QED
    BY <2>1, <2>2, EditedKeeps DEF ws
<1>4. CASE Tune(id)
  <2>1. PICK tuned : Edited([words EXCEPT ![id].tuned = tuned])
    BY <1>4 DEF Tune
  <2> DEFINE ws == [words EXCEPT ![id].tuned = tuned]
  <2>2. DOMAIN ws = DOMAIN words /\ \A i \in DOMAIN words :
          IsWord(ws[i]) /\ Use(ws[i]) = Use(words[i]) /\ ws[i].heads = words[i].heads
    BY DEF IsWord, Use
  <2> HIDE DEF ws
  <2> QED
    BY <2>1, <2>2, EditedKeeps DEF ws
<1>5. CASE RemoveWakeWord(id)
  <2> DEFINE ws == Restrict(words, DOMAIN words \ {id})
  <2>1. Edited(ws)
    BY <1>5 DEF RemoveWakeWord
  <2>2. DOMAIN ws = DOMAIN words \ {id} /\ \A i \in DOMAIN ws : ws[i] = words[i]
    BY DEF Restrict
  <2> HIDE DEF ws
  <2> QED
    BY <2>1, <2>2, EditedKeeps
<1> QED
  BY <1>1, <1>2, <1>3, <1>4, <1>5

\* Another word is still listened for.
LEMMA StillHeard ==
  ASSUME WordInv, NEW id \in Id, Add(id) \/ AddAlias(id) \/ RemoveAlias(id) \/ RemoveWakeWord(id) \/ Tune(id),
         Listened(words) # {}
  PROVE  Listened(words') # {}
<1> USE DEF WordInv, WordTypes, Listened, Edited, Saved
<1>1. CASE Add(id)
  BY <1>1 DEF Add, With
<1>2. ASSUME NEW ws, words' = ws, DOMAIN ws = DOMAIN words, \A i \in DOMAIN words : ws[i].enabled = words[i].enabled
      PROVE  Listened(words') # {}
  BY <1>2
<1>3. ASSUME NEW aliases, words' = [words EXCEPT ![id].aliases = aliases] PROVE Listened(words') # {}
  <2>1. \A i \in DOMAIN words : words'[i].enabled = words[i].enabled
    BY <1>3 DEF IsWord
  <2> QED
    BY <1>2, <1>3, <2>1
<1>4. CASE AddAlias(id) \/ RemoveAlias(id)
  BY <1>3, <1>4 DEF AddAlias, RemoveAlias
<1>5. CASE Tune(id)
  <2>1. PICK tuned : words' = [words EXCEPT ![id].tuned = tuned]
    BY <1>5 DEF Tune
  <2>2. \A i \in DOMAIN words : words'[i].enabled = words[i].enabled
    BY <2>1 DEF IsWord
  <2> QED
    BY <1>2, <2>1, <2>2
<1>6. CASE RemoveWakeWord(id)
  BY <1>6 DEF RemoveWakeWord, Restrict
<1> QED
  BY <1>1, <1>4, <1>5, <1>6

\* The onboarding by spellings: no profile changes, the word is no longer run by its head.
LEMMA OnboardKeeps ==
  ASSUME WordInv, NEW id \in Id, OnboardSpellings(id)
  PROVE  /\ WordInv' /\ Undisturbed
         /\ \A n : ~Gone(n)
         /\ Listened(words) # {} => Listened(words') # {}
<1> USE DEF WordInv, WordTypes
<1>1. PICK phrase \in Variant, name \in {Default} \cup DOMAIN engines,
       accepted \in {{}} \cup {{v} : v \in Variant} :
        LET word == IF id \in DOMAIN words THEN words[id] ELSE NewWord(phrase) IN
        /\ Saved(With(id, ApplyAliases(SelectEngine(word, name), accepted)), engines, "word")
        /\ subject' = id /\ byHand' = byHand \ {id} /\ UNCHANGED standard
  BY DEF OnboardSpellings
<1> DEFINE word == IF id \in DOMAIN words THEN words[id] ELSE NewWord(phrase)
           selected == ApplyAliases(SelectEngine(word, name), accepted)
<1>2. IsWord(word)
  BY NewWordTyped
<1>3. IsWord(selected) /\ ~selected.active /\ selected.enabled = word.enabled
  <2> HIDE DEF word
  <2> QED
    BY <1>2 DEF IsWord, ApplyAliases, SelectEngine
<1> HIDE DEF selected
<1>4. /\ words' = With(id, selected) /\ engines' = engines /\ standard' = standard
      /\ ValidateEngineReferences(words', engines') /\ subject' = id /\ byHand' = byHand \ {id}
  BY <1>1 DEF Saved, selected
<1>5. /\ DOMAIN words' = DOMAIN words \cup {id} /\ words'[id] = selected
      /\ \A i \in DOMAIN words \ {id} : words'[i] = words[i]
  BY <1>4 DEF With
<1>6. WordInv'
  BY <1>3, <1>4, <1>5, ProfilesStay
<1>7. Undisturbed
  BY <1>4, <1>5 DEF Undisturbed, RunsOn
<1>8. Listened(words) # {} => Listened(words') # {}
  BY <1>3, <1>5 DEF Listened
<1> QED
  BY <1>4, <1>6, <1>7, <1>8 DEF Gone

\* What a training saves.
LEMMA TrainEffect ==
  ASSUME WordInv, NEW id \in Id, Train(id)
  PROVE  \E profile \in Profile : LET managed == ManagedProfileId(id, profile) IN
           /\ DOMAIN words' = DOMAIN words \cup {id} /\ IsWord(words'[id])
           /\ words'[id].engine = managed /\ words'[id].active /\ profile.encoder \in words'[id].heads
           /\ id \in DOMAIN words => words'[id].enabled = words[id].enabled
           /\ \A i \in DOMAIN words \ {id} : words'[i] = words[i]
           /\ managed \in DOMAIN engines' /\ engines'[managed] = profile
           /\ DOMAIN engines' \subseteq DOMAIN engines \cup {managed}
           /\ \A n \in DOMAIN engines' \ {managed} : engines'[n] = engines[n]
           /\ \A n : Gone(n) => /\ n = ManagedProfileId(id, engines[n])
                               /\ ~\E i \in DOMAIN words' : words'[i].engine = n
           /\ ValidateEngineReferences(words', engines')
           /\ subject' = id /\ byHand' = byHand \ {id} /\ standard' = standard /\ editor' = "word"
<1> USE DEF WordInv, WordTypes
<1>1. PICK phrase \in Variant, name \in {Default} \cup DOMAIN engines, device \in Placement :
    LET word == IF id \in DOMAIN words THEN words[id] ELSE NewWord(phrase)
        profile == [EngineProfile(name, engines, standard) EXCEPT !.device = device]
        managed == ManagedProfileId(id, profile)
        ws == With(id, [word EXCEPT !.engine = managed, !.active = TRUE,
                                    !.heads = @ \cup {profile.encoder}])
        es == [n \in DOMAIN engines \cup {managed} |-> IF n = managed THEN profile ELSE engines[n]]
    IN /\ profile.encoder \in Encoder
       /\ Saved(ws, PruneUnused(ws, es, id), "word")
       /\ subject' = id /\ byHand' = byHand \ {id} /\ UNCHANGED standard
  BY DEF Train
<1> DEFINE word == IF id \in DOMAIN words THEN words[id] ELSE NewWord(phrase)
           profile == [EngineProfile(name, engines, standard) EXCEPT !.device = device]
           managed == ManagedProfileId(id, profile)
           trained == [word EXCEPT !.engine = managed, !.active = TRUE, !.heads = @ \cup {profile.encoder}]
           ws == With(id, trained)
           es == [n \in DOMAIN engines \cup {managed} |-> IF n = managed THEN profile ELSE engines[n]]
<1>2. IsWord(word) /\ (id \in DOMAIN words => word = words[id])
  BY NewWordTyped
<1>3. profile \in Profile
  BY ProfileTyped DEF Profile
<1> HIDE DEF profile
<1>4. /\ words' = ws /\ engines' = PruneUnused(ws, es, id)
      /\ ValidateEngineReferences(words', engines')
      /\ subject' = id /\ byHand' = byHand \ {id} /\ standard' = standard /\ editor' = "word"
  BY <1>1 DEF Saved, profile
<1> HIDE DEF word
<1>5. /\ IsWord(trained) /\ trained.engine = managed /\ trained.active /\ profile.encoder \in trained.heads
      /\ trained.enabled = word.enabled
  BY <1>2 DEF IsWord
<1> HIDE DEF trained
<1>6. /\ DOMAIN ws = DOMAIN words \cup {id} /\ ws[id] = trained
      /\ \A i \in DOMAIN words \ {id} : ws[i] = words[i]
  BY DEF With
<1> HIDE DEF ws
<1>7. /\ DOMAIN es = DOMAIN engines \cup {managed} /\ es[managed] = profile
      /\ \A n \in DOMAIN engines \ {managed} : es[n] = engines[n]
  OBVIOUS
<1> HIDE DEF es
<1>8. /\ DOMAIN engines' \subseteq DOMAIN es /\ \A n \in DOMAIN engines' : engines'[n] = es[n]
      /\ \A n \in DOMAIN es \ DOMAIN engines' :
           n = ManagedProfileId(id, es[n]) /\ ~\E i \in DOMAIN ws : ws[i].engine = n
  BY <1>4 DEF PruneUnused, Restrict
<1>9. managed \in DOMAIN engines'
  BY <1>5, <1>6, <1>7, <1>8
<1> HIDE DEF managed
<1>10. \A n : Gone(n) => /\ n = ManagedProfileId(id, engines[n])
                        /\ ~\E i \in DOMAIN words' : words'[i].engine = n
  BY <1>4, <1>7, <1>8, <1>9 DEF Gone
<1> WITNESS profile \in Profile
<1> QED
  BY <1>2, <1>4, <1>5, <1>6, <1>7, <1>8, <1>9, <1>10 DEF managed

LEMMA TrainKeeps ==
  ASSUME WordInv, NEW id \in Id, Train(id)
  PROVE  /\ WordInv' /\ Undisturbed
         /\ \A n : Gone(n) => n = ManagedProfileId(subject', engines[n]) /\ ~\E i \in DOMAIN words' : words'[i].engine = n
         /\ Listened(words) # {} => Listened(words') # {}
<1>1. PICK profile \in Profile : LET managed == ManagedProfileId(id, profile) IN
           /\ DOMAIN words' = DOMAIN words \cup {id} /\ IsWord(words'[id])
           /\ words'[id].engine = managed /\ words'[id].active /\ profile.encoder \in words'[id].heads
           /\ id \in DOMAIN words => words'[id].enabled = words[id].enabled
           /\ \A i \in DOMAIN words \ {id} : words'[i] = words[i]
           /\ managed \in DOMAIN engines' /\ engines'[managed] = profile
           /\ DOMAIN engines' \subseteq DOMAIN engines \cup {managed}
           /\ \A n \in DOMAIN engines' \ {managed} : engines'[n] = engines[n]
           /\ \A n : Gone(n) => /\ n = ManagedProfileId(id, engines[n])
                               /\ ~\E i \in DOMAIN words' : words'[i].engine = n
           /\ ValidateEngineReferences(words', engines')
           /\ subject' = id /\ byHand' = byHand \ {id} /\ standard' = standard /\ editor' = "word"
  BY TrainEffect
<1> DEFINE managed == ManagedProfileId(id, profile)
<1>2. WordTypes'
  BY <1>1 DEF WordInv, WordTypes
<1>3. HeadKept'
  <2> SUFFICES ASSUME NEW i \in DOMAIN words' \ byHand', words'[i].active
               PROVE  /\ \E p \in Profile : words'[i].engine = ManagedProfileId(i, p)
                      /\ engines'[words'[i].engine].encoder \in words'[i].heads
    BY DEF HeadKept
  <2>1. CASE i = id
    BY <1>1, <2>1
  <2>2. CASE i # id
    <3>1. i \in DOMAIN words \ byHand /\ words'[i] = words[i] /\ words[i].active
      BY <1>1, <2>2
    <3>2. PICK p \in Profile : words[i].engine = ManagedProfileId(i, p)
      BY <3>1 DEF WordInv, HeadKept
    <3>3. engines[words[i].engine].encoder \in words[i].heads
      BY <3>1 DEF WordInv, HeadKept
    <3>4. words[i].engine # managed /\ words[i].engine # Default
      BY <2>2, <3>2, ManagedNames
    <3>5. words[i].engine \in DOMAIN engines'
      BY <1>1, <3>1, <3>4 DEF ValidateEngineReferences
    <3>6. engines'[words[i].engine] = engines[words[i].engine]
      BY <1>1, <3>4, <3>5
    <3> QED
      BY <3>1, <3>2, <3>3, <3>6
  <2> QED
    BY <2>1, <2>2
<1>4. Undisturbed
  <2> SUFFICES ASSUME NEW i \in (DOMAIN words \cap DOMAIN words') \ byHand, ~Altered(words[i].engine), i # subject'
               PROVE  RunsOn(i)' = RunsOn(i)
    BY DEF Undisturbed
  <2>1. words'[i] = words[i] /\ standard' = standard
    BY <1>1
  <2>2. ASSUME words[i].engine # Default PROVE engines'[words[i].engine] = engines[words[i].engine]
    <3>1. words[i].engine \in DOMAIN engines /\ words[i].engine \in DOMAIN engines'
      BY <1>1, <2>1, <2>2 DEF WordInv, ValidateEngineReferences
    <3>2. CASE words[i].engine = managed
      <4>1. engines[managed] = profile
        BY <3>1, <3>2 DEF Altered
      <4> QED
        BY <1>1, <3>2, <4>1
    <3>3. CASE words[i].engine # managed
      BY <1>1, <3>1, <3>3
    <3> QED
      BY <3>2, <3>3
  <2> QED
    BY <2>1, <2>2 DEF RunsOn, EngineProfile
<1>5. Listened(words) # {} => Listened(words') # {}
  BY <1>1 DEF Listened
<1> QED
  BY <1>1, <1>2, <1>3, <1>4, <1>5 DEF WordInv

\* A setup of another default backend.
LEMMA DefaultKeeps ==
  ASSUME WordInv, SetupDefault
  PROVE  /\ WordInv' /\ Undisturbed
         /\ \A n : ~Gone(n)
         /\ Listened(words) # {} => Listened(words') # {}
<1>1. standard' \in Profile /\ UNCHANGED <<words, engines, byHand>> /\ editor' = "setup"
  BY DEF SetupDefault
<1>2. WordInv'
  BY <1>1 DEF WordInv, WordTypes, HeadKept, ValidateEngineReferences
<1>3. Undisturbed
  BY <1>1 DEF Undisturbed, RunsOn, EngineProfile
<1> QED
  BY <1>1, <1>2, <1>3 DEF Gone

\* What the user does by hand leaves the invariant of the words that are not his.
LEMMA UserKeeps ==
  ASSUME WordInv, UserSwitches \/ UserRoutes \/ UserDefines \/ UserDeletes
  PROVE  WordInv' /\ editor' = "user"
<1> USE DEF WordInv, WordTypes
<1>1. CASE UserSwitches
  <2>1. PICK j \in DOMAIN words : ByHand([words EXCEPT ![j].enabled = ~@], engines, {})
    BY <1>1 DEF UserSwitches
  <2>2. DOMAIN words' = DOMAIN words /\ \A i \in DOMAIN words :
          /\ IsWord(words'[i]) /\ words'[i].engine = words[i].engine
          /\ words'[i].active = words[i].active /\ words'[i].heads = words[i].heads
    BY <2>1 DEF ByHand, IsWord
  <2>3. UNCHANGED <<engines, standard, byHand>> /\ ValidateEngineReferences(words', engines') /\ editor' = "user"
    BY <2>1 DEF ByHand
  <2> QED
    BY <2>2, <2>3, ProfilesStay
<1>2. CASE UserRoutes
  <2>1. PICK j \in DOMAIN words, name \in {Default} \cup DOMAIN engines :
          ByHand([words EXCEPT ![j].engine = name], engines, {j})
    BY <1>2 DEF UserRoutes
  <2>2. DOMAIN words' = DOMAIN words /\ IsWord(words'[j]) /\ \A i \in DOMAIN words \ {j} : words'[i] = words[i]
    BY <2>1 DEF ByHand, IsWord
  <2>3. /\ UNCHANGED <<engines, standard>> /\ byHand' = byHand \cup {j}
        /\ ValidateEngineReferences(words', engines') /\ editor' = "user"
    BY <2>1 DEF ByHand
  <2> QED
    BY <2>2, <2>3, ProfilesStay
<1>3. CASE UserDefines
  <2>1. PICK name \in {Mine} \cup DOMAIN engines, profile \in Profile :
          ByHand(words, [n \in DOMAIN engines \cup {name} |-> IF n = name THEN profile ELSE engines[n]],
                 {i \in DOMAIN words : words[i].engine = name})
    BY <1>3 DEF UserDefines
  <2>2. /\ UNCHANGED <<words, standard>> /\ ValidateEngineReferences(words', engines') /\ editor' = "user"
        /\ byHand' = byHand \cup {i \in DOMAIN words : words[i].engine = name}
        /\ DOMAIN engines' = DOMAIN engines \cup {name} /\ engines'[name] = profile
        /\ \A n \in DOMAIN engines \ {name} : engines'[n] = engines[n]
    BY <2>1 DEF ByHand
  <2>3. WordTypes'
    BY <2>2
  <2>4. HeadKept'
    <3> SUFFICES ASSUME NEW i \in DOMAIN words \ byHand, words[i].active, words[i].engine # name
                 PROVE  /\ \E p \in Profile : words[i].engine = ManagedProfileId(i, p)
                        /\ engines'[words[i].engine].encoder \in words[i].heads
      BY <2>2 DEF HeadKept
    <3>1. PICK p \in Profile : words[i].engine = ManagedProfileId(i, p)
      BY DEF HeadKept
    <3>2. words[i].engine \in DOMAIN engines
      BY <3>1, ManagedNames DEF ValidateEngineReferences
    <3> QED
      BY <2>2, <3>1, <3>2 DEF HeadKept
  <2> QED
    BY <2>2, <2>3, <2>4
<1>4. CASE UserDeletes
  <2>1. PICK name \in DOMAIN engines : ByHand(words, Restrict(engines, DOMAIN engines \ {name}), {})
    BY <1>4 DEF UserDeletes
  <2>2. /\ UNCHANGED <<words, standard, byHand>> /\ ValidateEngineReferences(words', engines') /\ editor' = "user"
        /\ DOMAIN engines' = DOMAIN engines \ {name}
        /\ \A n \in DOMAIN engines' : engines'[n] = engines[n]
    BY <2>1 DEF ByHand, Restrict
  <2>3. WordTypes'
    BY <2>2
  <2>4. HeadKept'
    <3> SUFFICES ASSUME NEW i \in DOMAIN words \ byHand, words[i].active
                 PROVE  /\ \E p \in Profile : words[i].engine = ManagedProfileId(i, p)
                        /\ engines'[words[i].engine].encoder \in words[i].heads
      BY <2>2 DEF HeadKept
    <3>1. PICK p \in Profile : words[i].engine = ManagedProfileId(i, p)
      BY DEF HeadKept
    <3>2. words[i].engine \in DOMAIN engines'
      BY <2>2, <3>1, ManagedNames DEF ValidateEngineReferences
    <3> QED
      BY <2>2, <3>1, <3>2 DEF HeadKept
  <2> QED
    BY <2>2, <2>3, <2>4
<1> QED
  BY <1>1, <1>2, <1>3, <1>4

\* Every enabled word is in one group of the detector: that of its engine, with its head or not.
LEMMA OneGroup ==
  ASSUME WordInv, NEW i \in Listened(words)
  PROVE  Cardinality({g \in Plans(words, engines) : i \in g[3]}) = 1
<1> DEFINE Members(name, trained) ==
             {j \in DOMAIN words : words[j].enabled /\ words[j].engine = name /\ words[j].active = trained}
           group == <<words[i].engine, words[i].active, Members(words[i].engine, words[i].active)>>
<1>1. i \in DOMAIN words /\ words[i].enabled /\ words[i].active \in BOOLEAN
      /\ words[i].engine \in {Default} \cup DOMAIN engines
  BY DEF Listened, WordInv, WordTypes, IsWord, ValidateEngineReferences
<1>2. Plans(words, engines) =
        {<<name, trained, Members(name, trained)>> : name \in {Default} \cup DOMAIN engines, trained \in BOOLEAN}
  BY DEF Plans
<1>3. group \in Plans(words, engines) /\ i \in group[3]
  BY <1>1, <1>2
<1>4. ASSUME NEW g \in Plans(words, engines), i \in g[3] PROVE g = group
  <2>1. PICK name \in {Default} \cup DOMAIN engines, trained \in BOOLEAN :
          g = <<name, trained, Members(name, trained)>>
    BY <1>2
  <2>2. i \in Members(name, trained)
    BY <1>4, <2>1
  <2>3. words[i].engine = name /\ words[i].active = trained
    BY <2>2
  <2> QED
    BY <2>1, <2>3
<1> HIDE DEF group
<1>5. {g \in Plans(words, engines) : i \in g[3]} = {group}
  BY <1>3, <1>4
<1> QED
  BY <1>5, FS_Singleton

\* Where every head that is used is there and every enabled word is in one group.
Sound == HasHead /\ \A i \in Listened(words) : Cardinality({g \in Plans(words, engines) : i \in g[3]}) = 1

LEMMA WordsSound == WordInv => Sound
<1>1. WordInv => HasHead
  BY ManagedNames DEF WordInv, HeadKept, HasHead, EngineProfile
<1> QED
  BY <1>1, OneGroup DEF Sound

\* What a command takes away.
Spared ==
  /\ \A n : Gone(n) => /\ n = ManagedProfileId(subject', engines[n])
                      /\ ~\E i \in DOMAIN words' : words'[i].engine = n
  /\ Listened(words) # {} => Listened(words') # {}

LEMMA WordsStep ==
  ASSUME WordInv, WordStep
  PROVE  WordInv' /\ (editor' \in {"word", "setup"} => Undisturbed /\ Spared)
<1> USE DEF Spared
<1>1. CASE UserSwitches \/ UserRoutes \/ UserDefines \/ UserDeletes
  BY <1>1, UserKeeps
<1>2. CASE SetupDefault
  BY <1>2, DefaultKeeps
<1>3. ASSUME NEW id \in Id, Train(id) PROVE WordInv' /\ Undisturbed /\ Spared
  BY <1>3, TrainKeeps
<1>4. ASSUME NEW id \in Id, OnboardSpellings(id) PROVE WordInv' /\ Undisturbed /\ Spared
  BY <1>4, OnboardKeeps
<1>5. ASSUME NEW id \in Id,
             Add(id) \/ AddAlias(id) \/ RemoveAlias(id) \/ RemoveWakeWord(id) \/ Tune(id)
      PROVE  WordInv' /\ Undisturbed /\ Spared
  BY <1>5, AddKeeps, StillHeard
<1> QED
  BY <1>1, <1>2, <1>3, <1>4, <1>5 DEF WordStep

\* After any commands, and any edits by hand that can be loaded: every word is on a
\* profile there is, and one with a head that the user has not touched is on the profile
\* that its own training has made (training.rs, onboarding.rs, wake word commands).
THEOREM WordsInvariant == WordSpec => []WordInv
<1>1. WordInv /\ [WordStep]_wordVars => WordInv'
  <2>1. WordInv /\ WordStep => WordInv'
    BY WordsStep
  <2>2. WordInv /\ UNCHANGED wordVars => WordInv'
    BY DEF wordVars, WordInv, WordTypes, HeadKept, ValidateEngineReferences
  <2> QED
    BY <2>1, <2>2
<1> QED
  BY <1>1, WordsInitially, PTL DEF WordSpec

\* For any number of words, profiles and edits: a command about one word, or a new default,
\* leaves every other word on its encoder, its device and its head, silences nothing
\* and deletes only what the word's own training has made and nobody uses
\* (prune_unused_enrollment_profiles, remove_wake_word, select_engine).
THEOREM OthersKept == WordSpec => WordsKept
<1>1. WordInv /\ Sound' /\ [WordStep]_wordVars =>
        [editor' \in {"word", "setup"} => Undisturbed /\ HasHead' /\ KeepsWords]_wordVars
  BY WordsStep DEF Sound, Spared, KeepsWords
<1> QED
  BY <1>1, WordsSound, WordsInvariant, PTL DEF WordSpec, WordsKept

-----------------------------------------------------------------------------
(* The edits of the configuration *)

Contents == (SUBSET Editors) \cup {Torn}
Inodes == [content : Contents, open : SUBSET Editors]

\* The places of an edit and of a daemon.
Places == Ends \cup
  {"idle", "inspect", "pause", "reserve", "ready", "write", "fill", "rename",
   "reload", "verify", "undo", "restart", "confirm"}
Stages == {"inactive", "forked", "loaded", "reserved", "up", "waiting", "exhausted"}
Edits == [pc : Places, text : Contents, before : Contents, managed : BOOLEAN, undo : BOOLEAN]

\* The types of the variables.
Types ==
  /\ file \in Inodes
  /\ tmp = Missing \/ tmp \in Inodes
  /\ edit \in [Editors -> Edits]
  /\ daemon \in [Daemons -> [pc : Stages, config : SUBSET Editors]]
  /\ holder \in Editors \cup Daemons \cup {Nobody}

\* The places of an edit between its reservation and its save.
Writing == {"ready", "write", "fill", "rename"}
Reloading == {"reload", "verify", "undo", "restart", "confirm", "failed"}

\* The reservation is its holder's: a daemon's until it ends, an edit's until it returns.
Holding ==
  /\ \A d \in Daemons : daemon[d].pc \in {"reserved", "up"} => holder = d
  /\ \A e \in Editors :
       /\ edit[e].pc \in Writing /\ ~edit[e].managed => holder = e
       /\ edit[e].pc \in Reloading \cup {"pause"} \/ edit[e].undo => edit[e].managed
       /\ edit[e].pc \in {"idle", "inspect", "reserve"} => ~edit[e].managed

\* As long as every edit relies on the reservation, the one that fills the temporary file
\* is alone with it.
AloneWithTmp ==
  /\ file.content # Torn /\ file.open = {}
  /\ tmp = Missing \/ \A f \in tmp.open : edit[f].pc = "fill"
  /\ \A e \in Editors :
       /\ edit[e].text # Torn
       /\ edit[e].pc = "fill" => tmp = Missing \/ (e \in tmp.open /\ tmp.content = Torn)
       /\ edit[e].pc = "rename" => tmp = Missing \/ tmp.content # Torn

Whole == (\E e \in Editors : edit[e].managed) \/ AloneWithTmp

\* What the temporary file, the edit, the file and the unit hold while one edit is alone.
SingleTmp(e) ==
  /\ file.open = {}
  /\ edit[e].pc = "fill" => tmp = Missing \/ (tmp.open = {e} /\ tmp.content = Torn)
  /\ edit[e].pc # "fill" => tmp = Missing \/ tmp.open = {}
  /\ edit[e].pc = "rename" => tmp = Missing \/ tmp.content = edit[e].text

SingleText(e) ==
  /\ edit[e].before = {}
  /\ edit[e].undo /\ edit[e].pc \in Writing => edit[e].text = {}
  /\ ~edit[e].undo /\ edit[e].pc # "idle" => e \in edit[e].text /\ edit[e].text # Torn

SingleFile(e) ==
  /\ \/ edit[e].pc \in {"idle", "inspect", "pause", "reserve"}
     \/ ~edit[e].undo /\ edit[e].pc \in Writing
     \/ edit[e].pc \in {"restart", "confirm", "failed"}
     => file.content = {}
  /\ edit[e].pc \in {"reload", "verify", "saved"} => file.content # Torn /\ e \in file.content

SingleUnit(e) ==
  /\ edit[e].pc \in {"verify", "saved"} /\ edit[e].managed =>
       e \in daemon["unit"].config \/ daemon["unit"].pc \notin {"loaded", "reserved", "up"}
  /\ edit[e].pc \in {"confirm", "failed"} => e \notin daemon["unit"].config
  /\ edit[e].undo =>
       edit[e].pc \notin {"idle", "inspect", "pause", "reserve", "ready",
                          "reload", "verify", "undo", "saved"}

Single(e) == SingleTmp(e) /\ SingleText(e) /\ SingleFile(e) /\ SingleUnit(e)

Inv == Types /\ Holding /\ Whole /\ \A e \in Editors : Alone(e) => Single(e)

-----------------------------------------------------------------------------
\* How a step of an edit changes its record: every other record stays.
LEMMA GoOnFacts ==
  ASSUME Types, NEW e \in Editors, NEW pc \in Places, GoOn(e, pc)
  PROVE  /\ edit' \in [Editors -> Edits]
         /\ \A f \in Editors \ {e} : edit'[f] = edit[f]
         /\ edit'[e].pc = pc /\ edit'[e].text = edit[e].text /\ edit'[e].before = edit[e].before
         /\ edit'[e].managed = edit[e].managed /\ edit'[e].undo = edit[e].undo
BY DEF Types, GoOn, Edits

LEMMA EndFacts ==
  ASSUME Types, NEW e \in Editors, NEW pc \in Places, End(e, pc)
  PROVE  /\ GoOn(e, pc)
         /\ holder' \in Editors \cup Daemons \cup {Nobody}
         /\ holder' = holder \/ (holder = e /\ holder' = Nobody)
BY DEF Types, End

LEMMA TypesInit == EditInit => Types
BY EditorsAssumption DEF EditorsAssumption, EditInit, Types, Inodes, Contents, Daemons, Edits, Places, Stages, Ends

\* Each action keeps the types.
LEMMA TypesStep == Types /\ [EditNext]_editVars => Types'
<1> SUFFICES ASSUME Types, [EditNext]_editVars PROVE Types'
  OBVIOUS
<1> USE DEF Inodes, Contents, Places, Stages, Ends
<1>1. CASE UNCHANGED editVars
  BY <1>1 DEF Types, editVars
<1>2. ASSUME NEW e \in Editors, Edit(e) PROVE Types'
  <2>1. CASE Load(e)
    BY <2>1, GoOnFacts, EndFacts DEF Load, Types, Edits, Contents, ReadAs
  <2>2. CASE Inspect(e)
    BY <2>2 DEF Inspect, Types, UnitActive, Edits
  <2>3. CASE CheckPause(e)
    BY <2>3, GoOnFacts DEF CheckPause, Types
  <2>4. CASE Reserve(e)
    BY <2>4, GoOnFacts DEF Reserve, Types
  <2>5. CASE Snapshot(e)
    BY <2>5 DEF Snapshot, Types, Edits, Inodes
  <2>6. CASE Truncate(e)
    BY <2>6, GoOnFacts DEF Truncate, Types, Inodes, Contents
  <2>7. CASE Fill(e)
    <3>1. edit[e].text \in Contents
      BY DEF Types, Edits
    <3>2. ASSUME NEW inode \in Inodes PROVE Filled(inode, e) \subseteq Inodes
      BY <3>1 DEF Filled
    <3>3. QED
      BY <2>7, <3>2, GoOnFacts DEF Fill, Types
  <2>8. CASE Rename(e)
    BY <2>8, GoOnFacts, EndFacts DEF Rename, AfterSave, AfterError, Types, Ends
  <2>9. CASE WriteFails(e)
    BY <2>9, GoOnFacts, EndFacts DEF WriteFails, AfterError, CloseFiles, WithoutWriter, Types, Inodes
  <2>10. CASE Killed(e)
    BY <2>10, GoOnFacts, EndFacts DEF Killed, CloseFiles, WithoutWriter, Types, Inodes
  <2>11. CASE TryRestart(e)
    BY <2>11, GoOnFacts DEF TryRestart, Fork, Types, Daemons
  <2>12. CASE Verify(e)
    BY <2>12, GoOnFacts DEF Verify, Types
  <2>13. CASE Undo(e)
    BY <2>13 DEF Undo, Types, Edits
  <2>14. CASE RestartPrior(e)
    BY <2>14, GoOnFacts DEF RestartPrior, Fork, Types, Daemons
  <2>15. CASE ConfirmPrior(e)
    BY <2>15, GoOnFacts DEF ConfirmPrior, Types
  <2>16. QED
    BY <1>2, <2>1, <2>2, <2>3, <2>4, <2>5, <2>6, <2>7, <2>8, <2>9, <2>10, <2>11, <2>12, <2>13,
       <2>14, <2>15 DEF Edit
<1>3. CASE Run
  BY <1>3 DEF Run, LoadConfig, ReserveDaemon, LoadDetector, Stops, Launch, GiveUp, SetPause, Exit,
     ReadAs, Types, Inodes, Contents, Daemons
<1>4. QED
  BY <1>1, <1>2, <1>3 DEF EditNext

-----------------------------------------------------------------------------
LEMMA HoldingInit == EditInit => Holding
BY DEF EditInit, Holding, Writing, Reloading

\* An edit that takes no reservation and changes no daemon.
LEMMA HoldingKept ==
  ASSUME Types, Holding, NEW e \in Editors, NEW pc \in Places, GoOn(e, pc),
         UNCHANGED <<daemon, holder>>,
         pc \in Writing /\ ~edit[e].managed => holder = e,
         pc \in Reloading \cup {"pause"} => edit[e].managed,
         pc \notin {"idle", "inspect", "reserve"}
  PROVE  Holding'
BY GoOnFacts DEF Holding, Types

\* An edit that returns gives up only its own reservation.
LEMMA HoldingEnd ==
  ASSUME Types, Holding, NEW e \in Editors, NEW pc \in Ends, End(e, pc), UNCHANGED daemon,
         pc = "failed" => edit[e].managed
  PROVE  Holding'
<1>1. pc \in Places /\ pc \notin Writing /\ pc \notin (Reloading \ {"failed"}) \cup {"pause"}
  BY DEF Ends, Places, Writing, Reloading
<1>2. GoOn(e, pc) /\ (holder' = holder \/ (holder = e /\ holder' = Nobody))
  BY <1>1, EndFacts
<1>3. e \notin Daemons
  BY EditorsAssumption DEF EditorsAssumption
<1>4. QED
  BY <1>1, <1>2, <1>3, GoOnFacts DEF Holding, Types, Ends, Reloading

\* A restart of the unit takes the reservation from nobody but the unit.
LEMMA HoldingFork ==
  ASSUME Types, Holding, NEW e \in Editors, NEW pc \in Reloading, GoOn(e, pc), Fork,
         edit[e].managed
  PROVE  Holding'
<1>1. \A f \in Editors : f \notin Daemons
  BY EditorsAssumption DEF EditorsAssumption
<1>2. pc \in Places /\ pc \notin Writing
  BY DEF Reloading, Places, Ends, Writing
<1>3. QED
  BY <1>1, <1>2, GoOnFacts DEF Holding, Types, Fork, Daemons, Stages, Reloading

LEMMA HoldingStep == Types /\ Holding /\ [EditNext]_editVars => Holding'
<1> SUFFICES ASSUME Types, Holding, [EditNext]_editVars PROVE Holding'
  OBVIOUS
<1>1. CASE UNCHANGED editVars
  BY <1>1 DEF Holding, editVars
<1>2. ASSUME NEW e \in Editors, Edit(e) PROVE Holding'
  <2> USE DEF Places, Ends, Writing, Reloading
  <2>1. CASE Load(e)
    BY <2>1, GoOnFacts DEF Load, Holding, Types, Edits, ReadAs
  <2>2. CASE Inspect(e)
    BY <2>2 DEF Inspect, Holding, Types, Edits
  <2>3. CASE CheckPause(e)
    BY <2>3, HoldingKept DEF CheckPause, Holding
  <2>4. CASE Reserve(e)
    <3>1. Nobody \notin Editors \cup Daemons
      BY EditorsAssumption DEF EditorsAssumption
    <3>2. QED
      BY <2>4, <3>1, GoOnFacts DEF Reserve, Holding, Types
  <2>5. CASE Snapshot(e)
    BY <2>5 DEF Snapshot, Holding, Types, Edits
  <2>6. CASE Truncate(e)
    BY <2>6, HoldingKept DEF Truncate, Holding
  <2>7. CASE Fill(e)
    BY <2>7, HoldingKept DEF Fill, Holding
  <2>8. CASE Rename(e)
    BY <2>8, HoldingKept, HoldingEnd DEF Rename, AfterSave, AfterError, Holding
  <2>9. CASE WriteFails(e)
    BY <2>9, HoldingEnd DEF WriteFails, AfterError
  <2>10. CASE Killed(e)
    BY <2>10, HoldingEnd DEF Killed
  <2>11. CASE TryRestart(e)
    BY <2>11, HoldingKept, HoldingFork DEF TryRestart, Holding
  <2>12. CASE Verify(e)
    BY <2>12, HoldingKept DEF Verify, Holding
  <2>13. CASE Undo(e)
    BY <2>13 DEF Undo, Holding, Types, Edits
  <2>14. CASE RestartPrior(e)
    BY <2>14, HoldingKept, HoldingFork DEF RestartPrior, Holding
  <2>15. CASE ConfirmPrior(e)
    BY <2>15, HoldingKept DEF ConfirmPrior, Holding
  <2>16. QED
    BY <1>2, <2>1, <2>2, <2>3, <2>4, <2>5, <2>6, <2>7, <2>8, <2>9, <2>10, <2>11, <2>12, <2>13,
       <2>14, <2>15 DEF Edit
<1>3. CASE Run
  <2>1. \A f \in Editors : f \notin Daemons /\ f # Nobody
    BY EditorsAssumption DEF EditorsAssumption
  <2>2. \A d \in Daemons : d # Nobody
    BY EditorsAssumption DEF EditorsAssumption
  <2>3. QED
    BY <1>3, <2>1, <2>2 DEF Run, LoadConfig, ReserveDaemon, LoadDetector, Stops, Launch, GiveUp,
       SetPause, Exit, Holding, Types, Daemons, Stages, Writing
<1>4. QED
  BY <1>1, <1>2, <1>3 DEF EditNext

-----------------------------------------------------------------------------
\* An edit that relies on the unit goes on relying on it.
LEMMA ManagedStays ==
  ASSUME Types, Holding, [EditNext]_editVars, NEW f \in Editors, edit[f].managed
  PROVE  edit'[f].managed
<1>1. ASSUME NEW e \in Editors, Edit(e) PROVE edit'[f].managed
  <2> USE DEF Places, Ends
  <2>1. CASE Load(e) \/ CheckPause(e) \/ Reserve(e) \/ Snapshot(e)
    BY <2>1, GoOnFacts, ZenonT(30) DEF Load, CheckPause, Reserve, Snapshot, Types, Edits
  <2>2. CASE Inspect(e)
    BY <2>2 DEF Inspect, Holding, Types, Edits
  <2>3. CASE Truncate(e) \/ Fill(e) \/ Rename(e) \/ WriteFails(e) \/ Killed(e)
    BY <2>3, GoOnFacts, EndFacts
    DEF Truncate, Fill, Rename, WriteFails, Killed, AfterSave, AfterError
  <2>4. CASE TryRestart(e) \/ Verify(e) \/ Undo(e) \/ RestartPrior(e) \/ ConfirmPrior(e)
    BY <2>4, GoOnFacts, SMTT(20)
    DEF TryRestart, Verify, Undo, RestartPrior, ConfirmPrior, Types, Edits
  <2>5. QED
    BY <1>1, <2>1, <2>2, <2>3, <2>4 DEF Edit
<1>2. QED
  BY <1>1 DEF EditNext, Run, editVars

LEMMA WholeInit == EditInit => Whole
BY EditorsAssumption DEF EditorsAssumption, EditInit, Whole, AloneWithTmp

\* An edit that touches neither file nor text.
LEMMA WholeKept ==
  ASSUME Types, AloneWithTmp, NEW e \in Editors, NEW pc \in Places, GoOn(e, pc),
         UNCHANGED <<file, tmp>>, pc \notin {"fill", "rename"}, edit[e].pc # "fill"
  PROVE  AloneWithTmp'
BY GoOnFacts DEF AloneWithTmp, Types, Inodes

\* An edit that stops closes what it has opened.
LEMMA WholeClosed ==
  ASSUME Types, AloneWithTmp, NEW e \in Editors, NEW pc \in Ends, GoOn(e, pc), CloseFiles(e)
  PROVE  AloneWithTmp'
<1>1. pc \in Places /\ pc \notin {"fill", "rename"}
  BY DEF Ends, Places
<1>2. file'.content = file.content /\ file'.open = {}
  BY DEF CloseFiles, WithoutWriter, Types, Inodes, AloneWithTmp
<1>3. tmp' = Missing \/ (tmp # Missing /\ tmp'.content = tmp.content /\ tmp'.open = tmp.open \ {e})
  BY DEF CloseFiles, WithoutWriter, Types, Inodes
<1>4. QED
  BY <1>1, <1>2, <1>3, GoOnFacts DEF AloneWithTmp, Types, Inodes

\* The edit that writes is alone: its reservation excludes the others, none of which is managed.
LEMMA WholeStep == Types /\ Holding /\ Whole /\ [EditNext]_editVars => Whole'
<1> SUFFICES ASSUME Types, Holding, Whole, [EditNext]_editVars, \A e \in Editors : ~edit'[e].managed
             PROVE  AloneWithTmp'
  BY DEF Whole
<1>1. \A e \in Editors : ~edit[e].managed
  BY ManagedStays
<1>2. AloneWithTmp
  BY <1>1 DEF Whole
<1>3. \A e, f \in Editors : edit[e].pc \in Writing /\ edit[f].pc \in Writing => e = f
  BY <1>1 DEF Holding
<1>4. \A e \in Editors : edit[e].pc \notin Reloading \cup {"pause"} /\ ~edit[e].undo
  BY <1>1 DEF Holding
<1>5. CASE UNCHANGED editVars
  BY <1>2, <1>5 DEF AloneWithTmp, editVars
<1>6. ASSUME NEW e \in Editors, Edit(e) PROVE AloneWithTmp'
  <2> USE <1>2 DEF Places, Ends
  <2>1. CASE Load(e)
    <3>1. CASE GoOn(e, "refused")
      BY <2>1, <3>1, WholeKept DEF Load
    <3>2. CASE \E content \in SUBSET Editors :
                 edit' = [edit EXCEPT ![e].pc = "inspect", ![e].text = content \cup {e}]
      <4>1. \A content \in SUBSET Editors : content \cup {e} # Torn
        BY EditorsAssumption DEF EditorsAssumption
      <4>2. PICK content \in SUBSET Editors :
                edit' = [edit EXCEPT ![e].pc = "inspect", ![e].text = content \cup {e}]
        BY <3>2
      <4>3. /\ edit'[e].pc = "inspect" /\ edit'[e].text # Torn
            /\ \A f \in Editors \ {e} : edit'[f] = edit[f]
        BY <4>1, <4>2 DEF Types, Edits
      <4>4. QED
        BY <2>1, <4>3 DEF Load, AloneWithTmp, Types, Inodes
    <3>3. QED
      BY <2>1, <3>1, <3>2 DEF Load, ReadAs, Types, Inodes, Contents, AloneWithTmp
  <2>2. CASE Inspect(e)
    BY <2>2 DEF Inspect, AloneWithTmp, Types, Edits, Inodes
  <2>3. CASE Reserve(e)
    BY <2>3, WholeKept DEF Reserve
  <2>4. CASE Snapshot(e)
    BY <2>4 DEF Snapshot, AloneWithTmp, Types, Edits, Inodes
  <2>5. CASE Truncate(e)
    <3>1. tmp'.content = Torn /\ e \in tmp'.open
      BY <2>5 DEF Truncate
    <3>2. \A f \in tmp'.open : f = e \/ (tmp # Missing /\ f \in tmp.open)
      BY <2>5 DEF Truncate
    <3>3. \A f \in Editors \ {e} : edit[f].pc \notin {"fill", "rename"}
      BY <2>5, <1>3 DEF Truncate, Writing
    <3>4. QED
      BY <2>5, <3>1, <3>2, <3>3, GoOnFacts DEF Truncate, AloneWithTmp, Types, Inodes
  <2>6. CASE Fill(e)
    <3>1. \A f \in Editors \ {e} : edit[f].pc \notin {"fill", "rename"}
      BY <2>6, <1>3 DEF Fill, Writing
    <3>2. file' = file
      BY <2>6 DEF Fill, AloneWithTmp
    <3>3. tmp = Missing \/ tmp' \in Filled(tmp, e)
      BY <2>6 DEF Fill, AloneWithTmp
    <3>4. tmp # Missing => tmp'.content = edit[e].text /\ tmp'.open = tmp.open \ {e}
      BY <2>6, <3>3 DEF Fill, Filled, AloneWithTmp
    <3>5. tmp = Missing => tmp' = Missing
      BY <2>6, <3>2 DEF Fill, AloneWithTmp
    <3>6. QED
      BY <2>6, <3>1, <3>2, <3>4, <3>5, GoOnFacts DEF Fill, AloneWithTmp, Types, Inodes
  <2>7. CASE Rename(e)
    <3>1. \A f \in Editors \ {e} : edit[f].pc \notin {"fill", "rename"}
      BY <2>7, <1>3 DEF Rename, Writing
    <3>2. tmp' = Missing /\ file'.content # Torn /\ file'.open = {}
      BY <2>7, <3>1 DEF Rename, AloneWithTmp, Types, Inodes
    <3>3. \E pc \in Ends : GoOn(e, pc)
      BY <2>7, <1>1, <1>4, EndFacts DEF Rename, AfterSave, AfterError
    <3>4. QED
      BY <3>1, <3>2, <3>3, GoOnFacts DEF AloneWithTmp
  <2>8. CASE WriteFails(e)
    BY <2>8, EndFacts, WholeClosed DEF WriteFails, AfterError
  <2>9. CASE Killed(e)
    BY <2>9, EndFacts, WholeClosed DEF Killed
  <2>10. QED
    BY <1>4, <1>6, <2>1, <2>2, <2>3, <2>4, <2>5, <2>6, <2>7, <2>8, <2>9
    DEF Edit, CheckPause, TryRestart, Verify, Undo, RestartPrior, ConfirmPrior, Reloading
<1>7. CASE Run
  BY <1>2, <1>7 DEF Run, AloneWithTmp
<1>8. QED
  BY <1>5, <1>6, <1>7 DEF EditNext

-----------------------------------------------------------------------------
LEMMA SingleInit == EditInit => \A e \in Editors : Single(e)
BY EditorsAssumption
DEF EditorsAssumption, EditInit, Single, SingleTmp, SingleText, SingleFile, SingleUnit, Writing, Daemons

\* A step of an edit changes its own record, and begins the edit if it had not begun.
LEMMA OwnRecord ==
  ASSUME Types, NEW f \in Editors, Edit(f)
  PROVE  edit'[f].pc # "idle" /\ \A g \in Editors \ {f} : edit'[g] = edit[g]
<1> USE DEF Places, Ends
<1>1. CASE Load(f) \/ CheckPause(f) \/ Reserve(f) \/ Snapshot(f)
  BY <1>1, GoOnFacts, SMTT(20) DEF Load, CheckPause, Reserve, Snapshot, Types, Edits
<1>2. CASE Inspect(f)
  BY <1>2 DEF Inspect, Types, Edits
<1>3. CASE Truncate(f) \/ Fill(f) \/ Rename(f) \/ WriteFails(f) \/ Killed(f)
  BY <1>3, GoOnFacts, EndFacts, SMTT(20) DEF Truncate, Fill, Rename, WriteFails, Killed, AfterSave, AfterError
<1>4. CASE TryRestart(f) \/ Verify(f) \/ Undo(f) \/ RestartPrior(f) \/ ConfirmPrior(f)
  BY <1>4, GoOnFacts, SMTT(20) DEF TryRestart, Verify, Undo, RestartPrior, ConfirmPrior, Types, Edits
<1>5. QED
  BY <1>1, <1>2, <1>3, <1>4 DEF Edit

\* An edit that is alone has been alone, and no other one has made the step.
LEMMA AloneBefore ==
  ASSUME Types, NEW e \in Editors, [EditNext]_editVars, Alone(e)'
  PROVE  Alone(e) /\ \A f \in Editors \ {e} : ~Edit(f)
<1>1. ASSUME NEW f \in Editors, Edit(f) PROVE f = e
  BY <1>1, OwnRecord DEF Alone
<1>2. CASE \E f \in Editors : Edit(f)
  BY <1>1, <1>2, OwnRecord DEF Alone
<1>3. CASE Run \/ UNCHANGED editVars
  <2>1. UNCHANGED edit
    BY <1>3 DEF Run, editVars
  <2>2. QED
    BY <1>1, <2>1 DEF Alone
<1>4. QED
  BY <1>1, <1>2, <1>3 DEF EditNext

\* The unit and the edit's steps, while the edit is alone.
LEMMA SingleStep ==
  ASSUME Types, Holding, NEW e \in Editors, Single(e), Edit(e) \/ Run
  PROVE  Single(e)'
<1> USE DEF Single, Places, Ends, Writing, Reloading
<1>1. {} # Torn /\ {} \in Contents
  BY EditorsAssumption DEF EditorsAssumption, Contents
<1>2. CASE Load(e)
  <2>1. file.content = {}
    BY <1>2 DEF Load, SingleFile
  <2>2. {} \cup {e} # Torn
    BY EditorsAssumption DEF EditorsAssumption
  <2>3. edit' = [edit EXCEPT ![e].pc = "inspect", ![e].text = {} \cup {e}]
    BY <1>1, <1>2, <2>1 DEF Load, ReadAs
  <2>4. QED
    BY <1>2, <2>1, <2>2, <2>3
    DEF Load, SingleTmp, SingleText, SingleFile, SingleUnit, Types, Edits
<1>3. CASE Inspect(e)
  BY <1>3 DEF Inspect, SingleTmp, SingleText, SingleFile, SingleUnit, Types, Edits, Holding
<1>4. CASE CheckPause(e)
  BY <1>4, GoOnFacts DEF CheckPause, SingleTmp, SingleText, SingleFile, SingleUnit
<1>5. CASE Reserve(e)
  BY <1>5, GoOnFacts DEF Reserve, SingleTmp, SingleText, SingleFile, SingleUnit
<1>6. CASE Snapshot(e)
  BY <1>6 DEF Snapshot, SingleTmp, SingleText, SingleFile, SingleUnit, Types, Edits
<1>7. CASE Truncate(e)
  BY <1>7, GoOnFacts DEF Truncate, SingleTmp, SingleText, SingleFile, SingleUnit, Types, Inodes
<1>8. CASE Fill(e)
  BY <1>8, GoOnFacts DEF Fill, Filled, SingleTmp, SingleText, SingleFile, SingleUnit, Types, Inodes
<1>9. CASE Rename(e)
  BY <1>1, <1>9, GoOnFacts, EndFacts
  DEF Rename, AfterSave, AfterError, SingleTmp, SingleText, SingleFile, SingleUnit, Types, Inodes, Holding
<1>10. CASE WriteFails(e) \/ Killed(e)
  BY <1>10, GoOnFacts, EndFacts
  DEF WriteFails, Killed, AfterError, CloseFiles, WithoutWriter, SingleTmp, SingleText, SingleFile,
      SingleUnit, Types, Inodes
<1>11. CASE TryRestart(e)
  BY <1>11, GoOnFacts
  DEF TryRestart, Fork, UnitActive, SingleTmp, SingleText, SingleFile, SingleUnit, Types, Daemons, Stages
<1>12. CASE Verify(e)
  BY <1>12, GoOnFacts DEF Verify, SingleTmp, SingleText, SingleFile, SingleUnit
<1>13. CASE Undo(e)
  BY <1>13 DEF Undo, SingleTmp, SingleText, SingleFile, SingleUnit, Types, Edits
<1>14. CASE RestartPrior(e)
  BY <1>14, GoOnFacts
  DEF RestartPrior, Fork, SingleTmp, SingleText, SingleFile, SingleUnit, Types, Daemons, Stages
<1>15. CASE ConfirmPrior(e)
  BY <1>15, GoOnFacts DEF ConfirmPrior, SingleTmp, SingleText, SingleFile, SingleUnit
<1>16. CASE Run
  BY <1>1, <1>16
  DEF Run, LoadConfig, ReserveDaemon, LoadDetector, Stops, Launch, GiveUp, SetPause, Exit, ReadAs,
      SingleTmp, SingleText, SingleFile, SingleUnit, Types, Daemons, Stages
<1>17. QED
  BY <1>2, <1>3, <1>4, <1>5, <1>6, <1>7, <1>8, <1>9, <1>10, <1>11, <1>12, <1>13, <1>14, <1>15,
     <1>16 DEF Edit

-----------------------------------------------------------------------------
LEMMA InvHolds == EditSpec => []Inv
<1>1. EditInit => Inv
  BY TypesInit, HoldingInit, WholeInit, SingleInit DEF Inv
<1>2. Inv /\ [EditNext]_editVars => Inv'
  <2> SUFFICES ASSUME Inv, [EditNext]_editVars PROVE Inv'
    OBVIOUS
  <2>1. Types' /\ Holding' /\ Whole'
    BY TypesStep, HoldingStep, WholeStep DEF Inv
  <2>2. ASSUME NEW e \in Editors, Alone(e)' PROVE Single(e)'
    <3>1. Alone(e) /\ \A f \in Editors \ {e} : ~Edit(f)
      BY <2>2, AloneBefore DEF Inv
    <3>2. Single(e)
      BY <3>1 DEF Inv
    <3>3. CASE UNCHANGED editVars
      BY <3>2, <3>3 DEF editVars, Single, SingleTmp, SingleText, SingleFile, SingleUnit
    <3>4. CASE Edit(e) \/ Run
      BY <3>2, <3>4, SingleStep DEF Inv
    <3>5. QED
      BY <3>1, <3>3, <3>4 DEF EditNext
  <2>3. QED
    BY <2>1, <2>2 DEF Inv
<1>3. QED
  BY <1>1, <1>2, PTL DEF EditSpec

\* A torn file is the work of an edit that relied on the unit: however many edits there
\* are, those that hold the reservation (managed_service_active_for_config) never mix what
\* they write to toml.tmp.
THEOREM TornOnlyByManaged == EditSpec => []WholeUnderReservation
<1>1. Inv => WholeUnderReservation
  BY DEF Inv, Whole, AloneWithTmp, WholeUnderReservation
<1>2. QED
  BY <1>1, InvHolds, PTL

\* Of any number of edits, one that is not followed by a restart of the unit is saved while
\* no daemon runs, because bind_daemon_instance held the reservation all the while.
THEOREM SavedAlone == EditSpec => UnmanagedSaveAlone
<1>1. ASSUME Inv, [EditNext]_editVars, NEW e \in Editors, edit'[e].pc = "saved", edit[e].pc = "rename"
      PROVE  \A d \in Daemons : daemon[d].pc \notin {"reserved", "up"}
  <2>1. ~(Run \/ UNCHANGED editVars)
    BY <1>1 DEF Run, editVars
  <2>2. PICK f \in Editors : Edit(f)
    BY <1>1, <2>1 DEF EditNext
  <2>3. Edit(e)
    BY <1>1, <2>2, OwnRecord DEF Inv
  <2>4. ~edit[e].managed
    <3> USE DEF Inv, Places, Ends
    <3>1. CASE Rename(e)
      BY <1>1, <3>1, GoOnFacts, EndFacts DEF Rename, AfterSave, AfterError
    <3>2. CASE WriteFails(e) \/ Killed(e)
      BY <1>1, <3>2, GoOnFacts, EndFacts DEF WriteFails, Killed, AfterError
    <3>3. QED
      BY <1>1, <2>3, <3>1, <3>2
      DEF Edit, Load, Inspect, CheckPause, Reserve, Snapshot, Truncate, Fill, TryRestart, Verify,
          Undo, RestartPrior, ConfirmPrior
  <2>5. holder = e
    BY <1>1, <2>4 DEF Inv, Holding, Writing
  <2>6. QED
    BY <1>1, <2>5, EditorsAssumption DEF Inv, Holding, EditorsAssumption
<1>2. Inv /\ [EditNext]_editVars =>
        [\A e \in Editors : edit'[e].pc = "saved" /\ edit[e].pc = "rename" =>
           \A d \in Daemons : daemon[d].pc \notin {"reserved", "up"}]_editVars
  BY <1>1
<1>3. QED
  BY <1>2, InvHolds, PTL DEF EditSpec, UnmanagedSaveAlone

\* An edit that has reported success on top of an active unit was read by the unit's
\* process: try-restart came behind the save.
THEOREM SavedRuns == EditSpec => []SavedIsRunning
<1>1. Inv => SavedIsRunning
  BY DEF Inv, Single, SingleUnit, SavedIsRunning
<1>2. QED
  BY <1>1, InvHolds, PTL

\* "previous configuration and daemon were restored" is said only when they were.
THEOREM FailedRestores == EditSpec => []FailedIsUndone
<1>1. Inv => FailedIsUndone
  BY DEF Inv, Single, SingleFile, SingleText, SingleUnit, FailedIsUndone
<1>2. QED
  BY <1>1, InvHolds, PTL
=============================================================================
