---------------------------- MODULE ServiceInstall ----------------------------
(***************************************************************************)
(* `omawake setup systemd' with --uninstall, `start' and `stop'            *)
(* (setup/systemd.rs): a unit of the user's systemd is written, loaded,    *)
(* enabled and restarted, each by a command that may fail, and a failure   *)
(* undoes what came before.  Besides, the user has units of his own or of  *)
(* a package, overrides, and daemons without a unit.                       *)
(***************************************************************************)
EXTENDS Naturals

CONSTANT MaxServiceCommands   \* bound: the commands, and the faults of one

\* Units by what they run: the one this command generates, one an earlier command
\* generated, the packaged one, and one the user wrote.
Generated == {"new", "old"}
NoUnit == "none"

VARIABLES
  unit,        \* the file in the user's directory
  package,     \* the unit that is loaded without it
  loaded,      \* the unit that systemd knows
  override,    \* a drop-in changes its command
  enabled,
  active,      \* the unit that the running service was started from, or NoUnit
  direct,      \* a daemon runs without a unit
  conf,        \* the configuration: "missing", "broken" or "whole"
  op,          \* the command under way, and what it has noted
  runs, faults

serviceVars == <<unit, package, loaded, override, enabled, active, direct, conf, op, runs, faults>>

NoOp == [pc |-> "idle", start |-> FALSE, wasActive |-> FALSE, wasEnabled |-> FALSE,
         enableTried |-> FALSE, restartTried |-> FALSE, misread |-> FALSE, crashed |-> FALSE, previous |-> NoUnit,
         original |-> "whole", before |-> NoUnit, result |-> "none"]

ServiceInit ==
  /\ unit \in {NoUnit, "old", "user"} /\ override \in BOOLEAN
  /\ package \in {NoUnit, "packaged"} /\ loaded = (IF unit # NoUnit THEN unit ELSE package)
  /\ enabled \in BOOLEAN /\ active \in {NoUnit, loaded} /\ (loaded = NoUnit => ~enabled)
  /\ direct \in BOOLEAN /\ (active # NoUnit => ~direct)
  /\ conf \in {"missing", "broken", "whole"}
  /\ op = NoOp /\ runs = 0 /\ faults = 0

-----------------------------------------------------------------------------
Goto(pc) == op' = [op EXCEPT !.pc = pc]
Unless(pc) == Goto(pc) /\ faults < MaxServiceCommands /\ faults' = faults + 1
Quiet == UNCHANGED <<unit, package, loaded, override, enabled, active, direct, conf, runs>>

\* read_managed_unit
Managed(file) == file \in Generated
\* effective_targets_config
Effective == unit = loaded /\ ~override

\* A service of Type=simple is active from its fork, and may stop by itself at any time
\* after it: the configuration is broken, another daemon has the reservation, a crash.
\* That systemd may start it again after RestartSec is left out.
Dies ==
  /\ op.pc \notin {"idle", "done"} /\ active # NoUnit
  /\ active' = NoUnit /\ op' = [op EXCEPT !.crashed = TRUE]
  /\ UNCHANGED <<unit, package, loaded, override, enabled, direct, conf, runs, faults>>

\* `systemctl restart' and is_active right behind it: an error leaves the old service,
\* none, or the new one.
Restart(to, failed) ==
  \/ /\ loaded # NoUnit /\ active' = loaded /\ Goto(to)
     /\ UNCHANGED <<unit, loaded, override, enabled, direct, conf, runs, package, faults>>
  \/ /\ active' \in {NoUnit, active, loaded} /\ Unless(failed)
     /\ UNCHANGED <<unit, loaded, override, enabled, direct, conf, runs, package>>

Reload(to, failed) ==
  \/ /\ loaded' = (IF unit # NoUnit THEN unit ELSE package) /\ Goto(to)
     /\ UNCHANGED <<unit, override, enabled, active, direct, conf, runs, package, faults>>
  \/ Unless(failed) /\ Quiet

-----------------------------------------------------------------------------
(* SetupCommand::Systemd and systemd::install *)

\* The snapshots.  A daemon that answers while the unit does not seem active refuses
\* the command; a question after the enablement that fails is taken for a no.
BeginInstall ==
  /\ op.pc = "idle" /\ runs < MaxServiceCommands /\ runs' = runs + 1
  /\ active # NoUnit \/ ~direct
  /\ \E start \in BOOLEAN, wasEnabled \in {enabled, FALSE} :
       op' = [NoOp EXCEPT !.pc = "config", !.start = start, !.original = conf,
                          !.before = active, !.wasActive = active # NoUnit,
                          !.wasEnabled = wasEnabled, !.misread = enabled # wasEnabled,
                          !.previous = unit]
  /\ faults' = 0 /\ UNCHANGED <<unit, package, loaded, override, enabled, active, direct, conf>>

\* ensure_config, or the repair of one that cannot be parsed.
EnsureConfig ==
  /\ op.pc = "config"
  /\ \/ /\ conf' = "whole" /\ Goto(IF unit = NoUnit \/ Managed(unit) THEN "write" ELSE "config undone")
        /\ UNCHANGED <<unit, loaded, override, enabled, active, direct, runs, package, faults>>
     \/ Unless("config undone") /\ Quiet

WriteUnit ==
  /\ op.pc = "write"
  /\ \/ /\ unit' = "new" /\ Goto("reload")
        /\ UNCHANGED <<loaded, override, enabled, active, direct, conf, runs, package, faults>>
     \/ Unless("undo") /\ Quiet

ReloadNew == op.pc = "reload" /\ Reload("effective", "undo")

CheckEffective ==
  /\ op.pc = "effective" /\ Goto(IF Effective THEN "enable" ELSE "undo")
  /\ Quiet /\ UNCHANGED faults

\* Noted before it is tried, as a command that fails may have done its work.
Enable ==
  /\ op.pc = "enable"
  /\ enabled' \in {enabled, TRUE}
  /\ \/ /\ enabled' /\ op' = [op EXCEPT !.pc = IF op.start THEN "restart" ELSE "installed", !.enableTried = TRUE]
        /\ UNCHANGED faults
     \/ /\ op' = [op EXCEPT !.pc = "undo", !.enableTried = TRUE]
        /\ faults < MaxServiceCommands /\ faults' = faults + 1
  /\ UNCHANGED <<unit, loaded, override, active, direct, conf, runs, package>>

\* A slip: a restart is noted when it has succeeded.
RestartNoted ==
  /\ op.pc = "restart" /\ Restart("installed", "undo")

RestartNew ==
  /\ op.pc = "restart"
  /\ \/ /\ loaded # NoUnit /\ active' = loaded /\ op' = [op EXCEPT !.pc = "installed", !.restartTried = TRUE]
        /\ UNCHANGED faults
     \/ /\ active' \in {NoUnit, active, loaded} /\ op' = [op EXCEPT !.pc = "undo", !.restartTried = TRUE]
        /\ faults < MaxServiceCommands /\ faults' = faults + 1
  /\ UNCHANGED <<unit, loaded, override, enabled, direct, conf, runs, package>>

\* What was tried is undone; the first failure ends it and is reported.
StopNew ==
  /\ op.pc = "undo"
  /\ IF ~op.restartTried THEN Goto("unit undone") /\ Quiet /\ UNCHANGED faults
     ELSE \/ /\ active' = NoUnit /\ Goto("unit undone")
             /\ UNCHANGED <<unit, loaded, override, enabled, direct, conf, runs, package, faults>>
          \/ Unless("not restored") /\ Quiet

UndoUnit ==
  /\ op.pc = "unit undone"
  /\ \/ /\ unit' = op.previous /\ Goto("reloaded")
        /\ UNCHANGED <<loaded, override, enabled, active, direct, conf, runs, package, faults>>
     \/ Unless("not restored") /\ Quiet

ReloadOld == op.pc = "reloaded" /\ Reload("enablement undone", "not restored")

UndoEnable ==
  /\ op.pc = "enablement undone"
  /\ \/ /\ enabled' = (IF op.enableTried THEN op.wasEnabled ELSE enabled) /\ Goto("service undone")
        /\ UNCHANGED <<unit, loaded, override, active, direct, conf, runs, package, faults>>
     \/ op.enableTried /\ Unless("not restored") /\ Quiet

UndoActive ==
  /\ op.pc = "service undone"
  /\ IF op.wasActive /\ op.restartTried THEN Restart("config undone", "not restored")
     ELSE Goto("config undone") /\ Quiet /\ UNCHANGED faults

\* The configuration that was created or repaired for the service is taken back.
UndoConfig ==
  /\ op.pc \in {"config undone", "not restored"}
  /\ \/ /\ conf' = op.original
        /\ op' = [op EXCEPT !.pc = "done", !.result = IF op.pc = "not restored" THEN "half" ELSE "failed"]
        /\ UNCHANGED faults
     \/ /\ op' = [op EXCEPT !.pc = "done", !.result = "half"] /\ UNCHANGED conf
        /\ faults < MaxServiceCommands /\ faults' = faults + 1
  /\ UNCHANGED <<unit, loaded, override, enabled, active, direct, runs, package>>

Installed ==
  /\ op.pc = "installed" /\ op' = [op EXCEPT !.pc = "done", !.result = "installed"]
  /\ Quiet /\ UNCHANGED faults

-----------------------------------------------------------------------------
(* systemd::uninstall, start and stop *)

BeginOther ==
  /\ op.pc = "idle" /\ runs < MaxServiceCommands /\ runs' = runs + 1 /\ Managed(unit)
  /\ \E pc \in {"disable", "start", "stop"} :
       /\ pc = "disable" => Effective
       /\ pc = "start" => active # NoUnit \/ ~direct
       /\ op' = [NoOp EXCEPT !.pc = pc]
  /\ faults' = 0 /\ UNCHANGED <<unit, package, loaded, override, enabled, active, direct, conf>>

\* `disable --now', which must have stopped it, then the file and a reload.
Disable ==
  /\ op.pc = "disable"
  /\ \/ /\ enabled' = FALSE /\ active' = NoUnit /\ Goto("remove")
        /\ UNCHANGED <<unit, loaded, override, direct, conf, runs, package, faults>>
     \/ /\ enabled' \in {enabled, FALSE} /\ active' \in {active, NoUnit} /\ Unless("refused")
        /\ UNCHANGED <<unit, loaded, override, direct, conf, runs, package>>

RemoveUnit ==
  /\ op.pc = "remove"
  /\ \/ /\ unit' = NoUnit /\ Goto("forget")
        /\ UNCHANGED <<loaded, override, enabled, active, direct, conf, runs, package, faults>>
     \/ Unless("refused") /\ Quiet

Forget == op.pc = "forget" /\ Reload("removed", "refused")

\* set_active_with
StartUnit ==
  /\ op.pc = "start"
  /\ IF active # NoUnit THEN Goto("ended") /\ Quiet /\ UNCHANGED faults ELSE Restart("ended", "refused")
StopUnit ==
  /\ op.pc = "stop"
  /\ \/ /\ active' = NoUnit /\ Goto("ended")
        /\ UNCHANGED <<unit, loaded, override, enabled, direct, conf, runs, package, faults>>
     \/ Unless("refused") /\ Quiet

Ended ==
  /\ op.pc \in {"removed", "refused", "ended"}
  /\ op' = [op EXCEPT !.pc = "done", !.result = op.pc]
  /\ Quiet /\ UNCHANGED faults

\* The next command starts from what this one has left.
NextCommand ==
  /\ op.pc = "done" /\ op' = NoOp /\ faults' = 0
  /\ Quiet

ServiceStep ==
  \/ BeginInstall \/ EnsureConfig \/ WriteUnit \/ ReloadNew \/ CheckEffective \/ Enable
  \/ RestartNew \/ StopNew \/ UndoUnit \/ ReloadOld \/ UndoEnable \/ UndoActive \/ UndoConfig
  \/ Installed \/ BeginOther \/ Disable \/ RemoveUnit \/ Forget \/ StartUnit \/ StopUnit
  \/ Ended \/ NextCommand \/ Dies

ServiceSpec == ServiceInit /\ [][ServiceStep]_serviceVars

-----------------------------------------------------------------------------
\* An installation that fails, and does not report that its undoing failed too, has
\* changed nothing: the unit, whether it is enabled, the configuration, and whether the
\* service runs, from the old unit if it had to be stopped; unless the enablement was
\* misread, or the service has stopped by itself.  One that succeeds has started what it
\* has written, whatever an override or a packaged unit says.
ServiceUndone ==
  op.pc = "done" =>
    /\ op.result = "failed" =>
         /\ unit = op.previous /\ conf = op.original
         /\ (~op.misread /\ op.enableTried) => enabled = op.wasEnabled
         /\ active # NoUnit => op.wasActive
         /\ op.wasActive /\ ~op.crashed => active = IF op.restartTried THEN loaded ELSE op.before
    /\ op.result = "installed" =>
         /\ unit = "new" /\ loaded = "new" /\ ~override /\ enabled
         /\ op.start /\ ~op.crashed => active = "new"
    /\ op.result = "removed" => unit = NoUnit /\ active = NoUnit /\ ~enabled
=============================================================================
