-------------------------------- MODULE Setup --------------------------------
(***************************************************************************)
(* install_everything_with_config_and_cache: the model, the compiled cache,*)
(* the configuration, the launcher and the service as one change, undone   *)
(* when a part of it fails.  A setup of a configuration no unit runs holds *)
(* the daemons' reservation; setups of a running unit may overlap.         *)
(***************************************************************************)
EXTENDS ModelInstall, CachePreparation

\* A setup prepares the cache it needs itself.
ASSUME SetupAssumption == Installer \subseteq Preparer

VARIABLES
  step,        \* where each setup is
  config,      \* the configuration file: "none", "old", "new" or "torn"
  tmp,         \* toml.tmp
  launcher,    \* the desktop entry: "none", "old" or "new"
  service,     \* what the unit's daemon was started with, or "down"
  reserved,    \* the setup that holds the reservation of daemon_instance
  found,       \* what each setup found
  alone,       \* no other setup has run beside it
  restarted,   \* service_restart_attempted
  incomplete   \* its rollback has had errors

ownVars == <<config, tmp, launcher, service, reserved, found, alone, restarted, incomplete>>
setupVars == <<installVars, cacheVars, step, ownVars>>

SetupEnded == {"idle", "refused", "done", "failed", "killed"}
\* A setup that has not got past the reservation changes nothing.
Apart == SetupEnded \cup {"reserve"}

\* What a setup knows of before it has begun, and when it has ended.
Unknown == [config |-> "none", launcher |-> "none", service |-> "down"]

\* A first setup finds neither a configuration nor a launcher.
SetupInit ==
  /\ InstallInit /\ CacheInit
  /\ step = [p \in Installer |-> "idle"]
  /\ config \in {"none", "old"} /\ launcher = config /\ tmp = "none"
  /\ service \in {"down"} \cup ({config} \ {"none"})
  /\ reserved = None
  /\ found = [p \in Installer |-> Unknown]
  /\ alone = [p \in Installer |-> TRUE]
  /\ restarted = [p \in Installer |-> FALSE] /\ incomplete = [p \in Installer |-> FALSE]

At(p, from, to) == step[p] = from /\ step' = [step EXCEPT ![p] = to]

\* The command ends: its reservation and what it knew are gone.
Forget(p) ==
  /\ reserved' = (IF reserved = p THEN None ELSE reserved)
  /\ found' = [found EXCEPT ![p] = Unknown]

-----------------------------------------------------------------------------
\* A setup gets past the reservation: it is alone until another one does.
Enter(p) ==
  alone' = [q \in Installer |->
    IF q = p THEN \A r \in Installer \ {p} : step[r] \in Apart
    ELSE alone[q] /\ step[q] \in Apart]

\* managed_service_active_for_config: a unit that is active will be restarted ...
FindActive(p) ==
  /\ service # "down" /\ At(p, "idle", "snapshot")
  /\ found' = [found EXCEPT ![p].service = service]
  /\ Enter(p)
  /\ UNCHANGED <<installVars, cacheVars, config, tmp, launcher, service, reserved, restarted, incomplete>>

FindDown(p) ==
  /\ service = "down" /\ At(p, "idle", "reserve")
  /\ UNCHANGED <<installVars, cacheVars, ownVars>>

\* ... and without one the daemons' reservation is taken: a unit that has come up has it.
Reserve(p) ==
  /\ reserved = None /\ service = "down" /\ At(p, "reserve", "snapshot")
  /\ reserved' = p
  /\ Enter(p)
  /\ UNCHANGED <<installVars, cacheVars, config, tmp, launcher, service, found, restarted, incomplete>>

\* "stop the running Omawake daemon before editing its configuration", or the one that
\* is active is paused or another one's.
Refuse(p) ==
  /\ At(p, "reserve", "refused") \/ (service # "down" /\ At(p, "idle", "refused"))
  /\ UNCHANGED <<installVars, cacheVars, ownVars>>

\* FileSnapshot::capture and config_snapshot.
CaptureFiles(p) ==
  /\ At(p, "snapshot", "install")
  /\ found' = [found EXCEPT ![p].config = config, ![p].launcher = launcher]
  /\ UNCHANGED <<installVars, cacheVars, config, tmp, launcher, service, reserved, alone, restarted, incomplete>>

Install(p) ==
  /\ step[p] = "install" /\ InstallStep(p)
  /\ UNCHANGED <<cacheVars, step, ownVars>>

\* The model is proved; an accelerator needs a compiled cache.
Proved(p) ==
  /\ at[p] = "installed"
  /\ \/ At(p, "install", "save") /\ UNCHANGED prepares
     \/ At(p, "install", "cache") /\ prepares' = [prepares EXCEPT ![p] = "next"]
  /\ UNCHANGED <<installVars, attempt, child, response, ownVars>>

NotInstalled(p) ==
  /\ at[p] \in {"installed", "refused"}
  /\ At(p, "install", "undo config")
  /\ UNCHANGED <<installVars, cacheVars, ownVars>>

Cache(p) ==
  /\ step[p] = "cache" /\ CacheStep(p)
  /\ UNCHANGED <<installVars, step, ownVars>>

CacheEnds(p) ==
  /\ \/ prepares[p] = "prepared" /\ At(p, "cache", "save")
     \/ prepares[p] = "failed" /\ At(p, "cache", "undo config")
  /\ UNCHANGED <<installVars, cacheVars, ownVars>>

\* Config::save truncates a temporary file whose name all setups share, fills it, ...
Truncate(p) ==
  /\ At(p, "save", "fill")
  /\ tmp' = "torn"
  /\ UNCHANGED <<installVars, cacheVars, config, launcher, service, reserved, found, alone, restarted, incomplete>>

Fill(p) ==
  /\ At(p, "fill", "rename")
  /\ tmp' = IF tmp = "none" THEN "none" ELSE "new"
  /\ UNCHANGED <<installVars, cacheVars, config, launcher, service, reserved, found, alone, restarted, incomplete>>

\* ... and renames what is there.
Rename(p) ==
  /\ IF tmp = "none" THEN At(p, "rename", "undo config") /\ UNCHANGED <<config, tmp>>
     ELSE At(p, "rename", "menu") /\ config' = tmp /\ tmp' = "none"
  /\ UNCHANGED <<installVars, cacheVars, launcher, service, reserved, found, alone, restarted, incomplete>>

\* menu::install writes a file of its own and renames it.
Menu(p) ==
  /\ At(p, "menu", "check")
  /\ launcher' = "new"
  /\ UNCHANGED <<installVars, cacheVars, config, tmp, service, reserved, found, alone, restarted, incomplete>>

Check(p) ==
  /\ At(p, "check", "restart")
  /\ UNCHANGED <<installVars, cacheVars, ownVars>>

\* The save, the launcher or the checks fail.
Fails(p) ==
  /\ \E l \in {"save", "fill", "rename", "menu", "check"} : At(p, l, "undo config")
  /\ UNCHANGED <<installVars, cacheVars, ownVars>>

\* A slip: the attempt is noted when it has succeeded.
RestartNoted(p) ==
  /\ \/ /\ At(p, "restart", "leave")
        /\ restarted' = [restarted EXCEPT ![p] = found[p].service # "down"]
        /\ service' = IF found[p].service = "down" THEN service ELSE config
     \/ /\ found[p].service # "down"
        /\ At(p, "restart", "undo config")
        /\ service' \in {service, "down", config} /\ UNCHANGED restarted
  /\ UNCHANGED <<installVars, cacheVars, config, tmp, launcher, reserved, found, alone, incomplete>>

\* reload_if_was_active restarts the unit and looks whether it is active; an error leaves
\* the old daemon, none, or the new one.
Restart(p) ==
  /\ restarted' = [restarted EXCEPT ![p] = found[p].service # "down"]
  /\ \/ /\ At(p, "restart", "leave")
        /\ service' = IF found[p].service = "down" THEN service ELSE config
     \/ /\ found[p].service # "down"
        /\ At(p, "restart", "undo config")
        /\ service' \in {service, "down", config}
  /\ UNCHANGED <<installVars, cacheVars, config, tmp, launcher, reserved, found, alone, incomplete>>

-----------------------------------------------------------------------------
\* The rollback goes on behind an error of one of its parts.
Incomplete(p) == incomplete' = [incomplete EXCEPT ![p] = TRUE]

\* restore_config_snapshot
UndoConfig(p) ==
  /\ At(p, "undo config", "undo launcher")
  /\ \/ config' = found[p].config /\ tmp' = "none" /\ UNCHANGED incomplete
     \/ Incomplete(p) /\ UNCHANGED <<config, tmp>>
  /\ UNCHANGED <<installVars, cacheVars, launcher, service, reserved, found, alone, restarted>>

\* FileSnapshot::restore
UndoLauncher(p) ==
  /\ At(p, "undo launcher", "undo service")
  /\ \/ launcher' = found[p].launcher /\ UNCHANGED incomplete
     \/ Incomplete(p) /\ UNCHANGED launcher
  /\ UNCHANGED <<installVars, cacheVars, config, tmp, service, reserved, found, alone, restarted>>

UndoService(p) ==
  /\ At(p, "undo service", "failed")
  /\ Forget(p)
  /\ \/ /\ service' = (IF restarted[p] THEN config ELSE service)
        /\ UNCHANGED incomplete
     \/ restarted[p] /\ Incomplete(p) /\ service' \in {service, "down", config}
  /\ UNCHANGED <<installVars, cacheVars, config, tmp, launcher, alone, restarted>>

Done(p) ==
  /\ At(p, "leave", "done")
  /\ Forget(p)
  /\ UNCHANGED <<installVars, cacheVars, config, tmp, launcher, service, alone, restarted, incomplete>>

\* The process is killed: a child that runs is not.
KillSetup(p) ==
  /\ step[p] \notin SetupEnded
  /\ step' = [step EXCEPT ![p] = "killed"]
  /\ IF at[p] \in Inside THEN KillInstaller(p) ELSE UNCHANGED installVars
  /\ Forget(p)
  /\ UNCHANGED <<cacheVars, config, tmp, launcher, service, alone, restarted, incomplete>>

SetupStep(p) ==
  \/ FindActive(p) \/ FindDown(p) \/ Reserve(p) \/ Refuse(p) \/ CaptureFiles(p)
  \/ Install(p) \/ Proved(p) \/ NotInstalled(p)
  \/ Cache(p) \/ CacheEnds(p) \/ Truncate(p) \/ Fill(p) \/ Rename(p) \/ Menu(p)
  \/ Check(p) \/ Fails(p) \/ Restart(p) \/ UndoConfig(p) \/ UndoLauncher(p)
  \/ UndoService(p) \/ Done(p)

SetupNext == \E p \in Installer : SetupStep(p) \/ KillSetup(p)

SetupSpec == SetupInit /\ [][SetupNext]_setupVars

-----------------------------------------------------------------------------
\* A setup that fails with its rollback complete, and that no other ran beside,
\* leaves the configuration, the launcher and the running daemon as it found them,
\* and no process or file of its own; only a model that was installed stays.
SetupUndone == [][\A p \in Installer :
  step[p] # "failed" /\ step'[p] = "failed" /\ alone[p] /\ ~incomplete'[p] =>
    /\ config' = found[p].config /\ launcher' = found[p].launcher
    /\ service' \in {found[p].service, found[p].config}
    /\ found[p].service # "down" => service' # "down"
    /\ staged'[p] = "none" /\ child'[p] = "none" /\ ~response'[p]]_setupVars
=============================================================================
