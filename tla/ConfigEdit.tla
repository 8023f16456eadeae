----------------------------- MODULE ConfigEdit -----------------------------
(***************************************************************************)
(* The transaction by which a command edits the configuration file:        *)
(* save_and_reload_active, the write through toml.tmp, and the daemons     *)
(* that read the file, one run by the user unit of systemd and one that a  *)
(* user launches directly.                                                 *)
(*                                                                         *)
(* A configuration is the set of edits it contains, and Torn is a file     *)
(* that is truncated, or mixed from two writes.  The unit is a recognized  *)
(* one for this file, the file exists, and it is not a link: the names     *)
(* behind links are in SocketLifecycle.                                    *)
(***************************************************************************)
EXTENDS FiniteSets

CONSTANTS
  Editors,     \* the commands that each make one edit
  Bad,         \* the edits with which a detector cannot be loaded
  Torn,        \* what a file holds that is no configuration
  Missing,     \* the temporary file does not exist
  Nobody       \* nobody holds the reservation

Daemons == {"unit", "direct"}

ASSUME EditorsAssumption ==
  /\ Bad \subseteq Editors
  /\ Editors \cap Daemons = {} /\ Nobody \notin Editors \cup Daemons
  /\ \A s \in SUBSET Editors : Torn # s

VARIABLES
  file,        \* the inode of the configuration: its content, and who writes to it
  tmp,         \* the inode of toml.tmp, or Missing
  edit,        \* of each editor: where it is, and what it has read
  daemon,      \* of both daemons: where each is, and the configuration it loaded
  holder,      \* who holds the reservation of daemon_instance
  paused       \* the running daemon is manually paused

editVars == <<file, tmp, edit, daemon, holder, paused>>

Ends == {"saved", "refused", "failed", "incomplete", "killed"}

\* is-active: the unit is of Type=simple, and active from its fork.
UnitActive == daemon["unit"].pc \in {"forked", "loaded", "reserved", "up"}

\* What a reader makes of a file: a torn one is no TOML, or too few of its keys.
ReadAs(content) == IF content = Torn THEN {Torn, {}} ELSE {content}

EditInit ==
  /\ file = [content |-> {}, open |-> {}]
  /\ tmp = Missing
  /\ edit = [e \in Editors |->
       [pc |-> "idle", text |-> {}, before |-> {}, managed |-> FALSE, undo |-> FALSE]]
  /\ \/ daemon = [d \in Daemons |-> [pc |-> "inactive", config |-> {}]] /\ holder = Nobody
     \/ \E d \in Daemons :
          /\ daemon = [x \in Daemons |-> [pc |-> IF x = d THEN "up" ELSE "inactive", config |-> {}]]
          /\ holder = d
  /\ paused = FALSE

-----------------------------------------------------------------------------
(* The editors. *)

GoOn(e, pc) == edit' = [edit EXCEPT ![e].pc = pc]

\* The command returns: the reservation it has is released.
End(e, pc) ==
  /\ GoOn(e, pc)
  /\ holder' = IF holder = e THEN Nobody ELSE holder

\* Config::load, long before the edit is applied.
Load(e) ==
  /\ edit[e].pc = "idle"
  /\ \E content \in ReadAs(file.content) :
       IF content = Torn
       THEN GoOn(e, "refused")
       ELSE edit' = [edit EXCEPT ![e].pc = "inspect", ![e].text = content \cup {e}]
  /\ UNCHANGED <<file, tmp, daemon, holder, paused>>

\* managed_service_active_for_config: does the unit run this configuration?
Inspect(e) ==
  /\ edit[e].pc = "inspect"
  /\ edit' = [edit EXCEPT ![e].managed = UnitActive,
                          ![e].pc = IF UnitActive THEN "pause" ELSE "reserve"]
  /\ UNCHANGED <<file, tmp, daemon, holder, paused>>

\* manual_pause_state; the request may fail.
CheckPause(e) ==
  /\ edit[e].pc = "pause"
  /\ \E pc \in {"refused"} \cup (IF paused THEN {} ELSE {"ready"}) : GoOn(e, pc)
  /\ UNCHANGED <<file, tmp, daemon, holder, paused>>

\* Slip: the reservation is dropped as soon as it is known that nobody has it.
ReserveBriefly(e) ==
  /\ edit[e].pc = "reserve"
  /\ GoOn(e, IF holder = Nobody THEN "ready" ELSE "refused")
  /\ UNCHANGED <<file, tmp, daemon, holder, paused>>

\* Without a unit to restart, no daemon may run while the file is edited.
Reserve(e) ==
  /\ edit[e].pc = "reserve"
  /\ IF holder = Nobody
     THEN holder' = e /\ GoOn(e, "ready")
     ELSE GoOn(e, "refused") /\ UNCHANGED holder
  /\ UNCHANGED <<file, tmp, daemon, paused>>

\* config_snapshot.
Snapshot(e) ==
  /\ edit[e].pc = "ready"
  /\ edit' = [edit EXCEPT ![e].before = file.content, ![e].pc = "write"]
  /\ UNCHANGED <<file, tmp, daemon, holder, paused>>

\* fs::write opens and truncates a temporary file whose name all editors share, ...
Truncate(e) ==
  /\ edit[e].pc = "write"
  /\ tmp' = [content |-> Torn, open |-> {e} \cup IF tmp = Missing THEN {} ELSE tmp.open]
  /\ GoOn(e, "fill")
  /\ UNCHANGED <<file, daemon, holder, paused>>

\* ... and writes to what it has opened, which may have been renamed by now.
Filled(inode, e) ==
  {[content |-> c, open |-> inode.open \ {e}] :
     c \in {edit[e].text} \cup IF inode.content = Torn THEN {} ELSE {Torn}}

Fill(e) ==
  /\ edit[e].pc = "fill"
  /\ GoOn(e, "rename")
  /\ \/ tmp # Missing /\ e \in tmp.open /\ tmp' \in Filled(tmp, e) /\ UNCHANGED file
     \/ e \in file.open /\ file' \in Filled(file, e) /\ UNCHANGED tmp
     \* What it has opened has been replaced.
     \/ (tmp # Missing => e \notin tmp.open) /\ e \notin file.open /\ UNCHANGED <<file, tmp>>
  /\ UNCHANGED <<daemon, holder, paused>>

\* Slip: that the unit is active counts as its restart.
AfterSaveActive(e) ==
  IF edit[e].undo THEN "restart" ELSE IF edit[e].managed THEN "verify" ELSE "saved"

\* What follows the save: the reload, or after a restore the restart of the prior daemon.
AfterSave(e) ==
  IF edit[e].undo THEN "restart" ELSE IF edit[e].managed THEN "reload" ELSE "saved"

\* What a failure of the file system leads to: only the restore is under way already.
AfterError(e) == IF edit[e].undo THEN "incomplete" ELSE "refused"

Rename(e) ==
  /\ edit[e].pc = "rename"
  /\ IF tmp = Missing
     THEN End(e, AfterError(e)) /\ UNCHANGED <<file, tmp>>
     ELSE /\ file' = tmp /\ tmp' = Missing
          /\ IF AfterSave(e) \in Ends THEN End(e, AfterSave(e))
                                      ELSE GoOn(e, AfterSave(e)) /\ UNCHANGED holder
  /\ UNCHANGED <<daemon, paused>>

\* An error of the file system; what is open is closed.
WithoutWriter(inode, e) == [inode EXCEPT !.open = @ \ {e}]

CloseFiles(e) ==
  /\ file' = WithoutWriter(file, e)
  /\ tmp' = IF tmp = Missing THEN Missing ELSE WithoutWriter(tmp, e)

WriteFails(e) ==
  /\ edit[e].pc \in {"ready", "write", "fill", "rename"}
  /\ End(e, AfterError(e))
  /\ CloseFiles(e)
  /\ UNCHANGED <<daemon, paused>>

\* The command is killed.
Killed(e) ==
  /\ edit[e].pc \notin Ends \cup {"idle"}
  /\ End(e, "killed")
  /\ CloseFiles(e)
  /\ UNCHANGED <<daemon, paused>>

-----------------------------------------------------------------------------
(* systemd. *)

\* A new process of the unit in the place of the old one, whose reservation is gone.
Fork ==
  /\ daemon' = [daemon EXCEPT !["unit"] = [pc |-> "forked", config |-> {}]]
  /\ holder' = IF holder = "unit" THEN Nobody ELSE holder
  /\ paused' = (paused /\ holder # "unit")

\* reload_if_was_active: try-restart, which does nothing for a unit that is down.
TryRestart(e) ==
  /\ edit[e].pc = "reload"
  /\ \/ /\ GoOn(e, "verify")
        /\ IF UnitActive \/ daemon["unit"].pc = "waiting"
           THEN Fork
           ELSE UNCHANGED <<daemon, holder, paused>>
     \/ GoOn(e, "undo") /\ UNCHANGED <<daemon, holder, paused>>
  /\ UNCHANGED <<file, tmp>>

\* is_active after the restart.
Verify(e) ==
  /\ edit[e].pc = "verify"
  /\ IF UnitActive THEN GoOn(e, "saved") ELSE GoOn(e, "undo")
  /\ UNCHANGED <<file, tmp, daemon, holder, paused>>

\* Slip: the rollback restarts the unit without the file it had.
UndoRestartOnly(e) ==
  /\ edit[e].pc = "undo"
  /\ GoOn(e, "restart")
  /\ UNCHANGED <<file, tmp, daemon, holder, paused>>

\* restore_config_snapshot writes like the save does.
Undo(e) ==
  /\ edit[e].pc = "undo"
  /\ edit' = [edit EXCEPT ![e].undo = TRUE, ![e].text = edit[e].before, ![e].pc = "write"]
  /\ UNCHANGED <<file, tmp, daemon, holder, paused>>

\* restart: a systemctl that fails leaves the rollback incomplete.
RestartPrior(e) ==
  /\ edit[e].pc = "restart"
  /\ \/ GoOn(e, "confirm") /\ Fork
     \/ GoOn(e, "incomplete") /\ UNCHANGED <<daemon, holder, paused>>
  /\ UNCHANGED <<file, tmp>>

ConfirmPrior(e) ==
  /\ edit[e].pc = "confirm"
  /\ GoOn(e, IF UnitActive THEN "failed" ELSE "incomplete")
  /\ UNCHANGED <<file, tmp, daemon, holder, paused>>

Edit(e) ==
  \/ Load(e) \/ Inspect(e) \/ CheckPause(e) \/ Reserve(e) \/ Snapshot(e)
  \/ Truncate(e) \/ Fill(e) \/ Rename(e) \/ WriteFails(e) \/ Killed(e)
  \/ TryRestart(e) \/ Verify(e) \/ Undo(e) \/ RestartPrior(e) \/ ConfirmPrior(e)

-----------------------------------------------------------------------------
(* The daemons. *)

\* The process ends, and with it its reservation: the unit of one that failed is started
\* again after RestartSec.
Exit(d, error) ==
  /\ daemon' = [daemon EXCEPT ![d] =
       [pc |-> IF d = "unit" /\ error THEN "waiting" ELSE "inactive", config |-> {}]]
  /\ holder' = IF holder = d THEN Nobody ELSE holder
  /\ paused' = (paused /\ holder # d)

\* The configuration is read before the daemon reserves it.
LoadConfig(d) ==
  /\ daemon[d].pc = "forked"
  /\ \E content \in ReadAs(file.content) :
       IF content = Torn
       THEN Exit(d, TRUE)
       ELSE /\ daemon' = [daemon EXCEPT ![d] = [pc |-> "loaded", config |-> content]]
            /\ UNCHANGED <<holder, paused>>

ReserveDaemon(d) ==
  /\ daemon[d].pc = "loaded"
  /\ IF holder = Nobody
     THEN /\ holder' = d
          /\ daemon' = [daemon EXCEPT ![d].pc = "reserved"]
          /\ UNCHANGED paused
     ELSE Exit(d, TRUE)

LoadDetector(d) ==
  /\ daemon[d].pc = "reserved"
  /\ IF daemon[d].config \cap Bad = {}
     THEN /\ daemon' = [daemon EXCEPT ![d].pc = "up"]
          /\ UNCHANGED <<holder, paused>>
     ELSE Exit(d, TRUE)

\* A daemon is stopped, or crashes.
Stops(d) ==
  /\ daemon[d].pc \notin {"inactive", "waiting", "exhausted"}
  /\ \E error \in BOOLEAN : Exit(d, error)

\* A user launches a daemon, or starts the unit; systemd starts a unit that has failed.
Launch(d) ==
  /\ daemon[d].pc \in {"inactive", "waiting", "exhausted"}
  /\ daemon' = [daemon EXCEPT ![d].pc = "forked"]
  /\ UNCHANGED <<holder, paused>>

\* Too many restarts: the unit has failed for good.
GiveUp ==
  /\ daemon["unit"].pc = "waiting"
  /\ daemon' = [daemon EXCEPT !["unit"].pc = "exhausted"]
  /\ UNCHANGED <<holder, paused>>

SetPause ==
  /\ \E d \in Daemons : daemon[d].pc = "up"
  /\ paused' = ~paused
  /\ UNCHANGED <<daemon, holder>>

Run ==
  /\ \/ \E d \in Daemons : LoadConfig(d) \/ ReserveDaemon(d) \/ LoadDetector(d) \/ Stops(d) \/ Launch(d)
     \/ GiveUp \/ SetPause
  /\ UNCHANGED <<file, tmp, edit>>

EditNext == Run \/ \E e \in Editors : Edit(e)

EditSpec == EditInit /\ [][EditNext]_editVars

-----------------------------------------------------------------------------
(* Properties. *)

\* No other edit has begun.
Alone(e) == \A f \in Editors \ {e} : edit[f].pc = "idle"

\* The file is torn only by an edit that relies on the unit: those that hold the
\* reservation write one after the other.
WholeUnderReservation == file.content = Torn => \E e \in Editors : edit[e].managed

\* "stop the running Omawake daemon before editing its configuration": an edit that is
\* not followed by a restart of the unit is saved while no daemon runs.
UnmanagedSaveAlone ==
  [][\A e \in Editors :
       edit'[e].pc = "saved" /\ edit[e].pc = "rename" =>
         \A d \in Daemons : daemon[d].pc \notin {"reserved", "up"}]_editVars

\* "successful changes restart it": once an edit that found the unit active has
\* succeeded, the unit does not run a configuration without it.
SavedIsRunning ==
  \A e \in Editors :
    edit[e].pc = "saved" /\ edit[e].managed /\ Alone(e) =>
      \/ e \in daemon["unit"].config
      \/ daemon["unit"].pc \notin {"loaded", "reserved", "up"}

\* "previous configuration and daemon were restored": when the command says so, the file
\* is what it was, and the unit does not run the edit.
FailedIsUndone ==
  \A e \in Editors :
    edit[e].pc = "failed" /\ Alone(e) =>
      file.content = edit[e].before /\ e \notin daemon["unit"].config

\* "Omawake restores the prior config and explicitly restarts the prior daemon if the
\* updated daemon fails to start": a start of the unit does not fail behind an edit that
\* has reported success.
FailedStartRestores ==
  [][\A e \in Editors :
       edit[e].pc = "saved" /\ edit[e].managed /\ Alone(e) =>
         ~(LoadDetector("unit") /\ daemon'["unit"].pc = "waiting")]_editVars
=============================================================================
