---------------------------- MODULE ModelInstall ----------------------------
(***************************************************************************)
(* The installation of one catalog profile (install_with_fetch) by several *)
(* processes: a lock that is never unlinked, a download that is cached     *)
(* under its checksum, a staging copy, and the exchange of two directories *)
(* by two renames.  The profile's assets, manifests and notices are one    *)
(* file here.  A signal sets a flag that is looked at; SIGKILL and a loss  *)
(* of power leave what there is.                                           *)
(***************************************************************************)
CONSTANTS
  Installer,   \* the processes, each of which installs once
  None         \* nobody holds the lock

ASSUME NobodyAssumption == None \notin Installer

VARIABLES
  at,        \* where each process is
  lock,      \* the holder of models/.locks/<id>.lock
  target,    \* models/<id>, where the daemon looks
  staged,    \* .<id>.install-<pid> of each process
  retained,  \* .<id>.old-<pid> of each process
  partial,   \* downloads/<id>/*.part is there
  object,    \* the verified download is there
  cancel,    \* the cancellation flag of each process
  misread    \* history: an error of a read made a whole model look damaged

files == <<target, staged, retained, partial, object, misread>>
installVars == <<at, lock, files, cancel>>

Version == {"none", "damaged", "whole"}
Inside == {"held", "absent", "fetch", "downloading", "copy", "discard", "ready",
           "vacant", "active", "verified", "finish", "fail"}
Ended == {"installed", "refused", "killed"}

InstallTypeOK ==
  /\ at \in [Installer -> {"idle"} \cup (Inside \cup Ended)]
  /\ lock \in Installer \cup {None}
  /\ target \in Version
  /\ staged \in [Installer -> Version] /\ retained \in [Installer -> Version]
  /\ partial \in BOOLEAN /\ object \in BOOLEAN
  /\ cancel \in [Installer -> BOOLEAN] /\ misread \in BOOLEAN

\* What an earlier catalog installed fails its check like any damaged model.
InstallInit ==
  /\ at = [p \in Installer |-> "idle"] /\ lock = None
  /\ target \in Version /\ object \in BOOLEAN /\ partial = FALSE
  /\ staged = [p \in Installer |-> "none"]
  /\ retained = [p \in Installer |-> "none"]
  /\ cancel = [p \in Installer |-> FALSE] /\ misread = FALSE

Goto(p, l) == at' = [at EXCEPT ![p] = l]

-----------------------------------------------------------------------------
\* A slip: the lock file is opened and not locked.
AcquireUnlocked(p) ==
  /\ at[p] = "idle"
  /\ Goto(p, "held")
  /\ UNCHANGED <<lock, files, cancel>>

Acquire(p) ==
  /\ at[p] = "idle" /\ lock = None
  /\ lock' = p /\ Goto(p, "held")
  /\ UNCHANGED <<files, cancel>>

Busy(p) ==
  /\ at[p] = "idle" /\ lock # None
  /\ Goto(p, "refused")
  /\ UNCHANGED <<lock, files, cancel>>

\* verify_directory reads every file and fails when the flag is set, or on any error.
CheckInstalled(p) ==
  LET passes == target = "whole" /\ ~cancel[p] IN
  /\ at[p] = "held"
  /\ \/ passes /\ Goto(p, "finish") /\ UNCHANGED misread
     \/ Goto(p, "absent") /\ misread' = (misread \/ passes)
  /\ UNCHANGED <<lock, target, staged, retained, partial, object, cancel>>

Prepare(p) ==
  /\ at[p] = "absent" /\ ~cancel[p]
  /\ staged' = [staged EXCEPT ![p] = "damaged"]
  /\ retained' = [retained EXCEPT ![p] = "none"]
  /\ Goto(p, "fetch")
  /\ UNCHANGED <<lock, target, partial, object, misread, cancel>>

\* No licence, no source directory, too little space, cancelled.
Unprepared(p) ==
  /\ at[p] = "absent"
  /\ Goto(p, "fail")
  /\ UNCHANGED <<lock, files, cancel>>

\* The asset was downloaded before, or a local directory has it.
HaveSource(p) ==
  /\ at[p] = "fetch"
  /\ Goto(p, "copy")
  /\ UNCHANGED <<lock, files, cancel>>

Download(p) ==
  /\ at[p] = "fetch" /\ ~object
  /\ partial' = TRUE
  /\ Goto(p, "downloading")
  /\ UNCHANGED <<lock, target, staged, retained, object, misread, cancel>>

\* The size and the checksum agree.
Downloaded(p) ==
  /\ at[p] = "downloading"
  /\ object' = TRUE /\ partial' = FALSE
  /\ Goto(p, "copy")
  /\ UNCHANGED <<lock, target, staged, retained, misread, cancel>>

DownloadFails(p) ==
  /\ at[p] = "downloading"
  /\ partial' = FALSE
  /\ Goto(p, "discard")
  /\ UNCHANGED <<lock, target, staged, retained, object, misread, cancel>>

\* Source and copy are verified, the manifests written.
Copy(p) ==
  /\ at[p] = "copy" /\ ~cancel[p]
  /\ staged' = [staged EXCEPT ![p] = "whole"]
  /\ Goto(p, "ready")
  /\ UNCHANGED <<lock, target, retained, partial, object, misread, cancel>>

CopyFails(p) ==
  /\ at[p] = "copy"
  /\ Goto(p, "discard")
  /\ UNCHANGED <<lock, files, cancel>>

Discard(p) ==
  /\ at[p] = "discard"
  /\ staged' = [staged EXCEPT ![p] = "none"]
  /\ Goto(p, "fail")
  /\ UNCHANGED <<lock, target, retained, partial, object, misread, cancel>>

\* The first rename.
Retain(p) ==
  /\ at[p] = "ready" /\ ~cancel[p]
  /\ retained' = [retained EXCEPT ![p] = target]
  /\ target' = "none"
  /\ Goto(p, "vacant")
  /\ UNCHANGED <<lock, staged, partial, object, misread, cancel>>

RetainFails(p) ==
  /\ at[p] = "ready"
  /\ Goto(p, "fail")
  /\ UNCHANGED <<lock, files, cancel>>

\* The second rename.  A daemon that loads the model between the two finds none.
Activate(p) ==
  /\ at[p] = "vacant"
  /\ target' = staged[p]
  /\ staged' = [staged EXCEPT ![p] = "none"]
  /\ Goto(p, "active")
  /\ UNCHANGED <<lock, retained, partial, object, misread, cancel>>

\* What was retained is renamed back; nobody hears of it if that fails too.
Restored(p) ==
  \/ /\ target' = retained[p]
     /\ retained' = [retained EXCEPT ![p] = "none"]
  \/ /\ retained[p] # "none"
     /\ target' = "none" /\ UNCHANGED retained

ActivateFails(p) ==
  /\ at[p] = "vacant"
  /\ Restored(p)
  /\ Goto(p, "fail")
  /\ UNCHANGED <<lock, staged, partial, object, misread, cancel>>

Verify(p) ==
  /\ at[p] = "active" /\ ~cancel[p]
  /\ Goto(p, "verified")
  /\ UNCHANGED <<lock, files, cancel>>

\* Cancelled, or the copy cannot be read: it is removed.
VerifyFails(p) ==
  /\ at[p] = "active"
  /\ Restored(p)
  /\ Goto(p, "fail")
  /\ UNCHANGED <<lock, staged, partial, object, misread, cancel>>

RemoveOld(p) ==
  /\ at[p] = "verified"
  /\ retained' = [retained EXCEPT ![p] = "none"]
  /\ Goto(p, "finish")
  /\ UNCHANGED <<lock, target, staged, partial, object, misread, cancel>>

\* The installation is complete and reported as failed.
RemoveOldFails(p) ==
  /\ at[p] = "verified" /\ retained[p] # "none"
  /\ Goto(p, "fail")
  /\ UNCHANGED <<lock, files, cancel>>

Unlocked(p) == IF lock = p THEN None ELSE lock
Uncancelled(p) == [cancel EXCEPT ![p] = FALSE]

\* InstallGuard is dropped.
Leave(p) ==
  /\ at[p] \in {"finish", "fail"}
  /\ staged' = [staged EXCEPT ![p] = "none"]
  /\ lock' = Unlocked(p) /\ cancel' = Uncancelled(p)
  /\ Goto(p, IF at[p] = "finish" THEN "installed" ELSE "refused")
  /\ UNCHANGED <<target, retained, partial, object, misread>>

\* SIGINT or SIGTERM.
Signal(p) ==
  /\ at[p] \in Inside /\ ~cancel[p]
  /\ cancel' = [cancel EXCEPT ![p] = TRUE]
  /\ UNCHANGED <<at, lock, files>>

KillInstaller(p) ==
  /\ at[p] \in Inside
  /\ Goto(p, "killed") /\ lock' = Unlocked(p) /\ cancel' = Uncancelled(p)
  /\ UNCHANGED files

InstallStep(p) ==
  \/ Acquire(p) \/ Busy(p) \/ CheckInstalled(p) \/ Prepare(p) \/ Unprepared(p)
  \/ HaveSource(p) \/ Download(p) \/ Downloaded(p) \/ DownloadFails(p)
  \/ Copy(p) \/ CopyFails(p) \/ Discard(p) \/ Retain(p) \/ RetainFails(p)
  \/ Activate(p) \/ ActivateFails(p) \/ Verify(p) \/ VerifyFails(p)
  \/ RemoveOld(p) \/ RemoveOldFails(p) \/ Leave(p) \/ Signal(p)

InstallNext == \E p \in Installer : InstallStep(p) \/ KillInstaller(p)

InstallSpec == InstallInit /\ [][InstallNext]_installVars

-----------------------------------------------------------------------------
\* Once an installation has reported success, the daemon finds the whole model
\* where it looks: no other installer, late, cancelled, failing or killed, takes
\* it away for its own exchange (install_with_fetch under InstallGuard).  The one
\* exception is an installer that cannot read a model which is there, and replaces it.
InstalledStays == (\E p \in Installer : at[p] = "installed") /\ ~misread => target = "whole"
=============================================================================
