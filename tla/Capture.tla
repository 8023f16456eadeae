------------------------------ MODULE Capture ------------------------------
(***************************************************************************)
(* One open microphone: a CPAL stream whose callbacks fill a bounded queue,*)
(* or a pw-record process with a thread that reads from it and one that    *)
(* watches it.  What happens to it from inside; Detection opens it, reads  *)
(* its queue and drops it.                                                 *)
(***************************************************************************)
EXTENDS Naturals, Sequences

CONSTANT Capacity   \* events the queue holds (daemon.queue_capacity)

ASSUME CapacityAssumption == Capacity \in Nat \ {0}

VARIABLES
  backend,    \* "cpal" or "pipewire": which one the requested device selects
  delivers,   \* whether the device has delivered audio in the last 3 s
  stream,     \* of CPAL: "closed", "playing", "failed"
  recorder,   \* of pw-record: "none", "running", "killed", "exited", "reaped"
  lock,       \* who has the mutex around the recorder: "none", "watcher", "owner"
  stopped,    \* the flag the owner sets
  reader,     \* "none", "reading", "ended"
  watcher,    \* "none", "looking", "alarm", "kill", "wait", "ended"
  queue       \* what the receiver has not taken: "samples" and "error"

captureVars == <<backend, delivers, stream, recorder, lock, stopped, reader, watcher, queue>>

CaptureInit ==
  /\ backend \in {"cpal", "pipewire"} /\ delivers \in BOOLEAN
  /\ stream = "closed" /\ recorder = "none" /\ lock = "none" /\ stopped = FALSE
  /\ reader = "none" /\ watcher = "none" /\ queue = <<>>

\* try_send: an event that finds no room is lost, be it samples or an error.
Sent(event) == IF Len(queue) < Capacity THEN Append(queue, event) ELSE queue

-----------------------------------------------------------------------------
\* Starting.

PlayStream ==
  /\ stream' = "playing" /\ queue' = <<>>
  /\ UNCHANGED <<backend, delivers, recorder, lock, stopped, reader, watcher>>

\* The device was there when it was resolved; it may have gone since.
SpawnRecorder ==
  /\ recorder' = "running" /\ stopped' = FALSE /\ queue' = <<>>
  /\ reader' = "reading" /\ watcher' = "looking"
  /\ UNCHANGED <<backend, delivers, stream, lock>>

-----------------------------------------------------------------------------
\* The device and the processes of the system.

Device ==
  /\ delivers' = ~delivers
  /\ UNCHANGED <<backend, stream, recorder, lock, stopped, reader, watcher, queue>>

\* pw-record is pinned to its node: it ends without it, crashes, or is killed.
RecorderExits ==
  /\ recorder \in {"running", "killed"} /\ recorder' = "exited"
  /\ UNCHANGED <<backend, delivers, stream, lock, stopped, reader, watcher, queue>>

-----------------------------------------------------------------------------
\* CPAL's callbacks.  The stream keeps both senders until it is dropped.

CallBack ==
  /\ stream = "playing" /\ delivers
  /\ queue' = Sent("samples")
  /\ UNCHANGED <<backend, delivers, stream, recorder, lock, stopped, reader, watcher>>

ErrorBack ==
  /\ stream = "playing" /\ ~delivers
  /\ stream' = "failed" /\ queue' = Sent("error")
  /\ UNCHANGED <<backend, delivers, recorder, lock, stopped, reader, watcher>>

-----------------------------------------------------------------------------
\* The reader of pw-record's output; only the end of it wakes a blocked read.

ReadBlock ==
  /\ reader = "reading" /\ recorder = "running" /\ delivers
  /\ queue' = Sent("samples")
  /\ reader' = IF stopped THEN "ended" ELSE "reading"
  /\ UNCHANGED <<backend, delivers, stream, recorder, lock, stopped, watcher>>

ReadEnd ==
  /\ reader = "reading" /\ recorder \in {"exited", "reaped"}
  /\ queue' = Sent("error") /\ reader' = "ended"
  /\ UNCHANGED <<backend, delivers, stream, recorder, lock, stopped, watcher>>

-----------------------------------------------------------------------------
\* The watcher.

\* try_wait reaps a recorder that has ended; otherwise the time of the last
\* block counts, at first that of the start.
Look ==
  /\ watcher = "looking" /\ lock = "none"
  /\ \/ /\ stopped /\ watcher' = "ended" /\ UNCHANGED recorder
     \/ /\ ~stopped /\ recorder \in {"exited", "reaped"}
        /\ watcher' = "alarm" /\ recorder' = "reaped"
     \/ /\ ~stopped /\ ~delivers /\ recorder \in {"running", "killed"}
        /\ watcher' = "alarm" /\ UNCHANGED recorder
  /\ UNCHANGED <<backend, delivers, stream, lock, stopped, reader, queue>>

\* Slip: the error is all there is to it.
AlarmOnly ==
  /\ watcher = "alarm" /\ watcher' = "ended" /\ queue' = Sent("error")
  /\ UNCHANGED <<backend, delivers, stream, recorder, lock, stopped, reader>>

Alarm ==
  /\ watcher = "alarm" /\ watcher' = "kill" /\ queue' = Sent("error")
  /\ UNCHANGED <<backend, delivers, stream, recorder, lock, stopped, reader>>

\* kill and wait under the mutex, by the watcher or by the owner's drop.
Killed == IF recorder = "running" THEN "killed" ELSE recorder
KillAs(who) ==
  /\ lock = "none" /\ lock' = who /\ recorder' = Killed
WaitAs(who) ==
  /\ lock = who /\ recorder \in {"exited", "reaped"} /\ lock' = "none" /\ recorder' = "reaped"

WatcherKills ==
  /\ watcher = "kill" /\ KillAs("watcher") /\ watcher' = "wait"
  /\ UNCHANGED <<backend, delivers, stream, stopped, reader, queue>>
WatcherWaits ==
  /\ watcher = "wait" /\ WaitAs("watcher") /\ watcher' = "ended"
  /\ UNCHANGED <<backend, delivers, stream, stopped, reader, queue>>

-----------------------------------------------------------------------------
\* The receiver's end.

\* All senders are gone and what they sent has been taken.
Disconnected ==
  backend = "pipewire" /\ queue = <<>> /\ reader = "ended" /\ watcher = "ended"

TakeEvent(event) ==
  /\ queue # <<>> /\ Head(queue) = event /\ queue' = Tail(queue)
  /\ UNCHANGED <<backend, delivers, stream, recorder, lock, stopped, reader, watcher>>

-----------------------------------------------------------------------------
\* Dropping.

DropStream ==
  /\ stream' = "closed" /\ queue' = <<>>
  /\ UNCHANGED <<backend, delivers, recorder, lock, stopped, reader, watcher>>

Stop ==
  /\ stopped' = TRUE
  /\ UNCHANGED <<backend, delivers, stream, recorder, lock, reader, watcher, queue>>
OwnerKills ==
  KillAs("owner") /\ UNCHANGED <<backend, delivers, stream, stopped, reader, watcher, queue>>
OwnerWaits ==
  WaitAs("owner") /\ UNCHANGED <<backend, delivers, stream, stopped, reader, watcher, queue>>

\* Both threads are joined; the receiver goes after them.
Forget ==
  /\ recorder' = "none" /\ reader' = "none" /\ watcher' = "none"
  /\ queue' = <<>> /\ stopped' = FALSE
  /\ UNCHANGED <<backend, delivers, stream, lock>>
Join == reader = "ended" /\ watcher = "ended" /\ Forget

Open == stream # "closed" \/ recorder # "none" \/ reader # "none" \/ watcher # "none"

Callbacks == CallBack \/ ErrorBack
Reader == ReadBlock \/ ReadEnd
Watcher == Look \/ Alarm \/ WatcherKills \/ WatcherWaits
=============================================================================
