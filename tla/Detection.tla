----------------------------- MODULE Detection -----------------------------
(***************************************************************************)
(* From the microphone to the action: the users of a capture, the matching *)
(* of what an engine heard, and the thread that reaps the actions.         *)
(***************************************************************************)
EXTENDS Capture, PhraseMatcher

CONSTANTS
  WakeWords,    \* the configurations of wake words to consider
  Character,    \* what tokens are made of
  Transcripts,  \* what an engine may have heard, as sequences of tokens
  MaxTodo,      \* bound on the detections one "listen" collects
  Slot          \* bound on the action processes that exist at once

\* normalize_tokens keeps no empty token.
ASSUME TranscriptAssumption == Transcripts \subseteq Seq(Seq(Character) \ {<<>>})

VARIABLES
  user,        \* "daemon", "listen" (test of a detector) or "record" (of audio)
  words,       \* the configured wake words
  matches,     \* what the matcher compiled from them finds in a transcript
  pc,          \* where the user's thread is
  outcome,     \* why the capture is being dropped
  transcript,  \* what the engine has just heard
  todo,        \* how many detections wait for their actions to be started
  action,      \* of each slot: "free", "running", "exited"
  channel,     \* children on their way to the reaper
  held         \* children the reaper has

matchVars == <<user, words, matches, transcript>>
userVars == <<matchVars, pc, outcome, todo>>
reaperVars == <<action, channel, held>>
vars == <<captureVars, userVars, reaperVars>>

Init ==
  /\ CaptureInit
  /\ user \in {"daemon", "listen", "record"} /\ words \in WakeWords /\ Compiles(words)
  /\ matches = [t \in Transcripts |-> Matches(words, t)]
  /\ pc = "open" /\ outcome = "none" /\ transcript = <<>> /\ todo = 0
  /\ action = [a \in Slot |-> "free"] /\ channel = {} /\ held = {}

Goto(l) == pc' = l
Leave(why) == pc' = "drop" /\ outcome' = why

\* What follows a capture that could not be started or has been lost: the
\* daemon retries, every other user ends with the error.
Unavailable == IF user = "daemon" THEN "unavailable" ELSE "ended"

-----------------------------------------------------------------------------
\* Opening.

\* Discovery finds no such device or fails, or the stream cannot be started.
OpenFails ==
  /\ pc \in {"open", "spawn"} /\ Goto(Unavailable)
  /\ UNCHANGED <<captureVars, matchVars, outcome, todo, reaperVars>>

OpenCpal ==
  /\ pc = "open" /\ backend = "cpal"
  /\ Goto("receive") /\ PlayStream
  /\ UNCHANGED <<matchVars, outcome, todo, reaperVars>>

Resolve ==
  /\ pc = "open" /\ backend = "pipewire" /\ Goto("spawn")
  /\ UNCHANGED <<captureVars, matchVars, outcome, todo, reaperVars>>

Spawn ==
  /\ pc = "spawn" /\ Goto("receive") /\ SpawnRecorder
  /\ UNCHANGED <<matchVars, outcome, todo, reaperVars>>

-----------------------------------------------------------------------------
\* The loop over the capture's events.

\* A request that ends the cycle, a stop signal, or an error of the control
\* socket; a test or a recording may be cancelled.
Interrupted ==
  /\ pc = "receive" /\ Leave(IF user = "daemon" THEN "command" ELSE "failed")
  /\ UNCHANGED <<captureVars, matchVars, todo, reaperVars>>

ReceiveSamples ==
  /\ pc = "receive" /\ TakeEvent("samples") /\ Goto("hand")
  /\ UNCHANGED <<matchVars, outcome, todo, reaperVars>>

ReceiveLoss ==
  /\ pc = "receive" /\ Leave("lost")
  /\ \/ TakeEvent("error")
     \/ Disconnected /\ UNCHANGED captureVars
  /\ UNCHANGED <<matchVars, todo, reaperVars>>

Hear == transcript' \in Transcripts

\* session.accept, or the resampler of a recording: nothing, an utterance that
\* the engine transcribed, or an error.
Accept ==
  /\ pc = "hand" /\ UNCHANGED <<captureVars, user, words, matches, todo, reaperVars>>
  /\ \/ Goto("receive") /\ UNCHANGED <<outcome, transcript>>
     \/ user # "record" /\ Goto("heard") /\ Hear /\ UNCHANGED outcome
     \/ Leave("failed") /\ UNCHANGED transcript

\* The time is up; the end of a test's stream may bring another utterance.
Deadline ==
  /\ pc = "receive" /\ user # "daemon" /\ outcome' = "detected"
  /\ \/ Goto("drop") /\ UNCHANGED transcript
     \/ user = "listen" /\ Goto("heard") /\ Hear
  /\ UNCHANGED <<captureVars, user, words, matches, todo, reaperVars>>

\* The daemon stops at its first detections, a test collects until its end.
Collected ==
  LET found == Cardinality(matches[transcript]) IN
  /\ pc = "heard" /\ transcript' = <<>> /\ todo' = IF todo + found < MaxTodo THEN todo + found ELSE MaxTodo
  /\ IF user = "daemon" /\ found > 0 THEN Leave("detected")
     ELSE Goto(IF outcome = "detected" THEN "drop" ELSE "receive") /\ UNCHANGED outcome
  /\ UNCHANGED <<captureVars, user, words, matches, reaperVars>>

-----------------------------------------------------------------------------
\* The session is dropped, then the stream and the receiver.

CloseCpal ==
  /\ pc = "drop" /\ backend = "cpal" /\ DropStream /\ Goto("dropped")
  /\ UNCHANGED <<matchVars, outcome, todo, reaperVars>>

\* Slip: the threads are told to stop and joined before the recorder is killed.
CloseByFlag ==
  /\ backend = "pipewire"
  /\ \/ pc = "drop" /\ Stop /\ Goto("join")
     \/ pc = "join" /\ reader = "ended" /\ watcher = "ended" /\ UNCHANGED captureVars /\ Goto("kill")
     \/ pc = "kill" /\ OwnerKills /\ Goto("wait")
     \/ pc = "wait" /\ lock = "owner" /\ recorder \in {"exited", "reaped"} /\ lock' = "none"
        /\ recorder' = "none" /\ reader' = "none" /\ watcher' = "none"
        /\ queue' = <<>> /\ stopped' = FALSE
        /\ UNCHANGED <<backend, delivers, stream>> /\ Goto("dropped")
  /\ UNCHANGED <<matchVars, outcome, todo, reaperVars>>

\* Slip: the threads are left to end by themselves.
CloseDetached ==
  /\ backend = "pipewire"
  /\ \/ pc = "drop" /\ Stop /\ Goto("kill")
     \/ pc = "kill" /\ OwnerKills /\ Goto("wait")
     \/ pc = "wait" /\ OwnerWaits /\ Goto("dropped")
  /\ UNCHANGED <<matchVars, outcome, todo, reaperVars>>

CloseRecorder ==
  /\ backend = "pipewire"
  /\ \/ pc = "drop" /\ Stop /\ Goto("kill")
     \/ pc = "kill" /\ OwnerKills /\ Goto("wait")
     \/ pc = "wait" /\ OwnerWaits /\ Goto("join")
     \/ pc = "join" /\ Join /\ Goto("dropped")
  /\ UNCHANGED <<matchVars, outcome, todo, reaperVars>>

Dropped ==
  /\ pc = "dropped" /\ outcome' = "none"
  /\ \/ outcome = "detected" /\ Goto("act") /\ UNCHANGED todo
     \/ outcome = "command" /\ Goto("idle") /\ UNCHANGED todo
     \/ outcome = "lost" /\ Goto(Unavailable) /\ todo' = 0
     \/ outcome = "failed" /\ Goto("ended") /\ todo' = 0
  /\ UNCHANGED <<captureVars, matchVars, reaperVars>>

-----------------------------------------------------------------------------
\* Between captures.

\* After a second of polls, unless one of them brought a request.
Retry ==
  /\ pc = "unavailable" /\ pc' \in {"open", "idle"}
  /\ UNCHANGED <<captureVars, matchVars, outcome, todo, reaperVars>>

\* Each action is started, or reported as not started.
RunAction ==
  /\ pc = "act" /\ todo > 0 /\ todo' = todo - 1
  /\ \/ UNCHANGED <<action, channel>>
     \/ \E a \in Slot :
          /\ action[a] = "free" /\ action' = [action EXCEPT ![a] = "running"]
          /\ channel' = channel \cup {a}
  /\ UNCHANGED <<captureVars, matchVars, pc, outcome, held>>

ActionsStarted ==
  /\ pc = "act" /\ todo = 0 /\ Goto(IF user = "daemon" THEN "idle" ELSE "ended")
  /\ UNCHANGED <<captureVars, matchVars, outcome, todo, reaperVars>>

\* Cooldown or pause, and the next cycle; or the daemon stops.
Rearm ==
  /\ pc = "idle" /\ pc' \in {"open", "ended"}
  /\ UNCHANGED <<captureVars, matchVars, outcome, todo, reaperVars>>

-----------------------------------------------------------------------------
\* The actions and their reaper.

ActionExits(a) ==
  /\ action[a] = "running" /\ action' = [action EXCEPT ![a] = "exited"]
  /\ UNCHANGED <<captureVars, userVars, channel, held>>

Ended(children) == {a \in children : action[a] = "exited"}

\* Slip: without a new child there is nothing to do.
TurnForNew ==
  /\ channel # {}
  /\ held' = (held \cup channel) \ Ended(held \cup channel)
  /\ action' = [a \in Slot |-> IF a \in Ended(held \cup channel) THEN "free" ELSE action[a]]
  /\ channel' = {} /\ UNCHANGED <<captureVars, userVars>>

\* A turn: recv_timeout and try_iter have brought what is in the channel, or
\* nothing; every child is looked at once, and those that have ended go.
Turn ==
  /\ held' = (held \cup channel) \ Ended(held \cup channel)
  /\ action' = [a \in Slot |-> IF a \in Ended(held \cup channel) THEN "free" ELSE action[a]]
  /\ channel' = {}
  /\ UNCHANGED <<captureVars, userVars>>

-----------------------------------------------------------------------------
Surroundings ==
  \/ Device /\ UNCHANGED <<userVars, reaperVars>>
  \/ RecorderExits /\ UNCHANGED <<userVars, reaperVars>>
Threads ==
  \/ Callbacks /\ UNCHANGED <<userVars, reaperVars>>
  \/ Reader /\ UNCHANGED <<userVars, reaperVars>>
  \/ Watcher /\ UNCHANGED <<userVars, reaperVars>>
Loop == Interrupted \/ ReceiveSamples \/ ReceiveLoss \/ Accept \/ Collected \/ Deadline
Opening == OpenFails \/ OpenCpal \/ Resolve \/ Spawn
Closing == CloseCpal \/ CloseRecorder \/ Dropped
Between == Retry \/ RunAction \/ ActionsStarted \/ Rearm
User == Opening \/ Loop \/ Closing \/ Between

Next == pc # "ended" /\ (Surroundings \/ Threads \/ User \/ Turn \/ \E a \in Slot : ActionExits(a))

\* The program's threads are scheduled, and a process that is killed exits.
\* Nobody has to interrupt a capture, and a device need not return.
Fairness ==
  /\ WF_vars(Reader /\ UNCHANGED <<userVars, reaperVars>>)
  /\ WF_vars(Watcher /\ UNCHANGED <<userVars, reaperVars>>)
  /\ WF_vars(Opening \/ ReceiveSamples \/ ReceiveLoss \/ Accept \/ Collected \/ Closing \/ Between)
  /\ WF_vars(recorder = "killed" /\ RecorderExits /\ UNCHANGED <<userVars, reaperVars>>)
  /\ WF_vars(Turn)

Spec == Init /\ [][Next]_vars /\ Fairness

-----------------------------------------------------------------------------
Released == {"open", "spawn", "unavailable", "act", "idle", "ended"}

\* Between two captures, while an action runs or starts, and when the program
\* ends, nothing of the last capture is left: no recorder, reaped or not, and
\* no thread that could still take or kill something.
MicReleased == pc \in Released => ~Open /\ lock = "none" /\ queue = <<>>

\* Dropping a capture comes to its end, in whatever state device, recorder and
\* threads are: a blocked read is woken and nobody waits for the mutex for ever.
DropReturns == pc = "drop" ~> pc \in Released

\* A PipeWire microphone that stops delivering is noticed, though the error may
\* find the queue full: the daemon does not stay armed on a silent recorder.
LossNoticed ==
  backend = "pipewire" /\ pc = "receive" /\ ~delivers ~>
    delivers \/ pc \notin {"receive", "hand", "heard"}

\* What was found in a transcript is right, for phrases that overlap, contain
\* one another or are divided into other words; which of two phrases that begin
\* apart wins is left open.
RightWords == pc = "heard" => IsMatching(words, transcript, matches[transcript])

\* "When configured phrases overlap, the phrase with more tokens wins; configuration
\* order breaks a tie": the code prefers the one that begins first.
LongerPhraseWins == pc = "heard" => MoreTokensWin(words, transcript, matches[transcript])

\* No action is left behind as a zombie, however many end in whatever order.
ActionsReaped == \A a \in Slot : action[a] = "exited" ~> action[a] # "exited" \/ pc = "ended"
=============================================================================
