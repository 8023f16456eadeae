------------------------------- MODULE Daemon -------------------------------
(***************************************************************************)
(* The omawake daemon after its models are loaded: the single-threaded     *)
(* state machine of run_daemon_state_machine, the armed cycle with the     *)
(* microphone, the retry after a capture failure, and the control socket   *)
(* with its connection-owned pauses (OwnedControl).                        *)
(*                                                                         *)
(* One thread does everything, so `pc' says where it is; the clients of    *)
(* the control socket, the signals and the microphone move at any time in  *)
(* between.  A poll of the control socket handles one request per step, so *)
(* clients may connect, disconnect or send stray bytes between two.        *)
(*                                                                         *)
(* Abstracted: the detector is a choice of what one audio block yields;    *)
(* request ids, the details object and the wording of answers are left     *)
(* out; a request that cannot be read or parsed within its time limit, or  *)
(* whose protocol version is not 1, is the request "invalid".              *)
(***************************************************************************)
EXTENDS Integers, Sequences, FiniteSets

CONSTANTS
  Conn,         \* control connections, reused once both ends are closed
  MaxHolds,     \* MAX_HOLDS: owned pauses at a time
  MaxCommands   \* MAX_COMMANDS_PER_POLL: connections served per poll

ASSUME BoundsAssumption == MaxHolds \in Nat \ {0} /\ MaxCommands \in Nat \ {0}
ASSUME ConnAssumption == IsFiniteSet(Conn)

VARIABLES
  open,       \* the client's end of connection c is open
  req,        \* the request of c that nobody has read yet
  extra,      \* bytes c sent after its request: none, unread, or swallowed with it
  answers,    \* the answers the client of c received, as long as it is there
  backlog,    \* connections waiting in the listener, oldest first
  manual,     \* OwnedControl.manual
  holds,      \* OwnedControl.holds
  acked,      \* the holds with acknowledged = true
  pc,         \* where the daemon thread is
  mode,       \* the state argument of the current or last poll
  budget,     \* accepts left in this poll
  command,    \* the command a poll returned, on its way to apply_daemon_command
  fault,      \* why the armed cycle is ending
  paused, shutdown, signalled,
  mic,        \* a Capture value is alive
  triggered   \* the armed cycle returns detections

clientVars  == <<open, req, extra, answers>>
controlVars == <<manual, holds, acked>>
pollVars    == <<mode, budget>>
flagVars    == <<paused, shutdown, signalled>>
cycleVars   == <<mic, triggered>>
vars == <<clientVars, backlog, controlVars, pc, pollVars, command, fault, flagVars, cycleVars>>

Requests == {"hold_pause", "pause", "resume", "status", "shutdown", "invalid"}
Modes    == {"armed", "paused", "audio_unavailable"}
Answers  == Modes \cup {"stopping", "busy", "error"}
Steps    == {"loop", "open", "armed", "recv", "wait", "ack", "accept",
             "release", "apply", "execute", "cooldown", "exited"}

Queued(c) == \E i \in DOMAIN backlog : backlog[i] = c

Init ==
  /\ open = [c \in Conn |-> FALSE]
  /\ req = [c \in Conn |-> "none"]
  /\ extra = [c \in Conn |-> "none"]
  /\ answers = [c \in Conn |-> <<>>]
  /\ backlog = <<>>
  /\ manual = FALSE /\ holds = {} /\ acked = {}
  /\ pc = "loop" /\ mode = "armed" /\ budget = 0
  /\ command = "none" /\ fault = "none"
  /\ paused = FALSE /\ shutdown = FALSE /\ signalled = FALSE
  /\ mic = FALSE /\ triggered = FALSE

-----------------------------------------------------------------------------
(* The clients, the signals and the supervisor. *)

\* A client connects and writes its one request.
Connect(c, r) ==
  /\ pc # "exited"
  /\ ~open[c] /\ ~Queued(c) /\ c \notin holds
  /\ open' = [open EXCEPT ![c] = TRUE]
  /\ req' = [req EXCEPT ![c] = r]
  /\ backlog' = Append(backlog, c)
  /\ UNCHANGED <<extra, answers, controlVars, pc, pollVars, command, fault, flagVars, cycleVars>>

\* The client closes its end, or dies.
Disconnect(c) ==
  /\ open[c]
  /\ open' = [open EXCEPT ![c] = FALSE]
  /\ extra' = [extra EXCEPT ![c] = "none"]
  /\ answers' = [answers EXCEPT ![c] = <<>>]
  /\ UNCHANGED <<req, backlog, controlVars, pc, pollVars, command, fault, flagVars,
                 cycleVars>>

\* The client of a hold breaks its one-request protocol.
SendExtra(c) ==
  /\ open[c] /\ extra[c] = "none"
  /\ req[c] = "hold_pause" \/ c \in holds
  /\ extra' = [extra EXCEPT ![c] = "unread"]
  /\ UNCHANGED <<open, req, answers, backlog, controlVars, pc, pollVars, command, fault,
                 flagVars, cycleVars>>

\* SIGINT or SIGTERM sets the flag that the daemon thread polls.
Signal ==
  /\ pc # "exited" /\ ~signalled
  /\ signalled' = TRUE
  /\ UNCHANGED <<clientVars, backlog, controlVars, pc, pollVars, command, fault, paused,
                 shutdown, cycleVars>>

\* A new daemon process starts with a fresh OwnedControl; holds are not inherited.
Restart ==
  /\ pc = "exited"
  /\ pc' = "loop"
  /\ UNCHANGED <<clientVars, backlog, controlVars, pollVars, command, fault, flagVars,
                 cycleVars>>

-----------------------------------------------------------------------------
(* Pieces of OwnedControl. *)

\* recv(MSG_PEEK): EOF, a reset and extra bytes all end a hold.
Connected(c) == open[c] /\ extra[c] # "unread"

LimitReached == Cardinality(holds) = MaxHolds

\* Writing to a client that is gone fails and is only logged.
Answer(c, a) ==
  answers' = [answers EXCEPT ![c] = IF open[c] THEN Append(@, a) ELSE @]

\* Slip: nothing asks to re-arm but a manual resume.
NeverNothingHeld == FALSE

\* A paused poll that found nothing to keep the pause for asks to re-arm.
NothingHeld == mode = "paused" /\ ~manual /\ holds = {}

\* The process ends: the listener and every stream close with it.
Exit ==
  /\ pc' = "exited" /\ mode' = "armed" /\ budget' = 0
  /\ backlog' = <<>>
  /\ manual' = FALSE /\ holds' = {} /\ acked' = {}
  /\ command' = "none" /\ fault' = "none"
  /\ paused' = FALSE /\ shutdown' = FALSE /\ signalled' = FALSE
  /\ mic' = FALSE /\ triggered' = FALSE
  /\ req' = [c \in Conn |-> "none"]
  /\ UNCHANGED <<open, extra, answers>>

\* OwnedControl::poll starts by dropping the holds whose client has left.
BeginPoll(m) ==
  /\ mode' = m
  /\ holds' = {c \in holds : Connected(c)}
  /\ acked' = {c \in acked : Connected(c)}
  /\ budget' = MaxCommands
  /\ pc' = IF m = "paused" THEN "ack" ELSE "accept"
  /\ UNCHANGED <<clientVars, backlog, manual, command, fault, flagVars, cycleVars>>

\* Slip: the armed cycle goes on after any command but shutdown.
YieldIgnoringPause(cmd) ==
  /\ command' = IF mode = "armed" /\ cmd # "shutdown" THEN "none" ELSE cmd
  /\ pc' = IF mode # "armed" THEN "apply"
           ELSE IF cmd # "shutdown" THEN "armed" ELSE "release"

\* The poll returns a command.  The armed cycle ignores a resume and loops; the
\* others take it to apply_daemon_command, the armed cycle after its capture is gone.
Yield(cmd) ==
  /\ command' = IF mode = "armed" /\ cmd = "resume" THEN "none" ELSE cmd
  /\ pc' = IF mode # "armed" THEN "apply"
           ELSE IF cmd = "resume" THEN "armed" ELSE "release"

\* The next connection is accepted and its request read.  The buffered reader takes
\* whatever the client has sent so far, bytes after the newline included.
Serve(c, r) ==
  /\ pc = "accept" /\ budget > 0 /\ backlog # <<>>
  /\ c = Head(backlog) /\ req[c] = r
  /\ backlog' = Tail(backlog)
  /\ budget' = budget - 1
  /\ req' = [req EXCEPT ![c] = "none"]
  /\ extra' = [extra EXCEPT ![c] = IF @ = "unread" THEN "swallowed" ELSE @]
  /\ UNCHANGED <<open, mode, fault, flagVars, cycleVars>>

-----------------------------------------------------------------------------
(* OwnedControl::poll, one request per step. *)

\* Slip: the holds acknowledged before are told again.
AcknowledgeAllHolds ==
  /\ pc = "ack"
  /\ LET told == {c \in holds : open[c]}
     IN /\ acked' = told
        /\ holds' = told
        /\ answers' = [c \in Conn |->
                         IF c \in told THEN Append(answers[c], "paused") ELSE answers[c]]
  /\ pc' = "accept"
  /\ UNCHANGED <<open, req, extra, backlog, manual, pollVars, command, fault, flagVars,
                 cycleVars>>

\* While paused, the microphone is known to be closed: acknowledge the waiting holds
\* and drop those that cannot be told.
AcknowledgeHolds ==
  /\ pc = "ack"
  /\ LET told == {c \in holds \ acked : open[c]}
     IN /\ acked' = acked \cup told
        /\ holds' = acked \cup told
        /\ answers' = [c \in Conn |->
                         IF c \in told THEN Append(answers[c], "paused") ELSE answers[c]]
  /\ pc' = "accept"
  /\ UNCHANGED <<open, req, extra, backlog, manual, pollVars, command, fault, flagVars,
                 cycleVars>>

RefuseHold(c) ==
  /\ Serve(c, "hold_pause")
  /\ LimitReached
  /\ Answer(c, "busy")
  /\ UNCHANGED <<controlVars, pc, command>>

\* In the paused state a hold is acknowledged at once, and dropped if that fails.
GrantHold(c) ==
  /\ Serve(c, "hold_pause")
  /\ ~LimitReached /\ mode = "paused"
  /\ Answer(c, "paused")
  /\ holds' = IF open[c] THEN holds \cup {c} ELSE holds
  /\ acked' = IF open[c] THEN acked \cup {c} ELSE acked
  /\ UNCHANGED <<manual, pc, command>>

\* Slip: the hold is acknowledged before the capture is gone.
QueueHoldTold(c) ==
  /\ Serve(c, "hold_pause")
  /\ ~LimitReached /\ mode # "paused"
  /\ holds' = holds \cup {c} /\ acked' = acked \cup {c}
  /\ Answer(c, "paused")
  /\ Yield("pause")
  /\ UNCHANGED manual

\* Slip: the hold is kept, but the capture owner is not told.
QueueHoldSilently(c) ==
  /\ Serve(c, "hold_pause")
  /\ ~LimitReached /\ mode # "paused"
  /\ holds' = holds \cup {c}
  /\ UNCHANGED <<answers, manual, acked, pc, command>>

\* Otherwise the hold waits, unanswered, until a paused poll finds the capture gone.
QueueHold(c) ==
  /\ Serve(c, "hold_pause")
  /\ ~LimitReached /\ mode # "paused"
  /\ holds' = holds \cup {c}
  /\ Yield("pause")
  /\ UNCHANGED <<answers, manual, acked>>

\* The manual pause is answered at once, whatever the microphone does.
HandlePause(c) ==
  /\ Serve(c, "pause")
  /\ manual' = TRUE
  /\ Answer(c, "paused")
  /\ Yield("pause")
  /\ UNCHANGED <<holds, acked>>

\* Slip: a manual resume re-arms whoever holds a pause.
HandleResumeAlways(c) ==
  /\ Serve(c, "resume")
  /\ manual' = FALSE
  /\ Answer(c, "armed")
  /\ Yield("resume")
  /\ UNCHANGED <<holds, acked>>

\* Slip: a manual resume clears the holds as well.
HandleResumeClearing(c) ==
  /\ Serve(c, "resume")
  /\ manual' = FALSE /\ holds' = {} /\ acked' = {}
  /\ Answer(c, "armed")
  /\ Yield("resume")

HandleResume(c) ==
  /\ Serve(c, "resume")
  /\ manual' = FALSE
  /\ Answer(c, IF holds = {} THEN "armed" ELSE "paused")
  /\ IF holds = {} THEN Yield("resume") ELSE UNCHANGED <<pc, command>>
  /\ UNCHANGED <<holds, acked>>

HandleStatus(c) ==
  /\ Serve(c, "status")
  /\ Answer(c, mode)
  /\ UNCHANGED <<controlVars, pc, command>>

HandleShutdown(c) ==
  /\ Serve(c, "shutdown")
  /\ Answer(c, "stopping")
  /\ Yield("shutdown")
  /\ UNCHANGED controlVars

HandleInvalid(c) ==
  /\ Serve(c, "invalid")
  /\ Answer(c, "error")
  /\ UNCHANGED <<controlVars, pc, command>>

\* accept() or a socket option fails: the error ends the daemon, through the armed
\* cycle if it is running.
AcceptFails ==
  /\ pc = "accept"
  /\ \/ /\ mode = "armed"
        /\ fault' = "fatal"
        /\ pc' = "release"
        /\ UNCHANGED <<clientVars, backlog, controlVars, pollVars, command, flagVars, cycleVars>>
     \/ /\ mode # "armed"
        /\ Exit

\* The budget is used up, or nobody is waiting.
EndPoll ==
  /\ pc = "accept"
  /\ budget = 0 \/ backlog = <<>>
  /\ IF NothingHeld
     THEN Yield("resume")
     ELSE /\ command' = "none"
          /\ \/ mode = "paused" /\ pc' = "apply"
             \/ mode = "armed" /\ pc' = "recv"
             \* A second after the failed open the capture is tried again.
             \/ mode = "audio_unavailable" /\ pc' \in {"wait", "open"}
  /\ UNCHANGED <<clientVars, backlog, controlVars, pollVars, fault, flagVars, cycleVars>>

-----------------------------------------------------------------------------
(* run_daemon_state_machine and the armed cycle. *)

Loop ==
  /\ pc = "loop"
  /\ \/ /\ shutdown \/ signalled
        /\ Exit
     \/ /\ ~shutdown /\ ~signalled /\ paused
        /\ BeginPoll("paused")
     \/ /\ ~shutdown /\ ~signalled /\ ~paused
        /\ pc' = "open"
        /\ UNCHANGED <<clientVars, backlog, controlVars, pollVars, command, fault, flagVars,
                       cycleVars>>

\* Capture::start opens the device, or fails as a capture failure.
OpenCapture ==
  /\ pc = "open"
  /\ \/ mic' = TRUE /\ pc' = "armed"
     \/ mic' = FALSE /\ pc' = "wait"
  /\ UNCHANGED <<clientVars, backlog, controlVars, pollVars, command, fault, flagVars, triggered>>

\* Slip: the armed cycle never looks at the signal flag.
ArmedTopDeaf ==
  /\ pc = "armed"
  /\ BeginPoll("armed")

\* The head of collect_armed_detections.
ArmedTop ==
  /\ pc = "armed"
  /\ \/ /\ signalled
        /\ command' = "shutdown"
        /\ mode' = "armed"
        /\ pc' = "release"
        /\ UNCHANGED <<clientVars, backlog, controlVars, budget, fault, flagVars, cycleVars>>
     \/ /\ ~signalled
        /\ BeginPoll("armed")

\* Slip: the retry sleeps for its second without polling the control socket.
WaitTopSleeping ==
  /\ pc = "wait"
  /\ pc' = "open"
  /\ UNCHANGED <<clientVars, backlog, controlVars, pollVars, command, fault, flagVars, cycleVars>>

\* The head of the wait between two attempts to open the microphone.
WaitTop ==
  /\ pc = "wait"
  /\ \/ /\ signalled
        /\ command' = "shutdown"
        /\ mode' = "audio_unavailable"
        /\ pc' = "apply"
        /\ UNCHANGED <<clientVars, backlog, controlVars, budget, fault, flagVars, cycleVars>>
     \/ /\ ~signalled
        /\ BeginPoll("audio_unavailable")

\* One audio event: nothing or no match, a detection, a capture failure, or a detector
\* failure (which the retry does not cover).
Receive ==
  /\ pc = "recv"
  /\ \/ pc' = "armed" /\ UNCHANGED <<triggered, fault>>
     \/ pc' = "release" /\ triggered' = TRUE /\ UNCHANGED fault
     \/ pc' = "release" /\ fault' \in {"capture", "fatal"} /\ UNCHANGED triggered
  /\ UNCHANGED <<clientVars, backlog, controlVars, pollVars, command, flagVars, mic>>

\* The armed attempt returns: its session and its capture are dropped.
Release ==
  /\ pc = "release"
  /\ \/ /\ fault = "fatal"
        /\ Exit
     \/ /\ fault # "fatal"
        /\ mic' = FALSE
        /\ fault' = "none"
        /\ pc' = IF fault = "capture" THEN "wait" ELSE "apply"
        /\ UNCHANGED <<clientVars, backlog, controlVars, pollVars, command, flagVars, triggered>>

\* apply_daemon_command; a paused turn then looks at the signal flag and sleeps.
Apply ==
  /\ pc = "apply"
  /\ paused' = (command = "pause" \/ (paused /\ command # "resume"))
  /\ shutdown' = (shutdown \/ command = "shutdown" \/ (mode = "paused" /\ signalled))
  /\ command' = "none"
  /\ pc' = IF mode = "paused" THEN "loop" ELSE "execute"
  /\ UNCHANGED <<clientVars, backlog, controlVars, pollVars, fault, signalled, cycleVars>>

\* Start the actions of the detections; a failed start is only logged.
Execute ==
  /\ pc = "execute"
  /\ triggered' = FALSE
  /\ pc' = IF ~paused /\ ~shutdown THEN "cooldown" ELSE "loop"
  /\ UNCHANGED <<clientVars, backlog, controlVars, pollVars, command, fault, flagVars, mic>>

Cooldown ==
  /\ pc = "cooldown"
  /\ pc' = "loop"
  /\ UNCHANGED <<clientVars, backlog, controlVars, pollVars, command, fault, flagVars, cycleVars>>

-----------------------------------------------------------------------------
Handle ==
  \E c \in Conn : \/ RefuseHold(c) \/ GrantHold(c) \/ QueueHold(c)
                  \/ HandlePause(c) \/ HandleResume(c) \/ HandleStatus(c)
                  \/ HandleShutdown(c) \/ HandleInvalid(c)

\* The daemon thread.
Thread ==
  \/ Loop \/ OpenCapture \/ ArmedTop \/ WaitTop \/ Receive \/ Release
  \/ Apply \/ Execute \/ Cooldown
  \/ AcknowledgeHolds \/ Handle \/ AcceptFails \/ EndPoll

Environment ==
  \/ \E c \in Conn : Disconnect(c) \/ SendExtra(c) \/ \E r \in Requests : Connect(c, r)
  \/ Signal \/ Restart

Next == Thread \/ Environment

Spec == Init /\ [][Next]_vars

\* The thread always gets to run: every call it makes is bounded by a time limit.
FairSpec == Spec /\ WF_vars(Thread)

-----------------------------------------------------------------------------
(* Properties. *)

TypeOK ==
  /\ open \in [Conn -> BOOLEAN]
  /\ req \in [Conn -> Requests \cup {"none"}]
  /\ extra \in [Conn -> {"none", "unread", "swallowed"}]
  /\ answers \in [Conn -> Seq(Answers)]
  /\ backlog \in Seq(Conn)
  /\ manual \in BOOLEAN
  /\ holds \in SUBSET Conn
  /\ acked \in SUBSET Conn
  /\ pc \in Steps
  /\ mode \in Modes
  /\ budget \in 0 .. MaxCommands
  /\ command \in {"none", "pause", "resume", "shutdown"}
  /\ fault \in {"none", "capture", "fatal"}
  /\ paused \in BOOLEAN /\ shutdown \in BOOLEAN /\ signalled \in BOOLEAN
  /\ mic \in BOOLEAN /\ triggered \in BOOLEAN

\* The programs that were told "paused" for a hold and are still there.
LiveOwners == {c \in acked : Connected(c)}

\* While a program that was told it owns a pause is still connected, no capture is
\* alive: OwnedControl acknowledges only in a paused poll, and the daemon leaves the
\* paused state only when nobody holds it.
NoOpenMicUnderHold == mic => LiveOwners = {}

\* A client asks once and is answered at most once: a hold that is acknowledged late,
\* by another poll than the one that read it, is not answered by both.
AtMostOneAnswer == \A c \in Conn : Len(answers[c]) <= 1

\* The actions of a detection are started only when neither a manual pause nor any
\* hold, acknowledged or waiting, is in force: a pause that a poll has taken in always
\* reaches the thread before the detections of the same cycle do.
NoActionWhilePaused == pc = "execute" /\ triggered => ~manual /\ holds = {} /\ ~mic

\* Why the two hold: where the capture is alive, what the state argument of a poll and
\* the flag `paused' say of each other, that a pause taken in is either applied already
\* or on its way, and that a resume on its way found nothing to hold.
MicAt == mic <=> pc \in {"armed", "recv", "release"} \/ (pc = "accept" /\ mode = "armed")

ModeAt ==
  /\ pc \in {"recv", "release"} => mode = "armed"
  /\ pc = "ack" => mode = "paused"
  /\ pc \in {"accept", "ack", "apply"} => (mode = "paused" <=> paused)
  /\ pc \in {"open", "armed", "recv", "wait", "release", "cooldown"} => ~paused

OnTheWay ==
  /\ command # "none" => pc \in {"release", "apply"}
  /\ command = "resume" => pc = "apply" /\ holds = {} /\ ~manual
  /\ fault # "none" => pc = "release" /\ command = "none"
  /\ triggered => /\ pc \in {"release", "apply", "execute"}
                  /\ ~paused /\ command = "none" /\ fault = "none"

PausesApplied ==
  /\ acked \subseteq holds
  /\ acked # {} => paused
  /\ holds # {} \/ manual => paused \/ (pc \in {"release", "apply"} /\ command = "pause")

ControlInv == MicAt /\ ModeAt /\ OnTheWay /\ PausesApplied

\* A client still to be answered, by its poll or by a later one, has no answer yet.
Unanswered ==
  \A c \in Conn :
    /\ ~open[c] \/ req[c] # "none" \/ c \in holds \ acked => answers[c] = <<>>
    /\ req[c] # "none" => c \notin holds

\* Holds granted in a paused poll and holds waiting since an armed one share the limit.
HoldsBounded == Cardinality(holds) <= MaxHolds

\* Nobody but its owner, or the end of the daemon, takes an acknowledged hold away:
\* not a manual resume, not another owner's departure, not an audio failure.
HoldStays ==
  [][\A c \in Conn : c \in LiveOwners /\ Connected(c)' => c \in acked' \/ pc' = "exited"]_vars

\* "armed" is answered to a status request only while the microphone is open and no
\* pause of either kind was taken in since the poll's state argument was chosen.
StatusTruthful ==
  [][\A c \in Conn : HandleStatus(c) /\ mode = "armed" => mic /\ ~manual /\ holds = {}]_vars

\* The daemon implements the contract, an owner being a client that was told "paused"
\* for its hold and is still connected.
Lease == INSTANCE CaptureLease WITH Owner <- Conn, owners <- LiveOwners
ImplementsLease == Lease!Spec

\* A hold taken in while the daemon was armed or waiting for its microphone gets its
\* acknowledgement, unless its client or the daemon is gone first.
HoldAcknowledged ==
  \A c \in Conn : c \in holds /\ c \notin acked ~> c \in acked \/ c \notin holds

\* Every request that waits in the listener is taken out of it, whatever the others send.
RequestServed == \A c \in Conn : Queued(c) ~> ~Queued(c)

\* SIGINT and SIGTERM end the daemon from any of its states.
SignalStops == signalled ~> pc = "exited"

\* When every owner of the pause has crashed or left and no manual pause is in force,
\* the daemon stops being paused by itself, unless somebody pauses it again.
AbandonedPauseEnds ==
  paused /\ ~manual /\ (\A c \in holds : ~open[c])
    ~> ~paused \/ manual \/ \E c \in holds : open[c]

\* docs/PLAYBACK-OWNERSHIP.md: "EOF, reset or extra request bytes release only that
\* connection's hold".
ExtraBytesRelease == \A c \in Conn : c \in holds /\ extra[c] # "none" ~> c \notin holds
=============================================================================
