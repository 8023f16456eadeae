---------------------------- MODULE CloudRealtime ----------------------------
(***************************************************************************)
(* A remote engine's stream over one WebSocket session: the stream, the    *)
(* two threads that own its worker's pipes, the worker's loop with the     *)
(* segments it assembles, and the provider.                                *)
(*                                                                         *)
(* Abstracted: a frame of audio is one segment of speech, named by its     *)
(* number, which is also the order of its times; texts; keep-alives and    *)
(* pings, which only keep the session's time limits from running out.  The *)
(* provider may repeat a segment and may end the session at any time.      *)
(***************************************************************************)
EXTENDS Integers, Sequences

CONSTANTS
  Frames,  \* bound of the model: frames of the stream
  Slots,   \* of each channel of the client (32 in the code)
  Wire     \* bound of the model: provider's messages under way

VARIABLES
  stream, given, judged,  \* as in WorkerLink; segments are the pieces
  call, pc, fault,
  live,      \* the microphone's stream; otherwise a file's
  tx,        \* the channel to the writing thread
  writer,    \* that thread: "none", "running" or "gone"
  stdin,     \* what it has written and the loop has not taken
  reader,    \* the reading thread: "none", "running" or "gone"
  stdout,    \* what the loop has written and it has not read
  rx,        \* the channel back
  broken,    \* the flag both threads can set
  child,     \* "none", "ready" or "gone"
  closing,   \* the loop has asked the provider to finish
  segments,  \* the segments of the utterance that is being assembled
  end,       \* the end of the last segment that was taken
  heard,     \* the frames the provider has received
  said,      \* the segments it has sent
  wire,      \* its messages under way
  endedEarly \* it has ended the session without being asked

workerVars   == <<child, closing, segments, end>>
providerVars == <<heard, said, wire, endedEarly>>
pipeVars     == <<tx, writer, stdin, reader, stdout, rx, broken>>
realtimeVars == <<live, pipeVars, workerVars, providerVars>>
vars == <<stream, given, judged, call, pc, fault, realtimeVars>>

s == 1
Finish == 0                 \* as an input, besides the frames
Done == <<>>                \* as an output, besides the utterances
Error == <<0>>              \* what the reading thread makes of the end of the pipe
NoCall == [op |-> "none", left |-> 0, ok |-> TRUE]

SessionInit ==
  /\ tx = <<>> /\ stdin = <<>> /\ stdout = <<>> /\ rx = <<>> /\ wire = <<>>
  /\ reader = "none" /\ broken = FALSE
  /\ closing = FALSE /\ segments = <<>> /\ end = 0
  /\ heard = 0 /\ said = 0 /\ endedEarly = FALSE

-----------------------------------------------------------------------------
(* The caller and the stream. *)

Enter(op, n) ==
  /\ pc = "idle"
  /\ stream[s] \in {"new", "open"}
  /\ given[s] + n <= Frames
  /\ given' = [given EXCEPT ![s] = @ + n]
  /\ stream' = [stream EXCEPT ![s] = "open"]
  /\ call' = [op |-> op, left |-> n, ok |-> TRUE]
  /\ pc' = "feed"
  /\ UNCHANGED <<judged, fault, realtimeVars>>

Accept == \E n \in 0 .. 2 : Enter("accept", n)
FinishStream == \E n \in 0 .. 1 : Enter("finish", n)

DropStream ==
  /\ pc = "idle"
  /\ stream[s] # "closed"
  /\ stream' = [stream EXCEPT ![s] = "closed"]
  /\ given' = [given EXCEPT ![s] = 0] /\ judged' = [judged EXCEPT ![s] = <<>>]
  /\ call' = [NoCall EXCEPT !.op = "drop"]
  /\ pc' = "drop"
  /\ UNCHANGED <<fault, realtimeVars>>

Caller == Accept \/ FinishStream \/ DropStream

Fails == pc' = "drop" /\ call' = [call EXCEPT !.ok = FALSE]

\* The first audio starts the worker and its two threads.
StartWorker ==
  /\ pc = "feed" /\ child = "none" /\ call.left > 0
  /\ \/ /\ child' = "ready" /\ writer' = "running" /\ reader' = "running"
        /\ UNCHANGED <<call, pc, fault>>
     \/ Fails /\ fault' = TRUE /\ UNCHANGED <<child, writer, reader>>
  /\ UNCHANGED <<stream, given, judged, live, tx, stdin, stdout, rx, broken, closing, segments, end, providerVars>>

\* The next input of this call: a frame, or Finish, which a stream that never
\* had audio does without.
Input == IF call.left > 0 THEN given[s] - call.left + 1 ELSE Finish
Sends == child # "none" /\ (call.left > 0 \/ call.op = "finish")

\* send: a live stream takes a full channel for a failure, a file's waits.
Send ==
  /\ pc = "feed" /\ Sends
  /\ \/ /\ ~broken /\ writer # "gone" /\ Len(tx) < Slots
        /\ tx' = Append(tx, Input)
        /\ IF call.left > 0 THEN call' = [call EXCEPT !.left = @ - 1] /\ UNCHANGED pc
           ELSE pc' = "enter" /\ UNCHANGED call
        /\ UNCHANGED fault
     \/ /\ (broken \/ writer = "gone")
        /\ Fails /\ UNCHANGED <<tx, fault>>
     \/ /\ ~broken /\ writer # "gone" /\ Len(tx) = Slots
        /\ live /\ Input # Finish
        /\ Fails /\ fault' = TRUE /\ UNCHANGED tx
  /\ UNCHANGED <<stream, given, judged, live, writer, stdin, reader, stdout, rx, broken, workerVars, providerVars>>

Fed ==
  /\ pc = "feed" /\ call.left = 0 /\ ~Sends
  /\ pc' = IF call.op = "finish" THEN "drop" ELSE IF child = "none" THEN "return" ELSE "enter"
  /\ UNCHANGED <<stream, given, judged, call, fault, realtimeVars>>

\* poll looks at the flag once.
EnterPoll ==
  /\ pc = "enter"
  /\ IF broken THEN Fails
     ELSE pc' = (IF call.op = "finish" THEN "await" ELSE "poll") /\ UNCHANGED call
  /\ UNCHANGED <<stream, given, judged, fault, realtimeVars>>

\* It takes what has come; for finish all up to Done.
Poll ==
  /\ pc \in {"poll", "await"} /\ rx # <<>>
  /\ rx' = Tail(rx)
  /\ IF Head(rx) = Error THEN Fails /\ UNCHANGED judged
     ELSE IF Head(rx) = Done
     THEN /\ IF pc = "await" THEN pc' = "drop" /\ UNCHANGED call ELSE Fails
          /\ UNCHANGED judged
     ELSE judged' = [judged EXCEPT ![s] = @ \o Head(rx)] /\ UNCHANGED <<call, pc>>
  /\ UNCHANGED <<stream, given, fault, live, tx, writer, stdin, reader, stdout, broken, workerVars, providerVars>>

PollEmpty ==
  /\ pc \in {"poll", "await"} /\ rx = <<>>
  /\ \/ reader = "gone" /\ Fails /\ UNCHANGED fault
     \/ pc = "await" /\ Fails /\ fault' = TRUE
     \/ pc = "poll" /\ reader # "gone" /\ pc' = "return" /\ UNCHANGED <<call, fault>>
  /\ UNCHANGED <<stream, given, judged, realtimeVars>>

\* Drop of the worker: channel closed, process killed, both threads joined.
Drop ==
  /\ pc = "drop"
  /\ child' = IF child = "none" THEN "none" ELSE "gone"
  /\ pc' = "join"
  /\ UNCHANGED <<stream, given, judged, call, fault, live, pipeVars, closing, segments, end, providerVars>>

Join ==
  /\ pc = "join"
  /\ writer # "running" /\ reader # "running"
  /\ tx' = <<>> /\ stdin' = <<>> /\ stdout' = <<>> /\ rx' = <<>> /\ wire' = <<>>
  /\ writer' = "none" /\ reader' = "none" /\ broken' = FALSE
  /\ child' = "none" /\ closing' = FALSE /\ segments' = <<>> /\ end' = 0
  /\ heard' = 0 /\ said' = 0
  /\ pc' = "return"
  /\ UNCHANGED <<stream, given, judged, call, fault, live, endedEarly>>

\* A fault is told by one call.
Return ==
  /\ pc = "return"
  /\ pc' = IF call.op = "drop" THEN "ended" ELSE "idle"
  /\ call' = NoCall
  /\ stream' = IF call.op = "drop" THEN stream
               ELSE [stream EXCEPT ![s] =
                       IF ~call.ok THEN "failed" ELSE IF call.op = "finish" THEN "finished" ELSE "open"]
  /\ fault' = (fault /\ call.ok)
  /\ UNCHANGED <<given, judged, realtimeVars>>

Client == StartWorker \/ Send \/ Fed \/ EnterPoll \/ Poll \/ PollEmpty \/ Drop \/ Join \/ Return

-----------------------------------------------------------------------------
(* The two threads. *)

clientSide == <<stream, given, judged, call, pc, live>>

\* Writes what it is given; ends after Finish, with the channel or the pipe.
Write ==
  /\ writer = "running"
  /\ \/ /\ tx # <<>> /\ child = "ready"
        /\ Len(stdin) < Slots
        /\ stdin' = Append(stdin, Head(tx)) /\ tx' = Tail(tx)
        /\ writer' = IF Head(tx) = Finish THEN "gone" ELSE "running"
        /\ UNCHANGED broken
     \/ /\ tx # <<>> /\ child = "gone"
        /\ broken' = TRUE /\ writer' = "gone" /\ UNCHANGED <<stdin, tx>>
     \/ /\ tx = <<>> /\ pc = "join"
        /\ writer' = "gone" /\ UNCHANGED <<stdin, tx, broken>>
  /\ UNCHANGED <<clientSide, fault, reader, stdout, rx, workerVars, providerVars>>

\* Reads what the loop wrote and hands it on; a full channel ends it.
Read ==
  /\ reader = "running"
  /\ stdout # <<>> \/ child = "gone"
  /\ LET value == IF stdout = <<>> THEN Error ELSE Head(stdout)
         full  == Len(rx) = Slots
     IN  /\ stdout' = IF stdout = <<>> THEN stdout ELSE Tail(stdout)
         /\ rx' = IF full THEN rx ELSE Append(rx, value)
         /\ broken' = (broken \/ full)
         /\ fault' = (fault \/ full)
         /\ reader' = IF full \/ value \in {Done, Error} THEN "gone" ELSE "running"
  /\ UNCHANGED <<clientSide, tx, writer, stdin, workerVars, providerVars>>

-----------------------------------------------------------------------------
(* The worker's loop. *)

loopSide == <<clientSide, tx, writer, reader, rx, broken>>

\* One input: audio goes to the provider, Finish asks it to close.
TakeInput ==
  /\ child = "ready" /\ ~closing
  /\ stdin # <<>>
  /\ stdin' = Tail(stdin)
  /\ IF Head(stdin) = Finish THEN closing' = TRUE /\ UNCHANGED heard
     ELSE heard' = heard + 1 /\ UNCHANGED closing
  /\ UNCHANGED <<loopSide, fault, stdout, child, segments, end, said, wire, endedEarly>>

\* Slip: repetitions are appended.
ExtendedByAll(k) == Append(segments, k)

\* Finals::accept on a final segment: one that starts before the end of the
\* last is a repetition.
Extended(k) == IF k > end THEN Append(segments, k) ELSE segments

\* Finals::accept on any message: what is assembled after it, and whether that
\* is a whole utterance.
Assembled(m) == IF m.type = "final" THEN Extended(m.n) ELSE segments
Complete(m) ==
  /\ Assembled(m) # <<>>
  /\ CASE m.type = "final" -> m.speech /\ m.n >= Head(Assembled(m)) /\ m.n >= end
       [] m.type = "end"   -> m.n >= segments[Len(segments)]
       [] OTHER            -> closing /\ m.type \in {"metadata", "close"}

\* One message: an utterance that is complete is written, and after the
\* provider's last message Done; a session it closes first is an error.
Receive ==
  /\ child = "ready" /\ wire # <<>>
  /\ wire' = Tail(wire)
  /\ LET m     == Head(wire)
         last  == closing /\ m.type \in {"metadata", "close"}
         early == ~closing /\ m.type = "close"
     IN  /\ segments' = IF Complete(m) THEN <<>> ELSE Assembled(m)
         /\ end' = IF m.type = "final" /\ m.n > end THEN m.n ELSE end
         /\ stdout' = stdout \o (IF Complete(m) THEN <<Assembled(m)>> ELSE <<>>)
                             \o (IF last THEN <<Done>> ELSE <<>>)
         /\ child' = IF last \/ early THEN "gone" ELSE "ready"
         /\ fault' = (fault \/ early)
  /\ UNCHANGED <<loopSide, stdin, closing, heard, said, endedEarly>>

\* A time limit of the session runs out, or the process ends otherwise.
Expire ==
  /\ child = "ready"
  /\ child' = "gone"
  /\ fault' = TRUE
  /\ UNCHANGED <<loopSide, stdin, stdout, closing, segments, end, providerVars>>

-----------------------------------------------------------------------------
(* The provider. *)

Tells(m) ==
  /\ child = "ready"
  /\ Len(wire) < Wire
  /\ wire' = Append(wire, m)
  /\ UNCHANGED <<clientSide, fault, pipeVars, workerVars, heard>>

Final(n, speech) == [type |-> "final", n |-> n, speech |-> speech]
Other(type) == [type |-> type, n |-> said, speech |-> FALSE]

Says ==
  /\ said < heard
  /\ said' = said + 1
  /\ UNCHANGED endedEarly
  /\ \E speech \in BOOLEAN : Tells(Final(said + 1, speech))

Repeats ==
  /\ said > 0
  /\ UNCHANGED <<said, endedEarly>>
  /\ \E speech \in BOOLEAN : Tells(Final(said, speech))

EndsUtterance == said > 0 /\ UNCHANGED <<said, endedEarly>> /\ Tells(Other("end"))

EndsSession ==
  /\ closing => said = heard
  /\ UNCHANGED said
  /\ endedEarly' = (endedEarly \/ ~closing)
  /\ \E type \in {"metadata", "close"} : Tells(Other(type))

Provider == Says \/ Repeats \/ EndsUtterance \/ EndsSession

Loop == TakeInput \/ Receive \/ Expire
Next == Caller \/ Client \/ Write \/ Read \/ Loop \/ Provider
=============================================================================
