----------------------------- MODULE CloudQueue -----------------------------
(***************************************************************************)
(* A remote engine's stream that sends each utterance as one HTTP request: *)
(* the stream, the thread that owns its worker process's pipes, the two    *)
(* channels between them and the process.  Each stream has its own, so one *)
(* stream says all.                                                        *)
(*                                                                         *)
(* Abstracted: where utterances are cut (a call cuts none, one or two),    *)
(* the texts.  A request is answered with a text or an error, the process  *)
(* may be gone, a time limit may run out whenever its wait is not over.    *)
(***************************************************************************)
EXTENDS Integers, Sequences

CONSTANT Frames   \* bound of the model: utterances of the stream

VARIABLES
  stream, given, judged,   \* as in WorkerLink; utterances are the pieces
  call, pc, fault,
  live,      \* the microphone's stream; otherwise a file's
  pending,   \* utterances submitted and not yet polled
  requests,  \* the channel to the thread, of two slots
  writer,    \* the thread: where it is, the utterance it has, its outcome
  child,     \* "none", "ready" or "gone"
  results    \* the channel back, of three slots

cloudVars == <<live, pending, requests, writer, child, results>>
vars == <<stream, given, judged, call, pc, fault, cloudVars>>

s == 1
RequestSlots == 2
ResultSlots == 3
NoWriter == [at |-> "none", n |-> 0, reply |-> "none"]
NoCall == [op |-> "none", left |-> 0, ok |-> TRUE]

QueueInit == pending = 0 /\ requests = <<>> /\ results = <<>>

-----------------------------------------------------------------------------
(* The caller. *)

Enter(op, n) ==
  /\ pc = "idle"
  /\ given[s] + n <= Frames
  /\ given' = [given EXCEPT ![s] = @ + n]
  /\ stream' = [stream EXCEPT ![s] = "open"]
  /\ call' = [op |-> op, left |-> n, ok |-> TRUE]
  /\ pc' = "feed"
  /\ UNCHANGED <<judged, fault, cloudVars>>

Accept == stream[s] \in {"new", "open"} /\ \E n \in 0 .. 2 : Enter("accept", n)

\* The tail may still cut one, and what is being spoken is cut too.
FinishStream == stream[s] \in {"new", "open"} /\ \E n \in 0 .. 2 : Enter("finish", n)

DropStream ==
  /\ pc = "idle"
  /\ stream[s] # "closed"
  /\ stream' = [stream EXCEPT ![s] = "closed"]
  /\ given' = [given EXCEPT ![s] = 0] /\ judged' = [judged EXCEPT ![s] = <<>>]
  /\ call' = [NoCall EXCEPT !.op = "drop"]
  /\ pc' = "drop"
  /\ UNCHANGED <<fault, cloudVars>>

Caller == Accept \/ FinishStream \/ DropStream

-----------------------------------------------------------------------------
(* The stream. *)

Fails == pc' = "drop" /\ call' = [call EXCEPT !.ok = FALSE]

\* The first utterance starts the worker.
StartWorker ==
  /\ pc = "feed" /\ call.left > 0 /\ child = "none"
  /\ \/ /\ child' = "ready"
        /\ writer' = [NoWriter EXCEPT !.at = "waiting"]
        /\ UNCHANGED <<call, pc, fault>>
     \/ Fails /\ fault' = TRUE /\ UNCHANGED <<child, writer>>
  /\ UNCHANGED <<stream, given, judged, live, pending, requests, results>>

\* submit: three at most are unanswered, two at most wait for the thread.
Submit ==
  /\ pc = "feed" /\ call.left > 0 /\ child # "none"
  /\ IF pending < 3 /\ Len(requests) < RequestSlots /\ writer.at # "gone"
     THEN /\ requests' = Append(requests, given[s] - call.left + 1)
          /\ pending' = pending + 1
          /\ call' = [call EXCEPT !.left = @ - 1]
          /\ pc' = "poll"
          /\ UNCHANGED fault
     ELSE Fails /\ fault' = (fault \/ live) /\ UNCHANGED <<requests, pending>>
  /\ UNCHANGED <<stream, given, judged, live, writer, child, results>>

\* Whether this poll waits for every answer.
Waits == ~live \/ (call.op = "finish" /\ call.left = 0)

\* poll: answers are taken in order; an error ends the stream.
Poll ==
  /\ pc = "poll" /\ pending > 0 /\ results # <<>>
  /\ results' = Tail(results)
  /\ IF Head(results).reply = "text"
     THEN /\ judged' = [judged EXCEPT ![s] = Append(@, Head(results).n)]
          /\ pending' = pending - 1
          /\ UNCHANGED <<call, pc>>
     ELSE Fails /\ UNCHANGED <<judged, pending>>
  /\ UNCHANGED <<stream, given, fault, live, requests, writer, child>>

\* Where the call goes on after a poll.
AfterPoll ==
  IF call.left > 0 THEN "feed" ELSE IF call.op = "finish" THEN "drop" ELSE "return"

\* Nothing is there: the thread has ended, the wait is over, or no wait is due.
PollEmpty ==
  /\ pc = "poll" /\ pending > 0 /\ results = <<>>
  /\ \/ writer.at = "gone" /\ Fails /\ UNCHANGED fault
     \/ writer.at # "gone" /\ Waits /\ Fails /\ fault' = TRUE
     \/ writer.at # "gone" /\ ~Waits /\ pc' = AfterPoll /\ UNCHANGED <<call, fault>>
  /\ UNCHANGED <<stream, given, judged, cloudVars>>

PollDone ==
  /\ pc = "poll" /\ pending = 0
  /\ pc' = AfterPoll
  /\ UNCHANGED <<stream, given, judged, call, fault, cloudVars>>

\* A call that cuts nothing polls all the same.
Fed ==
  /\ pc = "feed" /\ call.left = 0
  /\ pc' = "poll"
  /\ UNCHANGED <<stream, given, judged, call, fault, cloudVars>>

\* Drop of the worker: the channel is closed, the process killed and reaped,
\* the thread joined.
Drop ==
  /\ pc = "drop"
  /\ child' = IF child = "none" THEN "none" ELSE "gone"
  /\ pc' = "join"
  /\ UNCHANGED <<stream, given, judged, call, fault, live, pending, requests, writer, results>>

Join ==
  /\ pc = "join"
  /\ writer.at \in {"none", "gone"}
  /\ pending' = 0 /\ requests' = <<>> /\ results' = <<>>
  /\ writer' = NoWriter /\ child' = "none"
  /\ pc' = "return"
  /\ UNCHANGED <<stream, given, judged, call, fault, live>>

\* A fault is told by one call.
Return ==
  /\ pc = "return"
  /\ pc' = IF call.op = "drop" THEN "ended" ELSE "idle"
  /\ call' = NoCall
  /\ stream' = IF call.op = "drop" THEN stream
               ELSE [stream EXCEPT ![s] =
                       IF ~call.ok THEN "failed" ELSE IF call.op = "finish" THEN "finished" ELSE "open"]
  /\ fault' = (fault /\ call.ok)
  /\ UNCHANGED <<given, judged, cloudVars>>

Client == StartWorker \/ Submit \/ Poll \/ PollEmpty \/ PollDone \/ Fed \/ Drop \/ Join \/ Return

-----------------------------------------------------------------------------
(* The thread and the process. *)

Step(w) == writer' = w /\ UNCHANGED <<stream, given, judged, call, pc, live, pending, child>>

\* The next request, or the end of the channel.
Recv ==
  /\ writer.at = "waiting"
  /\ \/ /\ requests # <<>>
        /\ requests' = Tail(requests)
        /\ Step([at |-> "asking", n |-> Head(requests), reply |-> "none"])
     \/ /\ requests = <<>> /\ pc = "join"
        /\ Step([writer EXCEPT !.at = "gone"]) /\ UNCHANGED requests
  /\ UNCHANGED <<fault, results>>

\* The process answers the request with a text or an error.
Answer ==
  /\ writer.at = "asking" /\ child = "ready"
  /\ \E reply \in {"text", "error"} :
       /\ Step([writer EXCEPT !.at = "telling", !.reply = reply])
       /\ fault' = (fault \/ reply = "error")
  /\ UNCHANGED <<requests, results>>

\* Its pipe has ended.
Broken ==
  /\ writer.at = "asking" /\ child = "gone"
  /\ Step([writer EXCEPT !.at = "telling", !.reply = "broken"])
  /\ UNCHANGED <<requests, results, fault>>

\* The outcome is sent while there is room; a broken pipe ends the thread.
Told(slots) ==
  /\ writer.at = "telling"
  /\ Len(results) < slots
  /\ results' = Append(results, [n |-> writer.n, reply |-> writer.reply])
  /\ Step([writer EXCEPT !.at = IF writer.reply = "broken" THEN "gone" ELSE "waiting"])
  /\ UNCHANGED <<requests, fault>>

\* Slip: a channel of one result.
TellIntoOne == Told(1)

Tell == Told(ResultSlots)

Writer == Recv \/ Broken \/ Tell

\* The process ends by itself.
ChildEnds ==
  /\ child = "ready"
  /\ child' = "gone"
  /\ fault' = TRUE
  /\ UNCHANGED <<stream, given, judged, call, pc, live, pending, requests, writer, results>>

Next == Caller \/ Client \/ Writer \/ Answer \/ ChildEnds
=============================================================================
