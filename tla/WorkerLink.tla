----------------------------- MODULE WorkerLink -----------------------------
(***************************************************************************)
(* What the native engines share: the caller's streams, the one thread     *)
(* that serves a call on them, the worker processes it has launched, the   *)
(* pipes between, and the loop a worker runs.  AudioCppWorker,             *)
(* OpenVinoWorker and WhisperWorker say how each engine drives them.       *)
(*                                                                         *)
(* A time limit may run out whenever its reply is not there; a worker may  *)
(* stop at any moment, and one that never answers is one that takes no     *)
(* step.  Abstracted: samples (a frame is its number in its stream),       *)
(* transcripts (an answer carries the frames its recording holds), the     *)
(* text of errors.                                                         *)
(***************************************************************************)
EXTENDS Integers, Sequences, FiniteSets

CONSTANTS
  Streams,   \* bound of the model: streams, each used once
  Frames,    \* bound of the model: frames of one stream
  Launches   \* bound of the model: worker processes; a further spawn fails

ASSUME FramesAssumption == Frames \in Nat
ASSUME LaunchesAssumption == Launches \in Nat \ {0}
ASSUME StreamsAssumption == Streams \in Nat \ {0}   \* a remote engine uses the first

Stream == 1 .. Streams   \* in the order of their first use
None == 0
Proc == 1 .. Launches

VARIABLES
  stream,   \* of each stream: "new", "open", "finished", "failed", "closed"
  started,  \* the streams whose `started` flag is set
  given,    \* the frames handed over with the calls so far
  judged,   \* the frames the accepted answers rest on
  call,     \* the running call: op, stream, frames left to submit, tries
  pc,       \* where its thread is
  fault,    \* something outside the program went wrong during this call
  active,   \* active_id of the client
  current,  \* the process the client holds, 0 for none
  open,     \* its stdin is held
  proc,     \* of each process: "unborn", "opening", "ready", "gone"
  killed,   \* the processes SIGKILL was sent to
  serving,  \* the stream its loop has
  fed,      \* the frames that stream's recording holds
  inbox,    \* requests in its stdin
  outbox    \* replies in its stdout

callerVars == <<stream, started, given, judged>>
clientVars == <<call, pc, fault, active, current, open>>
workerVars == <<proc, killed, serving, fed, inbox, outbox>>
linkVars == <<callerVars, clientVars, workerVars>>

NoCall == [op |-> "none", s |-> None, left |-> 0, tries |-> 0]

\* No process has been launched yet.
ClientInit ==
  /\ fault = FALSE
  /\ active = None /\ current = 0 /\ open = FALSE
  /\ proc = [p \in Proc |-> "unborn"] /\ killed = {}
  /\ serving = [p \in Proc |-> None] /\ fed = [p \in Proc |-> <<>>]
  /\ inbox = [p \in Proc |-> <<>>] /\ outbox = [p \in Proc |-> <<>>]

-----------------------------------------------------------------------------
(* The caller.  One that got an error only drops the stream.               *)

Used(s) == \A t \in 1 .. s - 1 : stream[t] # "new"

Enter(op, s, n) ==
  /\ pc = "idle"
  /\ call' = [op |-> op, s |-> s, left |-> n, tries |-> 0]
  /\ pc' = "request"
  /\ UNCHANGED <<judged, started, fault, active, current, open, workerVars>>

\* accept: the resampler yields none, one or two whole frames of 512 samples.
Accept(s) ==
  /\ Used(s)
  /\ stream[s] \in {"new", "open"}
  /\ \E n \in 0 .. 2 :
       /\ given[s] + n <= Frames
       /\ given' = [given EXCEPT ![s] = @ + n]
       /\ Enter("accept", s, n)
  /\ stream' = [stream EXCEPT ![s] = "open"]

\* finish: what was pending is padded to a last frame.
FinishStream(s) ==
  /\ Used(s)
  /\ stream[s] \in {"new", "open"}
  /\ \E n \in 0 .. 1 :
       /\ given[s] + n <= Frames
       /\ given' = [given EXCEPT ![s] = @ + n]
       /\ Enter("finish", s, n)
  /\ stream' = [stream EXCEPT ![s] = "open"]

\* Drop: only a stream that was started and has not finished tells the worker.
DropStream(s) ==
  /\ Used(s)
  /\ stream[s] # "closed"
  /\ pc = "idle"
  /\ stream' = [stream EXCEPT ![s] = "closed"]
  /\ given' = [given EXCEPT ![s] = 0] /\ judged' = [judged EXCEPT ![s] = <<>>]
  /\ IF s \in started /\ stream[s] # "finished"
     THEN call' = [op |-> "cancel", s |-> s, left |-> 0, tries |-> 0] /\ pc' = "request"
     ELSE UNCHANGED <<call, pc>>
  /\ UNCHANGED <<started, fault, active, current, open, workerVars>>

Shutdown == [kind |-> "shutdown", s |-> None, frame |-> 0]

\* The detector is dropped, after its streams.
DropBackend ==
  /\ \A s \in Stream : stream[s] = "closed"
  /\ pc = "idle"
  /\ call' = [NoCall EXCEPT !.op = "close"]
  /\ inbox' = [p \in Proc |-> IF p = current /\ open /\ proc[p] # "gone"
                              THEN Append(inbox[p], Shutdown) ELSE inbox[p]]
  /\ open' = FALSE
  /\ pc' = IF current = 0 THEN "ended" ELSE "linger"
  /\ UNCHANGED <<callerVars, fault, active, current, proc, killed, serving, fed, outbox>>

StreamCall == \E s \in Stream : Accept(s) \/ FinishStream(s) \/ DropStream(s)
Caller == StreamCall \/ DropBackend

-----------------------------------------------------------------------------
(* The end of a call. *)

\* The call's stream after it, as its caller sees it.
Return(ok) ==
  /\ pc' = CASE call.op = "load"  -> IF ok THEN "idle" ELSE "ended"
             [] call.op = "close" -> "ended"
             [] OTHER             -> "idle"
  /\ call' = NoCall /\ fault' = FALSE
  /\ stream' = IF call.s = None \/ stream[call.s] = "closed" THEN stream
               ELSE [stream EXCEPT ![call.s] =
                       IF ~ok THEN "failed" ELSE IF call.op = "finish" THEN "finished" ELSE "open"]

Finished(ok) ==
  /\ Return(ok)
  /\ UNCHANGED <<started, given, judged, active, current, open, workerVars>>

-----------------------------------------------------------------------------
(* Requests and processes. *)

\* The next request of the running call.
Wanted ==
  IF call.s = None THEN "none"
  ELSE IF call.op = "cancel" THEN "cancel"
  ELSE IF call.s \notin started THEN "start"
  ELSE IF call.left > 0 THEN "audio"
  ELSE IF call.op = "finish" THEN "finish" ELSE "none"

Request == [kind |-> Wanted, s |-> call.s, frame |-> given[call.s] - call.left + 1]

\* The call's next request is asked for, refused here, or there is none.
Proceed(refused, skipped) ==
  /\ pc = "request"
  /\ IF Wanted = "none" \/ skipped THEN Finished(TRUE)
     ELSE IF refused THEN Finished(FALSE)
     ELSE pc' = "send" /\ UNCHANGED <<callerVars, call, fault, active, current, open, workerVars>>

Alive(p) == proc[p] \in {"opening", "ready"}
Unborn == {p \in Proc : proc[p] = "unborn"}

\* spawn: the next process, or an error.
Launch ==
  /\ pc = "launch"
  /\ \/ \E p \in Unborn :
          /\ \A q \in Unborn : p <= q
          /\ proc' = [proc EXCEPT ![p] = "opening"]
          /\ current' = p /\ open' = TRUE
          /\ outbox' = [q \in Proc |-> <<>>]
          /\ pc' = "handshake"
          /\ UNCHANGED fault
     \/ /\ fault' = TRUE
        /\ pc' = "failed"
        /\ UNCHANGED <<proc, current, open, outbox>>
  /\ UNCHANGED <<callerVars, call, active, killed, serving, fed, inbox>>

\* A request is written; a worker that is gone makes the write fail.
Write ==
  /\ pc = "send"
  /\ current # 0 /\ open
  /\ IF proc[current] = "gone"
     THEN pc' = "stop" /\ UNCHANGED inbox
     ELSE /\ inbox' = [inbox EXCEPT ![current] = Append(@, Request)]
          /\ pc' = "await"
  /\ UNCHANGED <<callerVars, call, fault, active, current, open, proc, killed, serving, fed, outbox>>

\* No answer: the pipe has ended, or the time limit has run out.
NoReply ==
  /\ pc \in {"handshake", "await"}
  /\ outbox[current] = <<>>
  /\ fault' = (fault \/ proc[current] # "gone")
  /\ pc' = "stop"
  /\ UNCHANGED <<callerVars, call, active, current, open, workerVars>>

Reply == Head(outbox[current])

\* The handshake of a process: the call goes on with the request it is for.
Handshake ==
  /\ pc = "handshake"
  /\ outbox[current] # <<>>
  /\ outbox' = [outbox EXCEPT ![current] = Tail(@)]
  /\ IF Reply.kind # "ready" THEN pc' = "stop" /\ UNCHANGED <<stream, call, fault>>
     ELSE IF call.op = "load" THEN Return(TRUE)
     ELSE /\ pc' = "send"
          /\ call' = [call EXCEPT !.tries = IF @ = 1 THEN 2 ELSE @]
          /\ UNCHANGED <<stream, fault>>
  /\ UNCHANGED <<started, given, judged, active, current, open, proc, killed, serving, fed, inbox>>

\* The client takes the answer; one of a kind in `severe` that is not the
\* answer asked for ends the process.
Receive(severe) ==
  /\ pc = "await"
  /\ outbox[current] # <<>>
  /\ outbox' = [outbox EXCEPT ![current] = Tail(@)]
  /\ LET asked == Wanted
         kind  == IF asked \in {"start", "cancel"} THEN "ack" ELSE "result"
         good  == Reply.kind = kind /\ Reply.s = call.s
         ends  == ~good /\ Reply.kind \in severe
     IN  /\ started' = IF asked = "start" /\ good THEN started \cup {call.s} ELSE started
         /\ active' = IF asked = "start" THEN (IF good THEN call.s ELSE active)
                      ELSE IF asked \in {"finish", "cancel"} /\ ~ends THEN None ELSE active
         /\ judged' = IF good /\ asked \in {"audio", "finish"}
                      THEN [judged EXCEPT ![call.s] = Reply.fed] ELSE judged
         /\ IF good /\ asked \in {"start", "audio"}
            THEN /\ pc' = "request"
                 /\ call' = [call EXCEPT !.left = IF asked = "audio" THEN @ - 1 ELSE @]
                 /\ UNCHANGED <<stream, fault>>
            ELSE IF ends
            THEN pc' = "stop" /\ call' = [call EXCEPT !.tries = 2] /\ UNCHANGED <<stream, fault>>
            ELSE Return(good)
  /\ UNCHANGED <<given, current, open, proc, killed, serving, fed, inbox>>

\* SIGKILL: the process runs no further, but may take its time to exit.
Kill ==
  /\ killed' = killed \cup {current}
  /\ serving' = [serving EXCEPT ![current] = None] /\ fed' = [fed EXCEPT ![current] = <<>>]
  /\ inbox' = [inbox EXCEPT ![current] = <<>>] /\ outbox' = [outbox EXCEPT ![current] = <<>>]

\* Slip: one that has not exited in time is left alone.
LingerOn ==
  /\ pc = "linger"
  /\ pc' = "reaped"
  /\ UNCHANGED <<callerVars, call, fault, active, current, open, workerVars>>

\* A process is given time to exit by itself, then killed.
Linger ==
  /\ pc = "linger"
  /\ IF proc[current] = "gone" THEN pc' = "reaped" /\ UNCHANGED workerVars
     ELSE pc' = "reap" /\ Kill /\ UNCHANGED proc
  /\ UNCHANGED <<callerVars, call, fault, active, current, open>>

\* The thread goes to l.
Goto(l) ==
  pc' = l /\ UNCHANGED <<callerVars, call, fault, active, current, open, workerVars>>

\* The call is tried once more from l, or given up.
Again(n, l) ==
  /\ call' = [call EXCEPT !.tries = n]
  /\ pc' = l
  /\ UNCHANGED <<callerVars, fault, active, current, open, workerVars>>

-----------------------------------------------------------------------------
(* A worker process p.  *)

\* Its stdin, or the other end of its stdout, is closed.
Deaf(p) == current # p \/ ~open

\* It has exited; what it wrote can still be read.
Exit(p) ==
  /\ proc' = [proc EXCEPT ![p] = "gone"] /\ killed' = killed \ {p}
  /\ serving' = [serving EXCEPT ![p] = None] /\ fed' = [fed EXCEPT ![p] = <<>>]
  /\ inbox' = [inbox EXCEPT ![p] = <<>>]

\* A reply is written, if its reader is still there.
Say(p, reply) ==
  outbox' = IF current = p THEN [outbox EXCEPT ![p] = Append(@, reply)] ELSE outbox

\* The provider is opened and its readiness or its error reported.
Opened(p) ==
  /\ proc[p] = "opening" /\ p \notin killed
  /\ \E ok \in BOOLEAN :
       /\ IF ok /\ current = p
          THEN proc' = [proc EXCEPT ![p] = "ready"] /\ UNCHANGED <<killed, serving, fed, inbox>>
          ELSE Exit(p)
       /\ Say(p, [kind |-> IF ok THEN "ready" ELSE "error", s |-> None, fed |-> <<>>])
       /\ fault' = (fault \/ (~ok /\ current = p))
  /\ UNCHANGED <<callerVars, call, pc, active, current, open>>

\* What the loop may make of request r: its stream, the recording, the reply.
\* `restarts`: the speech detector can fail to restart.
Outcomes(p, r, restarts) ==
  LET is(kind)       == r.kind = kind /\ serving[p] = r.s
      out(s, f, k)   == [serving |-> s, fed |-> f, kind |-> k, provider |-> k = "error"]
      refused        == [out(serving[p], fed[p], "error") EXCEPT !.provider = FALSE]
  IN  CASE r.kind = "start" ->
             {out(r.s, <<>>, "ack")}
               \cup (IF restarts THEN {out(serving[p], fed[p], "error")} ELSE {})
        [] is("audio") ->
             {out(r.s, Append(fed[p], r.frame), "result"), out(r.s, fed[p], "error"),
              out(r.s, Append(fed[p], r.frame), "error")}
        [] is("finish") ->
             {out(None, fed[p], "result"), out(None, fed[p], "error")}
        [] is("cancel") ->
             {out(None, fed[p], "ack")}
               \cup (IF restarts THEN {out(None, fed[p], "error")} ELSE {})
        [] OTHER -> {refused}

\* One turn of the loop; Shutdown ends it, and so does a reply nobody can read.
ServeOne(p, restarts) ==
  /\ proc[p] = "ready" /\ p \notin killed /\ inbox[p] # <<>>
  /\ IF Head(inbox[p]).kind = "shutdown" \/ current # p
     THEN Exit(p) /\ UNCHANGED <<outbox, fault>>
     ELSE \E o \in Outcomes(p, Head(inbox[p]), restarts) :
            /\ serving' = [serving EXCEPT ![p] = o.serving]
            /\ fed' = [fed EXCEPT ![p] = o.fed]
            /\ inbox' = [inbox EXCEPT ![p] = Tail(@)]
            /\ Say(p, [kind |-> o.kind, s |-> Head(inbox[p]).s, fed |-> o.fed])
            /\ fault' = (fault \/ o.provider)
            /\ UNCHANGED <<proc, killed>>
  /\ UNCHANGED <<callerVars, call, pc, active, current, open>>

\* End of input ends the loop.
Eof(p) ==
  /\ proc[p] = "ready" /\ p \notin killed /\ inbox[p] = <<>> /\ Deaf(p)
  /\ Exit(p)
  /\ UNCHANGED <<callerVars, clientVars, outbox>>

\* It crashes, or the signal that was sent to it arrives.
Crash(p) ==
  /\ Alive(p) /\ p \notin killed
  /\ Exit(p)
  /\ fault' = (fault \/ (pc # "idle" /\ current = p))
  /\ UNCHANGED <<callerVars, call, pc, active, current, open, outbox>>

Die(p) ==
  /\ Alive(p) /\ p \in killed
  /\ Exit(p)
  /\ UNCHANGED <<callerVars, clientVars, outbox>>
=============================================================================
