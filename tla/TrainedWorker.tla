---------------------------- MODULE TrainedWorker ----------------------------
(***************************************************************************)
(* The engine of trained words: one encoder process behind a socket, and   *)
(* no stream number in its protocol.  The first failed exchange kills the  *)
(* process and closes the engine for good.                                 *)
(***************************************************************************)
EXTENDS WorkerLink

\* The backend's `active` flag keeps a second stream out.
Ask ==
  /\ Wanted # "cancel"
  /\ Proceed(Wanted = "start" /\ active # None, FALSE)

\* Drop tells the worker nothing: the next Start clears its recording.
Release ==
  /\ pc = "request" /\ Wanted = "cancel"
  /\ active' = None
  /\ Return(TRUE)
  /\ UNCHANGED <<started, given, judged, current, open, workerVars>>

\* A failed worker is not used again; a chunk the resampler made too loud is
\* refused before it is sent.
Refuse ==
  /\ pc = "send"
  /\ ~open \/ Wanted = "audio"
  /\ Finished(FALSE)

\* Every word's head must be for the encoder that reported itself.
Handshaken ==
  /\ pc = "handshake"
  /\ outbox[current] # <<>>
  /\ outbox' = [outbox EXCEPT ![current] = Tail(@)]
  /\ \E heads \in BOOLEAN :
       IF Reply.kind = "ready" /\ heads THEN Return(TRUE)
       ELSE pc' = "stop" /\ UNCHANGED <<stream, call, fault>>
  /\ UNCHANGED <<started, given, judged, active, current, open, proc, killed, serving, fed, inbox>>

Take == Receive({"ready", "ack", "result", "error"})

\* kill, and wait without a limit.
Terminate ==
  /\ pc = "stop"
  /\ open' = FALSE
  /\ IF proc[current] = "gone" THEN UNCHANGED workerVars ELSE Kill /\ UNCHANGED proc
  /\ pc' = "reap"
  /\ UNCHANGED <<callerVars, call, fault, active, current>>

Waited ==
  /\ pc = "reap"
  /\ proc[current] = "gone"
  /\ Finished(call.op = "close")

\* A spawn that fails leaves nothing behind.
Failed == pc = "failed" /\ Finished(FALSE)

\* The detector is dropped: kill and wait.
Close ==
  /\ \A s \in Stream : stream[s] = "closed"
  /\ pc = "idle"
  /\ call' = [NoCall EXCEPT !.op = "close"]
  /\ pc' = "stop"
  /\ UNCHANGED <<callerVars, fault, active, current, open, workerVars>>

\* One turn of the loop: an error is reported and ends the process.
Turn(p) ==
  /\ proc[p] = "ready" /\ p \notin killed /\ inbox[p] # <<>>
  /\ LET r == Head(inbox[p])
         heard == CASE r.kind = "start" -> <<>>
                    [] r.kind = "audio" -> Append(fed[p], r.frame)
                    [] OTHER            -> fed[p]
     IN  \/ /\ serving' = [serving EXCEPT ![p] = IF r.kind = "finish" THEN None ELSE r.s]
            /\ fed' = [fed EXCEPT ![p] = heard]
            /\ inbox' = [inbox EXCEPT ![p] = Tail(@)]
            /\ Say(p, [kind |-> IF r.kind = "start" THEN "ack" ELSE "result", s |-> r.s, fed |-> heard])
            /\ UNCHANGED <<proc, killed, fault>>
         \/ /\ Exit(p)
            /\ Say(p, [kind |-> "error", s |-> r.s, fed |-> <<>>])
            /\ fault' = TRUE
  /\ UNCHANGED <<callerVars, call, pc, active, current, open>>

\* The stream and the launch are those of WorkerLink.
Calls == StreamCall
Spawn == Launch

Client ==
  \/ Ask \/ Release \/ Refuse \/ Spawn \/ Write \/ NoReply \/ Handshaken \/ Take
  \/ Terminate \/ Waited \/ Failed

Worker(p) == Opened(p) \/ Turn(p) \/ Eof(p) \/ Crash(p) \/ Die(p)

Next == Calls \/ Close \/ Client \/ \E p \in Proc : Worker(p)
=============================================================================
