--------------------------- MODULE AudioCppWorker ---------------------------
(***************************************************************************)
(* The audio.cpp engine's client: its process is killed at once when an    *)
(* exchange fails, and no other is launched before that one was seen to    *)
(* have exited.                                                            *)
(***************************************************************************)
EXTENDS WorkerLink

\* Start asks that no stream be active; the other requests ask nothing here.
Ask == Proceed(Wanted = "start" /\ active # None, FALSE)

\* stdin was dropped with an earlier failure.
SendClosed == pc = "send" /\ ~open /\ Goto("stop")

\* terminate: stdin is dropped, the process is killed unless it has exited.
Terminate ==
  /\ pc = "stop"
  /\ open' = FALSE
  /\ active' = None
  /\ IF proc[current] = "gone" THEN pc' = "reaped" /\ UNCHANGED workerVars
     ELSE pc' = "reap" /\ Kill /\ UNCHANGED proc
  /\ UNCHANGED <<callerVars, call, fault, current>>

\* One second for its exit; relaunch waits a second time before it launches.
Reap ==
  /\ pc \in {"reap", "reapAgain"}
  /\ \/ proc[current] = "gone" /\ Goto(IF pc = "reap" THEN "reaped" ELSE "launch")
     \/ /\ proc[current] # "gone"
        /\ fault' = TRUE
        /\ call' = [call EXCEPT !.tries = IF Wanted = "start" /\ @ = 0 THEN 1 ELSE @]
        /\ pc' = IF call'.tries # call.tries THEN "reapAgain" ELSE "failed"
        /\ UNCHANGED <<callerVars, active, current, open, workerVars>>

\* After a failed exchange: start relaunches once, the others fail.
Reaped ==
  /\ pc = "reaped"
  /\ IF call.op = "close" THEN Finished(TRUE)
     ELSE IF Wanted = "start" /\ call.tries = 0 THEN Again(1, "launch")
     ELSE Goto("failed")

\* A load falls back to the CPU once where that is configured.
Failed ==
  /\ pc = "failed"
  /\ IF call.op = "load" /\ call.tries = 0 THEN Again(2, "launch")
     ELSE Finished(call.op = "close")

Take == Receive({})

Turn(p) == ServeOne(p, TRUE)

\* The stream and the launch of this engine are those of WorkerLink.
Calls == Caller
Spawn == Launch

Client ==
  \/ Ask \/ Spawn \/ Write \/ SendClosed \/ NoReply \/ Handshake \/ Take
  \/ Terminate \/ Linger \/ Reap \/ Reaped \/ Failed

Worker(p) == Opened(p) \/ Turn(p) \/ Eof(p) \/ Crash(p) \/ Die(p)

Next == Calls \/ Client \/ \E p \in Proc : Worker(p)
=============================================================================
