--------------------------- MODULE OpenVinoWorker ---------------------------
(***************************************************************************)
(* The OpenVINO engine's client: an exchange launches a process when there *)
(* is none; a failed exchange closes the pipes, gives the process two      *)
(* seconds to exit, kills it, and after two more forgets it.               *)
(***************************************************************************)
EXTENDS WorkerLink

\* start wants no active stream, audio and finish want theirs.
Ask ==
  Proceed(\/ Wanted = "start" /\ active # None
          \/ Wanted \in {"audio", "finish"} /\ active # call.s, FALSE)

\* ensure_process, on every request; Cancel of a failed stream too.
EnsureProcess == pc = "send" /\ current = 0 /\ Goto("launch")

\* stop: stdin is closed.
Stop ==
  /\ pc = "stop"
  /\ open' = FALSE
  /\ pc' = "linger"
  /\ UNCHANGED <<callerVars, call, fault, active, current, workerVars>>

\* It exits, or has not after the second limit either.
Reap ==
  /\ pc = "reap"
  /\ \/ proc[current] = "gone" /\ Goto("reaped")
     \/ /\ proc[current] # "gone"
        /\ fault' = TRUE
        /\ pc' = "reaped"
        /\ UNCHANGED <<callerVars, call, active, current, open, workerVars>>

\* Slip: the stream stays active after its process is gone.
DisconnectActive ==
  /\ pc = "reaped"
  /\ current' = 0
  /\ IF call.op = "close" THEN Return(TRUE) ELSE pc' = "failed" /\ UNCHANGED <<stream, call, fault>>
  /\ UNCHANGED <<started, given, judged, active, open, workerVars>>

\* disconnect: the process is forgotten, and with it the active stream.
Disconnect ==
  /\ pc = "reaped"
  /\ current' = 0
  /\ active' = None
  /\ IF call.op = "close" THEN Return(TRUE) ELSE pc' = "failed" /\ UNCHANGED <<stream, call, fault>>
  /\ UNCHANGED <<started, given, judged, open, workerVars>>

\* start exchanges once more; a load falls back to the CPU once.
Failed ==
  /\ pc = "failed"
  /\ IF call.op = "load"
     THEN IF call.tries = 0 THEN Again(2, "launch") ELSE Finished(FALSE)
     ELSE IF Wanted = "start" /\ call.tries = 0 THEN Again(2, "send") ELSE Finished(FALSE)

Take == Receive({})
Turn(p) == ServeOne(p, TRUE)

\* The stream and the launch of this engine are those of WorkerLink.
Calls == Caller
Spawn == Launch

Client ==
  \/ Ask \/ EnsureProcess \/ Spawn \/ Write \/ NoReply \/ Handshake \/ Take
  \/ Stop \/ Linger \/ Reap \/ Disconnect \/ Failed

Worker(p) == Opened(p) \/ Turn(p) \/ Eof(p) \/ Crash(p) \/ Die(p)

Next == Calls \/ Client \/ \E p \in Proc : Worker(p)
=============================================================================
