---------------------------- MODULE WhisperWorker ----------------------------
(***************************************************************************)
(* The whisper.cpp engine's client: as OpenVINO's, but every request is    *)
(* for the active stream (a cancel of another is none), an answer that was *)
(* not asked for ends the process, and restarting the speech detector      *)
(* cannot fail.  It has no fallback to load.                               *)
(***************************************************************************)
EXTENDS WorkerLink

Ask ==
  Proceed(\/ Wanted = "start" /\ active # None
          \/ Wanted \in {"audio", "finish"} /\ active # call.s,
          Wanted = "cancel" /\ active # call.s)

EnsureProcess == pc = "send" /\ current = 0 /\ Goto("launch")

Stop ==
  /\ pc = "stop"
  /\ open' = FALSE
  /\ pc' = "linger"
  /\ UNCHANGED <<callerVars, call, fault, active, current, workerVars>>

Reap ==
  /\ pc = "reap"
  /\ \/ proc[current] = "gone" /\ Goto("reaped")
     \/ /\ proc[current] # "gone"
        /\ fault' = TRUE
        /\ pc' = "reaped"
        /\ UNCHANGED <<callerVars, call, active, current, open, workerVars>>

Disconnect ==
  /\ pc = "reaped"
  /\ current' = 0
  /\ active' = None
  /\ IF call.op = "close" THEN Return(TRUE) ELSE pc' = "failed" /\ UNCHANGED <<stream, call, fault>>
  /\ UNCHANGED <<started, given, judged, open, workerVars>>

Failed ==
  /\ pc = "failed"
  /\ IF Wanted = "start" /\ call.tries = 0 THEN Again(2, "send")
     ELSE Finished(FALSE)

Take == Receive({"ready", "ack", "result"})
Turn(p) == ServeOne(p, FALSE)

\* The stream and the launch of this engine are those of WorkerLink.
Calls == Caller
Spawn == Launch

Client ==
  \/ Ask \/ EnsureProcess \/ Spawn \/ Write \/ NoReply \/ Handshake \/ Take
  \/ Stop \/ Linger \/ Reap \/ Disconnect \/ Failed

Worker(p) == Opened(p) \/ Turn(p) \/ Eof(p) \/ Crash(p) \/ Die(p)

Next == Calls \/ Client \/ \E p \in Proc : Worker(p)
=============================================================================
