------------------------------ MODULE Engines ------------------------------
(***************************************************************************)
(* Any one configured engine under its caller, from its load to its end,   *)
(* and what all of them have to do alike.                                  *)
(***************************************************************************)
EXTENDS WorkerLink

CONSTANTS Slots, Wire   \* as in CloudRealtime

VARIABLES
  engine,                            \* the configured engine
  live, writer, child,               \* of the remote engine's stream
  pending, requests, results,        \* of CloudQueue
  tx, stdin, reader, stdout, rx, broken, closing, segments, end, heard, said, wire, endedEarly
                                     \* of CloudRealtime

queueVars == <<pending, requests, results>>
sessionVars == <<tx, stdin, reader, stdout, rx, broken, closing, segments, end, heard, said, wire, endedEarly>>
remoteVars == <<live, writer, child, queueVars, sessionVars>>
vars == <<linkVars, engine, remoteVars>>

A == INSTANCE AudioCppWorker
O == INSTANCE OpenVinoWorker
W == INSTANCE WhisperWorker
T == INSTANCE TrainedWorker
Q == INSTANCE CloudQueue
R == INSTANCE CloudRealtime

Native == {"audiocpp", "openvino-genai", "whispercpp", "trained"}

\* A remote engine loads without a process of its own.
Init ==
  /\ engine \in Native \cup {"cloud", "realtime"}
  /\ stream = [s \in Stream |-> "new"] /\ started = {}
  /\ given = [s \in Stream |-> 0] /\ judged = [s \in Stream |-> <<>>]
  /\ IF engine \in Native THEN call = [NoCall EXCEPT !.op = "load"] /\ pc = "launch"
     ELSE call = Q!NoCall /\ pc = "idle"
  /\ ClientInit
  /\ R!SessionInit /\ Q!QueueInit
  /\ IF engine \in Native THEN live = FALSE ELSE live \in BOOLEAN
  /\ child = "none" /\ writer = IF engine = "cloud" THEN Q!NoWriter ELSE "none"

LocalStep(Step) == Step /\ UNCHANGED remoteVars
QueueStep(Step) ==
  Step /\ UNCHANGED <<started, active, current, open, workerVars, sessionVars>>
SessionStep(Step) ==
  Step /\ UNCHANGED <<started, active, current, open, workerVars, queueVars>>

Next ==
  /\ \/ engine = "audiocpp" /\ LocalStep(A!Next)
     \/ engine = "openvino-genai" /\ LocalStep(O!Next)
     \/ engine = "whispercpp" /\ LocalStep(W!Next)
     \/ engine = "trained" /\ LocalStep(T!Next)
     \/ engine = "cloud" /\ QueueStep(Q!Next)
     \/ engine = "realtime" /\ SessionStep(R!Next)
  /\ UNCHANGED engine

\* The program's own threads are scheduled; a worker, a provider and a time
\* limit may take no step, but a call waits for one of them only to its limit.
Thread ==
  /\ \/ engine = "audiocpp" /\ LocalStep(A!Client)
     \/ engine = "openvino-genai" /\ LocalStep(O!Client)
     \/ engine = "whispercpp" /\ LocalStep(W!Client)
     \/ engine = "trained" /\ LocalStep(T!Client)
     \/ engine = "cloud" /\ QueueStep(Q!Client)
     \/ engine = "realtime" /\ SessionStep(R!Client)
  /\ UNCHANGED engine

\* A worker that is killed dies, and one that waits for input sees its end.
Ends(p) == LocalStep(Eof(p) \/ Die(p)) /\ UNCHANGED engine

QueueWriter == engine = "cloud" /\ QueueStep(Q!Writer) /\ UNCHANGED engine
SessionWriter == engine = "realtime" /\ SessionStep(R!Write) /\ UNCHANGED engine
SessionReader == engine = "realtime" /\ SessionStep(R!Read) /\ UNCHANGED engine
SessionInput == engine = "realtime" /\ SessionStep(R!TakeInput) /\ UNCHANGED engine

Fairness ==
  /\ WF_vars(Thread)
  /\ \A p \in Proc : WF_vars(Ends(p))
  /\ WF_vars(QueueWriter)
  /\ WF_vars(SessionWriter) /\ WF_vars(SessionReader) /\ WF_vars(SessionInput)

Spec == Init /\ [][Next]_vars /\ Fairness

-----------------------------------------------------------------------------
\* Every engine is a StreamContract: an answer that comes late, from a worker
\* that was replaced, or twice never reaches a stream, nothing is judged out
\* of order, and a stream that finished was judged to its end.
Contract == INSTANCE StreamContract WITH phase <- stream, cutShort <- endedEarly
KeepsContract == Contract!Spec

\* A stream with no audio at an engine fails for a reason: something outside
\* the program went wrong in that call, another stream is being served, or the
\* trained-word engine has been closed.  Above all no stream is refused because
\* of one that is dropped or finished.  A remote stream fails only by a fault,
\* or when a live one is not kept up with.
Fails(s) == stream[s] = "open" /\ stream'[s] = "failed"
Busy == \E t \in started : active = t /\ stream[t] \in {"open", "failed"}
FailsForAReason == [][\A s \in Stream :
  Fails(s) => fault \/ s \in started \/ Busy \/ (engine = "trained" /\ ~open)]_vars

\* No call waits for ever for a worker, a reply, a thread or a full channel.
CallReturns == pc \notin {"idle", "ended"} ~> pc \in {"idle", "ended"}

\* Once the engine is dropped no process of it runs on.
WorkersEnd == pc = "ended" ~> child # "ready" /\ \A p \in Proc : ~Alive(p)
=============================================================================
