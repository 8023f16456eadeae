--------------------------- MODULE WorkerProofs ---------------------------
(***************************************************************************)
(* The engines with a process of their own, audio.cpp, OpenVINO GenAI,     *)
(* whisper.cpp and the trained words: for any number of streams, of        *)
(* launches and of frames, their calls, requests, replies and processes    *)
(* belong together, and each step gives, judges, finishes, fails or closes *)
(* a stream as StreamContract has it.                                      *)
(***************************************************************************)
EXTENDS Engines, SequenceTheorems, TLAPS

-----------------------------------------------------------------------------
(* The engines with a process of their own: the invariant. *)

UpTo(n) == Contract!UpTo(n)

Phases == {"new", "open", "finished", "failed", "closed"}
Kinds == {"none", "start", "audio", "finish", "cancel", "shutdown"}
Requests == [kind : Kinds, s : Stream \cup {None}, frame : Int]
Replies == [kind : {"ready", "ack", "result", "error"}, s : Stream \cup {None}, fed : Seq(Int)]
Calling ==
  [op : {"none", "load", "close", "cancel", "accept", "finish"}, s : Stream \cup {None},
   left : Nat, tries : 0 .. 2]
Places ==
  {"idle", "request", "launch", "handshake", "send", "await", "stop", "linger",
   "reap", "reapAgain", "reaped", "failed", "ended"}

CallerTypes ==
  /\ stream \in [Stream -> Phases] /\ started \subseteq Stream
  /\ given \in [Stream -> Nat] /\ judged \in [Stream -> Seq(Int)]
LinkTypes ==
  /\ call \in Calling /\ pc \in Places /\ fault \in BOOLEAN
  /\ active \in Stream \cup {None} /\ current \in Proc \cup {0} /\ open \in BOOLEAN
  /\ proc \in [Proc -> {"unborn", "opening", "ready", "gone"}] /\ killed \subseteq Proc
  /\ serving \in [Proc -> Stream \cup {None}] /\ fed \in [Proc -> Seq(Int)]
  /\ inbox \in [Proc -> Seq(Requests)] /\ outbox \in [Proc -> Seq(Replies)]

\* What a call is about, and that one that is past "request" has a request.
CallShape ==
  /\ pc = "idle" => call.op = "none"
  /\ pc \notin {"idle", "ended"} => call.op # "none"
  /\ call.op \in {"none", "load", "close"} => call.s = None /\ call.left = 0
  /\ call.op = "cancel" => call.s \in started /\ stream[call.s] = "closed" /\ call.left = 0
  /\ call.op \in {"accept", "finish"} => call.s \in Stream /\ stream[call.s] = "open"
  /\ pc \in {"request", "send", "await"} => call.op \in {"accept", "finish", "cancel"}
  /\ pc \in {"launch", "handshake"} => call.op # "close"
  /\ pc = "reapAgain" => Wanted = "start"
  /\ pc \notin {"idle", "request", "ended"} => call.op \in {"load", "close"} \/ Wanted # "none"

\* The frames that are judged are those that were given and are not still to
\* be submitted; a stream is open before it is started only within its call.
Rest(s) == IF call.s = s THEN call.left ELSE 0
Exact == \A s \in Stream :
  /\ stream[s] \in {"new", "open"} =>
       /\ Rest(s) =< given[s]
       /\ judged[s] = UpTo(given[s] - Rest(s))
       /\ s \notin started => Rest(s) = given[s]
  /\ stream[s] = "open" /\ s \notin started => call.s = s
  /\ stream[s] = "new" => s \notin started /\ call.s # s

\* A process the client can still write to is not one it has killed.
Held ==
  /\ open => /\ current \in Proc \ killed
             /\ pc \in {"idle", "request", "send", "handshake", "await", "stop"}
             /\ pc \notin {"handshake", "stop"} => proc[current] # "opening"
  /\ current # 0 => proc[current] # "unborn"
  /\ pc \in {"handshake", "await"} => open
  /\ pc \in {"stop", "linger", "reap", "reapAgain", "reaped"} => current \in Proc
  /\ engine \in {"audiocpp", "trained"} /\ current = 0 => call.op = "load" \/ pc = "ended"
  /\ \A p \in Proc : proc[p] = "unborn" => inbox[p] = <<>> /\ serving[p] = None /\ p \notin killed

\* An answer of the process is to the running call's request.
Answers(r) ==
  /\ r.s = call.s /\ r.kind # "ready"
  /\ Wanted = "start" => r.kind = "ack" \/ (r.kind = "error" /\ fault)
  /\ Wanted = "audio" /\ r.kind = "result" => r.fed = UpTo(given[call.s] - call.left + 1)
  /\ Wanted = "finish" /\ r.kind = "result" => r.fed = UpTo(given[call.s])

\* Nothing is in the pipes between two requests, and no more than one message
\* within an exchange.
Pipes == open =>
  /\ pc \in {"idle", "request", "send"} => inbox[current] = <<>> /\ outbox[current] = <<>>
  /\ pc = "handshake" =>
       /\ inbox[current] = <<>> /\ serving[current] = None
       /\ \/ outbox[current] = <<>>
          \/ /\ Len(outbox[current]) = 1 /\ proc[current] # "opening"
             /\ Reply.kind = "ready" \/ (Reply.kind = "error" /\ fault /\ proc[current] = "gone")
  /\ pc = "await" =>
       \/ inbox[current] = <<Request>> /\ outbox[current] = <<>> /\ proc[current] = "ready"
       \/ inbox[current] = <<>> /\ outbox[current] = <<>> /\ proc[current] = "gone"
       \/ inbox[current] = <<>> /\ Len(outbox[current]) = 1 /\ Answers(Reply)

\* The recording of the stream the process serves is what was judged of it,
\* but for an answer that is not taken yet.
Recording == open /\ pc # "stop" => \A s \in Stream :
  stream[s] \in {"new", "open"} /\ serving[current] = s =>
    IF pc = "await" /\ call.s = s /\ outbox[current] # <<>> /\ Wanted # "start"
    THEN Reply.kind = "result" => fed[current] = Reply.fed
    ELSE fed[current] = judged[s]

\* The active stream is one that its caller has neither finished nor dropped.
ActiveIsUsed ==
  active # None =>
    /\ active \in started
    /\ stream[active] \in {"open", "failed"} \/ (stream[active] = "closed" /\ call.op = "cancel" /\ call.s = active)
ActiveHeld ==
  /\ engine = "audiocpp" /\ ~open => active = None
  /\ engine \in {"openvino-genai", "whispercpp"} =>
       /\ current = 0 => active = None
       /\ pc \in {"launch", "failed"} => current = 0

\* The protocol of the trained-word engine has no stream number: one stream at
\* a time is started, and its process serves that one.
OneActive == engine = "trained" =>
  /\ \A t \in started : stream[t] \in {"open", "failed"} => active = t
  /\ call.op = "cancel" => active = call.s /\ pc = "request"
  /\ pc \in {"launch", "handshake", "failed"} => call.op = "load" /\ started = {}
  /\ pc \in {"send", "await"} /\ Wanted = "start" => active = None
  /\ pc = "await" /\ Wanted = "start" /\ outbox[current] # <<>> /\ Reply.kind = "ack" =>
       proc[current] = "gone" \/ serving[current] = call.s
  /\ open /\ pc # "stop" => \A s \in started : stream[s] = "open" =>
       \/ proc[current] = "gone" \/ serving[current] = s
       \/ (pc = "await" /\ call.s = s /\ Wanted = "finish" /\ outbox[current] # <<>>)

\* A start may first meet a process that had died before the call; what goes
\* wrong at its second attempt is a fault of the call.
Starting == call.op \in {"accept", "finish"} /\ call.s \notin started
Retries == Starting =>
  /\ pc = "request" => call.tries = 0
  /\ call.tries > 0 /\ pc \in {"send", "await", "handshake"} /\ open /\ proc[current] = "gone" => fault
  /\ call.tries > 0 /\ pc \in {"stop", "linger", "reap", "reapAgain", "reaped", "failed"} /\ engine # "trained" => fault
  /\ engine = "audiocpp" /\ call.tries > 0 /\ pc = "send" => open
  /\ engine = "audiocpp" /\ pc = "failed" => fault

LinkInv ==
  /\ CallerTypes /\ LinkTypes /\ CallShape /\ Exact /\ Held /\ Pipes /\ Recording
  /\ ActiveIsUsed /\ ActiveHeld /\ OneActive /\ Retries

\* Streams and processes are numbered from 1: 0 is none of them.
LEMMA Numbers == Stream \subseteq Nat \ {None} /\ Proc \subseteq Nat \ {0} /\ None = 0
  BY StreamsAssumption, LaunchesAssumption DEF Stream, Proc, None

\* The frames 1 .. n in order, and the one after them.
LEMMA UpToFacts ==
  /\ UpTo(0) = <<>>
  /\ \A n \in Nat : UpTo(n) \in Seq(Int) /\ Len(UpTo(n)) = n /\ Append(UpTo(n), n + 1) = UpTo(n + 1)
<1>1. UpTo(0) = <<>>
  BY DEF UpTo, Contract!UpTo
<1>2. ASSUME NEW n \in Nat
      PROVE  UpTo(n) \in Seq(Int) /\ Len(UpTo(n)) = n /\ Append(UpTo(n), n + 1) = UpTo(n + 1)
  BY DEF UpTo, Contract!UpTo
<1> QED
  BY <1>1, <1>2

\* What is wanted next, by the kind of call.
LEMMA WantedFacts ==
  ASSUME call \in Calling
  PROVE  /\ Wanted \in Kinds \ {"shutdown"}
         /\ call.s = None => Wanted = "none"
         /\ Wanted = "cancel" <=> call.s # None /\ call.op = "cancel"
         /\ Wanted = "start" <=> call.s # None /\ call.op # "cancel" /\ call.s \notin started
         /\ Wanted = "audio" <=> call.s # None /\ call.op # "cancel" /\ call.s \in started /\ call.left > 0
         /\ Wanted = "finish" <=> call.s # None /\ call.op = "finish" /\ call.s \in started /\ call.left = 0
<1>1. call.left \in Nat
  BY DEF Calling
<1>2. CASE call.s = None
  BY <1>2 DEF Wanted, Kinds
<1>3. CASE call.s # None /\ call.op = "cancel"
  BY <1>3 DEF Wanted, Kinds
<1>4. CASE call.s # None /\ call.op # "cancel" /\ call.s \notin started
  BY <1>4 DEF Wanted, Kinds
<1>5. CASE call.s # None /\ call.op # "cancel" /\ call.s \in started
  BY <1>1, <1>5 DEF Wanted, Kinds
<1> QED
  BY <1>2, <1>3, <1>4, <1>5

\* A call begins: the caller hands n frames over.
LEMMA EnterKeeps ==
  ASSUME LinkInv, UNCHANGED engine, NEW s \in Stream, Accept(s) \/ FinishStream(s)
  PROVE  LinkInv'
<1>1. PICK op \in {"accept", "finish"}, n \in 0 .. 2 :
        /\ stream[s] \in {"new", "open"} /\ stream' = [stream EXCEPT ![s] = "open"]
        /\ given' = [given EXCEPT ![s] = @ + n]
        /\ pc = "idle" /\ pc' = "request"
        /\ call' = [op |-> op, s |-> s, left |-> n, tries |-> 0]
        /\ UNCHANGED <<judged, started, fault, active, current, open, proc, killed, serving, fed, inbox, outbox>>
  BY DEF Accept, FinishStream, Enter, workerVars
<1>2. CallerTypes /\ LinkTypes /\ CallShape /\ Exact
  BY DEF LinkInv
<1>3. call.op = "none" /\ call.s = None
  BY <1>1, <1>2 DEF CallShape
<1>4. CallerTypes' /\ given[s] \in Nat /\ given'[s] = given[s] + n /\ (\A t \in Stream \ {s} : given'[t] = given[t] /\ stream'[t] = stream[t])
  BY <1>1, <1>2 DEF CallerTypes, Phases
<1>5. LinkTypes'
  BY <1>1, <1>2 DEF LinkTypes, Calling, Places
<1>6. CallShape'
  BY <1>1, <1>2, Numbers DEF CallShape, CallerTypes
<1>7. Exact'
  <2>1. call'.s = s /\ call'.left = n /\ n \in Nat /\ stream'[s] = "open" /\ judged' = judged /\ started' = started
    BY <1>1, <1>2 DEF CallerTypes
  <2>2. ASSUME NEW t \in Stream \ {s}
        PROVE  Rest(t)' = 0 /\ Rest(t) = 0
    BY <1>3, <2>1, Numbers DEF Rest
  <2>3. Rest(s)' = n /\ Rest(s) = 0
    BY <1>3, <2>1, Numbers DEF Rest
  <2>4. judged[s] = UpTo(given[s]) /\ (s \notin started => given[s] = 0)
    BY <1>1, <1>2, <1>4, <2>3 DEF Exact
  <2>5. given[s] + n - n = given[s]
    BY <1>4, <2>1
  <2>6. judged'[s] = UpTo(given'[s] - n) /\ n =< given'[s] /\ (s \notin started' => n = given'[s])
    BY <1>4, <2>1, <2>4, <2>5
  <2>7. ASSUME NEW t \in Stream \ {s}, stream[t] \in {"new", "open"}
        PROVE  given'[t] = given[t] /\ judged[t] = UpTo(given[t] - Rest(t)') /\ Rest(t)' =< given[t] /\ (t \notin started => Rest(t)' = given[t])
    BY <1>2, <1>4, <2>2, <2>7 DEF Exact
  <2>8. ASSUME NEW t \in Stream \ {s}
        PROVE  /\ stream[t] = "open" => t \in started
               /\ stream[t] = "new" => t \notin started /\ t # s
    BY <1>2, <1>3, Numbers DEF Exact
  <2> QED
    BY <1>4, <2>1, <2>3, <2>6, <2>7, <2>8 DEF Exact
<1>8. Held'
  BY <1>1, <1>2, <1>3 DEF Held, LinkInv
<1>9. Pipes'
  BY <1>1, <1>2, <1>3 DEF Pipes, LinkInv
<1>10. Recording'
  BY <1>1, <1>2, <1>3 DEF Recording, LinkInv, CallerTypes
<1>11. ActiveIsUsed' /\ ActiveHeld'
  BY <1>1, <1>2, <1>3 DEF ActiveIsUsed, ActiveHeld, LinkInv, CallerTypes
<1>12. OneActive'
  BY <1>1, <1>2, <1>3 DEF OneActive, LinkInv, CallerTypes, Exact
<1>13. Retries'
  BY <1>1, <1>2, <1>3 DEF Retries, Starting, LinkInv
<1> QED
  BY <1>4, <1>5, <1>6, <1>7, <1>8, <1>9, <1>10, <1>11, <1>12, <1>13 DEF LinkInv

\* What the audio.cpp engine takes from WorkerLink is what is written there.
LEMMA AudioCppShares ==
  /\ A!Wanted = Wanted
  /\ A!Request = Request
  /\ A!Write <=> Write
  /\ A!Launch <=> Launch
  /\ A!NoReply <=> NoReply
  /\ A!Receive({}) <=> Receive({})
  /\ A!Handshake <=> Handshake
  /\ A!DropBackend <=> DropBackend
  /\ A!Linger <=> Linger
  /\ A!Kill <=> Kill
  /\ (A!Return(TRUE) <=> Return(TRUE)) /\ (A!Return(FALSE) <=> Return(FALSE))
  /\ (A!Finished(TRUE) <=> Finished(TRUE)) /\ (A!Finished(FALSE) <=> Finished(FALSE))
  /\ \A refused, skipped \in BOOLEAN : A!Proceed(refused, skipped) <=> Proceed(refused, skipped)
  /\ \A l : A!Goto(l) <=> Goto(l)
  /\ \A n, l : A!Again(n, l) <=> Again(n, l)
  /\ \A s \in Stream : (A!Accept(s) <=> Accept(s)) /\ (A!FinishStream(s) <=> FinishStream(s)) /\ (A!DropStream(s) <=> DropStream(s))
  /\ \A p \in Proc : (A!Opened(p) <=> Opened(p)) /\ (A!Eof(p) <=> Eof(p)) /\ (A!Crash(p) <=> Crash(p))
  /\ \A p \in Proc : (A!Die(p) <=> Die(p)) /\ (A!ServeOne(p, TRUE) <=> ServeOne(p, TRUE))
<1> USE DEF A!callerVars, A!clientVars, A!workerVars, callerVars, clientVars, workerVars,
            A!None, None, A!Proc, Proc, A!Stream, Stream
<1>1. A!Wanted = Wanted
  BY DEF A!Wanted, Wanted
<1>2. A!Request = Request
  BY <1>1 DEF A!Request, Request
<1>3. A!Reply = Reply
  BY DEF A!Reply, Reply
<1>4. A!NoCall = NoCall
  BY DEF A!NoCall, NoCall
<1>5. (A!Return(TRUE) <=> Return(TRUE)) /\ (A!Return(FALSE) <=> Return(FALSE))
  BY <1>4 DEF A!Return, Return
<1>6. (A!Finished(TRUE) <=> Finished(TRUE)) /\ (A!Finished(FALSE) <=> Finished(FALSE))
  BY <1>5 DEF A!Finished, Finished
<1>7. ASSUME NEW refused \in BOOLEAN, NEW skipped \in BOOLEAN
      PROVE  A!Proceed(refused, skipped) <=> Proceed(refused, skipped)
  BY <1>1, <1>6 DEF A!Proceed, Proceed
<1>8. A!Write <=> Write
  BY <1>2 DEF A!Write, Write
<1>9. A!Kill <=> Kill
  BY DEF A!Kill, Kill
<1>10. A!Launch <=> Launch
  BY DEF A!Launch, Launch, A!Unborn, Unborn
<1>11. A!NoReply <=> NoReply
  BY DEF A!NoReply, NoReply
<1>12. ASSUME NEW s \in Stream
       PROVE  (A!Accept(s) <=> Accept(s)) /\ (A!FinishStream(s) <=> FinishStream(s)) /\ (A!DropStream(s) <=> DropStream(s))
  BY DEF A!Accept, Accept, A!FinishStream, FinishStream, A!DropStream, DropStream,
         A!Used, Used, A!Enter, Enter
<1>13. A!Receive({}) <=> Receive({})
  <2>1. \A asked, ok : (A!Return(ok) <=> Return(ok))
    BY <1>4 DEF A!Return, Return
  <2> QED
    BY <1>1, <1>3, <2>1 DEF A!Receive, Receive
<1>14. ASSUME NEW p \in Proc
       PROVE  (A!Opened(p) <=> Opened(p)) /\ (A!Eof(p) <=> Eof(p)) /\ (A!Crash(p) <=> Crash(p)) /\ (A!Die(p) <=> Die(p)) /\ (A!ServeOne(p, TRUE) <=> ServeOne(p, TRUE))
  <2> USE DEF A!Exit, Exit, A!Say, Say, A!Alive, Alive, A!Deaf, Deaf
  <2>1. A!Opened(p) <=> Opened(p)
    BY DEF A!Opened, Opened
  <2>2. (A!Eof(p) <=> Eof(p)) /\ (A!Crash(p) <=> Crash(p)) /\ (A!Die(p) <=> Die(p))
    BY DEF A!Eof, Eof, A!Crash, Crash, A!Die, Die
  <2>3. A!ServeOne(p, TRUE) <=> ServeOne(p, TRUE)
    BY DEF A!ServeOne, ServeOne, A!Outcomes, Outcomes
  <2> QED
    BY <2>1, <2>2, <2>3
<1>15. (\A l : A!Goto(l) <=> Goto(l)) /\ \A n, l : A!Again(n, l) <=> Again(n, l)
  BY DEF A!Goto, Goto, A!Again, Again
<1>16. A!Handshake <=> Handshake
  BY <1>3, <1>5 DEF A!Handshake, Handshake
<1>17. A!DropBackend <=> DropBackend
  BY <1>4 DEF A!DropBackend, DropBackend, A!Shutdown, Shutdown
<1>18. A!Linger <=> Linger
  BY <1>9 DEF A!Linger, Linger
<1> QED
  BY <1>1, <1>2, <1>5, <1>6, <1>7, <1>8, <1>9, <1>10, <1>11, <1>12, <1>13, <1>14, <1>15, <1>16, <1>17, <1>18

\* What the OpenVINO engine takes from WorkerLink is what is written there.
LEMMA OpenVinoShares ==
  /\ O!Wanted = Wanted
  /\ O!Request = Request
  /\ O!Write <=> Write
  /\ O!Launch <=> Launch
  /\ O!NoReply <=> NoReply
  /\ O!Receive({}) <=> Receive({})
  /\ O!Handshake <=> Handshake
  /\ O!DropBackend <=> DropBackend
  /\ O!Linger <=> Linger
  /\ O!Kill <=> Kill
  /\ (O!Return(TRUE) <=> Return(TRUE)) /\ (O!Return(FALSE) <=> Return(FALSE))
  /\ (O!Finished(TRUE) <=> Finished(TRUE)) /\ (O!Finished(FALSE) <=> Finished(FALSE))
  /\ \A refused, skipped \in BOOLEAN : O!Proceed(refused, skipped) <=> Proceed(refused, skipped)
  /\ \A l : O!Goto(l) <=> Goto(l)
  /\ \A n, l : O!Again(n, l) <=> Again(n, l)
  /\ \A s \in Stream : (O!Accept(s) <=> Accept(s)) /\ (O!FinishStream(s) <=> FinishStream(s)) /\ (O!DropStream(s) <=> DropStream(s))
  /\ \A p \in Proc : (O!Opened(p) <=> Opened(p)) /\ (O!Eof(p) <=> Eof(p)) /\ (O!Crash(p) <=> Crash(p))
  /\ \A p \in Proc : (O!Die(p) <=> Die(p)) /\ (O!ServeOne(p, TRUE) <=> ServeOne(p, TRUE))
<1> USE DEF O!callerVars, O!clientVars, O!workerVars, callerVars, clientVars, workerVars,
            O!None, None, O!Proc, Proc, O!Stream, Stream
<1>1. O!Wanted = Wanted
  BY DEF O!Wanted, Wanted
<1>2. O!Request = Request
  BY <1>1 DEF O!Request, Request
<1>3. O!Reply = Reply
  BY DEF O!Reply, Reply
<1>4. O!NoCall = NoCall
  BY DEF O!NoCall, NoCall
<1>5. (O!Return(TRUE) <=> Return(TRUE)) /\ (O!Return(FALSE) <=> Return(FALSE))
  BY <1>4 DEF O!Return, Return
<1>6. (O!Finished(TRUE) <=> Finished(TRUE)) /\ (O!Finished(FALSE) <=> Finished(FALSE))
  BY <1>5 DEF O!Finished, Finished
<1>7. ASSUME NEW refused \in BOOLEAN, NEW skipped \in BOOLEAN
      PROVE  O!Proceed(refused, skipped) <=> Proceed(refused, skipped)
  BY <1>1, <1>6 DEF O!Proceed, Proceed
<1>8. O!Write <=> Write
  BY <1>2 DEF O!Write, Write
<1>9. O!Kill <=> Kill
  BY DEF O!Kill, Kill
<1>10. O!Launch <=> Launch
  BY DEF O!Launch, Launch, O!Unborn, Unborn
<1>11. O!NoReply <=> NoReply
  BY DEF O!NoReply, NoReply
<1>12. ASSUME NEW s \in Stream
       PROVE  (O!Accept(s) <=> Accept(s)) /\ (O!FinishStream(s) <=> FinishStream(s)) /\ (O!DropStream(s) <=> DropStream(s))
  BY DEF O!Accept, Accept, O!FinishStream, FinishStream, O!DropStream, DropStream,
         O!Used, Used, O!Enter, Enter
<1>13. O!Receive({}) <=> Receive({})
  <2>1. \A asked, ok : (O!Return(ok) <=> Return(ok))
    BY <1>4 DEF O!Return, Return
  <2> QED
    BY <1>1, <1>3, <2>1 DEF O!Receive, Receive
<1>14. ASSUME NEW p \in Proc
       PROVE  (O!Opened(p) <=> Opened(p)) /\ (O!Eof(p) <=> Eof(p)) /\ (O!Crash(p) <=> Crash(p)) /\ (O!Die(p) <=> Die(p)) /\ (O!ServeOne(p, TRUE) <=> ServeOne(p, TRUE))
  <2> USE DEF O!Exit, Exit, O!Say, Say, O!Alive, Alive, O!Deaf, Deaf
  <2>1. O!Opened(p) <=> Opened(p)
    BY DEF O!Opened, Opened
  <2>2. (O!Eof(p) <=> Eof(p)) /\ (O!Crash(p) <=> Crash(p)) /\ (O!Die(p) <=> Die(p))
    BY DEF O!Eof, Eof, O!Crash, Crash, O!Die, Die
  <2>3. O!ServeOne(p, TRUE) <=> ServeOne(p, TRUE)
    BY DEF O!ServeOne, ServeOne, O!Outcomes, Outcomes
  <2> QED
    BY <2>1, <2>2, <2>3
<1>15. (\A l : O!Goto(l) <=> Goto(l)) /\ \A n, l : O!Again(n, l) <=> Again(n, l)
  BY DEF O!Goto, Goto, O!Again, Again
<1>16. O!Handshake <=> Handshake
  BY <1>3, <1>5 DEF O!Handshake, Handshake
<1>17. O!DropBackend <=> DropBackend
  BY <1>4 DEF O!DropBackend, DropBackend, O!Shutdown, Shutdown
<1>18. O!Linger <=> Linger
  BY <1>9 DEF O!Linger, Linger
<1> QED
  BY <1>1, <1>2, <1>5, <1>6, <1>7, <1>8, <1>9, <1>10, <1>11, <1>12, <1>13, <1>14, <1>15, <1>16, <1>17, <1>18

\* What the whisper.cpp engine takes from WorkerLink is what is written there.
LEMMA WhisperShares ==
  /\ W!Wanted = Wanted
  /\ W!Request = Request
  /\ W!Write <=> Write
  /\ W!Launch <=> Launch
  /\ W!NoReply <=> NoReply
  /\ W!Receive({"ready", "ack", "result"}) <=> Receive({"ready", "ack", "result"})
  /\ W!Handshake <=> Handshake
  /\ W!DropBackend <=> DropBackend
  /\ W!Linger <=> Linger
  /\ W!Kill <=> Kill
  /\ (W!Return(TRUE) <=> Return(TRUE)) /\ (W!Return(FALSE) <=> Return(FALSE))
  /\ (W!Finished(TRUE) <=> Finished(TRUE)) /\ (W!Finished(FALSE) <=> Finished(FALSE))
  /\ \A refused, skipped \in BOOLEAN : W!Proceed(refused, skipped) <=> Proceed(refused, skipped)
  /\ \A l : W!Goto(l) <=> Goto(l)
  /\ \A n, l : W!Again(n, l) <=> Again(n, l)
  /\ \A s \in Stream : (W!Accept(s) <=> Accept(s)) /\ (W!FinishStream(s) <=> FinishStream(s)) /\ (W!DropStream(s) <=> DropStream(s))
  /\ \A p \in Proc : (W!Opened(p) <=> Opened(p)) /\ (W!Eof(p) <=> Eof(p)) /\ (W!Crash(p) <=> Crash(p))
  /\ \A p \in Proc : (W!Die(p) <=> Die(p)) /\ (W!ServeOne(p, FALSE) <=> ServeOne(p, FALSE))
<1> USE DEF W!callerVars, W!clientVars, W!workerVars, callerVars, clientVars, workerVars,
            W!None, None, W!Proc, Proc, W!Stream, Stream
<1>1. W!Wanted = Wanted
  BY DEF W!Wanted, Wanted
<1>2. W!Request = Request
  BY <1>1 DEF W!Request, Request
<1>3. W!Reply = Reply
  BY DEF W!Reply, Reply
<1>4. W!NoCall = NoCall
  BY DEF W!NoCall, NoCall
<1>5. (W!Return(TRUE) <=> Return(TRUE)) /\ (W!Return(FALSE) <=> Return(FALSE))
  BY <1>4 DEF W!Return, Return
<1>6. (W!Finished(TRUE) <=> Finished(TRUE)) /\ (W!Finished(FALSE) <=> Finished(FALSE))
  BY <1>5 DEF W!Finished, Finished
<1>7. ASSUME NEW refused \in BOOLEAN, NEW skipped \in BOOLEAN
      PROVE  W!Proceed(refused, skipped) <=> Proceed(refused, skipped)
  BY <1>1, <1>6 DEF W!Proceed, Proceed
<1>8. W!Write <=> Write
  BY <1>2 DEF W!Write, Write
<1>9. W!Kill <=> Kill
  BY DEF W!Kill, Kill
<1>10. W!Launch <=> Launch
  BY DEF W!Launch, Launch, W!Unborn, Unborn
<1>11. W!NoReply <=> NoReply
  BY DEF W!NoReply, NoReply
<1>12. ASSUME NEW s \in Stream
       PROVE  (W!Accept(s) <=> Accept(s)) /\ (W!FinishStream(s) <=> FinishStream(s)) /\ (W!DropStream(s) <=> DropStream(s))
  BY DEF W!Accept, Accept, W!FinishStream, FinishStream, W!DropStream, DropStream,
         W!Used, Used, W!Enter, Enter
<1>13. W!Receive({"ready", "ack", "result"}) <=> Receive({"ready", "ack", "result"})
  <2>1. \A asked, ok : (W!Return(ok) <=> Return(ok))
    BY <1>4 DEF W!Return, Return
  <2> QED
    BY <1>1, <1>3, <2>1 DEF W!Receive, Receive
<1>14. ASSUME NEW p \in Proc
       PROVE  (W!Opened(p) <=> Opened(p)) /\ (W!Eof(p) <=> Eof(p)) /\ (W!Crash(p) <=> Crash(p)) /\ (W!Die(p) <=> Die(p)) /\ (W!ServeOne(p, FALSE) <=> ServeOne(p, FALSE))
  <2> USE DEF W!Exit, Exit, W!Say, Say, W!Alive, Alive, W!Deaf, Deaf
  <2>1. W!Opened(p) <=> Opened(p)
    BY DEF W!Opened, Opened
  <2>2. (W!Eof(p) <=> Eof(p)) /\ (W!Crash(p) <=> Crash(p)) /\ (W!Die(p) <=> Die(p))
    BY DEF W!Eof, Eof, W!Crash, Crash, W!Die, Die
  <2>3. W!ServeOne(p, FALSE) <=> ServeOne(p, FALSE)
    BY DEF W!ServeOne, ServeOne, W!Outcomes, Outcomes
  <2> QED
    BY <2>1, <2>2, <2>3
<1>15. (\A l : W!Goto(l) <=> Goto(l)) /\ \A n, l : W!Again(n, l) <=> Again(n, l)
  BY DEF W!Goto, Goto, W!Again, Again
<1>16. W!Handshake <=> Handshake
  BY <1>3, <1>5 DEF W!Handshake, Handshake
<1>17. W!DropBackend <=> DropBackend
  BY <1>4 DEF W!DropBackend, DropBackend, W!Shutdown, Shutdown
<1>18. W!Linger <=> Linger
  BY <1>9 DEF W!Linger, Linger
<1> QED
  BY <1>1, <1>2, <1>5, <1>6, <1>7, <1>8, <1>9, <1>10, <1>11, <1>12, <1>13, <1>14, <1>15, <1>16, <1>17, <1>18

\* What the trained-word engine takes from WorkerLink is what is written there.
LEMMA TrainedShares ==
  /\ T!Wanted = Wanted
  /\ T!Request = Request
  /\ T!Write <=> Write
  /\ T!Launch <=> Launch
  /\ T!NoReply <=> NoReply
  /\ T!Receive({"ready", "ack", "result", "error"}) <=> Receive({"ready", "ack", "result", "error"})
  /\ T!Reply = Reply
  /\ T!Kill <=> Kill
  /\ (T!Return(TRUE) <=> Return(TRUE)) /\ (T!Return(FALSE) <=> Return(FALSE))
  /\ (T!Finished(TRUE) <=> Finished(TRUE)) /\ (T!Finished(FALSE) <=> Finished(FALSE))
  /\ \A refused, skipped \in BOOLEAN : T!Proceed(refused, skipped) <=> Proceed(refused, skipped)
  /\ \A l : T!Goto(l) <=> Goto(l)
  /\ \A n, l : T!Again(n, l) <=> Again(n, l)
  /\ \A s \in Stream : (T!Accept(s) <=> Accept(s)) /\ (T!FinishStream(s) <=> FinishStream(s)) /\ (T!DropStream(s) <=> DropStream(s))
  /\ \A p \in Proc : (T!Opened(p) <=> Opened(p)) /\ (T!Eof(p) <=> Eof(p)) /\ (T!Crash(p) <=> Crash(p))
  /\ \A p \in Proc : (T!Die(p) <=> Die(p))
<1> USE DEF T!callerVars, T!clientVars, T!workerVars, callerVars, clientVars, workerVars,
            T!None, None, T!Proc, Proc, T!Stream, Stream
<1>1. T!Wanted = Wanted
  BY DEF T!Wanted, Wanted
<1>2. T!Request = Request
  BY <1>1 DEF T!Request, Request
<1>3. T!Reply = Reply
  BY DEF T!Reply, Reply
<1>4. T!NoCall = NoCall
  BY DEF T!NoCall, NoCall
<1>5. (T!Return(TRUE) <=> Return(TRUE)) /\ (T!Return(FALSE) <=> Return(FALSE))
  BY <1>4 DEF T!Return, Return
<1>6. (T!Finished(TRUE) <=> Finished(TRUE)) /\ (T!Finished(FALSE) <=> Finished(FALSE))
  BY <1>5 DEF T!Finished, Finished
<1>7. ASSUME NEW refused \in BOOLEAN, NEW skipped \in BOOLEAN
      PROVE  T!Proceed(refused, skipped) <=> Proceed(refused, skipped)
  BY <1>1, <1>6 DEF T!Proceed, Proceed
<1>8. T!Write <=> Write
  BY <1>2 DEF T!Write, Write
<1>9. T!Kill <=> Kill
  BY DEF T!Kill, Kill
<1>10. T!Launch <=> Launch
  BY DEF T!Launch, Launch, T!Unborn, Unborn
<1>11. T!NoReply <=> NoReply
  BY DEF T!NoReply, NoReply
<1>12. ASSUME NEW s \in Stream
       PROVE  (T!Accept(s) <=> Accept(s)) /\ (T!FinishStream(s) <=> FinishStream(s)) /\ (T!DropStream(s) <=> DropStream(s))
  BY DEF T!Accept, Accept, T!FinishStream, FinishStream, T!DropStream, DropStream,
         T!Used, Used, T!Enter, Enter
<1>13. T!Receive({"ready", "ack", "result", "error"}) <=> Receive({"ready", "ack", "result", "error"})
  <2>1. \A asked, ok : (T!Return(ok) <=> Return(ok))
    BY <1>4 DEF T!Return, Return
  <2> QED
    BY <1>1, <1>3, <2>1 DEF T!Receive, Receive
<1>14. ASSUME NEW p \in Proc
       PROVE  (T!Opened(p) <=> Opened(p)) /\ (T!Eof(p) <=> Eof(p)) /\ (T!Crash(p) <=> Crash(p)) /\ (T!Die(p) <=> Die(p))
  <2> USE DEF T!Exit, Exit, T!Say, Say, T!Alive, Alive, T!Deaf, Deaf
  <2>1. T!Opened(p) <=> Opened(p)
    BY DEF T!Opened, Opened
  <2>2. (T!Eof(p) <=> Eof(p)) /\ (T!Crash(p) <=> Crash(p)) /\ (T!Die(p) <=> Die(p))
    BY DEF T!Eof, Eof, T!Crash, Crash, T!Die, Die
  <2> QED
    BY <2>1, <2>2
<1>15. (\A l : T!Goto(l) <=> Goto(l)) /\ \A n, l : T!Again(n, l) <=> Again(n, l)
  BY DEF T!Goto, Goto, T!Again, Again
<1> QED
  BY <1>1, <1>2, <1>5, <1>6, <1>7, <1>8, <1>9, <1>10, <1>11, <1>12, <1>13, <1>14, <1>15, <1>3

\* A step that changes neither the call's subject nor the caller's view keeps the count of the
\* frames.
LEMMA ExactKept ==
  ASSUME Exact, UNCHANGED callerVars, call'.s = call.s, call'.left = call.left
  PROVE  Exact'
<1>1. \A s \in Stream : Rest(s)' = Rest(s)
  BY DEF Rest
<1> QED
  BY <1>1 DEF Exact, callerVars

\* What a process does leaves the client alone.
LEMMA ProcessFrame ==
  ASSUME LinkInv, UNCHANGED <<engine, callerVars, call, pc, active, current, open>>
  PROVE  /\ CallerTypes' /\ CallShape' /\ Exact' /\ ActiveIsUsed' /\ ActiveHeld'
         /\ Wanted' = Wanted /\ Request' = Request
<1>1. Wanted' = Wanted
  BY DEF Wanted, callerVars
<1>2. Request' = Request
  BY <1>1 DEF Request, callerVars
<1>3. Exact'
  BY ExactKept DEF LinkInv
<1>4. CallerTypes' /\ CallShape' /\ ActiveIsUsed' /\ ActiveHeld'
  BY <1>1 DEF LinkInv, CallerTypes, CallShape, ActiveIsUsed, ActiveHeld, callerVars
<1> QED
  BY <1>1, <1>2, <1>3, <1>4

\* A process ends: one the client can still write to only by a fault.
LEMMA ExitKeeps ==
  ASSUME LinkInv, NEW p \in Proc, Alive(p), Exit(p),
         UNCHANGED <<engine, callerVars, call, pc, active, current, open, outbox>>,
         fault' \in BOOLEAN, fault => fault', open /\ current = p /\ pc \notin {"idle", "stop"} => fault'
  PROVE  LinkInv'
<1> USE DEF Exit, callerVars
<1>1. /\ CallerTypes' /\ CallShape' /\ Exact' /\ ActiveIsUsed' /\ ActiveHeld'
      /\ Wanted' = Wanted /\ Request' = Request
  BY ProcessFrame
<1>2. LinkTypes'
  BY DEF LinkInv, LinkTypes
<1>3. \A q \in Proc : /\ proc'[q] = IF q = p THEN "gone" ELSE proc[q]
                      /\ serving'[q] = IF q = p THEN None ELSE serving[q]
                      /\ fed'[q] = IF q = p THEN <<>> ELSE fed[q]
                      /\ inbox'[q] = IF q = p THEN <<>> ELSE inbox[q]
  BY DEF LinkInv, LinkTypes
<1>4. Held'
  BY <1>3, Numbers DEF LinkInv, Held, LinkTypes, Alive
<1>5. Reply' = Reply
  BY DEF Reply
<1>6. Pipes'
  BY <1>1, <1>3, <1>5 DEF LinkInv, Held, Pipes, LinkTypes, Alive, Answers
<1>7. Recording'
  BY <1>1, <1>3, <1>5, Numbers DEF LinkInv, Held, Recording
<1>8. OneActive'
  BY <1>1, <1>3, <1>5 DEF LinkInv, Held, OneActive
<1>9. Retries'
  BY <1>1, <1>3 DEF LinkInv, Held, Retries, Starting
<1> QED
  BY <1>1, <1>2, <1>4, <1>6, <1>7, <1>8, <1>9 DEF LinkInv

\* A worker that has come up, or has not.
LEMMA OpenedKeeps ==
  ASSUME LinkInv, UNCHANGED engine, NEW p \in Proc, Opened(p)
  PROVE  LinkInv'
<1>1. PICK ok \in BOOLEAN :
        /\ IF ok /\ current = p
           THEN proc' = [proc EXCEPT ![p] = "ready"] /\ UNCHANGED <<killed, serving, fed, inbox>>
           ELSE Exit(p)
        /\ Say(p, [kind |-> IF ok THEN "ready" ELSE "error", s |-> None, fed |-> <<>>])
        /\ fault' = (fault \/ (~ok /\ current = p))
  BY DEF Opened
<1>2. /\ proc[p] = "opening" /\ p \notin killed
      /\ UNCHANGED <<callerVars, call, pc, active, current, open>>
  BY DEF Opened
<1>3. CASE current # p
  <2>1. Exit(p) /\ outbox' = outbox /\ fault' = fault
    BY <1>1, <1>3 DEF Say, LinkInv, LinkTypes
  <2> QED
    BY <1>2, <1>3, <2>1, ExitKeeps DEF Alive, LinkInv, LinkTypes
<1>4. CASE current = p
  <2>1. /\ CallerTypes' /\ CallShape' /\ Exact' /\ ActiveIsUsed' /\ ActiveHeld'
        /\ Wanted' = Wanted /\ Request' = Request
    BY <1>2, ProcessFrame
  <2> DEFINE reply == [kind |-> IF ok THEN "ready" ELSE "error", s |-> None, fed |-> <<>>]
  <2>2. reply \in Replies /\ reply.kind = IF ok THEN "ready" ELSE "error"
    BY Numbers DEF Replies
  <2> HIDE DEF reply
  <2>3. outbox' = [outbox EXCEPT ![p] = Append(@, reply)]
    BY <1>1, <1>4 DEF Say, reply
  <2>4. LinkTypes'
    <3>1. outbox' \in [Proc -> Seq(Replies)]
      BY <2>2, <2>3 DEF LinkInv, LinkTypes
    <3>2. /\ proc' \in [Proc -> {"unborn", "opening", "ready", "gone"}] /\ killed' \subseteq Proc
          /\ serving' \in [Proc -> Stream \cup {None}] /\ fed' \in [Proc -> Seq(Int)]
          /\ inbox' \in [Proc -> Seq(Requests)]
      <4>1. CASE ok
        BY <1>1, <1>4, <4>1 DEF LinkInv, LinkTypes
      <4>2. CASE ~ok
        <5>1. Exit(p)
          BY <1>1, <4>2
        <5> QED
          BY <5>1 DEF LinkInv, LinkTypes, Exit
      <4> QED
        BY <4>1, <4>2
    <3>3. fault' \in BOOLEAN
      BY <1>1
    <3> QED
      BY <1>2, <3>1, <3>2, <3>3 DEF LinkInv, LinkTypes
  <2>5. /\ proc'[p] = (IF ok THEN "ready" ELSE "gone")
        /\ \A q \in Proc \ {p} : proc'[q] = proc[q] /\ serving'[q] = serving[q] /\ fed'[q] = fed[q] /\ inbox'[q] = inbox[q]
        /\ serving[p] = None => serving'[p] = None
        /\ inbox[p] = <<>> => inbox'[p] = <<>>
        /\ ~ok => fault'
        /\ fault => fault'
        /\ killed' \subseteq killed /\ p \notin killed'
    BY <1>1, <1>2, <1>4 DEF LinkInv, LinkTypes, Exit
  <2>6. Held'
    BY <1>2, <1>4, <2>5, Numbers DEF LinkInv, Held, LinkTypes
  <2>7. open => pc \in {"handshake", "stop"}
    BY <1>2, <1>4 DEF LinkInv, Held
  <2>8. open /\ pc = "handshake" => inbox[p] = <<>> /\ serving[p] = None /\ outbox[p] = <<>>
    BY <1>2, <1>4 DEF LinkInv, Pipes
  <2>9. outbox[p] = <<>> => outbox'[p] = <<reply>>
    BY <2>3 DEF LinkInv, LinkTypes
  <2>10. Pipes'
    <3>1. ASSUME open, pc = "handshake"
          PROVE  /\ Len(outbox'[p]) = 1 /\ Head(outbox'[p]) = reply
                 /\ inbox'[p] = <<>> /\ serving'[p] = None /\ proc'[p] # "opening"
      <4>1. inbox'[p] = <<>> /\ serving'[p] = None /\ outbox'[p] = <<reply>>
        BY <2>5, <2>8, <2>9, <3>1
      <4>2. proc'[p] # "opening"
        BY <2>5
      <4> QED
        BY <4>1, <4>2
    <3> QED
      BY <1>2, <1>4, <2>2, <2>5, <2>7, <3>1 DEF Pipes, Reply
  <2>11. Recording'
    BY <1>2, <1>4, <2>5, <2>7, <2>8, Numbers DEF Recording
  <2>12. OneActive'
    BY <1>2, <1>4, <2>1, <2>5, <2>7, <2>8 DEF LinkInv, Held, OneActive, callerVars
  <2>13. Retries'
    BY <1>2, <1>4, <2>5, <2>7 DEF LinkInv, Held, Retries, Starting, callerVars
  <2> QED
    BY <2>1, <2>4, <2>6, <2>10, <2>11, <2>12, <2>13 DEF LinkInv
<1> QED
  BY <1>3, <1>4

\* A worker that ends: at the end of its input, in a crash or killed.
LEMMA EndsKeep ==
  ASSUME LinkInv, UNCHANGED engine, NEW p \in Proc, Eof(p) \/ Crash(p) \/ Die(p)
  PROVE  LinkInv'
<1>1. Alive(p) /\ Exit(p) /\ UNCHANGED <<callerVars, call, pc, active, current, open, outbox>>
  BY DEF Eof, Crash, Die, Alive, clientVars
<1>2. fault' \in BOOLEAN /\ (fault => fault') /\ (open /\ current = p /\ pc \notin {"idle", "stop"} => fault')
  BY DEF Eof, Crash, Die, Deaf, clientVars, LinkInv, LinkTypes, Held
<1> QED
  BY <1>1, <1>2, ExitKeeps

\* What a process makes of a request: the stream it serves after it, that
\* stream's recording, the answer.
Outcome(p, r, sv, fd, k) ==
  /\ sv \in Stream \cup {None} /\ fd \in Seq(Int) /\ k \in {"ack", "result", "error"}
  /\ sv \in {r.s, None} \/ (sv = serving[p] /\ fd = fed[p])
  /\ r.kind = "start" => \/ k = "ack" /\ sv = r.s /\ fd = <<>>
                         \/ k = "error" /\ fault' /\ sv = serving[p] /\ fd = fed[p]
  /\ r.kind = "audio" /\ k = "result" => fd = Append(fed[p], r.frame)
  /\ r.kind = "finish" /\ k = "result" => sv = None /\ fd = fed[p]
  /\ r.kind \in {"audio", "finish"} /\ k = "result" /\ engine # "trained" => serving[p] = r.s
  /\ r.kind = "audio" /\ engine = "trained" => sv = r.s

\* A request is answered.
LEMMA AnswerKeeps ==
  ASSUME LinkInv, NEW p \in Proc, proc[p] = "ready", inbox[p] # <<>>,
         NEW sv, NEW fd, NEW k, Outcome(p, Head(inbox[p]), sv, fd, k),
         serving' = [serving EXCEPT ![p] = sv], fed' = [fed EXCEPT ![p] = fd],
         inbox' = [inbox EXCEPT ![p] = Tail(@)],
         Say(p, [kind |-> k, s |-> Head(inbox[p]).s, fed |-> fd]),
         UNCHANGED <<engine, callerVars, call, pc, active, current, open, proc, killed>>,
         fault' \in BOOLEAN, fault => fault'
  PROVE  LinkInv'
<1> DEFINE r == Head(inbox[p])
           reply == [kind |-> k, s |-> r.s, fed |-> fd]
<1>1. /\ CallerTypes' /\ CallShape' /\ Exact' /\ ActiveIsUsed' /\ ActiveHeld'
      /\ Wanted' = Wanted /\ Request' = Request
  BY ProcessFrame
<1>2. r \in Requests /\ r.s \in Stream \cup {None} /\ r.frame \in Int
  <2>1. r \in Requests
    BY DEF LinkInv, LinkTypes
  <2> QED
    BY <2>1 DEF Requests
<1>3. reply \in Replies /\ reply.kind = k /\ reply.s = r.s /\ reply.fed = fd
  BY <1>2 DEF Outcome, Replies
<1>4. outbox' = IF current = p THEN [outbox EXCEPT ![p] = Append(@, reply)] ELSE outbox
  BY DEF Say
<1> HIDE DEF reply
<1>5. LinkTypes'
  <2>1. outbox' \in [Proc -> Seq(Replies)]
    BY <1>3, <1>4 DEF LinkInv, LinkTypes
  <2>2. serving' \in [Proc -> Stream \cup {None}] /\ fed' \in [Proc -> Seq(Int)]
    BY DEF LinkInv, LinkTypes, Outcome
  <2>3. inbox' \in [Proc -> Seq(Requests)]
    BY DEF LinkInv, LinkTypes
  <2> QED
    BY <2>1, <2>2, <2>3 DEF LinkInv, LinkTypes
<1>6. Held'
  BY DEF LinkInv, Held, LinkTypes
<1>7. Retries'
  BY DEF LinkInv, Retries, Starting, callerVars
<1>8. CASE ~open \/ pc = "stop"
  <2>1. open' = open /\ pc' = pc /\ (pc = "await" => open)
    BY DEF LinkInv, Held
  <2>2. Pipes' /\ Recording' 
    BY <1>8, <2>1 DEF Pipes, Recording
  <2>3. OneActive'
    BY <1>1, <1>8, <2>1 DEF OneActive, LinkInv, callerVars
  <2> QED
    BY <1>1, <1>5, <1>6, <1>7, <2>2, <2>3 DEF LinkInv
<1>9. CASE open /\ pc # "stop" /\ current # p
  <2>1. current \in Proc
    BY <1>9 DEF LinkInv, Held
  <2>2. /\ serving'[current] = serving[current] /\ fed'[current] = fed[current]
        /\ inbox'[current] = inbox[current] /\ outbox'[current] = outbox[current] /\ Reply' = Reply
        /\ current' = current
    BY <1>4, <1>9, <2>1 DEF LinkInv, LinkTypes, Reply
  <2>3. Pipes'
    BY <1>1, <2>2 DEF LinkInv, Pipes, Answers, callerVars
  <2>4. Recording'
    BY <1>1, <2>2 DEF LinkInv, Recording, callerVars
  <2>5. OneActive'
    BY <1>1, <2>2 DEF OneActive, LinkInv, callerVars
  <2> QED
    BY <1>1, <1>5, <1>6, <1>7, <2>3, <2>4, <2>5 DEF LinkInv
<1>10. CASE open /\ pc # "stop" /\ current = p
  <2>1. pc = "await" /\ inbox[p] = <<Request>> /\ outbox[p] = <<>>
    BY <1>10 DEF LinkInv, Held, Pipes
  <2>2. r = Request /\ r.kind = Wanted /\ r.s = call.s /\ r.frame = given[call.s] - call.left + 1
    BY <2>1 DEF Request
  <2>3. /\ inbox'[p] = <<>> /\ outbox'[p] = <<reply>> /\ serving'[p] = sv /\ fed'[p] = fd
        /\ current' = p /\ pc' = "await" /\ Reply' = reply /\ Len(outbox'[p]) = 1
    BY <1>4, <1>10, <2>1 DEF LinkInv, LinkTypes, Reply
  <2> HIDE DEF r
  <2>4. /\ Wanted \in {"start", "audio", "finish", "cancel"}
        /\ call.s \in Stream /\ call.left \in Nat
        /\ Wanted \in {"audio", "finish"} => call.s \in started /\ stream[call.s] = "open"
        /\ Wanted = "start" => call.s \notin started /\ stream[call.s] = "open"
        /\ Wanted = "finish" => call.left = 0
        /\ Wanted = "cancel" => stream[call.s] = "closed" /\ call.op = "cancel"
    BY <2>1, WantedFacts, Numbers DEF LinkInv, LinkTypes, CallShape, Calling, Kinds
  <2>5. stream[call.s] = "open" => /\ judged[call.s] = UpTo(given[call.s] - call.left) 
                                   /\ given[call.s] - call.left \in Nat
                                   /\ call.s \notin started => judged[call.s] = <<>>
    <3> SUFFICES ASSUME stream[call.s] = "open"
                 PROVE  /\ judged[call.s] = UpTo(given[call.s] - call.left)
                        /\ given[call.s] - call.left \in Nat
                        /\ call.s \notin started => judged[call.s] = <<>>
      OBVIOUS
    <3>1. Rest(call.s) = call.left /\ given[call.s] \in Nat
      BY <2>4 DEF Rest, LinkInv, CallerTypes
    <3>2. /\ call.left =< given[call.s] /\ judged[call.s] = UpTo(given[call.s] - call.left)
          /\ call.s \notin started => call.left = given[call.s]
      BY <2>4, <3>1 DEF LinkInv, Exact
    <3>3. call.s \notin started => given[call.s] - call.left = 0
      BY <2>4, <3>1, <3>2
    <3>4. given[call.s] - call.left \in Nat
      BY <2>4, <3>1, <3>2
    <3>5. call.s \notin started => judged[call.s] = <<>>
      BY <3>2, <3>3, UpToFacts
    <3> QED
      BY <3>2, <3>4, <3>5
  <2>6. Wanted \in {"audio", "finish"} /\ k = "result" => fed[p] = judged[call.s]
    <3>1. Wanted \in {"audio", "finish"} /\ k = "result" => serving[p] = call.s
      BY <1>10, <2>1, <2>2, <2>4 DEF Outcome, LinkInv, OneActive, r
    <3> QED
      BY <1>10, <2>1, <2>4, <3>1 DEF LinkInv, Recording
  <2>7. Answers(Reply)'
    <3>1. reply.s = call.s /\ reply.kind # "ready" /\ (Wanted = "start" => reply.kind = "ack" \/ (reply.kind = "error" /\ fault'))
      BY <1>3, <2>2 DEF Outcome, r
    <3>2. Wanted = "audio" /\ k = "result" => fd = UpTo(given[call.s] - call.left + 1)
      BY <2>2, <2>4, <2>5, <2>6, UpToFacts DEF Outcome, r
    <3>3. Wanted = "finish" /\ k = "result" => fd = UpTo(given[call.s])
      <4>1. Wanted = "finish" => given[call.s] - call.left = given[call.s]
        BY <2>4 DEF LinkInv, CallerTypes
      <4> QED
        BY <2>2, <2>4, <2>5, <2>6, <4>1 DEF Outcome, r
    <3>4. given' = given /\ call' = call
      BY DEF callerVars
    <3> QED
      BY <1>1, <1>3, <2>3, <3>1, <3>2, <3>3, <3>4 DEF Answers
  <2>8. Pipes'
    <3>1. pc' = "await" /\ inbox'[current'] = <<>> /\ Len(outbox'[current']) = 1
      BY <1>10, <2>3
    <3> QED
      BY <2>7, <3>1 DEF Pipes
  <2>9. Recording'
    <3> SUFFICES ASSUME NEW t \in Stream, stream[t] \in {"new", "open"}, sv = t
                 PROVE  IF call.s = t /\ Wanted # "start" THEN reply.kind = "result" => fd = reply.fed
                        ELSE fd = judged[t]
      BY <1>1, <1>10, <2>3 DEF Recording, callerVars
    <3>1. CASE call.s = t
      BY <1>3, <2>1, <2>2, <2>4, <2>5, <3>1, <1>10 DEF Outcome, LinkInv, Recording, r
    <3>2. CASE call.s # t
      BY <1>10, <2>1, <2>2, <3>2, Numbers DEF Outcome, LinkInv, Recording, r
    <3> QED
      BY <3>1, <3>2
  <2>10. OneActive'
    <3> SUFFICES ASSUME engine = "trained"
                 PROVE  /\ Wanted = "start" /\ k = "ack" => sv = call.s
                        /\ \A s \in started : stream[s] = "open" => sv = s \/ proc[p] = "gone" \/ (call.s = s /\ Wanted = "finish")
      BY <1>1, <1>3, <1>10, <2>1, <2>3 DEF OneActive, LinkInv, callerVars
    <3>1. Wanted = "start" /\ k = "ack" => sv = call.s
      BY <2>2 DEF Outcome, r
    <3>2. ASSUME NEW s \in started, stream[s] = "open"
          PROVE  sv = s \/ (call.s = s /\ Wanted = "finish")
      <4>1. active = s
        BY <3>2 DEF LinkInv, OneActive
      <4>2. Wanted # "start" /\ call.s = s
        BY <2>1, <2>4, <3>2, <4>1, Numbers DEF LinkInv, OneActive, CallerTypes
      <4> QED
        BY <2>2, <2>4, <4>2, <3>2 DEF Outcome, r
    <3> QED
      BY <3>1, <3>2
  <2> QED
    BY <1>1, <1>5, <1>6, <1>7, <2>8, <2>9, <2>10 DEF LinkInv
<1> QED
  BY <1>8, <1>9, <1>10

\* A worker that serves the next request.
LEMMA ServeOneKeeps ==
  ASSUME LinkInv, UNCHANGED engine, engine # "trained",
         NEW p \in Proc, NEW restarts \in BOOLEAN, ServeOne(p, restarts)
  PROVE  LinkInv'
<1> DEFINE r == Head(inbox[p])
<1>1. /\ proc[p] = "ready" /\ inbox[p] # <<>>
      /\ UNCHANGED <<callerVars, call, pc, active, current, open>>
  BY DEF ServeOne
<1>2. CASE r.kind = "shutdown" \/ current # p
  <2>1. Exit(p) /\ outbox' = outbox /\ fault' = fault
    BY <1>2 DEF ServeOne
  <2>2. ASSUME open, current = p, pc # "stop" PROVE FALSE
    <3>1. inbox[p] = <<Request>>
      BY <1>1, <2>2 DEF LinkInv, Held, Pipes
    <3>2. r.kind = Wanted
      BY <3>1 DEF Request
    <3>3. Wanted # "shutdown"
      BY WantedFacts DEF LinkInv, LinkTypes, Kinds
    <3> QED
      BY <1>2, <2>2, <3>2, <3>3
  <2> QED
    BY <1>1, <2>1, <2>2, ExitKeeps DEF Alive, LinkInv, LinkTypes
<1>3. CASE ~(r.kind = "shutdown" \/ current # p)
  <2>1. PICK o \in Outcomes(p, r, restarts) :
            /\ serving' = [serving EXCEPT ![p] = o.serving]
            /\ fed' = [fed EXCEPT ![p] = o.fed]
            /\ inbox' = [inbox EXCEPT ![p] = Tail(@)]
            /\ Say(p, [kind |-> o.kind, s |-> r.s, fed |-> o.fed])
            /\ fault' = (fault \/ o.provider)
            /\ UNCHANGED <<proc, killed>>
    BY <1>3 DEF ServeOne
  <2>2. r \in Requests /\ r.s \in Stream \cup {None} /\ r.frame \in Int /\ serving[p] \in Stream \cup {None} /\ fed[p] \in Seq(Int)
    <3>1. r \in Requests
      BY <1>1 DEF LinkInv, LinkTypes
    <3> QED
      BY <3>1 DEF Requests, LinkInv, LinkTypes
  <2> HIDE DEF r
  <2>3. Outcome(p, r, o.serving, o.fed, o.kind)
    <3> DEFINE out(v, f, k) == [serving |-> v, fed |-> f, kind |-> k, provider |-> k = "error"]
    <3>1. CASE r.kind = "start"
      <4>1. o = out(r.s, <<>>, "ack") \/ o = out(serving[p], fed[p], "error")
        BY <2>1, <3>1 DEF Outcomes
      <4>2. \/ o.kind = "ack" /\ o.serving = r.s /\ o.fed = <<>>
            \/ o.kind = "error" /\ o.serving = serving[p] /\ o.fed = fed[p]
        BY <4>1
      <4>3. o.kind = "error" => fault'
        <5>1. o.kind = "error" => o.provider = ("error" = "error")
          BY <4>1
        <5> QED
          BY <2>1, <5>1
      <4>4. <<>> \in Seq(Int)
        OBVIOUS
      <4>5. CASE o.kind = "ack" /\ o.serving = r.s /\ o.fed = <<>>
        BY <2>2, <3>1, <4>4, <4>5 DEF Outcome
      <4>6. CASE o.kind = "error" /\ o.serving = serving[p] /\ o.fed = fed[p]
        BY <2>2, <3>1, <4>3, <4>6 DEF Outcome
      <4> QED
        BY <4>2, <4>5, <4>6
    <3>2. CASE r.kind = "audio" /\ serving[p] = r.s
      <4>1. o \in {out(r.s, Append(fed[p], r.frame), "result"), out(r.s, fed[p], "error"),
                   out(r.s, Append(fed[p], r.frame), "error")}
        BY <2>1, <3>2 DEF Outcomes
      <4>2. /\ o.serving = r.s
            /\ \/ o.kind = "result" /\ o.fed = Append(fed[p], r.frame)
               \/ o.kind = "error" /\ o.fed \in {fed[p], Append(fed[p], r.frame)}
        BY <4>1
      <4>3. Append(fed[p], r.frame) \in Seq(Int)
        BY <2>2
      <4> QED
        BY <2>2, <3>2, <4>2, <4>3 DEF Outcome
    <3>3. CASE r.kind = "finish" /\ serving[p] = r.s
      <4>1. o = out(None, fed[p], "result") \/ o = out(None, fed[p], "error")
        BY <2>1, <3>3 DEF Outcomes
      <4> QED
        BY <2>2, <3>3, <4>1 DEF Outcome
    <3>4. CASE r.kind = "cancel" /\ serving[p] = r.s
      <4>1. o = out(None, fed[p], "ack") \/ o = out(None, fed[p], "error")
        BY <2>1, <3>4 DEF Outcomes
      <4> QED
        BY <2>2, <3>4, <4>1 DEF Outcome
    <3>5. CASE r.kind # "start" /\ ~(r.kind \in {"audio", "finish", "cancel"} /\ serving[p] = r.s)
      <4>1. o = [out(serving[p], fed[p], "error") EXCEPT !.provider = FALSE]
        BY <2>1, <3>5 DEF Outcomes
      <4>2. o.kind = "error" /\ o.serving = serving[p] /\ o.fed = fed[p]
        BY <4>1
      <4> QED
        BY <2>2, <3>5, <4>2 DEF Outcome
    <3> QED
      BY <3>1, <3>2, <3>3, <3>4, <3>5
  <2> QED
    BY <1>1, <2>1, <2>3, AnswerKeeps DEF r
<1> QED
  BY <1>2, <1>3

\* The encoder of the trained words: an error ends it.
LEMMA TurnKeeps ==
  ASSUME LinkInv, UNCHANGED engine, engine = "trained", NEW p \in Proc, T!Turn(p)
  PROVE  LinkInv'
<1> DEFINE r == Head(inbox[p])
           noted == CASE r.kind = "start" -> <<>>
                      [] r.kind = "audio" -> Append(fed[p], r.frame)
                      [] OTHER            -> fed[p]
           kind == IF r.kind = "start" THEN "ack" ELSE "result"
           sv == IF r.kind = "finish" THEN None ELSE r.s
<1>1. /\ proc[p] = "ready" /\ inbox[p] # <<>>
      /\ UNCHANGED <<callerVars, call, pc, active, current, open>>
  BY DEF T!Turn, T!callerVars, callerVars
<1>2. \/ /\ serving' = [serving EXCEPT ![p] = sv] /\ fed' = [fed EXCEPT ![p] = noted]
         /\ inbox' = [inbox EXCEPT ![p] = Tail(@)]
         /\ Say(p, [kind |-> kind, s |-> r.s, fed |-> noted])
         /\ UNCHANGED <<proc, killed, fault>>
      \/ /\ Exit(p) /\ fault' = TRUE
         /\ Say(p, [kind |-> "error", s |-> r.s, fed |-> <<>>])
  BY DEF T!Turn, T!Exit, Exit, T!Say, Say, T!None, None
<1>3. r \in Requests /\ r.s \in Stream \cup {None} /\ r.frame \in Int /\ fed[p] \in Seq(Int)
  <2>1. r \in Requests
    BY <1>1 DEF LinkInv, LinkTypes
  <2> QED
    BY <2>1 DEF Requests, LinkInv, LinkTypes
<1>4. CASE /\ serving' = [serving EXCEPT ![p] = sv] /\ fed' = [fed EXCEPT ![p] = noted]
           /\ inbox' = [inbox EXCEPT ![p] = Tail(@)]
           /\ Say(p, [kind |-> kind, s |-> r.s, fed |-> noted])
           /\ UNCHANGED <<proc, killed, fault>>
  <2>1. noted \in Seq(Int) /\ (r.kind = "start" => noted = <<>>) /\ (r.kind = "audio" => noted = Append(fed[p], r.frame)) /\ (r.kind = "finish" => noted = fed[p])
    BY <1>3
  <2>2. Outcome(p, r, sv, noted, kind)
    <3> HIDE DEF noted, r
    <3> QED
      BY <1>3, <2>1 DEF Outcome
  <2> HIDE DEF noted, kind, sv
  <2> QED
    BY <1>1, <1>4, <2>2, AnswerKeeps DEF LinkInv, LinkTypes
<1>5. CASE /\ Exit(p) /\ fault' = TRUE
           /\ Say(p, [kind |-> "error", s |-> r.s, fed |-> <<>>])
  <2> DEFINE reply == [kind |-> "error", s |-> r.s, fed |-> <<>>]
  <2>1. CASE current # p
    BY <1>1, <1>5, <2>1, ExitKeeps DEF Say, Alive, LinkInv, LinkTypes
  <2>2. CASE current = p
    <3>1. /\ CallerTypes' /\ CallShape' /\ Exact' /\ ActiveIsUsed' /\ ActiveHeld'
          /\ Wanted' = Wanted /\ Request' = Request
      BY <1>1, ProcessFrame
    <3>2. reply \in Replies /\ reply.kind = "error" /\ reply.s = r.s
      BY <1>3 DEF Replies
    <3>3. outbox' = [outbox EXCEPT ![p] = Append(@, reply)]
      BY <1>5, <2>2 DEF Say
    <3> HIDE DEF reply
    <3>4. LinkTypes'
      <4>1. outbox' \in [Proc -> Seq(Replies)]
        BY <3>2, <3>3 DEF LinkInv, LinkTypes
      <4>2. Exit(p) /\ fault' \in BOOLEAN
        BY <1>5
      <4> QED
        BY <1>1, <4>1, <4>2 DEF LinkInv, LinkTypes, Exit
    <3>5. /\ proc'[p] = "gone" /\ serving'[p] = None /\ inbox'[p] = <<>> /\ p \notin killed' /\ killed' \subseteq killed
          /\ \A q \in Proc \ {p} : proc'[q] = proc[q] /\ serving'[q] = serving[q] /\ inbox'[q] = inbox[q]
      BY <1>5 DEF Exit, LinkInv, LinkTypes
    <3>6. open /\ pc # "stop" =>
            /\ pc = "await" /\ inbox[p] = <<Request>> /\ outbox'[p] = <<reply>>
      <4>1. open /\ pc # "stop" => pc = "await" /\ inbox[p] = <<Request>> /\ outbox[p] = <<>>
        BY <1>1, <2>2 DEF LinkInv, Held, Pipes
      <4>2. outbox[p] = <<>> => outbox'[p] = <<reply>>
        BY <3>3 DEF LinkInv, LinkTypes
      <4> QED
        BY <4>1, <4>2
    <3>7. Held'
      BY <1>1, <2>2, <3>5, Numbers DEF LinkInv, Held
    <3>8. Pipes'
      <4> SUFFICES ASSUME open, pc # "stop"
                   PROVE  Len(outbox'[p]) = 1 /\ pc = "await" /\ inbox'[p] = <<>> /\ Answers(Reply)'
        BY <1>1, <2>2 DEF Pipes
      <4>1. r.s = call.s
        BY <3>6 DEF Request
      <4>2. Reply' = Head(outbox'[p])
        BY <1>1, <2>2 DEF Reply
      <4>3. Reply' = reply /\ Len(outbox'[p]) = 1
        BY <3>6, <4>2
      <4> QED
        BY <1>1, <1>5, <3>2, <3>5, <3>6, <4>1, <4>3 DEF Answers
    <3>9. Recording' /\ OneActive'
      BY <1>1, <2>2, <3>1, <3>5, <3>6, Numbers DEF Recording, OneActive, LinkInv, callerVars
    <3>10. Retries'
      BY <1>1, <1>5, <2>2, <3>5 DEF LinkInv, Retries, Starting, callerVars
    <3> QED
      BY <3>1, <3>4, <3>7, <3>8, <3>9, <3>10 DEF LinkInv
  <2> QED
    BY <2>1, <2>2
<1> QED
  BY <1>2, <1>4, <1>5

-----------------------------------------------------------------------------
(* The same for the steps of the client: a move within a call, the end of    *)
(* one, and the exchanges with the process.                                  *)

\* The thread gives its process up, or starts over: whatever was in the pipes
\* is no answer any more.
Moves(n, l) ==
  /\ pc \notin {"idle", "request", "ended"}
  /\ n \in 0 .. 2 /\ call' = [call EXCEPT !.tries = n]
  /\ l \in {"send", "launch", "stop", "linger", "reap", "reapAgain", "reaped", "failed"} /\ pc' = l
  /\ UNCHANGED <<engine, callerVars>>
  /\ open' \in BOOLEAN /\ fault' \in BOOLEAN
  /\ open' => open /\ l = "stop" /\ current' = current
  /\ \/ UNCHANGED workerVars
     \/ current \in Proc /\ Kill /\ UNCHANGED proc /\ ~open'
     \/ UNCHANGED <<proc, killed, serving, fed, inbox>> /\ outbox' \in [Proc -> Seq(Replies)]
  /\ current' = current \/ (current' = 0 /\ engine \in {"openvino-genai", "whispercpp"} /\ active' = None)
  /\ active' = active \/ (active' = None /\ engine # "trained")
  /\ engine = "audiocpp" /\ ~open' => active' = None
  /\ engine \in {"openvino-genai", "whispercpp"} /\ l \in {"launch", "failed"} => current' = 0
  /\ engine = "trained" => l \in {"stop", "reap", "failed"}
  /\ engine = "trained" /\ l = "failed" => call.op = "load" /\ started = {}
  /\ l \in {"stop", "linger", "reap", "reapAgain", "reaped"} => current' \in Proc
  /\ l = "launch" => call.op # "close"
  /\ l = "reapAgain" => Wanted = "start"
  /\ l = "send" => engine \in {"openvino-genai", "whispercpp"} /\ Wanted = "start"
  /\ Starting /\ engine # "trained" /\ n > 0 /\ l \notin {"send", "launch"} => fault'
  /\ Starting /\ engine = "audiocpp" /\ l = "failed" => fault'

\* A step within a call that sends nothing.
LEMMA MoveKeeps ==
  ASSUME LinkInv, NEW n, NEW l, Moves(n, l)
  PROVE  LinkInv'
<1> USE DEF Moves
<1> USE DEF callerVars
<1>1. /\ call' \in Calling /\ call \in Calling
      /\ call'.op = call.op /\ call'.s = call.s /\ call'.left = call.left /\ call'.tries = n
  BY DEF LinkInv, LinkTypes, Calling
<1>2. Wanted' = Wanted /\ (Starting' <=> Starting)
  BY <1>1 DEF Wanted, Starting
<1>3. LinkTypes'
  <2>1. CASE UNCHANGED workerVars
    BY <1>1, <2>1 DEF LinkInv, LinkTypes, Places, workerVars
  <2>2. CASE current \in Proc /\ Kill /\ UNCHANGED proc
    BY <1>1, <2>2 DEF LinkInv, LinkTypes, Places, Kill
  <2>3. CASE UNCHANGED <<proc, killed, serving, fed, inbox>> /\ outbox' \in [Proc -> Seq(Replies)]
    BY <1>1, <2>3 DEF LinkInv, LinkTypes, Places
  <2> QED
    BY <2>1, <2>2, <2>3
<1>4. CallerTypes' /\ Exact'
  BY <1>1, ExactKept DEF LinkInv, CallerTypes
<1>5. CallShape'
  <2>1. call.op # "none" /\ (call.op \in {"load", "close"} \/ Wanted # "none")
    BY DEF LinkInv, CallShape
  <2>2. l = "send" => call.op \in {"accept", "finish", "cancel"}
    BY <1>1, <2>1, WantedFacts DEF LinkInv, CallShape, Calling
  <2> QED
    BY <1>1, <1>2, <2>1, <2>2 DEF LinkInv, CallShape
<1>6. Held'
  <2>1. \A p \in Proc : proc'[p] = "unborn" => inbox'[p] = <<>> /\ serving'[p] = None /\ p \notin killed'
    <3>1. CASE UNCHANGED <<proc, killed, serving, inbox>>
      BY <3>1 DEF LinkInv, Held
    <3>2. CASE current \in Proc /\ Kill /\ UNCHANGED proc
      <4>1. proc[current] # "unborn"
        BY <3>2, Numbers DEF LinkInv, Held
      <4>2. \A p \in Proc \ {current} : inbox'[p] = inbox[p] /\ serving'[p] = serving[p] /\ (p \in killed' => p \in killed)
        BY <3>2 DEF LinkInv, LinkTypes, Kill
      <4> QED
        BY <3>2, <4>1, <4>2 DEF LinkInv, Held
    <3> QED
      BY <3>1, <3>2 DEF workerVars
  <2>2. (open' => current' \in Proc \ killed') /\ (current' # 0 => proc'[current'] # "unborn")
    <3>1. open' => current' \in Proc \ killed'
      BY DEF LinkInv, Held, workerVars
    <3>2. proc' = proc
      BY DEF workerVars
    <3> QED
      BY <3>1, <3>2 DEF LinkInv, Held
  <2>3. engine \in {"audiocpp", "trained"} /\ current' = 0 => call.op = "load"
    BY DEF LinkInv, Held
  <2> QED
    BY <1>1, <2>1, <2>2, <2>3 DEF Held
<1>7. Pipes' /\ Recording'
  BY DEF Pipes, Recording
<1>8. ActiveIsUsed' /\ ActiveHeld'
  BY <1>1 DEF LinkInv, ActiveIsUsed, ActiveHeld
<1>9. OneActive'
  BY <1>1, <1>2 DEF LinkInv, OneActive
<1>10. Retries'
  BY <1>1, <1>2 DEF Retries
<1> QED
  BY <1>3, <1>4, <1>5, <1>6, <1>7, <1>8, <1>9, <1>10 DEF LinkInv

\* The call ends with ok.
Returns(ok) ==
  /\ ok \in BOOLEAN /\ Return(ok) /\ pc \notin {"idle", "ended"}
  /\ UNCHANGED <<engine, started, given, open, proc, killed, serving, fed, inbox>>
  /\ \/ judged' = judged
     \/ \E x \in Seq(Int) : ok /\ call.op = "finish" /\ judged' = [judged EXCEPT ![call.s] = x]
  /\ outbox' \in [Proc -> Seq(Replies)]
  /\ current' = current \/ (current' = 0 /\ ~open /\ active' = None /\ call.op = "close")
  /\ active' = active \/ active' = None
  /\ ok /\ call.op = "accept" => pc = "request" /\ call.s \in started /\ call.left = 0
  /\ active' # None /\ active' = call.s => call.op # "cancel" /\ ~(ok /\ call.op = "finish")
  /\ engine = "trained" /\ active' # active => active = call.s /\ (call.op = "cancel" \/ (ok /\ call.op = "finish"))
  /\ open => /\ pc # "stop" /\ call.op # "close" /\ (call.op = "load" => ok)
             /\ proc[current] # "opening" /\ inbox[current] = <<>> /\ outbox'[current] = <<>>
  /\ call.op = "load" /\ ok => open

\* A call that returns.
LEMMA ReturnKeeps ==
  ASSUME LinkInv, NEW ok, Returns(ok)
  PROVE  LinkInv'
<1> USE DEF Returns
<1>1. /\ call' \in Calling /\ call \in Calling /\ fault' = FALSE
      /\ call'.op = "none" /\ call'.s = None /\ call'.left = 0
  BY Numbers DEF LinkInv, LinkTypes, Calling, Return, NoCall
<1>2. /\ pc' \in {"idle", "ended"}
      /\ pc' = "ended" => call.op = "close" \/ (call.op = "load" /\ ~ok)
      /\ open => pc' = "idle"
  BY DEF Return
<1>3. call.op # "none" /\ (call.s = None \/ call.s \in Stream)
  BY <1>1 DEF LinkInv, CallShape, Calling
<1>4. ASSUME NEW t \in Stream, t # call.s \/ stream[t] = "closed"
      PROVE  stream'[t] = stream[t]
  BY <1>3, <1>4 DEF Return, LinkInv, CallerTypes
<1>5. ASSUME call.s # None, stream[call.s] # "closed"
      PROVE  /\ call.s \in Stream /\ call.op \in {"accept", "finish"}
             /\ stream'[call.s] = IF ~ok THEN "failed" ELSE IF call.op = "finish" THEN "finished" ELSE "open"
  BY <1>1, <1>3, <1>5 DEF Return, LinkInv, CallerTypes, CallShape, Calling
<1>6. CallerTypes'
  BY <1>3 DEF Return, LinkInv, CallerTypes, Phases
<1>7. LinkTypes'
  BY <1>1, <1>2, Numbers DEF LinkInv, LinkTypes, Places
<1>8. CallShape'
  BY <1>1, <1>2 DEF CallShape
<1>9. \A t \in Stream : stream'[t] \in {"new", "open"} =>
        /\ judged'[t] = judged[t] /\ stream'[t] = stream[t]
        /\ t = call.s => pc = "request" /\ t \in started /\ call.left = 0
  <2> SUFFICES ASSUME NEW t \in Stream, stream'[t] \in {"new", "open"}
               PROVE  /\ judged'[t] = judged[t] /\ stream'[t] = stream[t]
                      /\ t = call.s => pc = "request" /\ t \in started /\ call.left = 0
    OBVIOUS
  <2>1. CASE t # call.s
    BY <1>4, <2>1 DEF LinkInv, CallerTypes
  <2>2. CASE t = call.s
    <3>1. stream[t] # "closed"
      BY <1>4
    <3>2. ok /\ call.op = "accept" /\ stream[t] = "open"
      BY <1>5, <2>2, <3>1, Numbers DEF LinkInv, CallShape
    <3> QED
      BY <1>5, <2>2, <3>1, <3>2, Numbers DEF LinkInv, CallerTypes
  <2> QED
    BY <2>1, <2>2
<1>10. Exact'
  <2>1. \A t \in Stream : Rest(t)' = 0
    BY <1>1, Numbers DEF Rest
  <2>2. ASSUME NEW t \in Stream, stream'[t] \in {"new", "open"}
        PROVE  Rest(t) = 0 /\ judged'[t] = judged[t] /\ stream'[t] = stream[t]
    BY <1>9, <2>2 DEF Rest
  <2>3. ASSUME NEW t \in Stream, stream'[t] \in {"new", "open"}
        PROVE  /\ 0 =< given'[t] /\ judged'[t] = UpTo(given'[t] - 0) /\ (t \notin started' => 0 = given'[t])
               /\ stream'[t] = "open" => t \in started'
               /\ stream'[t] = "new" => t \notin started'
    <3>1. stream[t] = "open" => t \in started
      BY <1>9, <2>2, <2>3 DEF LinkInv, Exact
    <3> QED
      BY <2>2, <2>3, <3>1 DEF LinkInv, Exact
  <2> QED
    BY <1>1, <2>1, <2>3, Numbers DEF Exact
<1>11. Held'
  <2>1. engine \in {"audiocpp", "trained"} /\ current' = 0 => pc' = "ended"
    BY <1>2, Numbers DEF LinkInv, Held, Return
  <2> QED
    BY <1>1, <1>2, <2>1 DEF LinkInv, Held
<1>12. Pipes'
  BY <1>2 DEF Pipes
<1>13. Recording'
  BY <1>2, <1>9 DEF Recording, LinkInv
<1>14. ActiveIsUsed'
  <2> SUFFICES ASSUME active' # None
               PROVE  active' \in started /\ stream'[active'] \in {"open", "failed"}
    BY DEF ActiveIsUsed
  <2>1. active \in started /\ active' = active /\ active \in Stream
    BY DEF LinkInv, ActiveIsUsed, CallerTypes
  <2>2. CASE active = call.s
    <3>1. stream[call.s] # "closed"
      BY <2>1, <2>2 DEF LinkInv, ActiveIsUsed
    <3> QED
      BY <1>5, <2>1, <2>2, <3>1
  <2>3. CASE active # call.s
    BY <1>4, <2>1, <2>3 DEF LinkInv, ActiveIsUsed
  <2> QED
    BY <2>1, <2>2, <2>3
<1>15. ActiveHeld'
  BY <1>2 DEF ActiveHeld, LinkInv
<1>16. OneActive'
  <2> SUFFICES ASSUME engine = "trained"
               PROVE  OneActive'
    BY DEF OneActive
  <2>1. ASSUME NEW t \in started, stream'[t] \in {"open", "failed"}
        PROVE  active' = t
    <3>1. t \in Stream
      BY DEF LinkInv, CallerTypes
    <3>2. stream[t] \in {"open", "failed"}
      <4>1. CASE t # call.s \/ stream[t] = "closed"
        BY <1>4, <2>1, <3>1, <4>1
      <4>2. CASE t = call.s /\ stream[t] # "closed"
        BY <1>5, <3>1, <4>2, Numbers DEF LinkInv, CallShape
      <4> QED
        BY <4>1, <4>2
    <3>3. active = t
      BY <3>2 DEF LinkInv, OneActive
    <3> QED
      BY <1>4, <1>5, <2>1, <3>1, <3>2, <3>3, Numbers
  <2>2. ASSUME open, NEW s \in started, stream'[s] = "open"
        PROVE  proc[current] = "gone" \/ serving[current] = s
    <3>1. s \in Stream
      BY DEF LinkInv, CallerTypes
    <3>2. stream[s] = "open" /\ (s = call.s => pc = "request")
      BY <1>9, <2>2, <3>1
    <3> QED
      <4>1. pc # "stop" /\ ~(pc = "await" /\ call.s = s)
        BY <2>2, <3>2
      <4> QED
        BY <2>2, <3>2, <4>1 DEF LinkInv, OneActive
  <2>3. open => current' = current
    OBVIOUS
  <2> QED
    BY <1>1, <1>2, <2>1, <2>2, <2>3 DEF OneActive
<1>17. Retries'
  BY <1>1 DEF Retries, Starting
<1> QED
  BY <1>6, <1>7, <1>8, <1>10, <1>11, <1>12, <1>13, <1>14, <1>15, <1>16, <1>17 DEF LinkInv

\* The next request is asked for, refused, or there is none.
LEMMA ProceedKeeps ==
  ASSUME LinkInv, UNCHANGED engine, NEW refused \in BOOLEAN, NEW skipped \in BOOLEAN,
         Proceed(refused, skipped),
         skipped => Wanted = "cancel" /\ active # call.s,
         refused => Wanted # "cancel", Wanted = "start" /\ active # None => refused,
         engine = "trained" => Wanted # "cancel"
  PROVE  LinkInv'
<1>1. pc = "request" /\ call \in Calling /\ call.op \in {"accept", "finish", "cancel"} /\ call.s \in Stream
  BY DEF Proceed, LinkInv, LinkTypes, CallShape, CallerTypes
<1>2. call.s # None
  BY <1>1, Numbers
<1>3. open => /\ proc[current] # "opening" /\ inbox[current] = <<>> /\ outbox[current] = <<>>
  BY <1>1 DEF LinkInv, Held, Pipes
<1>4. outbox \in [Proc -> Seq(Replies)]
  BY DEF LinkInv, LinkTypes
<1>5. CASE Wanted = "none" \/ skipped
  <2>1. Return(TRUE) /\ UNCHANGED <<started, given, judged, active, current, open, proc, killed, serving, fed, inbox, outbox>>
    BY <1>5 DEF Proceed, Finished, workerVars
  <2>2. call.op = "accept" => call.s \in started /\ call.left = 0
    BY <1>1, <1>2, <1>5, WantedFacts DEF Calling
  <2>3. call.op # "finish" /\ (active = call.s => call.op # "cancel")
    BY <1>1, <1>2, <1>5, WantedFacts DEF Calling
  <2> QED
    <3>1. Returns(TRUE)
      BY <1>1, <1>3, <1>4, <2>1, <2>2, <2>3 DEF Returns
    <3> QED
      BY <3>1, ReturnKeeps
<1>6. CASE ~(Wanted = "none" \/ skipped) /\ refused
  <2>1. Return(FALSE) /\ UNCHANGED <<started, given, judged, active, current, open, proc, killed, serving, fed, inbox, outbox>>
    BY <1>6 DEF Proceed, Finished, workerVars
  <2>2. call.op # "cancel"
    BY <1>1, <1>2, <1>6, WantedFacts
  <2> QED
    <3>1. Returns(FALSE)
      BY <1>1, <1>3, <1>4, <2>1, <2>2 DEF Returns
    <3> QED
      BY <3>1, ReturnKeeps
<1>7. CASE ~(Wanted = "none" \/ skipped) /\ ~refused
  <2>1. pc' = "send" /\ UNCHANGED <<engine, callerVars, call, fault, active, current, open, proc, killed, serving, fed, inbox, outbox>>
    BY <1>7 DEF Proceed, workerVars
  <2>2. Wanted' = Wanted /\ Reply' = Reply /\ (Starting' <=> Starting)
    BY <2>1 DEF Wanted, Reply, Starting, callerVars
  <2>3. CallerTypes' /\ LinkTypes' /\ Exact'
    BY <2>1, ExactKept DEF LinkInv, CallerTypes, LinkTypes, Places, callerVars
  <2>4. CallShape'
    BY <1>1, <1>7, <2>1, <2>2 DEF LinkInv, CallShape, callerVars
  <2>5. Held' /\ Pipes' /\ Recording'
    BY <1>1, <2>1, <2>2 DEF LinkInv, Held, Pipes, Recording, callerVars
  <2>6. ActiveIsUsed' /\ ActiveHeld'
    BY <1>1, <2>1 DEF LinkInv, ActiveIsUsed, ActiveHeld, callerVars
  <2>7. OneActive'
    BY <1>1, <1>2, <1>7, <2>1, <2>2, WantedFacts DEF LinkInv, OneActive, callerVars
  <2>8. Retries'
    BY <1>1, <2>1, <2>2 DEF LinkInv, Retries
  <2> QED
    BY <2>3, <2>4, <2>5, <2>6, <2>7, <2>8 DEF LinkInv
<1> QED
  BY <1>5, <1>6, <1>7

\* A process is launched, or cannot be.
LEMMA LaunchKeeps ==
  ASSUME LinkInv, UNCHANGED engine, Launch
  PROVE  LinkInv'
<1>1. CASE fault' = TRUE /\ pc' = "failed" /\ UNCHANGED <<proc, current, open, outbox>>
  <2>1. /\ pc = "launch" /\ ~open /\ UNCHANGED <<callerVars, call, active, current, open, workerVars>>
        /\ call \in Calling /\ call.tries \in 0 .. 2 /\ call' = [call EXCEPT !.tries = call.tries]
        /\ open' \in BOOLEAN /\ fault' = TRUE /\ pc' = "failed"
    BY <1>1 DEF Launch, workerVars, LinkInv, LinkTypes, Calling, Held
  <2>2. /\ engine = "audiocpp" => active = None
        /\ engine \in {"openvino-genai", "whispercpp"} => current = 0
        /\ engine = "trained" => call.op = "load" /\ started = {}
    BY <2>1 DEF LinkInv, ActiveHeld, OneActive
  <2>3. Moves(call.tries, "failed")
    BY <2>1, <2>2 DEF Moves
  <2> QED
    BY <2>3, MoveKeeps
<1>2. CASE ~(fault' = TRUE /\ pc' = "failed" /\ UNCHANGED <<proc, current, open, outbox>>)
  <2>1. PICK p \in Unborn :
          /\ proc' = [proc EXCEPT ![p] = "opening"]
          /\ current' = p /\ open' = TRUE
          /\ outbox' = [q \in Proc |-> <<>>]
          /\ pc' = "handshake" /\ pc = "launch"
          /\ UNCHANGED <<fault, callerVars, call, active, killed, serving, fed, inbox>>
    BY <1>2 DEF Launch
  <2>2. p \in Proc /\ proc[p] = "unborn" /\ inbox[p] = <<>> /\ serving[p] = None /\ p \notin killed
        /\ proc'[p] = "opening" /\ outbox'[p] = <<>>
    BY <2>1 DEF Unborn, LinkInv, LinkTypes, Held
  <2>3. Wanted' = Wanted /\ (Starting' <=> Starting)
    BY <2>1 DEF Wanted, Starting, callerVars
  <2>4. CallerTypes' /\ Exact'
    BY <2>1, ExactKept DEF LinkInv, CallerTypes, callerVars
  <2>5. LinkTypes'
    <3>1. outbox' \in [Proc -> Seq(Replies)]
      BY <2>1
    <3> QED
      BY <2>1, <2>2, <3>1 DEF LinkInv, LinkTypes, Places
  <2>6. CallShape'
    BY <2>1, <2>3 DEF LinkInv, CallShape, callerVars
  <2>7. Held'
    BY <2>1, <2>2, Numbers DEF LinkInv, Held, LinkTypes
  <2>8. Pipes'
    BY <2>1, <2>2 DEF Pipes
  <2>9. Recording'
    BY <2>1, <2>2, Numbers DEF Recording
  <2>10. ActiveIsUsed' /\ ActiveHeld'
    BY <2>1, <2>2, Numbers DEF LinkInv, ActiveIsUsed, ActiveHeld, callerVars
  <2>11. OneActive'
    BY <2>1, <2>3 DEF LinkInv, OneActive, callerVars
  <2>12. Retries'
    BY <2>1, <2>2, <2>3 DEF LinkInv, Retries
  <2> QED
    BY <2>4, <2>5, <2>6, <2>7, <2>8, <2>9, <2>10, <2>11, <2>12 DEF LinkInv
<1> QED
  BY <1>1, <1>2

\* A request that is written, or finds the pipe broken.
LEMMA WriteKeeps ==
  ASSUME LinkInv, UNCHANGED engine, Write
  PROVE  LinkInv'
<1>1. /\ pc = "send" /\ open /\ current \in Proc /\ call \in Calling
      /\ UNCHANGED <<callerVars, call, fault, active, current, open, proc, killed, serving, fed, outbox>>
  BY DEF Write, LinkInv, LinkTypes
<1>2. CASE proc[current] = "gone"
  <2>1. /\ pc = "send" /\ pc' = "stop" /\ open /\ current \in Proc
        /\ UNCHANGED <<callerVars, active, current, open, workerVars>>
        /\ call.tries \in 0 .. 2 /\ call' = [call EXCEPT !.tries = call.tries]
        /\ open' \in BOOLEAN /\ fault' \in BOOLEAN
    BY <1>1, <1>2 DEF Write, workerVars, Calling, LinkInv, LinkTypes
  <2>2. Starting /\ call.tries > 0 => fault'
    BY <1>1, <1>2 DEF LinkInv, Retries
  <2>3. Moves(call.tries, "stop")
    BY <2>1, <2>2 DEF Moves
  <2> QED
    BY <2>3, MoveKeeps
<1>3. CASE proc[current] # "gone"
  <2>1. inbox' = [inbox EXCEPT ![current] = Append(@, Request)] /\ pc' = "await"
    BY <1>3 DEF Write
  <2>2. inbox[current] = <<>> /\ outbox[current] = <<>> /\ proc[current] = "ready"
    BY <1>1, <1>3, Numbers DEF LinkInv, Held, Pipes, LinkTypes
  <2>3. Request \in Requests
    <3>1. Wanted \in Kinds /\ call.s \in Stream \cup {None} /\ call.left \in Nat
      BY <1>1, WantedFacts DEF Calling
    <3>2. given[call.s] \in Nat
      BY <1>1 DEF LinkInv, CallShape, CallerTypes
    <3> QED
      BY <3>1, <3>2 DEF Request, Requests
  <2>4. inbox'[current] = <<Request>> /\ \A q \in Proc \ {current} : inbox'[q] = inbox[q]
    BY <1>1, <2>1, <2>2 DEF LinkInv, LinkTypes
  <2>5. Wanted' = Wanted /\ Request' = Request /\ Reply' = Reply /\ (Starting' <=> Starting)
    BY <1>1 DEF Wanted, Request, Reply, Starting, callerVars
  <2>6. CallerTypes' /\ Exact'
    BY <1>1, ExactKept DEF LinkInv, CallerTypes, callerVars
  <2>7. LinkTypes'
    <3>1. inbox' \in [Proc -> Seq(Requests)]
      <4>1. inbox[current] \in Seq(Requests) /\ inbox \in [Proc -> Seq(Requests)]
        BY <1>1 DEF LinkInv, LinkTypes
      <4>2. Append(inbox[current], Request) \in Seq(Requests)
        BY <2>3, <4>1
      <4> QED
        BY <2>1, <4>1, <4>2
    <3> QED
      BY <1>1, <2>1, <3>1 DEF LinkInv, LinkTypes, Places
  <2>8. CallShape'
    BY <1>1, <2>1, <2>5 DEF LinkInv, CallShape, callerVars
  <2>9. Held'
    BY <1>1, <2>1, <2>2, <2>4 DEF LinkInv, Held
  <2>10. Pipes'
    BY <1>1, <2>1, <2>2, <2>4, <2>5 DEF Pipes
  <2>11. Recording'
    BY <1>1, <2>1, <2>2 DEF LinkInv, Recording, callerVars
  <2>12. ActiveIsUsed' /\ ActiveHeld'
    BY <1>1, <2>1 DEF LinkInv, ActiveIsUsed, ActiveHeld, callerVars
  <2>13. OneActive'
    BY <1>1, <2>1, <2>2, <2>5 DEF LinkInv, OneActive, callerVars
  <2>14. Retries'
    BY <1>1, <2>1, <2>2, <2>5 DEF LinkInv, Retries
  <2> QED
    BY <2>6, <2>7, <2>8, <2>9, <2>10, <2>11, <2>12, <2>13, <2>14 DEF LinkInv
<1> QED
  BY <1>2, <1>3

\* No answer comes.
LEMMA NoReplyKeeps ==
  ASSUME LinkInv, UNCHANGED engine, NoReply
  PROVE  LinkInv'
<1>1. /\ pc \in {"handshake", "await"} /\ pc' = "stop" /\ open /\ current \in Proc
      /\ UNCHANGED <<callerVars, call, active, current, open, workerVars>>
      /\ call.tries \in 0 .. 2 /\ call' = [call EXCEPT !.tries = call.tries]
      /\ fault' = (fault \/ proc[current] # "gone")
  BY DEF NoReply, LinkInv, LinkTypes, Held, Calling
<1>2. Starting /\ call.tries > 0 => fault'
  BY <1>1 DEF LinkInv, Retries
<1>3. open' \in BOOLEAN /\ fault' \in BOOLEAN
  BY <1>1 DEF LinkInv, LinkTypes
<1>4. Moves(call.tries, "stop")
  BY <1>1, <1>2, <1>3 DEF Moves
<1> QED
  BY <1>4, MoveKeeps

\* A sequence of one.
LEMMA Single ==
  ASSUME NEW S, NEW L \in Seq(S), Len(L) = 1
  PROVE  Tail(L) = <<>> /\ Head(L) \in S
<1>1. L # <<>>
  OBVIOUS
<1>2. Head(L) \in S /\ Tail(L) \in Seq(S) /\ Len(Tail(L)) = 0
  BY <1>1, HeadTailProperties
<1> QED
  BY <1>2, EmptySeq

\* What is in the pipes while the client waits.
LEMMA AwaitFacts ==
  ASSUME LinkInv, pc = "await", outbox[current] # <<>>
  PROVE  /\ open /\ current \in Proc /\ call \in Calling /\ call.s \in Stream
         /\ proc[current] # "opening" /\ inbox[current] = <<>>
         /\ Len(outbox[current]) = 1 /\ Answers(Reply) /\ Tail(outbox[current]) = <<>>
         /\ Reply \in Replies
<1>1. open /\ current \in Proc /\ call \in Calling /\ call.s \in Stream
  BY DEF LinkInv, LinkTypes, Held, CallShape, CallerTypes
<1>2. /\ proc[current] # "opening" /\ inbox[current] = <<>>
      /\ Len(outbox[current]) = 1 /\ Answers(Reply)
  BY <1>1 DEF LinkInv, Held, Pipes
<1>3. Tail(outbox[current]) = <<>> /\ Reply \in Replies
  <2>1. outbox[current] \in Seq(Replies)
    BY <1>1 DEF LinkInv, LinkTypes
  <2> QED
    BY <1>2, <2>1, Single DEF Reply
<1> QED
  BY <1>1, <1>2, <1>3

\* A reply that is read off the pipe.
LEMMA TailKept ==
  ASSUME LinkInv, current \in Proc, outbox[current] # <<>>,
         outbox' = [outbox EXCEPT ![current] = Tail(@)]
  PROVE  outbox' \in [Proc -> Seq(Replies)] /\ outbox'[current] = Tail(outbox[current])
  BY DEF LinkInv, LinkTypes

\* The first reply of a worker, or its silence.
LEMMA HandshakeKeeps ==
  ASSUME LinkInv, UNCHANGED engine, Handshake
  PROVE  LinkInv'
<1>1. /\ pc = "handshake" /\ outbox[current] # <<>> /\ open /\ current \in Proc
      /\ outbox' = [outbox EXCEPT ![current] = Tail(@)]
      /\ UNCHANGED <<started, given, judged, active, current, open, proc, killed, serving, fed, inbox>>
  BY DEF Handshake, LinkInv, Held
<1>2. /\ inbox[current] = <<>> /\ serving[current] = None /\ Len(outbox[current]) = 1 /\ proc[current] # "opening"
      /\ Reply.kind = "ready" \/ (Reply.kind = "error" /\ fault)
  BY <1>1 DEF LinkInv, Pipes
<1>3. outbox' \in [Proc -> Seq(Replies)] /\ outbox'[current] = <<>>
  <2>1. outbox[current] \in Seq(Replies)
    BY <1>1 DEF LinkInv, LinkTypes
  <2> QED
    BY <1>1, <1>2, <2>1, Single, TailKept
<1>4. CASE Reply.kind # "ready"
  <2>1. /\ pc = "handshake" /\ pc' = "stop" /\ open /\ open' = open /\ open' \in BOOLEAN /\ current \in Proc
        /\ UNCHANGED <<callerVars, active, current, proc, killed, serving, fed, inbox>>
        /\ call.tries \in 0 .. 2 /\ call' = [call EXCEPT !.tries = call.tries]
        /\ fault /\ fault' = fault /\ fault' \in BOOLEAN
    BY <1>1, <1>2, <1>4 DEF Handshake, callerVars, Calling, LinkInv, LinkTypes
  <2>2. Moves(call.tries, "stop")
    BY <1>3, <2>1 DEF Moves
  <2> QED
    BY <2>2, MoveKeeps
<1>5. CASE Reply.kind = "ready" /\ call.op = "load"
  <2>1. Return(TRUE)
    BY <1>5 DEF Handshake
  <2>2. call.s = None /\ call.s \notin Stream
    BY <1>5, Numbers DEF LinkInv, CallShape
  <2>3. active' = call.s => active' = None
    BY <2>2
  <2>4. Returns(TRUE)
    BY <1>1, <1>2, <1>3, <1>5, <2>1, <2>3 DEF Returns
  <2> QED
    BY <2>4, ReturnKeeps
<1>6. CASE Reply.kind = "ready" /\ call.op # "load"
  <2>1. /\ pc' = "send" /\ UNCHANGED <<stream, fault>>
        /\ call' = [call EXCEPT !.tries = IF @ = 1 THEN 2 ELSE @]
    BY <1>6 DEF Handshake
  <2>2. /\ call \in Calling /\ call' \in Calling /\ call'.op = call.op /\ call'.s = call.s /\ call'.left = call.left
        /\ call'.tries > 0 <=> call.tries > 0
    <3>1. call \in Calling /\ call.tries \in 0 .. 2
      BY DEF LinkInv, LinkTypes, Calling
    <3>2. CASE call.tries = 1
      BY <2>1, <3>1, <3>2 DEF Calling
    <3>3. CASE call.tries # 1
      BY <2>1, <3>1, <3>3 DEF Calling
    <3> QED
      BY <3>2, <3>3
  <2>3. call.op \in {"accept", "finish", "cancel"} /\ engine # "trained" /\ Wanted # "none"
    BY <1>1, <1>6, <2>2 DEF LinkInv, CallShape, OneActive, Calling
  <2>4. Wanted' = Wanted /\ (Starting' <=> Starting)
    BY <1>1, <2>2 DEF Wanted, Starting
  <2>5. CallerTypes' /\ Exact'
    BY <1>1, <2>1, <2>2, ExactKept DEF LinkInv, CallerTypes, callerVars
  <2>6. LinkTypes'
    BY <1>1, <1>3, <2>1, <2>2 DEF LinkInv, LinkTypes, Places
  <2>7. CallShape'
    BY <1>1, <2>1, <2>2, <2>3, <2>4 DEF LinkInv, CallShape
  <2>8. Held'
    BY <1>1, <1>2, <2>1 DEF LinkInv, Held
  <2>9. Pipes' /\ Recording'
    BY <1>1, <1>2, <1>3, <2>1, Numbers DEF Pipes, Recording
  <2>10. ActiveIsUsed' /\ ActiveHeld' /\ OneActive'
    BY <1>1, <2>1, <2>2, <2>3 DEF LinkInv, ActiveIsUsed, ActiveHeld, OneActive
  <2>11. Retries'
    BY <1>1, <2>1, <2>2, <2>4 DEF LinkInv, Retries
  <2> QED
    BY <2>5, <2>6, <2>7, <2>8, <2>9, <2>10, <2>11 DEF LinkInv
<1> QED
  BY <1>4, <1>5, <1>6

\* Its process has reported itself; the heads may be for another encoder.
LEMMA HandshakenKeeps ==
  ASSUME LinkInv, UNCHANGED engine, engine = "trained", T!Handshaken
  PROVE  LinkInv'
<1>1. /\ pc = "handshake" /\ outbox[current] # <<>> /\ open /\ current \in Proc /\ call.op = "load"
      /\ outbox' = [outbox EXCEPT ![current] = Tail(@)]
      /\ UNCHANGED <<started, given, judged, active, current, open, proc, killed, serving, fed, inbox>>
  BY DEF T!Handshaken, LinkInv, Held, OneActive
<1>2. inbox[current] = <<>> /\ Len(outbox[current]) = 1 /\ proc[current] # "opening"
  BY <1>1 DEF LinkInv, Pipes
<1>3. outbox' \in [Proc -> Seq(Replies)] /\ outbox'[current] = <<>>
  <2>1. outbox[current] \in Seq(Replies)
    BY <1>1 DEF LinkInv, LinkTypes
  <2> QED
    BY <1>1, <1>2, <2>1, Single, TailKept
<1>4. CASE Return(TRUE)
  <2>1. call.s = None /\ call.s \notin Stream
    BY <1>1, Numbers DEF LinkInv, CallShape
  <2>2. Returns(TRUE)
    BY <1>1, <1>2, <1>3, <1>4, <2>1 DEF Returns
  <2> QED
    BY <2>2, ReturnKeeps
<1>5. CASE ~Return(TRUE)
  <2>1. /\ pc = "handshake" /\ pc' = "stop" /\ open /\ open' = open /\ open' \in BOOLEAN /\ current \in Proc
        /\ UNCHANGED <<callerVars, active, current, proc, killed, serving, fed, inbox>>
        /\ call.tries \in 0 .. 2 /\ call' = [call EXCEPT !.tries = call.tries]
        /\ fault' = fault /\ fault' \in BOOLEAN
    BY <1>1, <1>5, TrainedShares DEF T!Handshaken, callerVars, Calling, LinkInv, LinkTypes
  <2>2. Moves(call.tries, "stop")
    BY <1>1, <1>3, <2>1 DEF Moves, Starting
  <2> QED
    BY <2>2, MoveKeeps
<1> QED
  BY <1>4, <1>5

\* The client takes an answer.
LEMMA ReceiveKeeps ==
  ASSUME LinkInv, UNCHANGED engine, NEW severe, Receive(severe),
         engine = "trained" => {"ready", "ack", "result", "error"} \subseteq severe
  PROVE  LinkInv'
<1> DEFINE kind == IF Wanted \in {"start", "cancel"} THEN "ack" ELSE "result"
           good == Reply.kind = kind /\ Reply.s = call.s
           ends == ~good /\ Reply.kind \in severe
<1>1. /\ pc = "await" /\ outbox[current] # <<>>
      /\ outbox' = [outbox EXCEPT ![current] = Tail(@)]
      /\ started' = IF Wanted = "start" /\ good THEN started \cup {call.s} ELSE started
      /\ active' = IF Wanted = "start" THEN (IF good THEN call.s ELSE active)
                   ELSE IF Wanted \in {"finish", "cancel"} /\ ~ends THEN None ELSE active
      /\ judged' = IF good /\ Wanted \in {"audio", "finish"}
                   THEN [judged EXCEPT ![call.s] = Reply.fed] ELSE judged
      /\ IF good /\ Wanted \in {"start", "audio"}
         THEN /\ pc' = "request"
              /\ call' = [call EXCEPT !.left = IF Wanted = "audio" THEN @ - 1 ELSE @]
              /\ UNCHANGED <<stream, fault>>
         ELSE IF ends
         THEN pc' = "stop" /\ call' = [call EXCEPT !.tries = 2] /\ UNCHANGED <<stream, fault>>
         ELSE Return(good)
      /\ UNCHANGED <<given, current, open, proc, killed, serving, fed, inbox>>
  BY DEF Receive
<1>2. /\ open /\ current \in Proc /\ call \in Calling /\ call.s \in Stream
      /\ proc[current] # "opening" /\ inbox[current] = <<>>
      /\ Len(outbox[current]) = 1 /\ Answers(Reply) /\ Tail(outbox[current]) = <<>>
      /\ Reply \in Replies
  BY <1>1, AwaitFacts
<1>3. outbox' \in [Proc -> Seq(Replies)] /\ outbox'[current] = <<>> /\ outbox'[current'] = <<>>
  BY <1>1, <1>2, TailKept
<1>4. /\ call.s # None /\ call.op \in {"accept", "finish", "cancel"} /\ call.left \in Nat
      /\ Wanted \in {"start", "audio", "finish", "cancel"}
      /\ Wanted = "cancel" <=> call.op = "cancel"
      /\ Wanted = "start" <=> call.op # "cancel" /\ call.s \notin started
      /\ Wanted = "audio" => call.s \in started /\ call.left > 0
      /\ Wanted = "finish" => call.op = "finish"
      /\ call.op # "cancel" => stream[call.s] = "open"
      /\ call.op = "cancel" => stream[call.s] = "closed" /\ call.s \in started
  BY <1>1, <1>2, Numbers, WantedFacts DEF LinkInv, CallShape, Calling, Kinds
<1>5. Wanted = "start" /\ ~good => fault
  BY <1>2 DEF Answers, Replies
<1>6. Reply.fed \in Seq(Int)
  BY <1>2 DEF Replies
<1> HIDE DEF good
<1>7. CASE good /\ Wanted = "start"
  <2>1. /\ started' = started \cup {call.s} /\ active' = call.s /\ UNCHANGED <<judged, stream, fault>>
        /\ pc' = "request" /\ call' = [call EXCEPT !.left = call.left]
    BY <1>1, <1>7
  <2>2. call' = call
    BY <1>2, <2>1 DEF Calling
  <2>3. CallerTypes' /\ LinkTypes'
    BY <1>1, <1>2, <1>3, <2>1, <2>2 DEF LinkInv, CallerTypes, LinkTypes, Places
  <2>4. CallShape'
    <3>1. call.op \in {"accept", "finish"} /\ stream'[call.s] = "open"
      BY <1>4, <1>7, <2>1
    <3> QED
      BY <1>2, <2>1, <2>2, <3>1 DEF CallShape
  <2>5. Exact'
    <3>1. \A s \in Stream : Rest(s)' = Rest(s)
      BY <2>2 DEF Rest
    <3>2. \A s \in Stream : stream[s] = "new" => s \notin started'
      BY <1>4, <1>7, <2>1 DEF LinkInv, Exact
    <3> QED
      BY <1>1, <2>1, <2>2, <3>1, <3>2 DEF LinkInv, Exact
  <2>6. Held'
    BY <1>1, <1>2, <2>1, <2>2 DEF LinkInv, Held
  <2>7. Pipes'
    BY <1>1, <1>2, <1>3, <2>1 DEF Pipes
  <2>8. Recording'
    BY <1>1, <1>7, <2>1 DEF LinkInv, Recording
  <2>9. ActiveIsUsed' /\ ActiveHeld'
    BY <1>1, <1>2, <1>4, <1>7, <2>1, Numbers DEF LinkInv, ActiveIsUsed, ActiveHeld
  <2>10. OneActive'
    <3> SUFFICES ASSUME engine = "trained" PROVE OneActive'
      BY DEF OneActive
    <3>1. \A t \in started : stream[t] \notin {"open", "failed"}
      <4>1. active = None /\ None \notin started
        BY <1>1, <1>7, Numbers DEF LinkInv, OneActive, CallerTypes
      <4> QED
        BY <4>1 DEF LinkInv, OneActive
    <3>2. Reply.kind = "ack"
      BY <1>7 DEF good
    <3>3. proc[current] = "gone" \/ serving[current] = call.s
      BY <1>1, <1>7, <3>2 DEF LinkInv, OneActive
    <3> QED
      BY <1>1, <1>4, <1>7, <2>1, <2>2, <3>1, <3>3 DEF OneActive
  <2>11. Retries'
    BY <2>1, <2>2 DEF Retries, Starting
  <2> QED
    BY <2>3, <2>4, <2>5, <2>6, <2>7, <2>8, <2>9, <2>10, <2>11 DEF LinkInv
<1>8. CASE good /\ Wanted = "audio"
  <2>1. /\ started' = started /\ active' = active /\ UNCHANGED <<stream, fault>>
        /\ judged' = [judged EXCEPT ![call.s] = Reply.fed]
        /\ pc' = "request" /\ call' = [call EXCEPT !.left = call.left - 1]
    BY <1>1, <1>8
  <2>2. /\ call' \in Calling /\ call'.op = call.op /\ call'.s = call.s /\ call'.tries = call.tries
        /\ call'.left = call.left - 1
    BY <1>2, <1>4, <1>8, <2>1 DEF Calling
  <2>3. /\ judged'[call.s] = Reply.fed /\ Reply.kind = "result"
        /\ \A t \in Stream \ {call.s} : judged'[t] = judged[t]
    BY <1>2, <1>8, <2>1 DEF LinkInv, CallerTypes, good
  <2>4. CallerTypes' /\ LinkTypes'
    BY <1>1, <1>2, <1>3, <1>6, <2>1, <2>2 DEF LinkInv, CallerTypes, LinkTypes, Places
  <2>5. CallShape'
    <3>1. call.op \in {"accept", "finish"} /\ stream'[call.s] = "open"
      BY <1>4, <1>8, <2>1
    <3> QED
      BY <1>2, <2>1, <2>2, <3>1 DEF CallShape
  <2>6. Exact'
    <3>1. Reply.fed = UpTo(given[call.s] - call.left + 1)
      BY <1>2, <1>8, <2>3 DEF Answers
    <3>2. given[call.s] \in Nat /\ call.left =< given[call.s] /\ stream[call.s] = "open" /\ call.s \in started
      <4>1. Rest(call.s) = call.left
        BY DEF Rest
      <4> QED
        BY <1>2, <1>4, <1>8, <4>1 DEF LinkInv, Exact, CallerTypes
    <3>3. given[call.s] - call.left + 1 = given[call.s] - (call.left - 1)
      BY <1>4, <3>2
    <3>4. Rest(call.s)' = call.left - 1 /\ \A t \in Stream \ {call.s} : Rest(t)' = Rest(t)
      BY <2>2 DEF Rest
    <3>5. /\ Rest(call.s)' =< given[call.s] /\ judged'[call.s] = UpTo(given[call.s] - Rest(call.s)')
      BY <1>4, <2>3, <3>1, <3>2, <3>3, <3>4
    <3> QED
      BY <1>1, <1>2, <2>1, <2>2, <2>3, <3>2, <3>4, <3>5 DEF LinkInv, Exact
  <2>7. Held'
    BY <1>1, <1>2, <2>1, <2>2 DEF LinkInv, Held
  <2>8. Pipes'
    BY <1>1, <1>2, <1>3, <2>1 DEF Pipes
  <2>9. Recording'
    BY <1>1, <1>8, <2>1, <2>3 DEF LinkInv, Recording
  <2>10. ActiveIsUsed' /\ ActiveHeld'
    BY <1>1, <2>1, <2>2 DEF LinkInv, ActiveIsUsed, ActiveHeld
  <2>11. OneActive'
    BY <1>1, <1>4, <1>8, <2>1, <2>2 DEF LinkInv, OneActive
  <2>12. Retries'
    BY <1>4, <1>8, <2>1, <2>2 DEF Retries, Starting
  <2> QED
    BY <2>4, <2>5, <2>6, <2>7, <2>8, <2>9, <2>10, <2>11, <2>12 DEF LinkInv
<1>9. CASE ~(good /\ Wanted \in {"start", "audio"}) /\ ends
  <2>1. /\ UNCHANGED <<started, active, judged, stream, given>>
        /\ pc = "await" /\ pc' = "stop" /\ call' = [call EXCEPT !.tries = 2] /\ UNCHANGED fault
        /\ UNCHANGED <<current, open, proc, killed, serving, fed, inbox>>
    BY <1>1, <1>9
  <2>2. open' \in BOOLEAN /\ fault' \in BOOLEAN /\ (Starting => fault')
    BY <1>4, <1>5, <1>9, <2>1 DEF LinkInv, LinkTypes, Starting
  <2>3. Moves(2, "stop")
    BY <1>2, <1>3, <2>1, <2>2 DEF Moves, callerVars
  <2> QED
    BY <2>3, MoveKeeps
<1>10. CASE ~(good /\ Wanted \in {"start", "audio"}) /\ ~ends
  <2>1. Return(good) /\ started' = started
    BY <1>1, <1>10
  <2>2. good \in BOOLEAN /\ (good => call.op \in {"finish", "cancel"})
    BY <1>4, <1>10 DEF good
  <2>3. \/ judged' = judged
        \/ good /\ call.op = "finish" /\ judged' = [judged EXCEPT ![call.s] = Reply.fed]
    BY <1>1, <1>4, <1>10
  <2>4. active' = active \/ active' = None
    BY <1>1, <1>10
  <2>5. active' = call.s => call.op # "cancel" /\ ~good
    BY <1>1, <1>4, <1>10
  <2>6. engine = "trained" => good /\ call.op = "finish" /\ active = call.s
    <3>1. engine = "trained" => good
      BY <1>2, <1>10 DEF Replies
    <3>2. engine = "trained" => call.op # "cancel"
      BY <1>1 DEF LinkInv, OneActive
    <3>3. engine = "trained" /\ call.s \in started /\ stream[call.s] = "open" => active = call.s
      BY DEF LinkInv, OneActive
    <3> QED
      BY <1>4, <1>10, <3>1, <3>2, <3>3
  <2>7. Returns(good)
    <3>1. \/ judged' = judged
          \/ \E x \in Seq(Int) : good /\ call.op = "finish" /\ judged' = [judged EXCEPT ![call.s] = x]
      BY <1>6, <2>3
    <3> QED
      BY <1>1, <1>2, <1>3, <1>4, <2>1, <2>2, <2>4, <2>5, <2>6, <3>1 DEF Returns
  <2> QED
    BY <2>7, ReturnKeeps
<1> QED
  BY <1>4, <1>7, <1>8, <1>9, <1>10

\* The process is given time to exit, then killed.
LEMMA LingerKeeps ==
  ASSUME LinkInv, UNCHANGED engine, engine # "trained", Linger
  PROVE  LinkInv'
<1>1. /\ pc = "linger" /\ ~open /\ current \in Proc /\ call.tries \in 0 .. 2
      /\ call' = [call EXCEPT !.tries = call.tries]
      /\ UNCHANGED <<callerVars, fault, active, current, open>>
      /\ open' \in BOOLEAN /\ fault' \in BOOLEAN
      /\ \/ pc' = "reaped" /\ UNCHANGED workerVars
         \/ pc' = "reap" /\ Kill /\ UNCHANGED proc
  BY DEF Linger, LinkInv, LinkTypes, Held, Calling
<1>2. /\ engine = "audiocpp" => active = None
      /\ Starting /\ call.tries > 0 => fault
  BY <1>1 DEF LinkInv, ActiveHeld, Retries
<1>3. Moves(call.tries, pc')
  BY <1>1, <1>2 DEF Moves
<1> QED
  BY <1>3, MoveKeeps

\* A stream is dropped.
LEMMA DropStreamKeeps ==
  ASSUME LinkInv, UNCHANGED engine, NEW s \in Stream, DropStream(s)
  PROVE  LinkInv'
<1>1. /\ pc = "idle" /\ stream[s] # "closed"
      /\ stream' = [stream EXCEPT ![s] = "closed"]
      /\ given' = [given EXCEPT ![s] = 0] /\ judged' = [judged EXCEPT ![s] = <<>>]
      /\ UNCHANGED <<started, fault, active, current, open, proc, killed, serving, fed, inbox, outbox>>
  BY DEF DropStream, workerVars
<1>2. \/ /\ s \in started /\ stream[s] # "finished" /\ pc' = "request"
         /\ call' = [op |-> "cancel", s |-> s, left |-> 0, tries |-> 0]
      \/ ~(s \in started /\ stream[s] # "finished") /\ UNCHANGED <<call, pc>>
  BY DEF DropStream
<1>3. call.op = "none" /\ call.s = None /\ call.left = 0 /\ call \in Calling
  BY <1>1 DEF LinkInv, LinkTypes, CallShape
<1>4. /\ call' \in Calling /\ call'.left = 0 /\ call'.op \in {"none", "cancel"}
      /\ call'.op = "cancel" => call'.s = s /\ pc' = "request" /\ s \in started /\ stream[s] # "finished"
      /\ call'.op = "none" => call'.s = None /\ pc' = "idle"
  BY <1>1, <1>2, <1>3 DEF Calling
<1>5. /\ stream'[s] = "closed" /\ started \subseteq Stream
      /\ \A t \in Stream \ {s} : stream'[t] = stream[t] /\ given'[t] = given[t] /\ judged'[t] = judged[t]
  BY <1>1 DEF LinkInv, CallerTypes
<1>6. CallerTypes' /\ LinkTypes'
  BY <1>1, <1>4 DEF LinkInv, CallerTypes, LinkTypes, Phases, Places
<1>7. CallShape'
  BY <1>1, <1>4, <1>5 DEF CallShape
<1>8. Exact'
  <2>1. \A t \in Stream : Rest(t)' = 0 /\ Rest(t) = 0
    BY <1>3, <1>4 DEF Rest
  <2>2. ASSUME NEW t \in Stream, t # s
        PROVE  /\ stream[t] = "open" => t \in started
               /\ call'.s # t
    BY <1>3, <1>4, <2>2, Numbers DEF LinkInv, Exact
  <2> QED
    BY <1>1, <1>5, <2>1, <2>2 DEF LinkInv, Exact
<1>9. Held' /\ Pipes'
  BY <1>1, <1>3, <1>4 DEF LinkInv, Held, Pipes
<1>10. Recording'
  BY <1>1, <1>4, <1>5 DEF LinkInv, Recording
<1>11. ActiveIsUsed' /\ ActiveHeld'
  BY <1>1, <1>2, <1>3, <1>4, <1>5 DEF LinkInv, ActiveIsUsed, ActiveHeld
<1>12. OneActive'
  <2> SUFFICES ASSUME engine = "trained" PROVE OneActive'
    BY DEF OneActive
  <2>1. call'.op = "cancel" => active = s
    <3>1. s \in started => stream[s] # "new"
      BY DEF LinkInv, Exact
    <3> QED
      BY <1>1, <1>4, <3>1 DEF LinkInv, OneActive, CallerTypes, Phases
  <2>2. \A t \in started : stream'[t] \in {"open", "failed"} => active = t
    BY <1>5 DEF LinkInv, OneActive
  <2>3. open => \A t \in started : stream'[t] = "open" => proc[current] = "gone" \/ serving[current] = t
    BY <1>1, <1>5 DEF LinkInv, OneActive
  <2> QED
    BY <1>1, <1>4, <2>1, <2>2, <2>3 DEF OneActive
<1>13. Retries'
  BY <1>4 DEF Retries, Starting
<1> QED
  BY <1>6, <1>7, <1>8, <1>9, <1>10, <1>11, <1>12, <1>13 DEF LinkInv

\* With every stream closed none is active.
LEMMA NoneActive ==
  ASSUME LinkInv, pc = "idle", \A s \in Stream : stream[s] = "closed"
  PROVE  active = None /\ call.op = "none" /\ call.s = None /\ call.left = 0
  BY DEF LinkInv, ActiveIsUsed, CallShape, CallerTypes

\* The detector is dropped.
LEMMA DropBackendKeeps ==
  ASSUME LinkInv, UNCHANGED engine, engine # "trained", DropBackend
  PROVE  LinkInv'
<1>1. /\ \A s \in Stream : stream[s] = "closed"
      /\ pc = "idle" /\ pc' = (IF current = 0 THEN "ended" ELSE "linger") /\ open' = FALSE
      /\ call' = [op |-> "close", s |-> None, left |-> 0, tries |-> 0]
      /\ UNCHANGED <<stream, started, given, judged, fault, active, current, proc, killed, serving, fed, outbox>>
  BY DEF DropBackend, NoCall, callerVars
<1>2. active = None
  BY <1>1, NoneActive
<1>3. call' \in Calling /\ call'.op = "close" /\ call'.s = None /\ call'.left = 0
  BY <1>1 DEF Calling
<1>4. CallerTypes'
  BY <1>1 DEF LinkInv, CallerTypes
<1>5. inbox' \in [Proc -> Seq(Requests)] /\ \A p \in Proc : p # current => inbox'[p] = inbox[p]
  <2>1. Shutdown \in Requests
    BY DEF Shutdown, Requests, Kinds
  <2>2. \A p \in Proc : inbox[p] \in Seq(Requests) /\ Append(inbox[p], Shutdown) \in Seq(Requests)
    BY <2>1 DEF LinkInv, LinkTypes
  <2> QED
    BY <2>2 DEF DropBackend
<1>6. LinkTypes'
  BY <1>1, <1>3, <1>5 DEF LinkInv, LinkTypes, Places
<1>7. CallShape'
  BY <1>1, <1>3 DEF CallShape
<1>8. Exact'
  BY <1>1 DEF Exact
<1>9. Held'
  BY <1>1, <1>5, Numbers DEF LinkInv, Held, LinkTypes
<1>10. Pipes' /\ Recording'
  BY <1>1 DEF Pipes, Recording
<1>11. ActiveIsUsed' /\ ActiveHeld' /\ OneActive'
  BY <1>1, <1>2 DEF ActiveIsUsed, ActiveHeld, OneActive
<1>12. Retries'
  BY <1>3 DEF Retries, Starting
<1> QED
  BY <1>4, <1>6, <1>7, <1>8, <1>9, <1>10, <1>11, <1>12 DEF LinkInv

\* The same of the trained-word engine.
LEMMA CloseKeeps ==
  ASSUME LinkInv, UNCHANGED engine, engine = "trained", T!Close
  PROVE  LinkInv'
<1>1. /\ \A s \in Stream : stream[s] = "closed"
      /\ pc = "idle" /\ pc' = "stop"
      /\ call' = [op |-> "close", s |-> None, left |-> 0, tries |-> 0]
      /\ UNCHANGED <<stream, started, given, judged, fault, active, current, open, proc, killed, serving, fed, inbox, outbox>>
  BY DEF T!Close, T!NoCall, T!callerVars, T!workerVars, T!Stream, Stream, T!None, None
<1>2. active = None /\ call.op = "none"
  BY <1>1, NoneActive
<1>3. call' \in Calling /\ call'.op = "close" /\ call'.s = None /\ call'.left = 0
  BY <1>1 DEF Calling
<1>4. CallerTypes' /\ LinkTypes'
  BY <1>1, <1>3 DEF LinkInv, CallerTypes, LinkTypes, Places
<1>5. CallShape'
  BY <1>1, <1>3 DEF CallShape
<1>6. Exact'
  BY <1>1 DEF Exact
<1>7. Held'
  <2>1. current # 0
    BY <1>1, <1>2 DEF LinkInv, Held
  <2> QED
    BY <1>1, <1>3, <2>1 DEF LinkInv, LinkTypes, Held
<1>8. Pipes' /\ Recording'
  BY <1>1 DEF Pipes, Recording
<1>9. ActiveIsUsed' /\ ActiveHeld' /\ OneActive'
  BY <1>1, <1>2, <1>3 DEF LinkInv, ActiveIsUsed, ActiveHeld, OneActive, CallerTypes
<1>10. Retries'
  BY <1>3 DEF Retries, Starting
<1> QED
  BY <1>4, <1>5, <1>6, <1>7, <1>8, <1>9, <1>10 DEF LinkInv

-----------------------------------------------------------------------------
(* What each engine adds to the steps of WorkerLink. *)

\* A call is tried at most twice, and a worker that is torn down is no longer used.
LEMMA TriesFacts ==
  ASSUME LinkInv
  PROVE  /\ call.tries \in 0 .. 2 /\ call = [call EXCEPT !.tries = call.tries]
         /\ fault \in BOOLEAN /\ open \in BOOLEAN
         /\ pc \in {"stop", "linger", "reap", "reapAgain", "reaped", "failed", "launch"} => ~open \/ pc = "stop"
         /\ call.op = "close" => Wanted = "none" /\ call.s = None
         /\ Starting => Wanted = "start"
  BY WantedFacts, Numbers DEF LinkInv, LinkTypes, CallShape, Held, Calling, ActiveIsUsed, CallerTypes, Starting

\* The end of a call whose process is given up.
LEMMA GivenUp ==
  ASSUME LinkInv, UNCHANGED engine, NEW ok \in BOOLEAN, Finished(ok), ~open,
         pc \notin {"idle", "ended", "request"}, ok => call.op = "close",
         active = None \/ call.op # "cancel"
  PROVE  LinkInv'
<1>1. Return(ok) /\ UNCHANGED <<started, given, judged, active, current, open, proc, killed, serving, fed, inbox, outbox>>
  BY DEF Finished, workerVars
<1>2. outbox \in [Proc -> Seq(Replies)]
  BY DEF LinkInv, LinkTypes
<1>3. Returns(ok)
  BY <1>1, <1>2, TriesFacts DEF Returns
<1> QED
  BY <1>3, ReturnKeeps

\* A step of a call on the audio.cpp engine.
LEMMA AudioCppClientKeeps ==
  ASSUME LinkInv, UNCHANGED engine, engine = "audiocpp", A!Client
  PROVE  LinkInv'
<1> USE TriesFacts
<1>1. CASE A!Ask
  <2>1. (Wanted = "start" /\ active # None) \in BOOLEAN
    OBVIOUS
  <2>2. Proceed(Wanted = "start" /\ active # None, FALSE)
    BY <1>1, <2>1, AudioCppShares DEF A!Ask, A!None, None
  <2> QED
    BY <2>1, <2>2, ProceedKeeps
<1>2. CASE A!SendClosed
  <2>1. pc = "send" /\ ~open /\ pc' = "stop" /\ UNCHANGED <<callerVars, call, fault, active, current, open, workerVars>>
    BY <1>2, AudioCppShares DEF A!SendClosed, Goto
  <2>2. current \in Proc
    BY <2>1 DEF LinkInv, LinkTypes, Held, CallShape
  <2>3. active = None /\ ~(Starting /\ call.tries > 0)
    BY <2>1 DEF LinkInv, ActiveHeld, Retries
  <2>4. Moves(call.tries, "stop")
    BY <2>1, <2>2, <2>3 DEF Moves
  <2> QED
    BY <2>4, MoveKeeps
<1>3. CASE A!Terminate
  <2>1. /\ pc = "stop" /\ ~open' /\ active' = None
        /\ \/ pc' = "reaped" /\ UNCHANGED workerVars
           \/ pc' = "reap" /\ Kill /\ UNCHANGED proc
        /\ UNCHANGED <<callerVars, call, fault, current>>
    BY <1>3, AudioCppShares DEF A!Terminate, A!None, None, A!workerVars, workerVars, A!callerVars, callerVars
  <2>2. current \in Proc /\ (Starting /\ call.tries > 0 => fault)
    BY <2>1 DEF LinkInv, Held, Retries
  <2>3. open' \in BOOLEAN
    BY <1>3 DEF A!Terminate
  <2>4. Moves(call.tries, pc')
    BY <2>1, <2>2, <2>3 DEF Moves
  <2> QED
    BY <2>4, MoveKeeps
<1>4. CASE A!Reap
  <2>1. pc \in {"reap", "reapAgain"} /\ ~open /\ current \in Proc /\ active = None
    BY <1>4 DEF A!Reap, LinkInv, Held, ActiveHeld
  <2>2. Starting /\ call.tries > 0 => fault
    BY <2>1 DEF LinkInv, Retries
  <2>3. pc = "reapAgain" => call.op # "close"
    BY DEF LinkInv, CallShape
  <2>4. CASE \E l \in {"reaped", "launch"} : Goto(l) /\ (l = "launch" => pc = "reapAgain")
    <3>1. PICK l \in {"reaped", "launch"} : Goto(l) /\ (l = "launch" => pc = "reapAgain")
      BY <2>4
    <3>2. Moves(call.tries, l)
      BY <2>1, <2>2, <2>3, <3>1 DEF Moves, Goto
    <3> QED
      BY <3>2, MoveKeeps
  <2>5. CASE fault' = TRUE /\ UNCHANGED <<callerVars, active, current, open, workerVars>>
             /\ \E n \in 0 .. 2, l \in {"reapAgain", "failed"} :
                  /\ call' = [call EXCEPT !.tries = n] /\ pc' = l
                  /\ l = "reapAgain" => Wanted = "start"
    <3>1. PICK n \in 0 .. 2, l \in {"reapAgain", "failed"} :
            /\ call' = [call EXCEPT !.tries = n] /\ pc' = l
            /\ l = "reapAgain" => Wanted = "start"
      BY <2>5
    <3>2. Moves(n, l)
      BY <2>1, <2>5, <3>1 DEF Moves
    <3> QED
      BY <3>2, MoveKeeps
  <2>6. proc[current] = "gone" => \E l \in {"reaped", "launch"} : Goto(l) /\ (l = "launch" => pc = "reapAgain")
    BY <1>4, <2>1, AudioCppShares DEF A!Reap
  <2>7. proc[current] # "gone" =>
          /\ fault' = TRUE /\ UNCHANGED <<callerVars, active, current, open, workerVars>>
          /\ \E n \in 0 .. 2, l \in {"reapAgain", "failed"} :
               /\ call' = [call EXCEPT !.tries = n] /\ pc' = l
               /\ l = "reapAgain" => Wanted = "start"
    <3> SUFFICES ASSUME proc[current] # "gone"
                 PROVE  /\ fault' = TRUE /\ UNCHANGED <<callerVars, active, current, open, workerVars>>
                        /\ \E n \in 0 .. 2, l \in {"reapAgain", "failed"} :
                             /\ call' = [call EXCEPT !.tries = n] /\ pc' = l
                             /\ l = "reapAgain" => Wanted = "start"
      OBVIOUS
    <3> DEFINE n == IF Wanted = "start" /\ call.tries = 0 THEN 1 ELSE call.tries
               l == IF call'.tries # call.tries THEN "reapAgain" ELSE "failed"
    <3>1. call' = [call EXCEPT !.tries = n] /\ pc' = l /\ fault' = TRUE
          /\ UNCHANGED <<callerVars, active, current, open, workerVars>>
      BY <1>4, AudioCppShares DEF A!Reap, A!callerVars, callerVars, A!workerVars, workerVars
    <3>2. n \in 0 .. 2 /\ call'.tries = n
      BY <3>1 DEF LinkInv, LinkTypes, Calling
    <3>3. l = "reapAgain" => Wanted = "start"
      BY <3>2
    <3> QED
      BY <3>1, <3>2, <3>3
  <2> QED
    BY <2>4, <2>5, <2>6, <2>7
<1>5. CASE A!Reaped
  <2>1. pc = "reaped" /\ ~open /\ current \in Proc /\ active = None
    BY <1>5 DEF A!Reaped, LinkInv, Held, ActiveHeld
  <2>2. CASE call.op = "close" /\ Finished(TRUE)
    BY <2>1, <2>2, GivenUp
  <2>3. CASE call.op # "close" /\ Again(1, "launch")
    <3>1. Moves(1, "launch")
      BY <2>1, <2>3 DEF Moves, Again
    <3> QED
      BY <3>1, MoveKeeps
  <2>4. CASE call.op # "close" /\ ~(Wanted = "start" /\ call.tries = 0) /\ Goto("failed")
    <3>1. Starting => fault
      BY <2>1, <2>4 DEF LinkInv, Retries
    <3>2. Moves(call.tries, "failed")
      BY <2>1, <2>4, <3>1 DEF Moves, Goto
    <3> QED
      BY <3>2, MoveKeeps
  <2> QED
    BY <1>5, <2>2, <2>3, <2>4, AudioCppShares DEF A!Reaped
<1>6. CASE A!Failed
  <2>1. pc = "failed" /\ ~open /\ active = None
    BY <1>6 DEF A!Failed, LinkInv, Held, ActiveHeld
  <2>2. CASE call.op = "load" /\ Again(2, "launch")
    <3>1. Starting = FALSE
      BY <2>2 DEF Starting
    <3>2. Moves(2, "launch")
      BY <2>1, <2>2, <3>1 DEF Moves, Again
    <3> QED
      BY <3>2, MoveKeeps
  <2>3. CASE (call.op = "close" /\ Finished(TRUE)) \/ Finished(FALSE)
    BY <2>1, <2>3, GivenUp
  <2>4. call.op = "close" => (call.op = "close") = TRUE
    OBVIOUS
  <2>5. call.op # "close" => (call.op = "close") = FALSE
    OBVIOUS
  <2> QED
    BY <1>6, <2>2, <2>3, <2>4, <2>5, AudioCppShares DEF A!Failed
<1> QED
  BY <1>1, <1>2, <1>3, <1>4, <1>5, <1>6, AudioCppShares, LaunchKeeps, WriteKeeps, NoReplyKeeps, HandshakeKeeps, ReceiveKeeps, LingerKeeps
     DEF A!Client, A!Spawn, A!Take

\* OpenVINO and whisper.cpp give a process up alike.
Forgetful == engine \in {"openvino-genai", "whispercpp"}

\* A call that finds no worker launches one.
LEMMA EnsureKeeps ==
  ASSUME LinkInv, UNCHANGED engine, Forgetful, pc = "send", current = 0, Goto("launch")
  PROVE  LinkInv'
<1>1. ~open /\ call.op # "close" /\ UNCHANGED <<callerVars, call, fault, active, current, open, workerVars>> /\ pc' = "launch"
  BY Numbers DEF Goto, LinkInv, Held, CallShape
<1>2. Moves(call.tries, "launch")
  BY <1>1, TriesFacts DEF Moves, Forgetful
<1> QED
  BY <1>2, MoveKeeps

\* A worker is asked to shut down.
LEMMA StopKeeps ==
  ASSUME LinkInv, UNCHANGED engine, Forgetful, pc = "stop", open' = FALSE, pc' = "linger",
         UNCHANGED <<callerVars, call, fault, active, current, workerVars>>
  PROVE  LinkInv'
<1>1. current \in Proc /\ (Starting /\ call.tries > 0 => fault)
  BY DEF LinkInv, Held, Retries, Forgetful
<1>2. Moves(call.tries, "linger")
  BY <1>1, TriesFacts DEF Moves, Forgetful
<1> QED
  BY <1>2, MoveKeeps

\* A worker is waited for.
LEMMA ReapKeeps ==
  ASSUME LinkInv, UNCHANGED engine, Forgetful, pc = "reap", pc' = "reaped", fault' \in {fault, TRUE},
         UNCHANGED <<callerVars, call, active, current, open, workerVars>>
  PROVE  LinkInv'
<1>1. current \in Proc /\ (Starting /\ call.tries > 0 => fault)
  BY DEF LinkInv, Held, Retries, Forgetful
<1>2. fault' \in BOOLEAN /\ (fault => fault')
  <2>1. fault \in BOOLEAN
    BY TriesFacts
  <2>2. CASE fault' = TRUE
    BY <2>2
  <2>3. CASE fault' = fault
    BY <2>1, <2>3
  <2> QED
    BY <2>2, <2>3
<1>3. Moves(call.tries, "reaped")
  BY <1>1, <1>2, TriesFacts DEF Moves, Forgetful
<1> QED
  BY <1>3, MoveKeeps

\* A worker is forgotten, and the stream it served.
LEMMA DisconnectKeeps ==
  ASSUME LinkInv, UNCHANGED engine, Forgetful, pc = "reaped", current' = 0, active' = None,
         UNCHANGED <<started, given, judged, open, workerVars>>,
         IF call.op = "close" THEN Return(TRUE) ELSE pc' = "failed" /\ UNCHANGED <<stream, call, fault>>
  PROVE  LinkInv'
<1>1. Starting /\ call.tries > 0 => fault
  BY DEF LinkInv, Retries, Forgetful
<1>2. CASE call.op = "close"
  <2>1. outbox' \in [Proc -> Seq(Replies)]
    BY DEF LinkInv, LinkTypes, workerVars
  <2>2. Returns(TRUE)
    BY <1>2, <2>1, TriesFacts DEF Returns, workerVars, Forgetful
  <2> QED
    BY <2>2, ReturnKeeps
<1>3. CASE call.op # "close"
  <2>1. Moves(call.tries, "failed")
    BY <1>1, <1>3, TriesFacts DEF Moves, callerVars, Forgetful
  <2> QED
    BY <2>1, MoveKeeps
<1> QED
  BY <1>2, <1>3

\* A second attempt, or the end of the first without one.
LEMMA SecondKeeps ==
  ASSUME LinkInv, UNCHANGED engine, Forgetful, pc = "failed",
         \/ call.op = "load" /\ Again(2, "launch")
         \/ Wanted = "start" /\ Again(2, "send")
         \/ Finished(FALSE)
  PROVE  LinkInv'
<1>1. current = 0 /\ active = None /\ ~open
  BY Numbers DEF LinkInv, ActiveHeld, Held, Forgetful
<1>2. CASE call.op = "load" /\ Again(2, "launch")
  <2>1. Moves(2, "launch")
    BY <1>1, <1>2, TriesFacts DEF Moves, Again, Forgetful
  <2> QED
    BY <2>1, MoveKeeps
<1>3. CASE Wanted = "start" /\ Again(2, "send")
  <2>1. Moves(2, "send")
    BY <1>1, <1>3, TriesFacts DEF Moves, Again, Forgetful
  <2> QED
    BY <2>1, MoveKeeps
<1>4. CASE Finished(FALSE)
  BY <1>1, <1>4, GivenUp
<1> QED
  BY <1>2, <1>3, <1>4

\* A step of a call on the OpenVINO engine.
LEMMA OpenVinoClientKeeps ==
  ASSUME LinkInv, UNCHANGED engine, engine = "openvino-genai", O!Client
  PROVE  LinkInv'
<1> DEFINE refused == \/ Wanted = "start" /\ active # None
                      \/ Wanted \in {"audio", "finish"} /\ active # call.s
           skipped == FALSE
<1>1. Forgetful
  BY DEF Forgetful
<1>2. CASE O!Ask
  <2>1. refused \in BOOLEAN /\ skipped \in BOOLEAN
    OBVIOUS
  <2>2. O!Proceed(refused, skipped)
    BY <1>2, OpenVinoShares DEF O!Ask, O!None, None
  <2> HIDE DEF refused, skipped
  <2>3. Proceed(refused, skipped)
    BY <2>1, <2>2, OpenVinoShares
  <2>4. (skipped => Wanted = "cancel" /\ active # call.s) /\ (refused => Wanted # "cancel") /\ (Wanted = "start" /\ active # None => refused)
    BY DEF refused, skipped
  <2> QED
    BY <2>1, <2>3, <2>4, ProceedKeeps
<1>3. CASE O!EnsureProcess
  BY <1>1, <1>3, OpenVinoShares, EnsureKeeps DEF O!EnsureProcess
<1>4. CASE O!Stop
  BY <1>1, <1>4, StopKeeps DEF O!Stop, O!callerVars, callerVars, O!workerVars, workerVars
<1>5. CASE O!Reap
  <2>1. /\ pc = "reap" /\ pc' = "reaped" /\ fault' \in {fault, TRUE}
        /\ UNCHANGED <<callerVars, call, active, current, open, workerVars>>
    BY <1>5, OpenVinoShares DEF O!Reap, Goto, O!callerVars, callerVars, O!workerVars, workerVars
  <2> QED
    BY <1>1, <2>1, ReapKeeps
<1>6. CASE O!Disconnect
  <2>1. /\ pc = "reaped" /\ current' = 0 /\ active' = None
        /\ UNCHANGED <<started, given, judged, open, workerVars>>
        /\ IF call.op = "close" THEN Return(TRUE) ELSE pc' = "failed" /\ UNCHANGED <<stream, call, fault>>
    BY <1>6, OpenVinoShares DEF O!Disconnect, O!None, None, O!workerVars, workerVars
  <2> QED
    BY <1>1, <2>1, DisconnectKeeps
<1>7. CASE O!Failed
  <2>1. /\ pc = "failed"
        /\ \/ call.op = "load" /\ Again(2, "launch")
           \/ Wanted = "start" /\ Again(2, "send")
           \/ Finished(FALSE)
    BY <1>7, OpenVinoShares DEF O!Failed
  <2> QED
    BY <1>1, <2>1, SecondKeeps
<1>8. CASE O!Spawn \/ O!Write \/ O!NoReply \/ O!Handshake \/ O!Take \/ O!Linger
  BY <1>8, OpenVinoShares, LaunchKeeps, WriteKeeps, NoReplyKeeps, HandshakeKeeps, ReceiveKeeps, LingerKeeps
     DEF O!Spawn, O!Take
<1> QED
  BY <1>2, <1>3, <1>4, <1>5, <1>6, <1>7, <1>8 DEF O!Client

\* A step of a call on the whisper.cpp engine.
LEMMA WhisperClientKeeps ==
  ASSUME LinkInv, UNCHANGED engine, engine = "whispercpp", W!Client
  PROVE  LinkInv'
<1> DEFINE refused == \/ Wanted = "start" /\ active # None
                      \/ Wanted \in {"audio", "finish"} /\ active # call.s
           skipped == Wanted = "cancel" /\ active # call.s
<1>1. Forgetful
  BY DEF Forgetful
<1>2. CASE W!Ask
  <2>1. refused \in BOOLEAN /\ skipped \in BOOLEAN
    OBVIOUS
  <2>2. W!Proceed(refused, skipped)
    BY <1>2, WhisperShares DEF W!Ask, W!None, None
  <2> HIDE DEF refused, skipped
  <2>3. Proceed(refused, skipped)
    BY <2>1, <2>2, WhisperShares
  <2>4. (skipped => Wanted = "cancel" /\ active # call.s) /\ (refused => Wanted # "cancel") /\ (Wanted = "start" /\ active # None => refused)
    BY DEF refused, skipped
  <2> QED
    BY <2>1, <2>3, <2>4, ProceedKeeps
<1>3. CASE W!EnsureProcess
  BY <1>1, <1>3, WhisperShares, EnsureKeeps DEF W!EnsureProcess
<1>4. CASE W!Stop
  BY <1>1, <1>4, StopKeeps DEF W!Stop, W!callerVars, callerVars, W!workerVars, workerVars
<1>5. CASE W!Reap
  <2>1. /\ pc = "reap" /\ pc' = "reaped" /\ fault' \in {fault, TRUE}
        /\ UNCHANGED <<callerVars, call, active, current, open, workerVars>>
    BY <1>5, WhisperShares DEF W!Reap, Goto, W!callerVars, callerVars, W!workerVars, workerVars
  <2> QED
    BY <1>1, <2>1, ReapKeeps
<1>6. CASE W!Disconnect
  <2>1. /\ pc = "reaped" /\ current' = 0 /\ active' = None
        /\ UNCHANGED <<started, given, judged, open, workerVars>>
        /\ IF call.op = "close" THEN Return(TRUE) ELSE pc' = "failed" /\ UNCHANGED <<stream, call, fault>>
    BY <1>6, WhisperShares DEF W!Disconnect, W!None, None, W!workerVars, workerVars
  <2> QED
    BY <1>1, <2>1, DisconnectKeeps
<1>7. CASE W!Failed
  <2>1. /\ pc = "failed"
        /\ \/ call.op = "load" /\ Again(2, "launch")
           \/ Wanted = "start" /\ Again(2, "send")
           \/ Finished(FALSE)
    BY <1>7, WhisperShares DEF W!Failed
  <2> QED
    BY <1>1, <2>1, SecondKeeps
<1>8. CASE W!Spawn \/ W!Write \/ W!NoReply \/ W!Handshake \/ W!Take \/ W!Linger
  BY <1>8, WhisperShares, LaunchKeeps, WriteKeeps, NoReplyKeeps, HandshakeKeeps, ReceiveKeeps, LingerKeeps
     DEF W!Spawn, W!Take
<1> QED
  BY <1>2, <1>3, <1>4, <1>5, <1>6, <1>7, <1>8 DEF W!Client

\* A step of a call on the trained-word engine.
LEMMA TrainedClientKeeps ==
  ASSUME LinkInv, UNCHANGED engine, engine = "trained", T!Client
  PROVE  LinkInv'
<1>1. CASE T!Ask
  <2>1. (Wanted = "start" /\ active # None) \in BOOLEAN
    OBVIOUS
  <2>2. Wanted # "cancel" /\ Proceed(Wanted = "start" /\ active # None, FALSE)
    BY <1>1, <2>1, TrainedShares DEF T!Ask, T!None, None
  <2> QED
    BY <2>1, <2>2, ProceedKeeps
<1>2. CASE T!Release
  <2>1. /\ pc = "request" /\ Wanted = "cancel" /\ active' = None /\ Return(TRUE)
        /\ UNCHANGED <<started, given, judged, current, open, proc, killed, serving, fed, inbox, outbox>>
    BY <1>2, TrainedShares DEF T!Release, T!None, None, T!workerVars
  <2>2. call.op = "cancel" /\ active = call.s
    BY <2>1, WantedFacts DEF LinkInv, LinkTypes, OneActive
  <2>3. outbox' \in [Proc -> Seq(Replies)]
    BY <2>1 DEF LinkInv, LinkTypes
  <2>4. open => proc[current] # "opening" /\ inbox[current] = <<>> /\ outbox[current] = <<>>
    BY <2>1 DEF LinkInv, Held, Pipes
  <2>5. Returns(TRUE)
    BY <2>1, <2>2, <2>3, <2>4 DEF Returns
  <2> QED
    BY <2>5, ReturnKeeps
<1>3. CASE T!Refuse
  <2>1. pc = "send" /\ Return(FALSE) /\ UNCHANGED <<started, given, judged, active, current, open, proc, killed, serving, fed, inbox, outbox>>
    BY <1>3, TrainedShares DEF T!Refuse, Finished, workerVars
  <2>2. call.op \in {"accept", "finish"}
    BY <2>1 DEF LinkInv, CallShape, OneActive
  <2>3. outbox' \in [Proc -> Seq(Replies)]
    BY <2>1 DEF LinkInv, LinkTypes
  <2>4. open => proc[current] # "opening" /\ inbox[current] = <<>> /\ outbox[current] = <<>>
    BY <2>1 DEF LinkInv, Held, Pipes
  <2>5. Returns(FALSE)
    BY <2>1, <2>2, <2>3, <2>4 DEF Returns
  <2> QED
    BY <2>5, ReturnKeeps
<1>4. CASE T!Terminate
  <2>1. /\ pc = "stop" /\ pc' = "reap" /\ ~open' /\ open' \in BOOLEAN
        /\ UNCHANGED <<callerVars, call, fault, active, current>>
        /\ \/ UNCHANGED workerVars
           \/ Kill /\ UNCHANGED proc
    BY <1>4, TrainedShares DEF T!Terminate, T!workerVars, workerVars, T!callerVars, callerVars
  <2>2. current \in Proc
    BY <2>1 DEF LinkInv, Held
  <2>3. Moves(call.tries, "reap")
    BY <2>1, <2>2, TriesFacts DEF Moves
  <2> QED
    BY <2>3, MoveKeeps
<1>5. CASE T!Waited \/ T!Failed
  <2>1. pc \in {"reap", "failed"} /\ ~open
    BY <1>5 DEF T!Waited, T!Failed, LinkInv, Held
  <2>2. call.op = "close" => (call.op = "close") = TRUE
    OBVIOUS
  <2>3. call.op # "close" => (call.op = "close") = FALSE
    OBVIOUS
  <2>4. Finished(FALSE) \/ (call.op = "close" /\ Finished(TRUE))
    BY <1>5, <2>2, <2>3, TrainedShares DEF T!Waited, T!Failed
  <2>5. call.op # "cancel"
    BY <2>1 DEF LinkInv, OneActive
  <2> QED
    BY <2>1, <2>4, <2>5, GivenUp
<1>6. CASE T!Spawn \/ T!Write \/ T!NoReply \/ T!Handshaken \/ T!Take
  BY <1>6, TrainedShares, LaunchKeeps, WriteKeeps, NoReplyKeeps, HandshakenKeeps, ReceiveKeeps
     DEF T!Spawn, T!Take
<1> QED
  BY <1>1, <1>2, <1>3, <1>4, <1>5, <1>6 DEF T!Client

\* Any step of the audio.cpp engine and its workers.
LEMMA AudioCppKeeps ==
  ASSUME LinkInv, UNCHANGED engine, engine = "audiocpp", A!Next
  PROVE  LinkInv'
<1>1. CASE A!Calls
  BY <1>1, AudioCppShares, EnterKeeps, DropStreamKeeps, DropBackendKeeps
     DEF A!Calls, A!Caller, A!StreamCall, A!Stream, Stream
<1>2. CASE A!Client
  BY <1>2, AudioCppClientKeeps
<1>3. ASSUME NEW p \in Proc, A!Worker(p)
      PROVE  LinkInv'
  BY <1>3, AudioCppShares, OpenedKeeps, EndsKeep, ServeOneKeeps DEF A!Worker, A!Turn
<1> QED
  BY <1>1, <1>2, <1>3 DEF A!Next, A!Proc, Proc

\* Any step of the OpenVINO engine and its workers.
LEMMA OpenVinoKeeps ==
  ASSUME LinkInv, UNCHANGED engine, engine = "openvino-genai", O!Next
  PROVE  LinkInv'
<1>1. CASE O!Calls
  BY <1>1, OpenVinoShares, EnterKeeps, DropStreamKeeps, DropBackendKeeps
     DEF O!Calls, O!Caller, O!StreamCall, O!Stream, Stream
<1>2. CASE O!Client
  BY <1>2, OpenVinoClientKeeps
<1>3. ASSUME NEW p \in Proc, O!Worker(p)
      PROVE  LinkInv'
  BY <1>3, OpenVinoShares, OpenedKeeps, EndsKeep, ServeOneKeeps DEF O!Worker, O!Turn
<1> QED
  BY <1>1, <1>2, <1>3 DEF O!Next, O!Proc, Proc

\* Any step of the whisper.cpp engine and its workers.
LEMMA WhisperKeeps ==
  ASSUME LinkInv, UNCHANGED engine, engine = "whispercpp", W!Next
  PROVE  LinkInv'
<1>1. CASE W!Calls
  BY <1>1, WhisperShares, EnterKeeps, DropStreamKeeps, DropBackendKeeps
     DEF W!Calls, W!Caller, W!StreamCall, W!Stream, Stream
<1>2. CASE W!Client
  BY <1>2, WhisperClientKeeps
<1>3. ASSUME NEW p \in Proc, W!Worker(p)
      PROVE  LinkInv'
  BY <1>3, WhisperShares, OpenedKeeps, EndsKeep, ServeOneKeeps DEF W!Worker, W!Turn
<1> QED
  BY <1>1, <1>2, <1>3 DEF W!Next, W!Proc, Proc

\* Any step of the trained-word engine and its workers.
LEMMA TrainedKeeps ==
  ASSUME LinkInv, UNCHANGED engine, engine = "trained", T!Next
  PROVE  LinkInv'
<1>1. CASE T!Calls
  BY <1>1, TrainedShares, EnterKeeps, DropStreamKeeps DEF T!Calls, T!StreamCall, T!Stream, Stream
<1>2. CASE T!Close
  BY <1>2, CloseKeeps
<1>3. CASE T!Client
  BY <1>3, TrainedClientKeeps
<1>4. ASSUME NEW p \in Proc, T!Worker(p)
      PROVE  LinkInv'
  BY <1>4, TrainedShares, OpenedKeeps, EndsKeep, TurnKeeps DEF T!Worker
<1> QED
  BY <1>1, <1>2, <1>3, <1>4 DEF T!Next, T!Proc, Proc

-----------------------------------------------------------------------------
(* What a step of a native engine promises. *)

Reason(s) == fault \/ s \in started \/ Busy \/ (engine = "trained" /\ ~open)
Promise ==
  /\ Contract!Next \/ UNCHANGED Contract!vars
  /\ \A s \in Stream : Fails(s) => Reason(s)

\* A step the caller does not see keeps every promise.
LEMMA StillPromise ==
  ASSUME UNCHANGED <<stream, given, judged, endedEarly>>
  PROVE  Promise
  BY DEF Promise, Fails, Contract!vars

\* A call that begins gives its frames.
LEMMA EnterPromise ==
  ASSUME LinkInv, UNCHANGED endedEarly, NEW s \in Stream, Accept(s) \/ FinishStream(s)
  PROVE  Promise
<1>1. PICK n \in 0 .. 2 :
        /\ stream[s] \in {"new", "open"} /\ stream' = [stream EXCEPT ![s] = "open"]
        /\ given' = [given EXCEPT ![s] = @ + n] /\ UNCHANGED judged
  BY DEF Accept, FinishStream, Enter
<1>2. given[s] \in Nat /\ stream \in [Stream -> Phases]
  BY DEF LinkInv, CallerTypes
<1>3. Contract!Give(s)
  <2>1. given[s] + n \in given[s] .. given[s] + 2 /\ given' = [given EXCEPT ![s] = given[s] + n]
    BY <1>1, <1>2
  <2> QED
    BY <1>1, <2>1 DEF Contract!Give
<1>4. \A t \in Stream : ~Fails(t)
  BY <1>1, <1>2 DEF Fails
<1> QED
  BY <1>3, <1>4 DEF Promise, Contract!Next

\* A stream that is dropped is closed.
LEMMA DropPromise ==
  ASSUME LinkInv, UNCHANGED endedEarly, NEW s \in Stream, DropStream(s)
  PROVE  Promise
<1>1. Contract!Close(s)
  BY DEF DropStream, Contract!Close
<1>2. \A t \in Stream : ~Fails(t)
  BY DEF Fails, DropStream, LinkInv, CallerTypes
<1> QED
  BY <1>1, <1>2 DEF Promise, Contract!Next

\* A call that returns has judged, finished or failed what the contract lets it.
LEMMA ReturnPromise ==
  ASSUME LinkInv, UNCHANGED <<given, endedEarly>>, NEW ok \in BOOLEAN, Return(ok),
         IF ok /\ call.op = "finish" THEN judged' = [judged EXCEPT ![call.s] = UpTo(given[call.s])]
                                     ELSE judged' = judged,
         ~ok /\ Starting => Reason(call.s)
  PROVE  Promise
<1>1. call.s = None \/ call.s \in Stream
  BY DEF LinkInv, LinkTypes, Calling
<1>2. CASE call.op \notin {"accept", "finish"} \/ (ok /\ call.op = "accept")
  <2>1. call.s = None \/ stream[call.s] = "closed" \/ (ok /\ call.op = "accept" /\ stream[call.s] = "open")
    BY <1>2 DEF LinkInv, LinkTypes, CallShape, Calling
  <2>2. stream' = stream /\ judged' = judged
    BY <1>1, <1>2, <2>1 DEF Return, LinkInv, CallerTypes
  <2> QED
    BY <2>2, StillPromise
<1>3. CASE call.op \in {"accept", "finish"} /\ ~(ok /\ call.op = "accept")
  <2>1. call.s \in Stream /\ call.s # None /\ stream[call.s] = "open" /\ stream \in [Stream -> Phases]
    BY <1>3, Numbers DEF LinkInv, CallShape, CallerTypes
  <2>2. CASE ok
    <3>1. /\ stream' = [stream EXCEPT ![call.s] = "finished"]
          /\ judged' = [judged EXCEPT ![call.s] = UpTo(given[call.s])]
      BY <1>3, <2>1, <2>2 DEF Return
    <3>2. given[call.s] \in Nat /\ Rest(call.s) \in Nat /\ Rest(call.s) =< given[call.s]
          /\ judged[call.s] = UpTo(given[call.s] - Rest(call.s))
      BY <2>1 DEF LinkInv, LinkTypes, CallerTypes, Exact, Rest, Calling
    <3>3. given[call.s] \in Len(judged[call.s]) .. given[call.s]
      <4>1. given[call.s] - Rest(call.s) \in Nat
        BY <3>2
      <4>2. Len(judged[call.s]) = given[call.s] - Rest(call.s)
        BY <3>2, <4>1, UpToFacts
      <4> QED
        BY <3>2, <4>2
    <3>4. Contract!Finish(call.s)
      BY <2>1, <3>1, <3>3 DEF Contract!Finish, UpTo
    <3>5. \A t \in Stream : ~Fails(t)
      BY <2>1, <3>1 DEF Fails
    <3> QED
      BY <2>1, <3>4, <3>5 DEF Promise, Contract!Next
  <2>3. CASE ~ok
    <3>1. stream' = [stream EXCEPT ![call.s] = "failed"] /\ judged' = judged
      BY <1>3, <2>1, <2>3 DEF Return
    <3>2. Contract!Fail(call.s)
      BY <2>1, <3>1 DEF Contract!Fail
    <3>3. ASSUME NEW t \in Stream, Fails(t)
          PROVE  Reason(t)
      <4>1. t = call.s
        BY <2>1, <3>1, <3>3 DEF Fails
      <4>2. Starting \/ t \in started
        BY <1>3, <4>1 DEF Starting
      <4> QED
        BY <2>3, <4>1, <4>2 DEF Reason
    <3> QED
      BY <2>1, <3>2, <3>3 DEF Promise, Contract!Next
  <2> QED
    BY <2>2, <2>3
<1> QED
  BY <1>2, <1>3

\* A call that ends without an answer: what has failed had a reason to.
LEMMA FinishedPromise ==
  ASSUME LinkInv, UNCHANGED endedEarly, NEW ok \in BOOLEAN, Finished(ok),
         ok => call.op # "finish", ~ok /\ Starting => Reason(call.s)
  PROVE  Promise
  BY ReturnPromise DEF Finished

\* While another stream starts, an active one is being served.
LEMMA ActiveIsBusy ==
  ASSUME LinkInv, call.op # "cancel", active # None
  PROVE  Busy
  BY DEF LinkInv, ActiveIsUsed, Busy

\* A frame that is answered goes on to the next, or ends the call.
LEMMA ProceedPromise ==
  ASSUME LinkInv, UNCHANGED endedEarly, NEW refused \in BOOLEAN, NEW skipped \in BOOLEAN,
         Proceed(refused, skipped), skipped => Wanted = "cancel",
         refused => (Wanted = "start" /\ active # None) \/ Wanted \in {"audio", "finish"}
  PROVE  Promise
<1>1. call \in Calling /\ call.op \in {"accept", "finish", "cancel"} /\ call.s \in Stream /\ call.s # None
  BY Numbers DEF Proceed, LinkInv, LinkTypes, CallShape, CallerTypes
<1>2. CASE Wanted = "none" \/ skipped
  <2>1. Finished(TRUE)
    BY <1>2 DEF Proceed
  <2>2. call.op # "finish"
    BY <1>1, <1>2, WantedFacts DEF Calling
  <2> QED
    BY <2>1, <2>2, FinishedPromise
<1>3. CASE ~(Wanted = "none" \/ skipped) /\ refused
  <2>1. Finished(FALSE)
    BY <1>3 DEF Proceed
  <2>2. Starting => Reason(call.s)
    <3>1. Starting => active # None /\ call.op # "cancel"
      BY <1>1, <1>3, WantedFacts DEF Starting
    <3> QED
      BY <3>1, ActiveIsBusy DEF Reason
  <2> QED
    BY <2>1, <2>2, FinishedPromise
<1>4. CASE ~(Wanted = "none" \/ skipped) /\ ~refused
  BY <1>4, StillPromise DEF Proceed, callerVars
<1> QED
  BY <1>2, <1>3, <1>4

\* The first reply of a worker concerns no frame.
LEMMA HandshakePromise ==
  ASSUME LinkInv, UNCHANGED endedEarly, Handshake
  PROVE  Promise
<1>1. CASE Return(TRUE) /\ call.op = "load"
  BY <1>1, ReturnPromise DEF Handshake
<1>2. CASE UNCHANGED stream
  BY <1>2, StillPromise DEF Handshake
<1> QED
  BY <1>1, <1>2 DEF Handshake

\* A reply judges what its request gave.
LEMMA ReceivePromise ==
  ASSUME LinkInv, UNCHANGED endedEarly, NEW severe, Receive(severe)
  PROVE  Promise
<1> DEFINE kind == IF Wanted \in {"start", "cancel"} THEN "ack" ELSE "result"
           good == Reply.kind = kind /\ Reply.s = call.s
           ends == ~good /\ Reply.kind \in severe
<1>1. /\ pc = "await" /\ outbox[current] # <<>>
      /\ judged' = IF good /\ Wanted \in {"audio", "finish"}
                   THEN [judged EXCEPT ![call.s] = Reply.fed] ELSE judged
      /\ IF good /\ Wanted \in {"start", "audio"} THEN UNCHANGED stream
         ELSE IF ends THEN UNCHANGED stream
         ELSE Return(good)
      /\ UNCHANGED given
  BY DEF Receive
<1>2. call \in Calling /\ call.s \in Stream /\ Answers(Reply) /\ Reply \in Replies
  BY <1>1, AwaitFacts
<1>3. /\ call.s # None /\ call.op \in {"accept", "finish", "cancel"} /\ call.left \in Nat
      /\ Wanted \in {"start", "audio", "finish", "cancel"}
      /\ Wanted = "start" <=> call.op # "cancel" /\ call.s \notin started
      /\ Wanted = "finish" => call.op = "finish" /\ call.left = 0
      /\ Wanted = "cancel" => call.op = "cancel"
      /\ Wanted = "audio" => call.left > 0 /\ stream[call.s] = "open"
  BY <1>1, <1>2, Numbers, WantedFacts DEF LinkInv, CallShape, Calling, Kinds
<1>4. Wanted = "start" /\ ~good => fault
  BY <1>2 DEF Answers, Replies
<1>5. Wanted = "audio" /\ good => Reply.fed = UpTo(given[call.s] - call.left + 1)
  BY <1>2 DEF Answers
<1>6. Wanted = "finish" /\ good => Reply.fed = UpTo(given[call.s])
  BY <1>2 DEF Answers
<1>7. good \in BOOLEAN
  OBVIOUS
<1> HIDE DEF good
<1>8. CASE good /\ Wanted = "audio"
  <2>1. judged' = [judged EXCEPT ![call.s] = UpTo(given[call.s] - call.left + 1)] /\ UNCHANGED <<stream, given>>
    BY <1>1, <1>5, <1>8
  <2>2. given[call.s] \in Nat /\ call.left =< given[call.s] /\ judged[call.s] = UpTo(given[call.s] - call.left)
    <3>1. Rest(call.s) = call.left
      BY DEF Rest
    <3> QED
      BY <1>2, <1>3, <1>8, <3>1 DEF LinkInv, CallerTypes, Exact
  <2>3. given[call.s] - call.left + 1 \in Len(judged[call.s]) .. given[call.s]
    <3>1. given[call.s] - call.left \in Nat
      BY <1>3, <2>2
    <3>2. Len(judged[call.s]) = given[call.s] - call.left
      BY <2>2, <3>1, UpToFacts
    <3> QED
      BY <1>3, <1>8, <2>2, <3>2
  <2>4. Contract!Judge(call.s)
    BY <1>3, <1>8, <2>1, <2>3 DEF Contract!Judge, UpTo
  <2>5. \A t \in Stream : ~Fails(t)
    BY <2>1 DEF Fails
  <2> QED
    BY <1>2, <2>4, <2>5 DEF Promise, Contract!Next
<1>9. CASE UNCHANGED stream /\ ~(good /\ Wanted = "audio") /\ judged' = judged
  BY <1>1, <1>9, StillPromise
<1>10. CASE ~(good /\ Wanted \in {"start", "audio"}) /\ ~ends
  <2>1. Return(good)
    BY <1>1, <1>10
  <2>2. IF good /\ call.op = "finish" THEN judged' = [judged EXCEPT ![call.s] = UpTo(given[call.s])]
                                      ELSE judged' = judged
    BY <1>1, <1>3, <1>6, <1>10
  <2>3. ~good /\ Starting => Reason(call.s)
    BY <1>3, <1>4 DEF Starting, Reason
  <2> QED
    BY <1>1, <1>7, <2>1, <2>2, <2>3, ReturnPromise
<1>11. ~(good /\ Wanted = "audio") /\ ((good /\ Wanted = "start") \/ ends) => judged' = judged /\ UNCHANGED stream
  BY <1>1
<1> QED
  BY <1>3, <1>8, <1>9, <1>10, <1>11

\* Steps that leave the caller's streams alone.
LEMMA QuietPromise ==
  ASSUME UNCHANGED endedEarly,
         \/ Write \/ Launch \/ NoReply \/ Linger \/ DropBackend
         \/ \E p \in Proc : Opened(p) \/ Eof(p) \/ Crash(p) \/ Die(p) \/ ServeOne(p, TRUE) \/ ServeOne(p, FALSE)
         \/ \E l : Goto(l)
         \/ \E n, l : Again(n, l)
  PROVE  Promise
<1>1. UNCHANGED <<stream, given, judged>>
  BY DEF Write, Launch, NoReply, Linger, DropBackend, Opened, Eof, Crash, Die, ServeOne, Goto, Again, callerVars
<1> QED
  BY <1>1, StillPromise

\* What any step of the audio.cpp engine promises.
LEMMA AudioCppPromise ==
  ASSUME LinkInv, UNCHANGED endedEarly, engine = "audiocpp", A!Next
  PROVE  Promise
<1>1. CASE A!Ask
  <2>1. (Wanted = "start" /\ active # None) \in BOOLEAN
    OBVIOUS
  <2>2. Proceed(Wanted = "start" /\ active # None, FALSE)
    BY <1>1, <2>1, AudioCppShares DEF A!Ask, A!None, None
  <2> QED
    BY <2>1, <2>2, ProceedPromise
<1>2. CASE A!SendClosed \/ A!Terminate \/ A!Reap
  <2>1. UNCHANGED <<stream, given, judged>>
    BY <1>2 DEF A!SendClosed, A!Terminate, A!Reap, A!Goto, A!callerVars
  <2> QED
    BY <2>1, StillPromise
<1>3. CASE A!Reaped
  <2>1. CASE call.op = "close" /\ Finished(TRUE)
    BY <2>1, FinishedPromise
  <2>2. CASE Again(1, "launch") \/ Goto("failed")
    BY <2>2, QuietPromise
  <2> QED
    BY <1>3, <2>1, <2>2, AudioCppShares DEF A!Reaped
<1>4. CASE A!Failed
  <2>1. CASE call.op = "close" /\ Finished(TRUE)
    BY <2>1, FinishedPromise
  <2>2. CASE Finished(FALSE)
    <3>1. Starting => fault
      BY <1>4 DEF A!Failed, LinkInv, Retries
    <3> QED
      BY <2>2, <3>1, FinishedPromise DEF Reason
  <2>3. CASE Again(2, "launch")
    BY <2>3, QuietPromise
  <2>4. call.op = "close" => (call.op = "close") = TRUE
    OBVIOUS
  <2>5. call.op # "close" => (call.op = "close") = FALSE
    OBVIOUS
  <2> QED
    BY <1>4, <2>1, <2>2, <2>3, <2>4, <2>5, AudioCppShares DEF A!Failed
<1>5. CASE A!Spawn \/ A!Write \/ A!NoReply \/ A!Linger \/ A!DropBackend
  BY <1>5, AudioCppShares, QuietPromise DEF A!Spawn
<1>6. CASE A!Handshake \/ A!Take
  BY <1>6, AudioCppShares, HandshakePromise, ReceivePromise DEF A!Take
<1>7. ASSUME NEW s \in Stream, A!Accept(s) \/ A!FinishStream(s) \/ A!DropStream(s)
      PROVE  Promise
  BY <1>7, AudioCppShares, EnterPromise, DropPromise
<1>8. ASSUME NEW p \in Proc, A!Worker(p)
      PROVE  Promise
  BY <1>8, AudioCppShares, QuietPromise DEF A!Worker, A!Turn
<1>9. CASE A!Client
  BY <1>9, <1>1, <1>2, <1>3, <1>4, <1>5, <1>6 DEF A!Client
<1>10. CASE A!Calls
  BY <1>10, <1>5, <1>7 DEF A!Calls, A!Caller, A!StreamCall, A!Stream, Stream
<1> QED
  BY <1>8, <1>9, <1>10 DEF A!Next, A!Proc, Proc

\* What any step of the OpenVINO engine promises.
LEMMA OpenVinoPromise ==
  ASSUME LinkInv, UNCHANGED endedEarly, engine = "openvino-genai", O!Next
  PROVE  Promise
<1> DEFINE refused == \/ Wanted = "start" /\ active # None
                      \/ Wanted \in {"audio", "finish"} /\ active # call.s
           skipped == FALSE
<1>1. CASE O!Ask
  <2>1. refused \in BOOLEAN /\ skipped \in BOOLEAN
    OBVIOUS
  <2>2. O!Proceed(refused, skipped)
    BY <1>1, OpenVinoShares DEF O!Ask, O!None, None
  <2> HIDE DEF refused, skipped
  <2>3. Proceed(refused, skipped)
    BY <2>1, <2>2, OpenVinoShares
  <2>4. (skipped => Wanted = "cancel") /\ (refused => (Wanted = "start" /\ active # None) \/ Wanted \in {"audio", "finish"})
    BY DEF refused, skipped
  <2> QED
    BY <2>1, <2>3, <2>4, ProceedPromise
<1>2. CASE O!EnsureProcess \/ O!Stop \/ O!Reap
  <2>1. UNCHANGED <<stream, given, judged>>
    BY <1>2 DEF O!EnsureProcess, O!Stop, O!Reap, O!Goto, O!callerVars
  <2> QED
    BY <2>1, StillPromise
<1>3. CASE O!Disconnect
  <2>1. CASE call.op = "close" /\ Return(TRUE)
    BY <1>3, <2>1, ReturnPromise DEF O!Disconnect
  <2>2. CASE UNCHANGED stream
    BY <1>3, <2>2, StillPromise DEF O!Disconnect
  <2> QED
    BY <1>3, <2>1, <2>2, OpenVinoShares DEF O!Disconnect
<1>4. CASE O!Failed
  <2>1. CASE ~(Wanted = "start" /\ call.tries = 0) /\ Finished(FALSE)
    <3>1. pc = "failed" /\ call.tries \in 0 .. 2
      BY <1>4, TriesFacts DEF O!Failed
    <3>2. Starting => fault
      BY <2>1, <3>1, TriesFacts DEF LinkInv, Retries
    <3> QED
      BY <2>1, <3>2, FinishedPromise DEF Reason
  <2>2. CASE Again(2, "launch") \/ Again(2, "send")
    BY <2>2, QuietPromise
  <2>3. call.op = "load" => Wanted # "start"
    BY Numbers, WantedFacts DEF LinkInv, LinkTypes, CallShape
  <2> QED
    BY <1>4, <2>1, <2>2, <2>3, OpenVinoShares DEF O!Failed
<1>5. CASE O!Spawn \/ O!Write \/ O!NoReply \/ O!Linger \/ O!DropBackend
  BY <1>5, OpenVinoShares, QuietPromise DEF O!Spawn
<1>6. CASE O!Handshake \/ O!Take
  BY <1>6, OpenVinoShares, HandshakePromise, ReceivePromise DEF O!Take
<1>7. ASSUME NEW s \in Stream, O!Accept(s) \/ O!FinishStream(s) \/ O!DropStream(s)
      PROVE  Promise
  BY <1>7, OpenVinoShares, EnterPromise, DropPromise
<1>8. ASSUME NEW p \in Proc, O!Worker(p)
      PROVE  Promise
  BY <1>8, OpenVinoShares, QuietPromise DEF O!Worker, O!Turn
<1>9. CASE O!Client
  BY <1>9, <1>1, <1>2, <1>3, <1>4, <1>5, <1>6 DEF O!Client
<1>10. CASE O!Calls
  BY <1>10, <1>5, <1>7 DEF O!Calls, O!Caller, O!StreamCall, O!Stream, Stream
<1> QED
  BY <1>8, <1>9, <1>10 DEF O!Next, O!Proc, Proc

\* What any step of the whisper.cpp engine promises.
LEMMA WhisperPromise ==
  ASSUME LinkInv, UNCHANGED endedEarly, engine = "whispercpp", W!Next
  PROVE  Promise
<1> DEFINE refused == \/ Wanted = "start" /\ active # None
                      \/ Wanted \in {"audio", "finish"} /\ active # call.s
           skipped == Wanted = "cancel" /\ active # call.s
<1>1. CASE W!Ask
  <2>1. refused \in BOOLEAN /\ skipped \in BOOLEAN
    OBVIOUS
  <2>2. W!Proceed(refused, skipped)
    BY <1>1, WhisperShares DEF W!Ask, W!None, None
  <2> HIDE DEF refused, skipped
  <2>3. Proceed(refused, skipped)
    BY <2>1, <2>2, WhisperShares
  <2>4. (skipped => Wanted = "cancel") /\ (refused => (Wanted = "start" /\ active # None) \/ Wanted \in {"audio", "finish"})
    BY DEF refused, skipped
  <2> QED
    BY <2>1, <2>3, <2>4, ProceedPromise
<1>2. CASE W!EnsureProcess \/ W!Stop \/ W!Reap
  <2>1. UNCHANGED <<stream, given, judged>>
    BY <1>2 DEF W!EnsureProcess, W!Stop, W!Reap, W!Goto, W!callerVars
  <2> QED
    BY <2>1, StillPromise
<1>3. CASE W!Disconnect
  <2>1. CASE call.op = "close" /\ Return(TRUE)
    BY <1>3, <2>1, ReturnPromise DEF W!Disconnect
  <2>2. CASE UNCHANGED stream
    BY <1>3, <2>2, StillPromise DEF W!Disconnect
  <2> QED
    BY <1>3, <2>1, <2>2, WhisperShares DEF W!Disconnect
<1>4. CASE W!Failed
  <2>1. CASE ~(Wanted = "start" /\ call.tries = 0) /\ Finished(FALSE)
    <3>1. pc = "failed" /\ call.tries \in 0 .. 2
      BY <1>4, TriesFacts DEF W!Failed
    <3>2. Starting => fault
      BY <2>1, <3>1, TriesFacts DEF LinkInv, Retries
    <3> QED
      BY <2>1, <3>2, FinishedPromise DEF Reason
  <2>2. CASE Again(2, "launch") \/ Again(2, "send")
    BY <2>2, QuietPromise
  <2>3. call.op = "load" => Wanted # "start"
    BY Numbers, WantedFacts DEF LinkInv, LinkTypes, CallShape
  <2> QED
    BY <1>4, <2>1, <2>2, <2>3, WhisperShares DEF W!Failed
<1>5. CASE W!Spawn \/ W!Write \/ W!NoReply \/ W!Linger \/ W!DropBackend
  BY <1>5, WhisperShares, QuietPromise DEF W!Spawn
<1>6. CASE W!Handshake \/ W!Take
  BY <1>6, WhisperShares, HandshakePromise, ReceivePromise DEF W!Take
<1>7. ASSUME NEW s \in Stream, W!Accept(s) \/ W!FinishStream(s) \/ W!DropStream(s)
      PROVE  Promise
  BY <1>7, WhisperShares, EnterPromise, DropPromise
<1>8. ASSUME NEW p \in Proc, W!Worker(p)
      PROVE  Promise
  BY <1>8, WhisperShares, QuietPromise DEF W!Worker, W!Turn
<1>9. CASE W!Client
  BY <1>9, <1>1, <1>2, <1>3, <1>4, <1>5, <1>6 DEF W!Client
<1>10. CASE W!Calls
  BY <1>10, <1>5, <1>7 DEF W!Calls, W!Caller, W!StreamCall, W!Stream, Stream
<1> QED
  BY <1>8, <1>9, <1>10 DEF W!Next, W!Proc, Proc

\* What any step of the trained-word engine promises.
LEMMA TrainedPromise ==
  ASSUME LinkInv, UNCHANGED endedEarly, engine = "trained", T!Next
  PROVE  Promise
<1>1. CASE T!Ask
  <2>1. (Wanted = "start" /\ active # None) \in BOOLEAN
    OBVIOUS
  <2>2. Wanted # "cancel" /\ Proceed(Wanted = "start" /\ active # None, FALSE)
    BY <1>1, <2>1, TrainedShares DEF T!Ask, T!None, None
  <2> QED
    BY <2>1, <2>2, ProceedPromise
<1>2. CASE T!Release
  <2>1. Return(TRUE) /\ UNCHANGED <<given, judged>> /\ call.op = "cancel"
    BY <1>2, TrainedShares, WantedFacts DEF T!Release, LinkInv, LinkTypes
  <2> QED
    BY <2>1, ReturnPromise
<1>3. CASE T!Refuse
  <2>1. Finished(FALSE) /\ (~open \/ Wanted = "audio")
    BY <1>3, TrainedShares DEF T!Refuse
  <2>2. Starting => Reason(call.s)
    BY <2>1, TriesFacts DEF Reason
  <2> QED
    BY <2>1, <2>2, FinishedPromise
<1>4. CASE T!Waited \/ T!Failed
  <2>1. ~open
    BY <1>4 DEF T!Waited, T!Failed, LinkInv, Held
  <2>2. CASE call.op = "close" /\ Finished(TRUE)
    BY <2>2, FinishedPromise
  <2>3. CASE Finished(FALSE)
    BY <2>1, <2>3, FinishedPromise DEF Reason
  <2>4. call.op = "close" => (call.op = "close") = TRUE
    OBVIOUS
  <2>5. call.op # "close" => (call.op = "close") = FALSE
    OBVIOUS
  <2> QED
    BY <1>4, <2>2, <2>3, <2>4, <2>5, TrainedShares DEF T!Waited, T!Failed
<1>5. CASE T!Terminate \/ T!Close
  <2>1. UNCHANGED <<stream, given, judged>>
    BY <1>5 DEF T!Terminate, T!Close, T!callerVars
  <2> QED
    BY <2>1, StillPromise
<1>6. CASE T!Spawn \/ T!Write \/ T!NoReply
  BY <1>6, TrainedShares, QuietPromise DEF T!Spawn
<1>7. CASE T!Handshaken
  <2>1. CASE Return(TRUE)
    <3>1. call.op # "finish"
      BY <1>7 DEF T!Handshaken, LinkInv, OneActive
    <3> QED
      BY <1>7, <2>1, <3>1, ReturnPromise DEF T!Handshaken
  <2>2. CASE UNCHANGED stream
    BY <1>7, <2>2, StillPromise DEF T!Handshaken
  <2> QED
    BY <1>7, <2>1, <2>2, TrainedShares DEF T!Handshaken
<1>8. CASE T!Take
  BY <1>8, TrainedShares, ReceivePromise DEF T!Take
<1>9. CASE T!Client
  BY <1>9, <1>1, <1>2, <1>3, <1>4, <1>5, <1>6, <1>7, <1>8 DEF T!Client
<1>10. CASE T!Calls
  BY <1>10, TrainedShares, EnterPromise, DropPromise DEF T!Calls, T!StreamCall, T!Stream, Stream
<1>11. ASSUME NEW p \in Proc, T!Worker(p)
       PROVE  Promise
  <2>1. CASE T!Turn(p)
    <3>1. UNCHANGED <<stream, given, judged>>
      BY <2>1 DEF T!Turn, T!callerVars
    <3> QED
      BY <3>1, StillPromise
  <2>2. CASE ~T!Turn(p)
    BY <1>11, <2>2, TrainedShares, QuietPromise DEF T!Worker
  <2> QED
    BY <2>1, <2>2
<1> QED
  BY <1>5, <1>9, <1>10, <1>11 DEF T!Next, T!Proc, Proc

\* The invariant holds before the load of a native engine.
LEMMA LinkInit ==
  ASSUME Init, engine \in Native
  PROVE  LinkInv
<1>1. /\ stream = [s \in Stream |-> "new"] /\ started = {}
      /\ given = [s \in Stream |-> 0] /\ judged = [s \in Stream |-> <<>>]
      /\ call = [op |-> "load", s |-> None, left |-> 0, tries |-> 0] /\ pc = "launch"
      /\ fault = FALSE /\ active = None /\ current = 0 /\ open = FALSE
      /\ proc = [p \in Proc |-> "unborn"] /\ killed = {}
      /\ serving = [p \in Proc |-> None] /\ fed = [p \in Proc |-> <<>>]
      /\ inbox = [p \in Proc |-> <<>>] /\ outbox = [p \in Proc |-> <<>>]
  BY DEF Init, ClientInit, NoCall
<1>2. CallerTypes
  BY <1>1 DEF CallerTypes, Phases
<1>3. LinkTypes
  <2>1. call \in Calling /\ pc \in Places /\ active \in Stream \cup {None} /\ current \in Proc \cup {0}
    BY <1>1 DEF Calling, Places
  <2>5. fault \in BOOLEAN /\ open \in BOOLEAN
    BY <1>1
  <2>2. proc \in [Proc -> {"unborn", "opening", "ready", "gone"}] /\ killed \subseteq Proc
        /\ serving \in [Proc -> Stream \cup {None}]
    BY <1>1
  <2>3. fed \in [Proc -> Seq(Int)]
    BY <1>1
  <2>4. inbox \in [Proc -> Seq(Requests)] /\ outbox \in [Proc -> Seq(Replies)]
    BY <1>1
  <2> QED
    BY <2>1, <2>2, <2>3, <2>4, <2>5 DEF LinkTypes
<1>4. CallShape
  BY <1>1 DEF CallShape
<1>5. Exact
  <2>1. \A s \in Stream : Rest(s) = 0
    BY <1>1 DEF Rest
  <2>2. ASSUME NEW s \in Stream
        PROVE  /\ 0 =< given[s] /\ judged[s] = UpTo(given[s] - 0) /\ 0 = given[s]
               /\ stream[s] = "new" /\ s \notin started /\ call.s # s
    <3>1. given[s] - 0 = 0
      BY <1>1
    <3> QED
      BY <1>1, <3>1, Numbers, UpToFacts
  <2> QED
    BY <2>1, <2>2 DEF Exact
<1>6. Held /\ Pipes /\ Recording
  BY <1>1 DEF Held, Pipes, Recording
<1>7. ActiveIsUsed /\ ActiveHeld /\ OneActive
  BY <1>1 DEF ActiveIsUsed, ActiveHeld, OneActive
<1>8. Retries
  BY <1>1 DEF Retries, Starting
<1> QED
  BY <1>2, <1>3, <1>4, <1>5, <1>6, <1>7, <1>8 DEF LinkInv

\* A step that changes nothing keeps the invariant.
LEMMA LinkUnchanged ==
  ASSUME LinkInv, UNCHANGED <<engine, linkVars>>
  PROVE  LinkInv'
<1>1. UNCHANGED <<engine, stream, started, given, judged, call, pc, fault, active, current, open,
                  proc, killed, serving, fed, inbox, outbox>>
  BY DEF linkVars, callerVars, clientVars, workerVars
<1> USE <1>1 DEF LinkInv
<1>2. CallerTypes' /\ LinkTypes' /\ ActiveIsUsed' /\ ActiveHeld'
  BY DEF CallerTypes, LinkTypes, ActiveIsUsed, ActiveHeld
<1>3. Wanted' = Wanted /\ Request' = Request /\ Reply' = Reply /\ (Starting' <=> Starting)
  <2>1. Wanted' = Wanted
    BY DEF Wanted
  <2> QED
    BY <2>1 DEF Request, Reply, Starting
<1>4. CallShape' /\ Held' /\ OneActive' /\ Retries'
  BY <1>3 DEF CallShape, Held, OneActive, Retries
<1>5. Exact'
  BY ExactKept DEF callerVars
<1>6. Pipes' /\ Recording'
  <2>1. \A r : Answers(r)' <=> Answers(r)
    BY <1>3 DEF Answers
  <2> QED
    BY <1>3, <2>1 DEF Pipes, Recording, Answers
<1> QED
  BY <1>2, <1>4, <1>5, <1>6

=============================================================================
