--------------------------- MODULE EngineProofs ---------------------------
(***************************************************************************)
(* The remote engines, for any number of frames, of utterances in flight   *)
(* and of messages on the wire; and, with those that WorkerProofs is       *)
(* about, the theorems of every engine: the inductive invariant, the       *)
(* refinement of StreamContract, and that nothing fails without a reason.  *)
(***************************************************************************)
EXTENDS WorkerProofs

-----------------------------------------------------------------------------
(* The remote engines: what their streams' invariants share. *)

One == 1
Judged == Len(judged[One])
RemoteCall == [op : {"none", "accept", "finish", "drop"}, left : Nat, ok : BOOLEAN]
RemoteTypes == CallerTypes /\ call \in RemoteCall /\ fault \in BOOLEAN /\ live \in BOOLEAN

\* What a call is about; a failed one has seen a fault; what is judged is a
\* beginning of what was given, all of it once a finish has succeeded.
RemoteShape ==
  /\ pc = "idle" => call.op = "none"
  /\ pc \notin {"idle", "ended"} => call.op # "none"
  /\ call.op = "none" => call.left = 0
  /\ call.op \in {"accept", "finish"} => stream[One] = "open" /\ call.left =< given[One]
  /\ call.op = "drop" => stream[One] = "closed" /\ pc \in {"drop", "join", "return"}
  /\ pc \in {"drop", "join"} => ~call.ok \/ call.op \in {"finish", "drop"}
  /\ pc \in {"drop", "join", "return"} /\ call.ok /\ call.op = "finish" =>
       judged[One] = UpTo(given[One]) \/ endedEarly
  /\ pc = "return" /\ call.op = "accept" /\ call.ok => call.left = 0
  /\ stream[One] = "new" => given[One] = 0 /\ pc = "idle"
  /\ stream[One] \in {"new", "open"} => Judged =< given[One] /\ judged[One] = UpTo(Judged)
  /\ ~call.ok => fault

\* The stream is worked on; one that has failed or finished is only torn down.
Working ==
  /\ stream[One] \in {"new", "open"}
  /\ pc \in {"idle", "feed", "poll", "enter", "await"} \/ (pc = "return" /\ call.ok /\ call.op = "accept")

\* A remote engine has a stream.
LEMMA OneIsAStream == One \in Stream
  BY StreamsAssumption DEF One, Stream

-----------------------------------------------------------------------------
(* The remote engine of one request for each utterance. *)

Replied == {"text", "error", "broken"}
Result == [n : Nat, reply : Replied]
WriterTypes == [at : {"none", "waiting", "asking", "telling", "gone"}, n : Nat, reply : {"none"} \cup Replied]
QueueTypes ==
  /\ pc \in {"idle", "feed", "poll", "drop", "join", "return", "ended"}
  /\ pending \in Nat /\ requests \in Seq(Nat)
  /\ writer \in WriterTypes /\ (writer.at = "telling" => writer.reply # "none")
  /\ child \in {"none", "ready", "gone"} /\ (child = "none" => writer.at = "none")
  /\ results \in Seq(Result)

\* The utterances from the last one judged on are the results, the one the
\* thread has, and the requests, in this order.
Has == IF writer.at \in {"asking", "telling"} THEN 1 ELSE 0
QueueOrder == Working =>
  /\ \A i \in 1 .. Len(results) : results[i].n = Judged + i
  /\ Has = 1 => writer.n = Judged + Len(results) + 1
  /\ \A i \in 1 .. Len(requests) : requests[i] = Judged + Len(results) + Has + i
  /\ pending = Len(results) + Has + Len(requests)
  /\ Judged + pending = given[One] - call.left
  /\ ~live /\ pc \in {"idle", "feed", "return"} => pending = 0

QueueFaults == Working =>
  /\ child = "gone" => fault
  /\ writer.at = "gone" => fault
  /\ writer.at \in {"asking", "telling"} /\ writer.reply \in {"error", "broken"} => fault
  /\ \A i \in 1 .. Len(results) : results[i].reply # "text" => fault

QueueInv == RemoteTypes /\ RemoteShape /\ QueueTypes /\ QueueOrder /\ QueueFaults

\* What a step of either remote engine promises is what it does to its stream.
Stands ==
  /\ Contract!Next \/ UNCHANGED Contract!vars
  /\ \A s \in Stream : Fails(s) => fault

\* A step the caller does not see keeps every promise.
LEMMA StillStands ==
  ASSUME UNCHANGED <<stream, given, judged, endedEarly>>
  PROVE  Stands
  BY DEF Stands, Fails, Contract!vars

\* A call begins.
Enters(op, n) ==
  /\ pc = "idle" /\ pc' = "feed"
  /\ stream[One] \in {"new", "open"} /\ stream' = [stream EXCEPT ![One] = "open"]
  /\ given' = [given EXCEPT ![One] = @ + n]
  /\ call' = [op |-> op, left |-> n, ok |-> TRUE]
  /\ UNCHANGED <<judged, fault, live, started, endedEarly>>

\* A call begins with its frames unqueued.
LEMMA RemoteEnter ==
  ASSUME RemoteTypes, RemoteShape, NEW op \in {"accept", "finish"}, NEW n \in 0 .. 2, Enters(op, n)
  PROVE  /\ RemoteTypes' /\ RemoteShape' /\ Stands /\ Working /\ Working' /\ Judged' = Judged /\ Judged \in Nat
         /\ call.left = 0 /\ call'.left = n /\ given'[One] = given[One] + n /\ given[One] \in Nat
         /\ call'.op = op /\ call'.ok
<1> USE OneIsAStream DEF Enters
<1>1. /\ call.op = "none" /\ call.left = 0 /\ given[One] \in Nat /\ given'[One] = given[One] + n
      /\ stream'[One] = "open" /\ call'.op = op /\ call'.left = n /\ call'.ok
  BY DEF RemoteTypes, RemoteShape, CallerTypes
<1>2. RemoteTypes'
  BY DEF RemoteTypes, CallerTypes, RemoteCall, Phases
<1>3. RemoteShape'
  BY <1>1 DEF RemoteTypes, RemoteShape, CallerTypes, Judged
<1>4. Working /\ Working' /\ Judged' = Judged /\ Judged \in Nat
  BY <1>1 DEF Working, Judged, RemoteTypes, CallerTypes
<1>5. Contract!Give(One)
  <2>1. given[One] + n \in given[One] .. given[One] + 2 /\ given' = [given EXCEPT ![One] = given[One] + n]
    BY <1>1
  <2> QED
    BY <2>1 DEF Contract!Give
<1>6. \A t \in Stream : ~Fails(t)
  BY DEF Fails, RemoteTypes, CallerTypes
<1> QED
  BY <1>1, <1>2, <1>3, <1>4, <1>5, <1>6 DEF Stands, Contract!Next

\* The stream is dropped.
LEMMA RemoteDrop ==
  ASSUME RemoteTypes, RemoteShape, pc = "idle", pc' = "drop",
         stream' = [stream EXCEPT ![One] = "closed"],
         given' = [given EXCEPT ![One] = 0], judged' = [judged EXCEPT ![One] = <<>>],
         call' = [op |-> "drop", left |-> 0, ok |-> TRUE],
         UNCHANGED <<fault, live, started, endedEarly>>
  PROVE  RemoteTypes' /\ RemoteShape' /\ Stands /\ ~Working'
<1> USE OneIsAStream
<1>1. stream'[One] = "closed" /\ call'.op = "drop" /\ call'.ok
  BY DEF RemoteTypes, CallerTypes
<1>2. RemoteTypes'
  BY DEF RemoteTypes, CallerTypes, RemoteCall, Phases
<1>3. RemoteShape'
  BY <1>1 DEF RemoteShape
<1>4. Contract!Close(One)
  BY DEF Contract!Close
<1>5. \A t \in Stream : ~Fails(t)
  BY DEF Fails, RemoteTypes, CallerTypes
<1> QED
  BY <1>1, <1>2, <1>3, <1>4, <1>5 DEF Working, Stands, Contract!Next

\* A step of something else than the caller's thread.
LEMMA RemoteFrame ==
  ASSUME RemoteTypes, RemoteShape, fault' \in BOOLEAN, fault => fault',
         UNCHANGED <<stream, started, given, judged, call, pc, live, endedEarly>>
  PROVE  RemoteTypes' /\ RemoteShape' /\ Stands /\ (Working' <=> Working) /\ Judged' = Judged
<1>1. RemoteTypes'
  BY DEF RemoteTypes, CallerTypes
<1>2. RemoteShape' /\ Judged' = Judged
  BY DEF RemoteShape, Judged
<1>3. Working' <=> Working
  BY DEF Working
<1> QED
  BY <1>1, <1>2, <1>3, StillStands

\* The call fails, for a fault.
LEMMA RemoteFails ==
  ASSUME RemoteTypes, RemoteShape, pc \in {"feed", "poll", "enter", "await"}, pc' = "drop", Working,
         call' = [call EXCEPT !.ok = FALSE], fault' \in BOOLEAN, fault',
         UNCHANGED <<stream, started, given, judged, live, endedEarly>>
  PROVE  RemoteTypes' /\ RemoteShape' /\ Stands /\ ~Working'
<1>1. call'.op = call.op /\ call'.left = call.left /\ call'.ok = FALSE /\ call' \in RemoteCall
  BY DEF RemoteTypes, RemoteCall
<1>2. RemoteTypes'
  BY <1>1 DEF RemoteTypes, CallerTypes
<1>3. RemoteShape'
  BY <1>1 DEF RemoteShape, Judged
<1>4. ~Working'
  BY DEF Working
<1> QED
  BY <1>2, <1>3, <1>4, StillStands

\* The call goes on, or its worker is dropped.
LEMMA RemoteMoves ==
  ASSUME RemoteTypes, RemoteShape, pc \notin {"idle", "ended"},
         pc' \in {"feed", "enter", "poll", "await", "drop", "join", "return"},
         call.op = "drop" => pc' \in {"join", "return"},
         pc' \in {"drop", "join"} => ~call.ok \/ call.op \in {"finish", "drop"},
         pc' \in {"drop", "join", "return"} /\ call.ok /\ call.op = "finish" => judged[One] = UpTo(given[One]) \/ endedEarly,
         pc' = "return" /\ call.op = "accept" /\ call.ok => call.left = 0,
         UNCHANGED <<stream, started, given, judged, call, fault, live, endedEarly>>
  PROVE  RemoteTypes' /\ RemoteShape' /\ Stands /\ Judged' = Judged
<1>1. RemoteTypes'
  BY DEF RemoteTypes, CallerTypes
<1>2. RemoteShape' /\ Judged' = Judged
  BY DEF RemoteShape, Judged
<1> QED
  BY <1>1, <1>2, StillStands

\* The call returns.
LEMMA RemoteReturns ==
  ASSUME RemoteTypes, RemoteShape, pc = "return", pc' = IF call.op = "drop" THEN "ended" ELSE "idle",
         call' = [op |-> "none", left |-> 0, ok |-> TRUE],
         stream' = IF call.op = "drop" THEN stream
                   ELSE [stream EXCEPT ![One] =
                           IF ~call.ok THEN "failed" ELSE IF call.op = "finish" THEN "finished" ELSE "open"],
         fault' = (fault /\ call.ok), UNCHANGED <<given, judged, live, started, endedEarly>>
  PROVE  /\ RemoteTypes' /\ RemoteShape' /\ Stands /\ Judged' = Judged
         /\ Working' => Working /\ call.left = 0 /\ call'.left = 0
<1> USE OneIsAStream
<1>1. /\ call'.op = "none" /\ call'.left = 0 /\ call'.ok /\ Judged' = Judged
      /\ call \in RemoteCall /\ call.op \in {"accept", "finish", "drop"}
      /\ call.op = "drop" => stream[One] = "closed"
      /\ call.op # "drop" => stream[One] = "open"
      /\ stream \in [Stream -> Phases]
  BY DEF RemoteTypes, RemoteShape, RemoteCall, CallerTypes, Judged
<1>2. RemoteTypes'
  BY <1>1 DEF RemoteTypes, CallerTypes, RemoteCall, Phases
<1>3. /\ call.op = "drop" => stream' = stream
      /\ call.op # "drop" /\ ~call.ok => stream' = [stream EXCEPT ![One] = "failed"]
      /\ call.op = "finish" /\ call.ok => stream' = [stream EXCEPT ![One] = "finished"]
      /\ call.op = "accept" /\ call.ok => stream' = [stream EXCEPT ![One] = "open"]
  BY <1>1
<1>4. stream'[One] \in {"new", "open"} => stream[One] = "open" /\ call.op = "accept" /\ call.ok
  BY <1>1, <1>3
<1>5. RemoteShape'
  BY <1>1, <1>4 DEF RemoteShape
<1>6. Working' => Working /\ call.left = 0 /\ call'.left = 0
  BY <1>1, <1>4 DEF Working, RemoteShape
<1>7. CASE call.op = "drop" \/ (call.op = "accept" /\ call.ok)
  <2>1. stream' = stream
    BY <1>1, <1>3, <1>7
  <2> QED
    BY <1>1, <1>2, <1>5, <1>6, <2>1, StillStands
<1>8. CASE call.op # "drop" /\ ~call.ok
  <2>1. Contract!Fail(One) /\ fault
    BY <1>1, <1>3, <1>8 DEF Contract!Fail, RemoteShape
  <2> QED
    BY <1>1, <1>2, <1>5, <1>6, <2>1 DEF Stands, Contract!Next
<1>9. CASE call.op = "finish" /\ call.ok
  <2>1. Judged \in Nat /\ given[One] \in Nat /\ judged[One] = UpTo(Judged) /\ Judged =< given[One]
        /\ (judged[One] = UpTo(given[One]) \/ endedEarly)
    BY <1>1, <1>9 DEF RemoteTypes, RemoteShape, CallerTypes, Judged
  <2>2. judged[One] = UpTo(given[One]) => Judged = given[One]
    BY <2>1, UpToFacts DEF Judged
  <2>3. judged' = [judged EXCEPT ![One] = UpTo(Judged)]
    BY <2>1 DEF RemoteTypes, CallerTypes
  <2>4. Contract!Finish(One)
    <3>1. Judged \in Len(judged[One]) .. given[One] /\ (Judged = given[One] \/ endedEarly)
      BY <2>1, <2>2 DEF Judged
    <3> QED
      BY <1>1, <1>3, <1>9, <2>3, <3>1 DEF Contract!Finish, UpTo
  <2>5. \A t \in Stream : ~Fails(t)
    BY <1>1, <1>3, <1>9 DEF Fails
  <2> QED
    BY <1>1, <1>2, <1>5, <1>6, <2>4, <2>5 DEF Stands, Contract!Next
<1> QED
  BY <1>1, <1>7, <1>8, <1>9

\* An answer reaches the stream: n pieces are judged now.
LEMMA RemoteJudges ==
  ASSUME RemoteTypes, RemoteShape, pc \in {"poll", "await"}, Working,
         NEW n \in Nat, Judged =< n, n =< given[One],
         judged' = [judged EXCEPT ![One] = UpTo(n)],
         UNCHANGED <<stream, started, given, call, pc, fault, live, endedEarly>>
  PROVE  RemoteTypes' /\ RemoteShape' /\ Stands /\ Working' /\ Judged' = n
<1> USE OneIsAStream
<1>1. judged'[One] = UpTo(n) /\ UpTo(n) \in Seq(Int) /\ Judged' = n /\ Judged \in Nat /\ given[One] \in Nat
  BY UpToFacts DEF RemoteTypes, CallerTypes, Judged
<1>2. stream[One] = "open"
  BY DEF Working, RemoteShape
<1>3. RemoteTypes'
  BY <1>1 DEF RemoteTypes, CallerTypes
<1>4. RemoteShape'
  BY <1>1, <1>2 DEF RemoteShape
<1>5. Contract!Judge(One)
  <2>1. n \in Len(judged[One]) .. given[One]
    BY <1>1 DEF Judged
  <2> QED
    BY <1>2, <2>1 DEF Contract!Judge, UpTo
<1>6. \A t \in Stream : ~Fails(t)
  BY DEF Fails
<1> QED
  BY <1>1, <1>3, <1>4, <1>5, <1>6 DEF Working, Stands, Contract!Next

\* A call that is at work is on a stream that is worked on.
LEMMA AtWork ==
  ASSUME RemoteTypes, RemoteShape, pc \in {"feed", "poll", "enter", "await"}
  PROVE  Working /\ call.op \in {"accept", "finish"} /\ stream[One] = "open"
  BY DEF RemoteTypes, RemoteShape, RemoteCall, Working

\* The first of a channel is taken.
LEMMA Taken ==
  ASSUME NEW S, NEW L \in Seq(S), L # <<>>
  PROVE  /\ Len(L) \in Nat \ {0} /\ Head(L) = L[1] /\ Head(L) \in S
         /\ Tail(L) \in Seq(S) /\ Len(Tail(L)) = Len(L) - 1
         /\ \A i \in 1 .. Len(Tail(L)) : Tail(L)[i] = L[i + 1]
<1>1. Head(L) \in S /\ Tail(L) \in Seq(S) /\ Len(Tail(L)) = Len(L) - 1
  BY HeadTailProperties
<1>2. Len(L) \in Nat \ {0} /\ Head(L) = L[1]
  OBVIOUS
<1>3. \A i \in 1 .. Len(L) - 1 : Tail(L)[i] = L[i + 1]
  OBVIOUS
<1> QED
  BY <1>1, <1>2, <1>3

-----------------------------------------------------------------------------
(* The steps of CloudQueue. *)

queueSide == <<pending, requests, writer, child, results>>

\* The queue's own invariants hold on while nothing of it changes.
LEMMA QueueKept ==
  ASSUME QueueTypes, QueueOrder, QueueFaults, UNCHANGED queueSide, Working' /\ fault => fault',
         pc' \in {"idle", "feed", "poll", "drop", "join", "return", "ended"},
         pc = "join" => pc' = "join",
         Working' => /\ Working /\ Judged' = Judged /\ live' = live
                     /\ given'[One] - call'.left = given[One] - call.left
                     /\ ~live /\ pc' \in {"idle", "feed", "return"} => pc \in {"idle", "feed", "return"} \/ pending = 0
  PROVE  QueueTypes' /\ QueueOrder' /\ QueueFaults'
<1> USE DEF queueSide
<1>1. QueueTypes'
  BY DEF QueueTypes
<1>2. QueueFaults'
  BY DEF QueueFaults
<1>3. Has' = Has
  BY DEF Has
<1>4. QueueOrder'
  BY <1>3 DEF QueueOrder
<1> QED
  BY <1>1, <1>2, <1>4

\* The caller's own steps: a frame that is queued, an answer that is taken, a stream that is
\* dropped.
LEMMA QueueCallerKeeps ==
  ASSUME QueueInv, UNCHANGED <<started, endedEarly>>, Q!Caller
  PROVE  QueueInv' /\ Stands
<1>1. CASE Q!Accept \/ Q!FinishStream
  <2>1. PICK op \in {"accept", "finish"}, n \in 0 .. 2 : Enters(op, n) /\ UNCHANGED queueSide
    BY <1>1 DEF Q!Accept, Q!FinishStream, Q!Enter, Q!s, One, Q!cloudVars, Enters, queueSide
  <2>2. /\ RemoteTypes' /\ RemoteShape' /\ Stands /\ Working /\ Working' /\ Judged' = Judged
        /\ call.left = 0 /\ call'.left = n /\ given'[One] = given[One] + n /\ given[One] \in Nat
    BY <2>1, RemoteEnter DEF QueueInv
  <2>3. given'[One] - call'.left = given[One] - call.left
    BY <2>2
  <2>4. pc = "idle" /\ pc' = "feed" /\ fault' = fault /\ live' = live
    BY <2>1 DEF Enters
  <2>5. QueueTypes' /\ QueueOrder' /\ QueueFaults'
    BY <2>1, <2>2, <2>3, <2>4, QueueKept DEF QueueInv
  <2> QED
    BY <2>2, <2>5 DEF QueueInv
<1>2. CASE Q!DropStream
  <2>1. RemoteTypes' /\ RemoteShape' /\ Stands /\ ~Working'
    BY <1>2, RemoteDrop DEF QueueInv, Q!DropStream, Q!s, One, Q!NoCall, Q!cloudVars
  <2>2. pc = "idle" /\ pc' = "drop" /\ fault' = fault /\ UNCHANGED queueSide
    BY <1>2 DEF Q!DropStream, Q!cloudVars, queueSide
  <2>3. QueueTypes' /\ QueueOrder' /\ QueueFaults'
    BY <2>1, <2>2, QueueKept DEF QueueInv
  <2> QED
    BY <2>1, <2>3 DEF QueueInv
<1> QED
  BY <1>1, <1>2 DEF Q!Caller

\* The call fails.
LEMMA QueueFailsKeeps ==
  ASSUME QueueInv, UNCHANGED <<started, endedEarly>>,
         pc \in {"feed", "poll"}, Q!Fails, fault' \in BOOLEAN, fault', Working,
         UNCHANGED <<stream, given, judged, live, pending, requests, writer, child>>,
         results' \in Seq(Result)
  PROVE  QueueInv' /\ Stands
<1>1. pc' = "drop" /\ call' = [call EXCEPT !.ok = FALSE]
  BY DEF Q!Fails
<1>2. RemoteTypes' /\ RemoteShape' /\ Stands /\ ~Working'
  BY <1>1, RemoteFails DEF QueueInv
<1>3. QueueTypes' /\ QueueOrder' /\ QueueFaults'
  BY <1>1, <1>2 DEF QueueInv, QueueTypes, QueueOrder, QueueFaults
<1> QED
  BY <1>2, <1>3 DEF QueueInv

\* The worker's thread is started, or cannot be.
LEMMA QueueStartKeeps ==
  ASSUME QueueInv, UNCHANGED <<started, endedEarly>>, Q!StartWorker
  PROVE  QueueInv' /\ Stands
<1>1. /\ pc = "feed" /\ child = "none"
      /\ UNCHANGED <<stream, given, judged, live, pending, requests, results>>
  BY DEF Q!StartWorker
<1>2. Working
  BY <1>1, AtWork DEF QueueInv
<1>3. CASE child' = "ready" /\ writer' = [at |-> "waiting", n |-> 0, reply |-> "none"] /\ UNCHANGED <<call, pc, fault>>
  <2>1. RemoteTypes' /\ RemoteShape' /\ Stands /\ (Working' <=> Working) /\ Judged' = Judged
    BY <1>1, <1>3, RemoteFrame DEF QueueInv, RemoteTypes
  <2>2. QueueTypes'
    BY <1>1, <1>3 DEF QueueInv, QueueTypes, WriterTypes
  <2>3. Has = 0 /\ Has' = 0
    BY <1>1, <1>3 DEF QueueInv, QueueTypes, Has
  <2>4. QueueOrder'
    BY <1>1, <1>3, <2>1, <2>3 DEF QueueInv, QueueOrder
  <2>5. QueueFaults'
    BY <1>1, <1>2, <1>3 DEF QueueInv, QueueFaults
  <2> QED
    BY <2>1, <2>2, <2>4, <2>5 DEF QueueInv
<1>4. CASE Q!Fails /\ fault' = TRUE /\ UNCHANGED <<child, writer>>
  BY <1>1, <1>2, <1>4, QueueFailsKeeps DEF QueueInv, QueueTypes
<1> QED
  BY <1>3, <1>4 DEF Q!StartWorker, Q!NoWriter

\* An utterance is submitted, or there is no room for it.
LEMMA QueueSubmitKeeps ==
  ASSUME QueueInv, UNCHANGED <<started, endedEarly>>, Q!Submit
  PROVE  QueueInv' /\ Stands
<1>1. /\ pc = "feed" /\ call.left > 0 /\ child # "none"
      /\ UNCHANGED <<stream, given, judged, live, writer, child, results>>
  BY DEF Q!Submit
<1>2. Working /\ call.op \in {"accept", "finish"} /\ stream[One] = "open"
  BY <1>1, AtWork DEF QueueInv
<1>3. CASE pending < 3 /\ Len(requests) < Q!RequestSlots /\ writer.at # "gone"
  <2>1. /\ requests' = Append(requests, given[One] - call.left + 1)
        /\ pending' = pending + 1 /\ call' = [call EXCEPT !.left = @ - 1]
        /\ pc' = "poll" /\ UNCHANGED fault
    BY <1>3 DEF Q!Submit, Q!s, One
  <2>2. /\ call' \in RemoteCall /\ call'.op = call.op /\ call'.ok = call.ok /\ call'.left = call.left - 1
        /\ call.left \in Nat /\ given[One] \in Nat /\ call.left =< given[One] /\ Judged \in Nat
    <3>1. call \in RemoteCall /\ call.left - 1 \in Nat
      BY <1>1 DEF QueueInv, RemoteTypes, RemoteCall
    <3>2. /\ call' \in RemoteCall /\ call'.op = call.op /\ call'.ok = call.ok /\ call'.left = call.left - 1
          /\ call.left \in Nat
      BY <2>1, <3>1 DEF RemoteCall
    <3>3. given[One] \in Nat /\ call.left =< given[One] /\ Judged \in Nat
      BY <1>2, OneIsAStream DEF QueueInv, RemoteTypes, RemoteShape, CallerTypes, Judged
    <3> QED
      BY <3>2, <3>3
  <2>3. RemoteTypes' /\ Judged' = Judged /\ Working'
    BY <1>1, <1>2, <2>1, <2>2 DEF QueueInv, RemoteTypes, CallerTypes, Judged, Working
  <2>4. RemoteShape'
    BY <1>1, <1>2, <2>1, <2>2, <2>3 DEF QueueInv, RemoteShape
  <2>5. Stands
    BY <1>1, StillStands
  <2>6. QueueTypes'
    <3>1. given[One] - call.left + 1 \in Nat
      BY <2>2
    <3> QED
      BY <1>1, <2>1, <3>1 DEF QueueInv, QueueTypes
  <2>7. QueueOrder'
    <3>1. Has' = Has /\ Has \in {0, 1}
      BY <1>1 DEF Has
    <3>2. /\ requests \in Seq(Nat) /\ Len(requests') = Len(requests) + 1
          /\ requests'[Len(requests) + 1] = given[One] - call.left + 1
          /\ \A i \in 1 .. Len(requests) : requests'[i] = requests[i]
      BY <2>1, <2>2 DEF QueueInv, QueueTypes
    <3>3. /\ Len(results) \in Nat /\ pending \in Nat
          /\ pending = Len(results) + Has + Len(requests)
          /\ Judged + pending = given[One] - call.left
      BY <1>2 DEF QueueInv, QueueTypes, QueueOrder
    <3>4. requests'[Len(requests) + 1] = Judged + Len(results) + Has + (Len(requests) + 1)
      BY <2>2, <3>1, <3>2, <3>3
    <3>5. \A i \in 1 .. Len(requests') : requests'[i] = Judged + Len(results) + Has + i
      BY <1>2, <3>2, <3>4 DEF QueueInv, QueueOrder
    <3>6. pending' = Len(results) + Has + Len(requests') /\ Judged + pending' = given[One] - call'.left
      <4>1. pending' = pending + 1 /\ Len(requests) \in Nat
        BY <2>1, <3>2
      <4>2. Len(requests') = Len(requests) + 1 /\ Has \in Nat
        BY <3>1, <3>2
      <4>3. pending' = Len(results) + Has + Len(requests')
        BY <3>3, <4>1, <4>2
      <4>4. call'.left = call.left - 1 /\ call.left \in Nat /\ given[One] \in Nat /\ Judged \in Nat
        BY <2>2
      <4>5. \A a, b, p, q \in Nat : a + b = p - q => a + (b + 1) = p - (q - 1)
        OBVIOUS
      <4>6. Judged + (pending + 1) = given[One] - (call.left - 1)
        BY <3>3, <4>4, <4>5
      <4> QED
        BY <4>1, <4>3, <4>4, <4>6
    <3> QED
      BY <1>1, <1>2, <2>1, <2>3, <3>1, <3>5, <3>6 DEF QueueInv, QueueOrder
  <2>8. QueueFaults'
    BY <1>1, <1>2, <2>1 DEF QueueInv, QueueFaults
  <2> QED
    BY <2>3, <2>4, <2>5, <2>6, <2>7, <2>8 DEF QueueInv
<1>4. CASE ~(pending < 3 /\ Len(requests) < Q!RequestSlots /\ writer.at # "gone")
  <2>1. Q!Fails /\ fault' = (fault \/ live) /\ UNCHANGED <<requests, pending>>
    BY <1>4 DEF Q!Submit
  <2>2. fault' \in BOOLEAN /\ fault'
    <3>1. CASE live
      BY <2>1, <3>1
    <3>2. CASE ~live
      <4>1. pending = 0 /\ Len(requests) = 0
        BY <1>1, <1>2, <3>2 DEF QueueInv, QueueOrder, QueueTypes, Has
      <4>2. writer.at = "gone"
        BY <1>4, <4>1 DEF Q!RequestSlots
      <4>3. fault
        BY <1>1, <1>2, <4>2 DEF QueueInv, QueueFaults
      <4> QED
        BY <2>1, <4>3
    <3> QED
      BY <3>1, <3>2
  <2>3. results' \in Seq(Result)
    BY <1>1 DEF QueueInv, QueueTypes
  <2> QED
    BY <1>1, <1>2, <2>1, <2>2, <2>3, QueueFailsKeeps
<1> QED
  BY <1>3, <1>4

\* An answer is taken.
LEMMA QueuePollKeeps ==
  ASSUME QueueInv, UNCHANGED <<started, endedEarly>>, Q!Poll
  PROVE  QueueInv' /\ Stands
<1>1. /\ pc = "poll" /\ pending > 0 /\ results # <<>> /\ results' = Tail(results)
      /\ UNCHANGED <<stream, given, fault, live, requests, writer, child>>
  BY DEF Q!Poll
<1>2. Working
  BY <1>1, AtWork DEF QueueInv
<1>3. /\ results \in Seq(Result) /\ Len(results) > 0
      /\ results' \in Seq(Result) /\ Len(results') = Len(results) - 1
      /\ \A i \in 1 .. Len(results') : results'[i] = results[i + 1]
      /\ Head(results) = results[1] /\ Head(results) \in Result
  <2>1. results \in Seq(Result)
    BY DEF QueueInv, QueueTypes
  <2> QED
    BY <1>1, <2>1, Taken
<1>4. CASE Head(results).reply = "text"
  <2>1. /\ judged' = [judged EXCEPT ![One] = Append(@, Head(results).n)]
        /\ pending' = pending - 1 /\ UNCHANGED <<call, pc>>
    BY <1>4 DEF Q!Poll, Q!s, One
  <2>2. /\ Judged \in Nat /\ judged[One] = UpTo(Judged) /\ given[One] \in Nat /\ call.left \in Nat /\ pending \in Nat
        /\ Head(results).n = Judged + 1 /\ Judged + pending = given[One] - call.left
    BY <1>2, <1>3, OneIsAStream
    DEF QueueInv, RemoteTypes, RemoteShape, RemoteCall, CallerTypes, Working, Judged, QueueTypes, QueueOrder
  <2>3. judged' = [judged EXCEPT ![One] = UpTo(Judged + 1)]
    BY <2>1, <2>2, UpToFacts
  <2>4. Judged + 1 \in Nat /\ Judged =< Judged + 1 /\ Judged + 1 =< given[One]
    BY <1>1, <2>2
  <2>5. RemoteTypes' /\ RemoteShape' /\ Stands /\ Working' /\ Judged' = Judged + 1
    BY <1>1, <1>2, <2>1, <2>3, <2>4, RemoteJudges DEF QueueInv
  <2>6. QueueTypes'
    BY <1>1, <1>3, <2>1, <2>2 DEF QueueInv, QueueTypes
  <2>7. QueueOrder'
    <3>1. Has' = Has /\ Has \in {0, 1}
      BY <1>1 DEF Has
    <3>2. \A i \in 1 .. Len(results') : results'[i].n = Judged' + i
      <4>1. ASSUME NEW i \in 1 .. Len(results')
            PROVE  i + 1 \in 1 .. Len(results) /\ results'[i].n = results[i + 1].n /\ Judged + (i + 1) = Judged' + i
        BY <1>3, <2>2, <2>5
      <4> QED
        BY <1>2, <4>1 DEF QueueInv, QueueOrder
    <3>3. Judged' + Len(results') = Judged + Len(results) /\ Len(results) \in Nat
      <4>1. Judged' = Judged + 1 /\ Judged \in Nat
        BY <2>2, <2>5
      <4>2. Len(results') = Len(results) - 1 /\ Len(results) \in Nat
        BY <1>3
      <4>3. \A a, b \in Nat : (a + 1) + (b - 1) = a + b
        OBVIOUS
      <4> QED
        BY <4>1, <4>2, <4>3
    <3>4. /\ Has' = 1 => writer'.n = Judged' + Len(results') + 1
          /\ \A i \in 1 .. Len(requests') : requests'[i] = Judged' + Len(results') + Has' + i
      BY <1>1, <1>2, <3>1, <3>3 DEF QueueInv, QueueOrder
    <3>5. pending = Len(results) + Has + Len(requests) /\ Len(requests) \in Nat
      BY <1>2 DEF QueueInv, QueueOrder, QueueTypes
    <3>6. pending' = Len(results') + Has' + Len(requests') /\ Judged' + pending' = given'[One] - call'.left
      BY <1>1, <1>3, <2>1, <2>2, <2>5, <3>1, <3>5
    <3> QED
      BY <1>1, <2>1, <3>2, <3>4, <3>6 DEF QueueOrder
  <2>8. QueueFaults'
    BY <1>1, <1>2, <1>3, <2>1 DEF QueueInv, QueueFaults
  <2> QED
    BY <2>5, <2>6, <2>7, <2>8 DEF QueueInv
<1>5. CASE Head(results).reply # "text"
  <2>1. Q!Fails /\ UNCHANGED <<judged, pending>>
    BY <1>5 DEF Q!Poll
  <2>2. fault' \in BOOLEAN /\ fault'
    BY <1>1, <1>2, <1>3, <1>5 DEF QueueInv, QueueFaults, RemoteTypes
  <2> QED
    BY <1>1, <1>2, <1>3, <2>1, <2>2, QueueFailsKeeps
<1> QED
  BY <1>4, <1>5

\* Where the call goes on when nothing more is to be taken.
LEMMA QueueMovesKeeps ==
  ASSUME QueueInv, UNCHANGED <<started, endedEarly>>, pc \in {"feed", "poll"},
         pc' = "poll" \/ pc' = Q!AfterPoll, pc = "feed" => pc' = "poll",
         pc' = Q!AfterPoll => pending = 0 \/ ~Q!Waits,
         UNCHANGED <<stream, given, judged, call, fault, live, queueSide>>
  PROVE  QueueInv' /\ Stands
<1>1. Working /\ call.op \in {"accept", "finish"} /\ stream[One] = "open"
  BY AtWork DEF QueueInv
<1>2. call.left \in Nat /\ Judged \in Nat /\ given[One] \in Nat
  BY OneIsAStream DEF QueueInv, RemoteTypes, RemoteCall, CallerTypes, Judged
<1>3. Judged + pending = given[One] - call.left /\ pending \in Nat
  BY <1>1 DEF QueueInv, QueueOrder, QueueTypes
<1>4. /\ pc' \in {"feed", "poll", "drop", "return"}
      /\ pc' = "drop" => call.op = "finish" /\ call.left = 0 /\ pending = 0
      /\ pc' = "return" => call.op = "accept" /\ call.left = 0
      /\ pc' \in {"feed", "return"} => pending = 0 \/ live
  BY <1>1, <1>2 DEF Q!AfterPoll, Q!Waits
<1>5. pc' = "drop" => judged[One] = UpTo(given[One])
  <2>1. pc' = "drop" => Judged = given[One]
    BY <1>2, <1>3, <1>4
  <2> QED
    BY <1>1, <2>1 DEF QueueInv, RemoteShape
<1>6. RemoteTypes' /\ RemoteShape' /\ Stands /\ Judged' = Judged
  BY <1>1, <1>4, <1>5, RemoteMoves DEF QueueInv
<1>7. QueueTypes' /\ QueueOrder' /\ QueueFaults'
  BY <1>1, <1>4, <1>6, QueueKept DEF QueueInv
<1> QED
  BY <1>6, <1>7 DEF QueueInv

\* A call that finds no answer returns without one.
LEMMA QueuePollEmptyKeeps ==
  ASSUME QueueInv, UNCHANGED <<started, endedEarly>>, Q!PollEmpty \/ Q!PollDone \/ Q!Fed
  PROVE  QueueInv' /\ Stands
<1>1. pc \in {"feed", "poll"} /\ UNCHANGED <<stream, given, judged, live, queueSide>>
  BY DEF Q!PollEmpty, Q!PollDone, Q!Fed, Q!cloudVars, queueSide
<1>2. Working
  BY <1>1, AtWork DEF QueueInv
<1>3. CASE pc = "poll" /\ Q!Fails /\ (fault' = TRUE \/ (writer.at = "gone" /\ UNCHANGED fault))
  <2>1. fault' \in BOOLEAN /\ fault'
    <3>1. writer.at = "gone" => fault
      BY <1>2, <1>3 DEF QueueInv, QueueFaults
    <3>2. CASE fault' = TRUE
      BY <3>2
    <3>3. CASE fault' # TRUE
      <4>1. fault /\ fault' = fault /\ fault \in BOOLEAN
        BY <1>3, <3>1, <3>3 DEF QueueInv, RemoteTypes
      <4> QED
        BY <4>1
    <3> QED
      BY <3>2, <3>3
  <2> QED
    BY <1>1, <1>2, <1>3, <2>1, QueueFailsKeeps DEF QueueInv, QueueTypes, queueSide
<1>4. CASE pc = "poll" /\ pc' = Q!AfterPoll /\ UNCHANGED <<call, fault>> /\ (pending = 0 \/ ~Q!Waits)
  BY <1>1, <1>4, QueueMovesKeeps
<1>5. CASE pc = "feed" /\ pc' = "poll" /\ UNCHANGED <<call, fault>>
  <2>1. call.left \in Nat
    BY DEF QueueInv, RemoteTypes, RemoteCall
  <2>2. pc' # Q!AfterPoll
    BY <1>5, <2>1 DEF Q!AfterPoll
  <2> QED
    BY <1>1, <1>5, <2>2, QueueMovesKeeps
<1> QED
  BY <1>3, <1>4, <1>5 DEF Q!PollEmpty, Q!PollDone, Q!Fed

\* The worker is dropped.
LEMMA QueueDropKeeps ==
  ASSUME QueueInv, UNCHANGED <<started, endedEarly>>, Q!Drop \/ Q!Join
  PROVE  QueueInv' /\ Stands
<1>1. /\ pc \in {"drop", "join"} /\ pc' \in {"join", "return"} /\ (pc = "drop" <=> pc' = "join")
      /\ UNCHANGED <<stream, given, judged, call, fault, live>>
  BY DEF Q!Drop, Q!Join
<1>2. /\ ~call.ok \/ call.op \in {"finish", "drop"}
      /\ call.ok /\ call.op = "finish" => judged[One] = UpTo(given[One]) \/ endedEarly
  BY <1>1 DEF QueueInv, RemoteShape
<1>3. RemoteTypes' /\ RemoteShape' /\ Stands
  BY <1>1, <1>2, RemoteMoves DEF QueueInv
<1>4. ~Working'
  BY <1>1, <1>2 DEF Working
<1>5. CASE Q!Drop
  <2>1. /\ pc' = "join" /\ child' = (IF child = "none" THEN "none" ELSE "gone")
        /\ UNCHANGED <<pending, requests, writer, results>>
    BY <1>5 DEF Q!Drop
  <2>2. QueueTypes'
    BY <2>1 DEF QueueInv, QueueTypes
  <2>3. QueueFaults'
    BY <1>4 DEF QueueFaults
  <2> QED
    BY <1>3, <1>4, <2>2, <2>3 DEF QueueInv, QueueOrder
<1>6. CASE Q!Join
  <2>1. /\ pc' = "return" /\ pending' = 0 /\ requests' = <<>> /\ results' = <<>>
        /\ writer' = [at |-> "none", n |-> 0, reply |-> "none"] /\ child' = "none"
    BY <1>6 DEF Q!Join, Q!NoWriter
  <2>2. QueueTypes'
    BY <2>1 DEF QueueTypes, WriterTypes
  <2>3. QueueFaults'
    BY <1>4 DEF QueueFaults
  <2> QED
    BY <1>3, <1>4, <2>2, <2>3 DEF QueueInv, QueueOrder
<1> QED
  BY <1>5, <1>6

\* A call that returns.
LEMMA QueueReturnKeeps ==
  ASSUME QueueInv, UNCHANGED <<started, endedEarly>>, Q!Return
  PROVE  QueueInv' /\ Stands
<1>1. /\ RemoteTypes' /\ RemoteShape' /\ Stands /\ Judged' = Judged
      /\ Working' => Working /\ call.left = 0 /\ call'.left = 0
  BY RemoteReturns DEF QueueInv, Q!Return, Q!s, One, Q!NoCall, Q!cloudVars
<1>2. /\ pc = "return" /\ pc' \in {"idle", "ended"} /\ UNCHANGED <<given, live, queueSide>>
      /\ fault' = (fault /\ call.ok)
  BY DEF Q!Return, Q!cloudVars, queueSide
<1>3. pc' = "ended" => ~Working'
  BY DEF Working
<1>4. QueueTypes' /\ QueueOrder' /\ QueueFaults'
  <2>1. QueueTypes' /\ QueueFaults'
    <3>1. Working' => Working /\ fault' = fault
      BY <1>1, <1>2 DEF Working, QueueInv, RemoteTypes
    <3> QED
      BY <1>2, <3>1 DEF QueueInv, QueueTypes, QueueFaults, queueSide
  <2>2. QueueOrder'
    <3>1. Has' = Has
      BY <1>2 DEF Has, queueSide
    <3> QED
      BY <1>1, <1>2, <3>1 DEF QueueInv, QueueOrder, queueSide
  <2> QED
    BY <2>1, <2>2
<1> QED
  BY <1>1, <1>4 DEF QueueInv

\* The worker's thread takes a request.
LEMMA QueueRecvKeeps ==
  ASSUME QueueInv, UNCHANGED <<started, endedEarly>>, Q!Recv
  PROVE  QueueInv' /\ Stands
<1>1. /\ writer.at = "waiting"
      /\ UNCHANGED <<stream, given, judged, call, pc, live, pending, child, fault, results>>
  BY DEF Q!Recv, Q!Step
<1>2. RemoteTypes' /\ RemoteShape' /\ Stands /\ (Working' <=> Working) /\ Judged' = Judged
  BY <1>1, RemoteFrame DEF QueueInv, RemoteTypes
<1>3. writer \in WriterTypes /\ Has = 0 /\ child # "none"
  BY <1>1 DEF QueueInv, QueueTypes, Has
<1>4. CASE /\ requests # <<>> /\ requests' = Tail(requests)
           /\ writer' = [at |-> "asking", n |-> Head(requests), reply |-> "none"]
  <2>1. /\ Len(requests) \in Nat \ {0} /\ Head(requests) = requests[1] /\ Head(requests) \in Nat
        /\ requests' \in Seq(Nat) /\ Len(requests') = Len(requests) - 1
        /\ \A i \in 1 .. Len(requests') : requests'[i] = requests[i + 1]
    BY <1>4, Taken DEF QueueInv, QueueTypes
  <2>2. Has' = 1 /\ writer'.n = Head(requests) /\ writer' \in WriterTypes /\ writer'.at = "asking" /\ writer'.reply = "none"
    BY <1>4, <2>1 DEF Has, WriterTypes
  <2>3. QueueTypes'
    BY <1>1, <1>3, <2>1, <2>2 DEF QueueInv, QueueTypes
  <2>4. QueueOrder'
    <3> SUFFICES ASSUME Working PROVE QueueOrder'
      BY <1>2 DEF QueueOrder
    <3>1. Judged \in Nat /\ Len(results) \in Nat
      BY OneIsAStream DEF QueueInv, RemoteTypes, CallerTypes, Judged, QueueTypes
    <3>2. /\ \A i \in 1 .. Len(requests) : requests[i] = Judged + Len(results) + i
          /\ pending = Len(results) + Len(requests)
      <4>1. /\ \A i \in 1 .. Len(requests) : requests[i] = Judged + Len(results) + 0 + i
            /\ pending = Len(results) + 0 + Len(requests)
        BY <1>3 DEF QueueInv, QueueOrder
      <4> QED
        BY <2>1, <3>1, <4>1
    <3>3. writer'.n = Judged + Len(results) + 1
      BY <2>1, <2>2, <3>2
    <3>4. \A i \in 1 .. Len(requests') : requests'[i] = Judged + Len(results) + 1 + i
      <4>1. ASSUME NEW i \in 1 .. Len(requests')
            PROVE  i + 1 \in 1 .. Len(requests) /\ requests'[i] = requests[i + 1] /\ Judged + Len(results) + (i + 1) = Judged + Len(results) + 1 + i
        BY <2>1, <3>1
      <4> QED
        BY <3>2, <4>1
    <3>5. pending = Len(results) + 1 + Len(requests')
      BY <2>1, <3>1, <3>2
    <3> QED
      BY <1>1, <1>2, <2>2, <3>3, <3>4, <3>5 DEF QueueInv, QueueOrder
  <2>5. QueueFaults'
    BY <1>1, <1>2, <2>2 DEF QueueInv, QueueFaults
  <2> QED
    BY <1>2, <2>3, <2>4, <2>5 DEF QueueInv
<1>5. CASE pc = "join" /\ writer' = [writer EXCEPT !.at = "gone"] /\ UNCHANGED requests
  <2>1. writer' \in WriterTypes /\ writer'.at = "gone"
    BY <1>3, <1>5 DEF WriterTypes
  <2>2. QueueTypes'
    BY <1>1, <1>3, <1>5, <2>1 DEF QueueInv, QueueTypes
  <2>3. ~Working'
    BY <1>1, <1>5 DEF Working
  <2>4. QueueFaults'
    BY <2>3 DEF QueueFaults
  <2> QED
    BY <1>2, <2>2, <2>3, <2>4 DEF QueueInv, QueueOrder
<1> QED
  BY <1>4, <1>5 DEF Q!Recv, Q!Step

\* The request is answered, or its pipe ends.
LEMMA QueueAnswerKeeps ==
  ASSUME QueueInv, UNCHANGED <<started, endedEarly>>, Q!Answer \/ Q!Broken
  PROVE  QueueInv' /\ Stands
<1>1. PICK reply \in Replied :
        /\ writer.at = "asking" /\ child # "none"
        /\ writer' = [writer EXCEPT !.at = "telling", !.reply = reply]
        /\ \/ fault' = (fault \/ reply = "error") /\ reply # "broken"
           \/ fault' = fault /\ child = "gone"
        /\ UNCHANGED <<stream, given, judged, call, pc, live, pending, child, requests, results>>
  BY DEF Q!Answer, Q!Broken, Q!Step, Replied
<1>2. fault' \in BOOLEAN /\ (fault => fault') /\ (reply # "text" => fault' \/ child = "gone")
  <2>1. fault \in BOOLEAN
    BY DEF QueueInv, RemoteTypes
  <2>2. CASE fault' = (fault \/ reply = "error") /\ reply # "broken"
    BY <2>1, <2>2 DEF Replied
  <2>3. CASE fault' = fault /\ child = "gone"
    BY <2>1, <2>3
  <2> QED
    BY <1>1, <2>2, <2>3
<1>3. RemoteTypes' /\ RemoteShape' /\ Stands /\ (Working' <=> Working) /\ Judged' = Judged
  BY <1>1, <1>2, RemoteFrame DEF QueueInv
<1>4. writer' \in WriterTypes /\ writer'.at = "telling" /\ writer'.n = writer.n /\ writer'.reply = reply
  BY <1>1 DEF QueueInv, QueueTypes, WriterTypes
<1>5. QueueTypes'
  BY <1>1, <1>4 DEF QueueInv, QueueTypes, Replied
<1>6. QueueOrder'
  <2>1. Has' = 1 /\ Has = 1
    BY <1>1, <1>4 DEF Has
  <2> QED
    BY <1>1, <1>3, <1>4, <2>1 DEF QueueInv, QueueOrder
<1>7. QueueFaults'
  <2>1. Working /\ reply # "text" => fault'
    <3>1. child = "gone" /\ Working => fault
      BY DEF QueueInv, QueueFaults
    <3> QED
      BY <1>2, <3>1
  <2> QED
    BY <1>1, <1>2, <1>3, <1>4, <2>1 DEF QueueInv, QueueFaults
<1> QED
  BY <1>3, <1>5, <1>6, <1>7 DEF QueueInv

\* The outcome is handed back.
LEMMA QueueTellKeeps ==
  ASSUME QueueInv, UNCHANGED <<started, endedEarly>>, Q!Tell
  PROVE  QueueInv' /\ Stands
<1> DEFINE r == [n |-> writer.n, reply |-> writer.reply]
<1>1. /\ writer.at = "telling" /\ results' = Append(results, r)
      /\ writer' = [writer EXCEPT !.at = IF writer.reply = "broken" THEN "gone" ELSE "waiting"]
      /\ UNCHANGED <<stream, given, judged, call, pc, live, pending, child, requests, fault>>
  BY DEF Q!Tell, Q!Told, Q!Step
<1>2. RemoteTypes' /\ RemoteShape' /\ Stands /\ (Working' <=> Working) /\ Judged' = Judged
  BY <1>1, RemoteFrame DEF QueueInv, RemoteTypes
<1>3. /\ writer \in WriterTypes /\ writer.reply \in Replied /\ writer.n \in Nat /\ Has = 1 /\ child # "none"
      /\ results \in Seq(Result) /\ Len(results) \in Nat
  BY <1>1 DEF QueueInv, QueueTypes, WriterTypes, Has
<1>4. r \in Result /\ r.n = writer.n /\ r.reply = writer.reply
  BY <1>3 DEF Result
<1>5. /\ writer' \in WriterTypes /\ writer'.at \in {"waiting", "gone"} /\ Has' = 0
      /\ writer'.at = "gone" => writer.reply = "broken"
  BY <1>1, <1>3 DEF WriterTypes, Has
<1> HIDE DEF r
<1>6. /\ results' \in Seq(Result) /\ Len(results') = Len(results) + 1
      /\ results'[Len(results) + 1] = r /\ \A i \in 1 .. Len(results) : results'[i] = results[i]
  BY <1>1, <1>3, <1>4
<1>7. QueueTypes'
  BY <1>1, <1>3, <1>5, <1>6 DEF QueueInv, QueueTypes
<1>8. QueueOrder'
  <2> SUFFICES ASSUME Working PROVE QueueOrder'
    BY <1>2 DEF QueueOrder
  <2>1. Judged \in Nat /\ Len(requests) \in Nat
    BY OneIsAStream DEF QueueInv, RemoteTypes, CallerTypes, Judged, QueueTypes
  <2>2. /\ \A i \in 1 .. Len(results) : results[i].n = Judged + i
        /\ writer.n = Judged + Len(results) + 1
        /\ \A i \in 1 .. Len(requests) : requests[i] = Judged + Len(results) + 1 + i
        /\ pending = Len(results) + 1 + Len(requests)
    BY <1>3 DEF QueueInv, QueueOrder
  <2>3. \A i \in 1 .. Len(results') : results'[i].n = Judged + i
    <3>1. ASSUME NEW i \in 1 .. Len(results'), i # Len(results) + 1
          PROVE  i \in 1 .. Len(results)
      BY <1>3, <1>6, <3>1
    <3>2. results'[Len(results) + 1].n = Judged + (Len(results) + 1)
      BY <1>3, <1>4, <1>6, <2>1, <2>2
    <3> QED
      BY <1>6, <2>2, <3>1, <3>2
  <2>4. /\ \A i \in 1 .. Len(requests) : requests[i] = Judged + Len(results') + 0 + i
        /\ pending = Len(results') + 0 + Len(requests)
    BY <1>3, <1>6, <2>1, <2>2
  <2> QED
    BY <1>1, <1>2, <1>5, <2>3, <2>4 DEF QueueInv, QueueOrder
<1>9. QueueFaults'
  <2>1. Working /\ writer.reply # "text" => fault
    BY <1>1, <1>3 DEF QueueInv, QueueFaults, Replied
  <2>2. \A i \in 1 .. Len(results') : results'[i].reply = writer.reply \/ (i \in 1 .. Len(results) /\ results'[i] = results[i])
    BY <1>3, <1>4, <1>6
  <2> QED
    BY <1>1, <1>2, <1>5, <2>1, <2>2 DEF QueueInv, QueueFaults
<1> QED
  BY <1>2, <1>7, <1>8, <1>9 DEF QueueInv

\* A child that ends at any time.
LEMMA QueueChildKeeps ==
  ASSUME QueueInv, UNCHANGED <<started, endedEarly>>, Q!ChildEnds
  PROVE  QueueInv' /\ Stands
<1>1. /\ child = "ready" /\ child' = "gone" /\ fault' = TRUE
      /\ UNCHANGED <<stream, given, judged, call, pc, live, pending, requests, writer, results>>
  BY DEF Q!ChildEnds
<1>2. RemoteTypes' /\ RemoteShape' /\ Stands /\ (Working' <=> Working) /\ Judged' = Judged
  BY <1>1, RemoteFrame DEF QueueInv
<1>3. QueueTypes' /\ QueueFaults'
  BY <1>1 DEF QueueInv, QueueTypes, QueueFaults
<1>4. QueueOrder'
  <2>1. Has' = Has
    BY <1>1 DEF Has
  <2> QED
    BY <1>1, <1>2, <2>1 DEF QueueInv, QueueOrder
<1> QED
  BY <1>2, <1>3, <1>4 DEF QueueInv

\* A step of the engine of one request for each utterance.
LEMMA QueueKeeps ==
  ASSUME QueueInv, UNCHANGED <<started, endedEarly>>, Q!Next
  PROVE  QueueInv' /\ Stands
  BY QueueCallerKeeps, QueueStartKeeps, QueueSubmitKeeps, QueuePollKeeps, QueuePollEmptyKeeps, QueueDropKeeps,
     QueueReturnKeeps, QueueRecvKeeps, QueueAnswerKeeps, QueueTellKeeps, QueueChildKeeps
  DEF Q!Next, Q!Client, Q!Writer

\* Nothing is queued yet.
LEMMA QueueInitially ==
  ASSUME Init, engine = "cloud"
  PROVE  QueueInv
<1>1. /\ stream = [s \in Stream |-> "new"] /\ started = {}
      /\ given = [s \in Stream |-> 0] /\ judged = [s \in Stream |-> <<>>]
      /\ call = [op |-> "none", left |-> 0, ok |-> TRUE] /\ pc = "idle"
      /\ fault = FALSE /\ live \in BOOLEAN
      /\ pending = 0 /\ requests = <<>> /\ results = <<>>
      /\ writer = [at |-> "none", n |-> 0, reply |-> "none"] /\ child = "none"
  BY DEF Init, Native, ClientInit, Q!NoCall, Q!QueueInit, Q!NoWriter
<1>2. RemoteTypes
  <2>1. CallerTypes /\ call \in RemoteCall
    BY <1>1 DEF CallerTypes, Phases, RemoteCall
  <2>2. fault \in BOOLEAN /\ live \in BOOLEAN
    BY <1>1
  <2> QED
    BY <2>1, <2>2 DEF RemoteTypes
<1>3. Judged = 0 /\ judged[One] = UpTo(0) /\ given[One] = 0 /\ stream[One] = "new"
  BY <1>1, OneIsAStream, UpToFacts DEF Judged
<1>4. RemoteShape
  BY <1>1, <1>3 DEF RemoteShape
<1>5. QueueTypes
  BY <1>1 DEF QueueTypes, WriterTypes
<1>6. QueueOrder
  <2>1. Has = 0
    BY <1>1 DEF Has
  <2> QED
    BY <1>1, <1>3, <2>1 DEF QueueOrder
<1>7. QueueFaults
  BY <1>1 DEF QueueFaults
<1> QED
  BY <1>2, <1>4, <1>5, <1>6, <1>7 DEF QueueInv

-----------------------------------------------------------------------------
(* The remote engine of one session. *)

Message == [type : {"final", "end", "metadata", "close"}, n : Nat, speech : BOOLEAN]
SessionTypes ==
  /\ pc \in {"idle", "feed", "enter", "poll", "await", "drop", "join", "return", "ended"}
  /\ tx \in Seq(Nat) /\ stdin \in Seq(Nat) /\ stdout \in Seq(Seq(Nat)) /\ rx \in Seq(Seq(Nat)) /\ wire \in Seq(Message)
  /\ writer \in {"none", "running", "gone"} /\ reader \in {"none", "running", "gone"} /\ broken \in BOOLEAN
  /\ child \in {"none", "ready", "gone"} /\ closing \in BOOLEAN /\ segments \in Seq(Nat)
  /\ end \in Nat /\ heard \in Nat /\ said \in Nat /\ endedEarly \in BOOLEAN

\* A stream without a worker has had no audio.
Bare == Working /\ child = "none" =>
  /\ stdout = <<>> /\ rx = <<>> /\ segments = <<>> /\ end = 0
  /\ Judged = 0 /\ given[One] = call.left

\* Where Finish has been submitted.
Asked == call.op = "finish" /\ pc \in {"enter", "await"}
One0(b) == IF b THEN 1 ELSE 0

\* The frames given so far, and Finish after them, are with the provider, in
\* the pipe or in the channel.
Inputs == Working =>
  /\ heard + Len(stdin) + Len(tx) + One0(closing) = given[One] - call.left + One0(Asked)
  /\ Asked => child # "none"
  /\ pc \in {"enter", "poll", "await", "return"} => call.left = 0
  /\ \A i \in 1 .. Len(tx) : (tx[i] = R!Finish) <=> (Asked /\ i = Len(tx))
  /\ \A i \in 1 .. Len(stdin) : (stdin[i] = R!Finish) <=> (Asked /\ tx = <<>> /\ i = Len(stdin))
  /\ closing <=> (Asked /\ tx = <<>> /\ stdin = <<>>)
  /\ pc \in {"poll", "return"} => call.op = "accept"
  /\ pc = "await" => call.op = "finish"

\* The provider's messages are of segments in the order of their numbers; its
\* last one, unless it ended early, comes after all of them.
Before(i) == IF i = 1 THEN end ELSE wire[i - 1].n
Wires == Working =>
  /\ end =< said /\ said =< heard
  /\ \A i \in 1 .. Len(wire) :
       /\ wire[i].n = Before(i) \/ (wire[i].n = Before(i) + 1 /\ wire[i].type = "final")
       /\ wire[i].n =< said
       /\ wire[i].type \in {"metadata", "close"} => endedEarly \/ (closing /\ wire[i].n = heard)
  /\ said = IF wire = <<>> THEN end ELSE wire[Len(wire)].n

\* The segments from the last one judged on are in the channel, in the pipe and
\* being assembled, in this order; Done comes after all of them.
Run(a, b) == [i \in 1 .. b - a |-> a + i]
Item(x, a, b) == a =< b /\ (x = Run(a, b) \/ (x = R!Error /\ a = b))
Chain(L, a, b) == \E f \in [0 .. Len(L) -> Nat] :
  /\ f[0] = a /\ f[Len(L)] = b
  /\ \A i \in 0 .. Len(L) : f[i] =< b
  /\ \A i \in 1 .. Len(L) : Item(L[i], f[i - 1], f[i])
Arrived(m) ==
  /\ m =< given[One] - call.left
  /\ Chain(rx, Judged, m)
  /\ \A i \in 1 .. Len(rx) : rx[i] = R!Done =>
       i = Len(rx) /\ closing /\ reader = "gone" /\ (endedEarly \/ m = given[One])
UnderWay(m) == reader = "running" => \E e \in Nat :
  /\ m =< e /\ e =< end /\ segments = Run(e, end) /\ Chain(stdout, m, e)
  /\ \A i \in 1 .. Len(stdout) : stdout[i] # R!Error
  /\ \A i \in 1 .. Len(stdout) : stdout[i] = R!Done =>
       i = Len(stdout) /\ closing /\ child = "gone" /\ segments = <<>> /\ (endedEarly \/ end = given[One])
Outputs == Working => \E m \in Nat : Arrived(m) /\ UnderWay(m)

DoneIn(L) == L # <<>> /\ L[Len(L)] = R!Done
SessionFaults == Working =>
  /\ child = "gone" => fault \/ (reader = "running" /\ DoneIn(stdout)) \/ DoneIn(rx)
  /\ broken => fault
  /\ writer = "gone" => broken \/ Asked
  /\ reader = "gone" => fault \/ DoneIn(rx)
  /\ (child = "none") <=> (reader = "none")
  /\ (child = "none") <=> (writer = "none")
  /\ \A i \in 1 .. Len(rx) : rx[i] = R!Error => fault

SessionInv ==
  RemoteTypes /\ RemoteShape /\ SessionTypes /\ Bare /\ Inputs /\ Wires /\ Outputs /\ SessionFaults

\* A run of segments; Done is the empty one.
LEMMA RunFacts ==
  ASSUME NEW a \in Nat, NEW b \in Nat, a =< b
  PROVE  /\ Run(a, b) \in Seq(Nat) /\ Len(Run(a, b)) = b - a
         /\ Run(a, b) # R!Error
         /\ Run(a, b) = R!Done <=> a = b
         /\ Append(Run(a, b), b + 1) = Run(a, b + 1)
         /\ UpTo(a) \o Run(a, b) = UpTo(b)
<1>1. Run(a, b) \in Seq(Nat) /\ Len(Run(a, b)) = b - a
  BY DEF Run
<1>2. Run(a, b) # R!Error
  <2>1. ASSUME 1 \in DOMAIN Run(a, b) PROVE Run(a, b)[1] # 0
    BY <2>1 DEF Run
  <2>2. 1 \in DOMAIN R!Error /\ R!Error[1] = 0
    BY DEF R!Error
  <2> QED
    BY <2>1, <2>2
<1>3. Run(a, b) = R!Done <=> a = b
  <2>1. Run(a, b) = <<>> <=> Len(Run(a, b)) = 0
    BY <1>1, EmptySeq
  <2> QED
    BY <1>1, <2>1 DEF R!Done
<1>4. Append(Run(a, b), b + 1) = Run(a, b + 1)
  <2>1. Append(Run(a, b), b + 1) \in Seq(Nat) /\ Run(a, b + 1) \in Seq(Nat)
    BY <1>1 DEF Run
  <2>2. Len(Append(Run(a, b), b + 1)) = b + 1 - a /\ Len(Run(a, b + 1)) = b + 1 - a
    BY <1>1 DEF Run
  <2>3. ASSUME NEW i \in 1 .. b + 1 - a
        PROVE  Append(Run(a, b), b + 1)[i] = Run(a, b + 1)[i]
    <3>1. Run(a, b + 1)[i] = a + i
      BY DEF Run
    <3>2. CASE i = b + 1 - a
      BY <1>1, <3>1, <3>2
    <3>3. CASE i \in 1 .. b - a
      <4>1. Run(a, b)[i] = a + i
        BY <3>3 DEF Run
      <4> QED
        BY <1>1, <3>1, <3>3, <4>1
    <3>4. i = b + 1 - a \/ i \in 1 .. b - a
      OBVIOUS
    <3> QED
      BY <3>2, <3>3, <3>4
  <2> QED
    BY <2>1, <2>2, <2>3, SeqEqual
<1>5. UpTo(a) \o Run(a, b) = UpTo(b)
  <2>1. UpTo(a) \in Seq(Int) /\ Len(UpTo(a)) = a /\ UpTo(b) \in Seq(Int) /\ Len(UpTo(b)) = b
    BY UpToFacts
  <2>2. Run(a, b) \in Seq(Int)
    BY DEF Run
  <2>3. /\ UpTo(a) \o Run(a, b) \in Seq(Int)
        /\ Len(UpTo(a) \o Run(a, b)) = a + (b - a)
        /\ \A i \in 1 .. a + (b - a) : (UpTo(a) \o Run(a, b))[i] = IF i =< a THEN UpTo(a)[i] ELSE Run(a, b)[i - a]
    <3> DEFINE u == UpTo(a)
               v == Run(a, b)
    <3>1. u \in Seq(Int) /\ v \in Seq(Int) /\ Len(u) = a /\ Len(v) = b - a
      BY <1>1, <2>1, <2>2
    <3> HIDE DEF u, v
    <3>2. /\ u \o v \in Seq(Int) /\ Len(u \o v) = Len(u) + Len(v)
          /\ \A i \in 1 .. Len(u) + Len(v) : (u \o v)[i] = IF i =< Len(u) THEN u[i] ELSE v[i - Len(u)]
      BY <3>1, ConcatProperties
    <3> QED
      BY <3>1, <3>2 DEF u, v
  <2>4. ASSUME NEW i \in 1 .. b
        PROVE  (UpTo(a) \o Run(a, b))[i] = UpTo(b)[i]
    <3>1. UpTo(b)[i] = i
      BY DEF UpTo, Contract!UpTo
    <3>2. CASE i \in 1 .. a
      <4>1. UpTo(a)[i] = i
        BY <3>2 DEF UpTo, Contract!UpTo
      <4> QED
        BY <2>3, <3>1, <3>2, <4>1
    <3>3. CASE i \in a + 1 .. b
      <4>1. Run(a, b)[i - a] = i
        BY <3>3 DEF Run
      <4>2. (UpTo(a) \o Run(a, b))[i] = Run(a, b)[i - a]
        <5>1. i \in 1 .. a + (b - a) /\ ~(i =< a)
          BY <3>3
        <5>2. (UpTo(a) \o Run(a, b))[i] = IF i =< a THEN UpTo(a)[i] ELSE Run(a, b)[i - a]
          BY <2>3, <5>1
        <5> QED
          BY <5>1, <5>2
      <4> QED
        BY <3>1, <4>1, <4>2
    <3>4. i \in 1 .. a \/ i \in a + 1 .. b
      OBVIOUS
    <3> QED
      BY <3>2, <3>3, <3>4
  <2>5. Len(UpTo(a) \o Run(a, b)) = b
    BY <2>3
  <2> QED
    BY <2>1, <2>3, <2>4, <2>5, SeqEqual
<1> QED
  BY <1>1, <1>2, <1>3, <1>4, <1>5

\* The two ends of a stream are distinct.
LEMMA DoneIsNoError == R!Done # R!Error
<1>1. Len(R!Done) = 0 /\ Len(R!Error) = 1
  BY DEF R!Done, R!Error
<1> QED
  BY <1>1

\* An empty chain ends where it starts.
LEMMA ChainEmpty ==
  ASSUME NEW a \in Nat
  PROVE  Chain(<<>>, a, a)
<1> DEFINE f == [i \in 0 .. 0 |-> a]
<1>1. f \in [0 .. Len(<<>>) -> Nat] /\ f[0] = a /\ f[Len(<<>>)] = a
  OBVIOUS
<1>2. \A i \in 0 .. Len(<<>>) : f[i] =< a
  OBVIOUS
<1>3. 1 .. Len(<<>>) = {}
  OBVIOUS
<1> HIDE DEF f
<1> QED
  BY <1>1, <1>2, <1>3 DEF Chain

\* A chain is lengthened at its end.
LEMMA ChainAppend ==
  ASSUME NEW L \in Seq(Seq(Nat)), NEW a \in Nat, NEW b \in Nat, Chain(L, a, b),
         NEW x, NEW c \in Nat, Item(x, b, c)
  PROVE  Chain(Append(L, x), a, c)
<1>1. PICK f \in [0 .. Len(L) -> Nat] :
        /\ f[0] = a /\ f[Len(L)] = b
        /\ \A i \in 0 .. Len(L) : f[i] =< b
        /\ \A i \in 1 .. Len(L) : Item(L[i], f[i - 1], f[i])
  BY DEF Chain
<1> DEFINE n == Len(L)
           M == Append(L, x)
           g == [i \in 0 .. n + 1 |-> IF i = n + 1 THEN c ELSE f[i]]
<1>2. n \in Nat /\ Len(M) = n + 1 /\ M[n + 1] = x /\ (\A i \in 1 .. n : M[i] = L[i]) /\ b =< c
  BY DEF Item
<1>3. g \in [0 .. n + 1 -> Nat] /\ g[n + 1] = c /\ \A i \in 0 .. n : g[i] = f[i]
  BY <1>2
<1> HIDE DEF g, M
<1>4. g[0] = a /\ g[n] = b
  BY <1>1, <1>2, <1>3
<1>5. \A i \in 0 .. n + 1 : g[i] =< c
  <2>1. ASSUME NEW i \in 0 .. n
        PROVE  g[i] =< c
    <3>1. f[i] \in Nat /\ f[i] =< b /\ g[i] = f[i]
      BY <1>1, <1>2, <1>3
    <3> QED
      BY <1>2, <3>1
  <2> QED
    BY <1>2, <1>3, <2>1
<1>6. ASSUME NEW i \in 1 .. n + 1
      PROVE  Item(M[i], g[i - 1], g[i])
  <2>1. CASE i = n + 1
    <3>1. i - 1 = n
      BY <1>2, <2>1
    <3> QED
      BY <1>2, <1>3, <1>4, <2>1, <3>1
  <2>2. CASE i \in 1 .. n
    <3>1. i - 1 \in 0 .. n /\ i \in 0 .. n
      BY <1>2, <2>2
    <3> QED
      BY <1>1, <1>2, <1>3, <2>2, <3>1
  <2> QED
    BY <1>2, <2>1, <2>2
<1> QED
  <2>1. g \in [0 .. Len(M) -> Nat] /\ g[Len(M)] = c
    BY <1>2, <1>3
  <2>2. Chain(M, a, c)
    BY <1>2, <1>4, <1>5, <1>6, <2>1 DEF Chain
  <2> QED
    BY <2>2 DEF M

\* A chain is shortened at its start.
LEMMA ChainTake ==
  ASSUME NEW L \in Seq(Seq(Nat)), L # <<>>, NEW a \in Nat, NEW b \in Nat, Chain(L, a, b)
  PROVE  \E c \in Nat : c =< b /\ Item(Head(L), a, c) /\ Chain(Tail(L), c, b)
<1>1. PICK f \in [0 .. Len(L) -> Nat] :
        /\ f[0] = a /\ f[Len(L)] = b
        /\ \A i \in 0 .. Len(L) : f[i] =< b
        /\ \A i \in 1 .. Len(L) : Item(L[i], f[i - 1], f[i])
  BY DEF Chain
<1> DEFINE n == Len(L) - 1
           M == Tail(L)
           g == [i \in 0 .. n |-> f[i + 1]]
<1>2. /\ Len(L) = n + 1 /\ n \in Nat /\ Head(L) = L[1] /\ Len(M) = n
      /\ \A i \in 1 .. n : M[i] = L[i + 1]
  <2>1. /\ Len(L) \in Nat \ {0} /\ Head(L) = L[1] /\ Len(M) = Len(L) - 1
        /\ \A i \in 1 .. Len(M) : M[i] = L[i + 1]
    BY Taken
  <2> QED
    BY <2>1
<1> HIDE DEF n, M
<1>3. ASSUME NEW i \in 0 .. n
      PROVE  i + 1 \in 0 .. Len(L) /\ i + 1 \in 1 .. Len(L)
  BY <1>2
<1>4. g \in [0 .. n -> Nat] /\ \A i \in 0 .. n : g[i] = f[i + 1] /\ g[i] =< b
  BY <1>1, <1>3
<1> HIDE DEF g
<1>5. g[0] = f[1] /\ g[n] = b /\ f[1] \in Nat /\ f[1] =< b
  <2>1. 0 \in 0 .. n /\ n \in 0 .. n /\ 0 + 1 = 1
    BY <1>2
  <2>2. 1 \in 0 .. Len(L)
    BY <1>2
  <2> QED
    BY <1>1, <1>2, <1>4, <2>1, <2>2
<1>6. Item(Head(L), a, f[1])
  <2>1. 1 \in 1 .. Len(L) /\ 1 - 1 = 0
    BY <1>2
  <2>2. Item(L[1], f[1 - 1], f[1])
    BY <1>1, <2>1
  <2> QED
    BY <1>1, <1>2, <2>1, <2>2
<1>7. ASSUME NEW i \in 1 .. n
      PROVE  Item(M[i], g[i - 1], g[i])
  <2>1. i + 1 \in 1 .. Len(L) /\ (i + 1) - 1 = i /\ i - 1 \in 0 .. n /\ i \in 0 .. n /\ (i - 1) + 1 = i
    BY <1>2
  <2>2. Item(L[i + 1], f[(i + 1) - 1], f[i + 1])
    BY <1>1, <2>1
  <2>3. g[i - 1] = f[i] /\ g[i] = f[i + 1] /\ M[i] = L[i + 1]
    BY <1>2, <1>4, <2>1
  <2> QED
    BY <2>1, <2>2, <2>3
<1>8. Chain(M, f[1], b)
  BY <1>2, <1>4, <1>5, <1>7 DEF Chain
<1> QED
  BY <1>5, <1>6, <1>8 DEF M

-----------------------------------------------------------------------------
(* What one actor leaves alone keeps its part of the invariant. *)

\* Nothing is claimed of a stream that is not worked on.
LEMMA SessionRests ==
  ASSUME SessionTypes', ~Working'
  PROVE  SessionTypes' /\ Bare' /\ Inputs' /\ Wires' /\ Outputs' /\ SessionFaults'
  BY DEF Bare, Inputs, Wires, Outputs, SessionFaults

\* What is on its way to the child is kept by a step that only moves the call.
LEMMA InputsKept ==
  ASSUME Inputs, UNCHANGED <<tx, stdin, closing, heard>>,
         Working' => /\ Working /\ given'[One] - call'.left = given[One] - call.left
                     /\ Asked' <=> Asked
                     /\ child # "none" => child' # "none"
                     /\ pc' \in {"enter", "poll", "await", "return"} => call'.left = 0
                     /\ pc' \in {"poll", "return"} => call'.op = "accept"
                     /\ pc' = "await" => call'.op = "finish"
  PROVE  Inputs'
<1> SUFFICES ASSUME Working' PROVE Inputs'
  BY DEF Inputs
<1>1. Asked' = Asked
  BY DEF Asked
<1>2. One0(closing)' = One0(closing) /\ One0(Asked)' = One0(Asked)
  BY <1>1
<1> QED
  BY <1>1, <1>2 DEF Inputs

\* What is on its way from the provider is kept by a step that sends nothing there.
LEMMA WiresKept ==
  ASSUME Wires, Working' => Working, UNCHANGED <<end, said, wire>>, endedEarly => endedEarly',
         heard \in Nat, heard' \in Nat, said \in Nat, heard =< heard', closing => closing' /\ heard' = heard
  PROVE  Wires'
<1> SUFFICES ASSUME Working' PROVE Wires'
  BY DEF Wires
<1>1. \A i : Before(i)' = Before(i)
  BY DEF Before
<1>2. end =< said /\ said =< heard'
  BY DEF Wires
<1>3. ASSUME NEW i \in 1 .. Len(wire)
      PROVE  /\ wire[i].n = Before(i) \/ (wire[i].n = Before(i) + 1 /\ wire[i].type = "final")
             /\ wire[i].n =< said
             /\ wire[i].type \in {"metadata", "close"} => endedEarly' \/ (closing' /\ wire[i].n = heard')
  BY DEF Wires
<1>4. said = IF wire = <<>> THEN end ELSE wire[Len(wire)].n
  BY DEF Wires
<1> QED
  BY <1>1, <1>2, <1>3, <1>4 DEF Wires

\* The segments in the channel are kept by a step that touches neither end.
LEMMA ArrivedKept ==
  ASSUME NEW m \in Nat, Arrived(m), UNCHANGED <<rx, reader>>, Judged' = Judged,
         m =< given'[One] - call'.left, closing => closing' /\ given' = given, endedEarly => endedEarly'
  PROVE  Arrived(m)'
  BY DEF Arrived

\* The segments on their way to the channel are kept by a step that touches neither end.
LEMMA UnderWayKept ==
  ASSUME NEW m \in Nat, UnderWay(m), UNCHANGED <<stdout, reader, segments, end>>,
         closing => closing' /\ given' = given, endedEarly => endedEarly', child = "gone" => child' = "gone"
  PROVE  UnderWay(m)'
  BY DEF UnderWay

\* What is on its way to the caller is kept by a step that sends nothing there.
LEMMA OutputsKept ==
  ASSUME Outputs, UNCHANGED <<rx, stdout, reader, segments, end>>, endedEarly => endedEarly',
         Working' => /\ Working /\ Judged' = Judged
                     /\ given'[One] - call'.left = given[One] - call.left
                     /\ closing => closing' /\ given' = given
                     /\ child = "gone" => child' = "gone"
  PROVE  Outputs'
<1> SUFFICES ASSUME Working' PROVE Outputs'
  BY DEF Outputs
<1>1. PICK m \in Nat : Arrived(m) /\ UnderWay(m)
  BY DEF Outputs
<1>2. m =< given'[One] - call'.left
  BY <1>1 DEF Arrived
<1>3. Arrived(m)' /\ UnderWay(m)'
  BY <1>1, <1>2, ArrivedKept, UnderWayKept
<1> QED
  BY <1>3 DEF Outputs

\* What has gone went for a reason: a step that ends nothing keeps it so.
LEMMA FaultsKept ==
  ASSUME SessionFaults, Working' => Working, Working' /\ Asked => Asked', UNCHANGED <<writer, reader, broken, stdout, rx>>,
         Working' /\ fault => fault', child' = child \/ (child # "none" /\ child' = "gone" /\ fault')
  PROVE  SessionFaults'
<1> SUFFICES ASSUME Working' PROVE SessionFaults'
  BY DEF SessionFaults
<1>1. DoneIn(stdout)' = DoneIn(stdout) /\ DoneIn(rx)' = DoneIn(rx)
  BY DEF DoneIn
<1>2. CASE child' = child
  BY <1>1, <1>2 DEF SessionFaults
<1>3. CASE child # "none" /\ child' = "gone" /\ fault'
  BY <1>1, <1>3 DEF SessionFaults
<1> QED
  BY <1>2, <1>3

pipesAndLoop == <<tx, writer, stdin, reader, stdout, rx, broken, child, closing, segments, end, heard, said, wire>>

\* A step of the call alone.
LEMMA CallKept ==
  ASSUME SessionTypes, Bare, Inputs, Wires, Outputs, SessionFaults,
         UNCHANGED <<pipesAndLoop, endedEarly>>, Working' /\ fault => fault',
         pc' \in {"idle", "feed", "enter", "poll", "await", "drop", "join", "return", "ended"},
         Working' => /\ Working /\ Judged' = Judged
                     /\ given'[One] - call'.left = given[One] - call.left
                     /\ child = "none" => given'[One] = call'.left
                     /\ closing => given' = given
                     /\ Asked' <=> Asked
                     /\ pc' \in {"enter", "poll", "await", "return"} => call'.left = 0
                     /\ pc' \in {"poll", "return"} => call'.op = "accept"
                     /\ pc' = "await" => call'.op = "finish"
  PROVE  SessionTypes' /\ Bare' /\ Inputs' /\ Wires' /\ Outputs' /\ SessionFaults'
<1> USE DEF pipesAndLoop
<1>1. SessionTypes'
  BY DEF SessionTypes
<1>2. Bare'
  BY DEF Bare
<1>3. Inputs'
  BY InputsKept
<1>4. Wires'
  BY WiresKept DEF SessionTypes
<1>5. Outputs'
  BY OutputsKept
<1>6. SessionFaults'
  BY FaultsKept
<1> QED
  BY <1>1, <1>2, <1>3, <1>4, <1>5, <1>6

-----------------------------------------------------------------------------
(* The steps of CloudRealtime: the caller and the call. *)

\* What has been given and not yet fed.
LEMMA GivenFacts ==
  ASSUME RemoteTypes, RemoteShape
  PROVE  /\ call \in RemoteCall /\ call.left \in Nat /\ given[One] \in Nat /\ Judged \in Nat
         /\ Working => stream[One] \in {"new", "open"} /\ call.left =< given[One] /\ Judged =< given[One]
         /\ Working => judged[One] = UpTo(Judged)
<1>1. call \in RemoteCall /\ call.left \in Nat /\ given[One] \in Nat /\ Judged \in Nat
  BY OneIsAStream DEF RemoteTypes, RemoteCall, CallerTypes, Judged
<1>2. call.op = "none" => call.left = 0
  BY DEF RemoteShape
<1>3. Working => call.op \in {"none", "accept", "finish"}
  BY <1>1 DEF Working, RemoteShape, RemoteCall
<1> QED
  BY <1>1, <1>2, <1>3 DEF Working, RemoteShape

\* A call begins.
LEMMA SessionEnterKeeps ==
  ASSUME SessionInv, UNCHANGED started, R!Accept \/ R!FinishStream
  PROVE  SessionInv' /\ Stands
<1>1. PICK op \in {"accept", "finish"}, n \in 0 .. 2 : Enters(op, n) /\ UNCHANGED pipesAndLoop
  BY DEF R!Accept, R!FinishStream, R!Enter, R!s, One, R!realtimeVars, R!pipeVars, R!workerVars, R!providerVars,
     Enters, pipesAndLoop
<1>2. /\ RemoteTypes' /\ RemoteShape' /\ Stands /\ Working /\ Working' /\ Judged' = Judged
      /\ call.left = 0 /\ call'.left = n /\ given'[One] = given[One] + n /\ given[One] \in Nat
  BY <1>1, RemoteEnter DEF SessionInv
<1>3. pc = "idle" /\ pc' = "feed" /\ fault' = fault /\ endedEarly' = endedEarly
  BY <1>1 DEF Enters
<1>4. ~Asked /\ ~Asked' /\ ~closing
  BY <1>2, <1>3 DEF Asked, SessionInv, Inputs
<1>5. given'[One] - call'.left = given[One] - call.left
  BY <1>2
<1>6. child = "none" => given'[One] = call'.left
  <2>1. child = "none" => given[One] = 0
    BY <1>2 DEF SessionInv, Bare
  <2> QED
    BY <1>2, <2>1
<1>7. SessionTypes' /\ Bare' /\ Inputs' /\ Wires' /\ Outputs' /\ SessionFaults'
  BY <1>1, <1>2, <1>3, <1>4, <1>5, <1>6, CallKept DEF SessionInv
<1> QED
  BY <1>2, <1>7 DEF SessionInv

\* A stream is dropped.
LEMMA SessionDropStreamKeeps ==
  ASSUME SessionInv, UNCHANGED started, R!DropStream
  PROVE  SessionInv' /\ Stands
<1> USE DEF R!realtimeVars, R!pipeVars, R!workerVars, R!providerVars
<1>1. RemoteTypes' /\ RemoteShape' /\ Stands /\ ~Working'
  BY RemoteDrop DEF SessionInv, R!DropStream, R!s, One, R!NoCall
<1>2. SessionTypes'
  BY DEF SessionInv, SessionTypes, R!DropStream
<1> QED
  BY <1>1, <1>2, SessionRests DEF SessionInv

\* The call fails.
LEMMA SessionFailsKeeps ==
  ASSUME SessionInv, UNCHANGED <<started, endedEarly>>,
         pc \in {"feed", "enter", "poll", "await"}, R!Fails, fault' \in BOOLEAN, fault', SessionTypes',
         UNCHANGED <<stream, given, judged, live>>
  PROVE  SessionInv' /\ Stands
<1>1. pc' = "drop" /\ call' = [call EXCEPT !.ok = FALSE]
  BY DEF R!Fails
<1>2. Working
  BY AtWork DEF SessionInv
<1>3. RemoteTypes' /\ RemoteShape' /\ Stands /\ ~Working'
  BY <1>1, <1>2, RemoteFails DEF SessionInv
<1> QED
  BY <1>3, SessionRests DEF SessionInv

\* A call whose call failed only alone changes.
LEMMA CallTypesKept ==
  ASSUME SessionTypes, UNCHANGED <<pipesAndLoop, endedEarly>>,
         pc' \in {"idle", "feed", "enter", "poll", "await", "drop", "join", "return", "ended"}
  PROVE  SessionTypes'
  BY DEF SessionTypes, pipesAndLoop

\* A call with no child launches one.
LEMMA SessionStartKeeps ==
  ASSUME SessionInv, UNCHANGED started, R!StartWorker
  PROVE  SessionInv' /\ Stands
<1>1. /\ pc = "feed" /\ child = "none" /\ call.left > 0
      /\ UNCHANGED <<stream, given, judged, live, tx, stdin, stdout, rx, broken, closing, segments, end, heard, said, wire, endedEarly>>
  BY DEF R!StartWorker, R!providerVars
<1>2. Working
  BY <1>1, AtWork DEF SessionInv
<1>3. CASE child' = "ready" /\ writer' = "running" /\ reader' = "running" /\ UNCHANGED <<call, pc, fault>>
  <2>1. RemoteTypes' /\ RemoteShape' /\ Stands /\ (Working' <=> Working) /\ Judged' = Judged
    BY <1>1, <1>3, RemoteFrame DEF SessionInv, RemoteTypes
  <2>2. SessionTypes'
    BY <1>1, <1>3 DEF SessionInv, SessionTypes
  <2>3. Bare'
    BY <1>3 DEF Bare
  <2>4. Inputs'
    BY <1>1, <1>3, <2>1, InputsKept DEF SessionInv, Inputs, Asked
  <2>5. Wires'
    BY <1>1, <1>3, <2>1, WiresKept DEF SessionInv, SessionTypes
  <2>6. Outputs'
    <3>1. /\ stdout = <<>> /\ rx = <<>> /\ segments = <<>> /\ end = 0 /\ Judged = 0 /\ given[One] = call.left
          /\ given[One] \in Nat
      BY <1>1, <1>2, GivenFacts DEF SessionInv, Bare
    <3>2. Chain(<<>>, 0, 0) /\ Run(0, 0) = <<>>
      BY ChainEmpty, RunFacts DEF R!Done
    <3>3. Arrived(0)'
      BY <1>1, <1>3, <2>1, <3>1, <3>2 DEF Arrived
    <3>4. UnderWay(0)'
      BY <1>1, <1>3, <3>1, <3>2 DEF UnderWay
    <3> QED
      BY <3>3, <3>4 DEF Outputs
  <2>7. SessionFaults'
    <3>1. rx = <<>>
      BY <1>1, <1>2 DEF SessionInv, Bare
    <3> QED
      BY <1>1, <1>2, <1>3, <3>1 DEF SessionInv, SessionFaults
  <2> QED
    BY <2>1, <2>2, <2>3, <2>4, <2>5, <2>6, <2>7 DEF SessionInv
<1>4. CASE R!Fails /\ fault' = TRUE /\ UNCHANGED <<child, writer, reader>>
  <2>1. SessionTypes'
    BY <1>1, <1>4, CallTypesKept DEF SessionInv, R!Fails, pipesAndLoop
  <2> QED
    BY <1>1, <1>4, <2>1, SessionFailsKeeps
<1> QED
  BY <1>3, <1>4 DEF R!StartWorker

\* The frames of a call are all queued.
LEMMA SessionFedKeeps ==
  ASSUME SessionInv, UNCHANGED started, R!Fed
  PROVE  SessionInv' /\ Stands
<1>1. /\ pc = "feed" /\ call.left = 0 /\ (child = "none" \/ call.op # "finish")
      /\ pc' = (IF call.op = "finish" THEN "drop" ELSE IF child = "none" THEN "return" ELSE "enter")
      /\ UNCHANGED <<stream, given, judged, call, fault, live, pipesAndLoop, endedEarly>>
  BY DEF R!Fed, R!Sends, R!realtimeVars, R!pipeVars, R!workerVars, R!providerVars, pipesAndLoop
<1>2. Working /\ call.op \in {"accept", "finish"} /\ stream[One] = "open"
  BY <1>1, AtWork DEF SessionInv
<1>3. call.op = "finish" => judged[One] = UpTo(given[One])
  <2>1. child = "none" => Judged = 0 /\ given[One] = 0
    BY <1>1, <1>2 DEF SessionInv, Bare
  <2>2. judged[One] = UpTo(Judged)
    BY <1>2, GivenFacts DEF SessionInv
  <2> QED
    BY <1>1, <2>1, <2>2
<1>4. RemoteTypes' /\ RemoteShape' /\ Stands /\ Judged' = Judged
  BY <1>1, <1>2, <1>3, RemoteMoves DEF SessionInv
<1>5. ~Asked /\ ~Asked'
  BY <1>1, <1>2 DEF Asked
<1>6. child = "none" => given[One] = call.left
  BY <1>2 DEF SessionInv, Bare
<1>7. SessionTypes' /\ Bare' /\ Inputs' /\ Wires' /\ Outputs' /\ SessionFaults'
  BY <1>1, <1>2, <1>4, <1>5, <1>6, CallKept DEF SessionInv
<1> QED
  BY <1>4, <1>7 DEF SessionInv

\* A call asks for what has arrived.
LEMMA SessionEnterPollKeeps ==
  ASSUME SessionInv, UNCHANGED started, R!EnterPoll
  PROVE  SessionInv' /\ Stands
<1>1. /\ pc = "enter"
      /\ UNCHANGED <<stream, given, judged, fault, live, pipesAndLoop, endedEarly>>
  BY DEF R!EnterPoll, R!realtimeVars, R!pipeVars, R!workerVars, R!providerVars, pipesAndLoop
<1>2. Working /\ call.op \in {"accept", "finish"} /\ stream[One] = "open"
  BY <1>1, AtWork DEF SessionInv
<1>3. CASE broken
  <2>1. R!Fails
    BY <1>3 DEF R!EnterPoll
  <2>2. fault' \in BOOLEAN /\ fault'
    BY <1>1, <1>2, <1>3 DEF SessionInv, SessionFaults, RemoteTypes
  <2>3. SessionTypes'
    BY <1>1, <2>1, CallTypesKept DEF SessionInv, R!Fails
  <2> QED
    BY <1>1, <2>1, <2>2, <2>3, SessionFailsKeeps
<1>4. CASE ~broken
  <2>1. pc' = (IF call.op = "finish" THEN "await" ELSE "poll") /\ call' = call
    BY <1>4 DEF R!EnterPoll
  <2>2. RemoteTypes' /\ RemoteShape' /\ Stands /\ Judged' = Judged
    BY <1>1, <1>2, <2>1, RemoteMoves DEF SessionInv
  <2>3. Asked' <=> Asked
    BY <1>1, <1>2, <2>1 DEF Asked
  <2>4. child = "none" => given[One] = call.left
    BY <1>2 DEF SessionInv, Bare
  <2>5. call.left = 0
    BY <1>1, <1>2 DEF SessionInv, Inputs
  <2>6. SessionTypes' /\ Bare' /\ Inputs' /\ Wires' /\ Outputs' /\ SessionFaults'
    BY <1>1, <1>2, <2>1, <2>2, <2>3, <2>4, <2>5, CallKept DEF SessionInv
  <2> QED
    BY <2>2, <2>6 DEF SessionInv
<1> QED
  BY <1>3, <1>4

\* The call takes what has come.
LEMMA SessionPollKeeps ==
  ASSUME SessionInv, UNCHANGED started, R!Poll
  PROVE  SessionInv' /\ Stands
<1>1. /\ pc \in {"poll", "await"} /\ rx # <<>> /\ rx' = Tail(rx)
      /\ UNCHANGED <<stream, given, fault, live, tx, writer, stdin, reader, stdout, broken, child, closing, segments, end>>
      /\ UNCHANGED <<heard, said, wire, endedEarly>>
  BY DEF R!Poll, R!workerVars, R!providerVars
<1>2. Working /\ call.op \in {"accept", "finish"} /\ stream[One] = "open"
  BY <1>1, AtWork DEF SessionInv
<1>3. /\ Len(rx) \in Nat \ {0} /\ Head(rx) = rx[1] /\ Head(rx) \in Seq(Nat)
      /\ rx' \in Seq(Seq(Nat)) /\ Len(rx') = Len(rx) - 1
      /\ \A i \in 1 .. Len(rx') : rx'[i] = rx[i + 1]
  <2>1. rx \in Seq(Seq(Nat))
    BY DEF SessionInv, SessionTypes
  <2> QED
    BY <1>1, <2>1, Taken
<1>4. pc' \in {"idle", "feed", "enter", "poll", "await", "drop", "join", "return", "ended"} => SessionTypes'
  BY <1>1, <1>3 DEF SessionInv, SessionTypes
<1>5. /\ call.left \in Nat /\ given[One] \in Nat /\ Judged \in Nat /\ call.left =< given[One]
      /\ judged[One] = UpTo(Judged)
  BY <1>2, GivenFacts DEF SessionInv
<1>6. PICK m \in Nat : Arrived(m) /\ UnderWay(m)
  BY <1>2 DEF SessionInv, Outputs
<1>7. PICK c \in Nat : c =< m /\ Item(Head(rx), Judged, c) /\ Chain(rx', c, m)
  <2>1. rx \in Seq(Seq(Nat)) /\ Chain(rx, Judged, m)
    BY <1>6 DEF SessionInv, SessionTypes, Arrived
  <2> QED
    BY <1>1, <1>5, <2>1, ChainTake
<1>8. CASE Head(rx) = R!Error
  <2>1. R!Fails /\ judged' = judged
    BY <1>8 DEF R!Poll
  <2>2. fault' \in BOOLEAN /\ fault'
    BY <1>1, <1>2, <1>3, <1>8 DEF SessionInv, SessionFaults, RemoteTypes
  <2>3. SessionTypes'
    BY <1>4, <2>1 DEF R!Fails
  <2> QED
    BY <1>1, <2>1, <2>2, <2>3, SessionFailsKeeps
<1>9. CASE Head(rx) = R!Done
  <2>1. closing /\ Len(rx) = 1 /\ (endedEarly \/ m = given[One])
    BY <1>3, <1>6, <1>9 DEF Arrived
  <2>2. pc = "await" /\ call.op = "finish"
    BY <1>1, <1>2, <2>1 DEF SessionInv, Inputs, Asked
  <2>3. pc' = "drop" /\ call' = call /\ judged' = judged
    BY <1>9, <2>2, DoneIsNoError DEF R!Poll
  <2>4. Judged = c
    <3>1. Judged =< c /\ (Head(rx) = Run(Judged, c) \/ Judged = c)
      BY <1>7 DEF Item
    <3>2. Run(Judged, c) = R!Done <=> Judged = c
      BY <1>5, <1>7, <3>1, RunFacts
    <3> QED
      BY <1>9, <3>1, <3>2
  <2>5. c = m
    BY <1>3, <1>7, <2>1 DEF Chain
  <2>6. judged[One] = UpTo(given[One]) \/ endedEarly
    BY <1>5, <2>1, <2>4, <2>5
  <2>7. RemoteTypes' /\ RemoteShape' /\ Stands
    BY <1>1, <1>2, <2>2, <2>3, <2>6, RemoteMoves DEF SessionInv
  <2>8. ~Working' /\ SessionTypes'
    BY <1>4, <2>3 DEF Working
  <2> QED
    BY <2>7, <2>8, SessionRests DEF SessionInv
<1>10. CASE Head(rx) # R!Error /\ Head(rx) # R!Done
  <2>1. judged' = [judged EXCEPT ![One] = @ \o Head(rx)] /\ call' = call /\ pc' = pc
    BY <1>10 DEF R!Poll, R!s, One
  <2>2. Head(rx) = Run(Judged, c) /\ Judged =< c
    BY <1>7, <1>10 DEF Item
  <2>3. judged' = [judged EXCEPT ![One] = UpTo(c)]
    <3>1. UpTo(Judged) \o Run(Judged, c) = UpTo(c)
      BY <1>5, <1>7, <2>2, RunFacts
    <3>2. judged[One] \o Head(rx) = UpTo(c)
      BY <1>5, <2>2, <3>1
    <3> QED
      BY <2>1, <3>2
  <2>4. c =< given[One] /\ m =< given[One] - call.left
    <3>1. m =< given[One] - call.left
      BY <1>6 DEF Arrived
    <3> QED
      BY <1>5, <1>7, <3>1
  <2>5. RemoteTypes' /\ RemoteShape' /\ Stands /\ Working' /\ Judged' = c
    BY <1>1, <1>2, <2>1, <2>2, <2>3, <2>4, RemoteJudges DEF SessionInv
  <2>6. SessionTypes'
    BY <1>1, <1>4, <2>1
  <2>7. Bare'
    BY <1>1, <1>2 DEF SessionInv, Bare
  <2>8. Inputs'
    <3>1. pc \in {"enter", "poll", "await", "return"} => call.left = 0
      BY <1>2 DEF SessionInv, Inputs
    <3>2. /\ pc \in {"poll", "return"} => call.op = "accept"
          /\ pc = "await" => call.op = "finish"
      BY <1>2 DEF SessionInv, Inputs
    <3>3. Asked' <=> Asked
      BY <2>1 DEF Asked
    <3> QED
      BY <1>1, <1>2, <2>1, <3>1, <3>2, <3>3, InputsKept DEF SessionInv
  <2>9. Wires'
    BY <1>1, <1>2, WiresKept DEF SessionInv, SessionTypes
  <2>10. Outputs'
    <3>1. ASSUME NEW i \in 1 .. Len(rx'), rx'[i] = R!Done
          PROVE  i = Len(rx') /\ closing /\ reader = "gone" /\ (endedEarly \/ m = given[One])
      <4>1. i + 1 \in 1 .. Len(rx) /\ rx[i + 1] = R!Done
        BY <1>3, <3>1
      <4>2. i + 1 = Len(rx) /\ closing /\ reader = "gone" /\ (endedEarly \/ m = given[One])
        BY <1>6, <4>1 DEF Arrived
      <4> QED
        BY <1>3, <4>2
    <3>2. Arrived(m)'
      BY <1>1, <1>7, <2>1, <2>4, <2>5, <3>1 DEF Arrived
    <3>3. UnderWay(m)'
      BY <1>1, <1>6, UnderWayKept
    <3> QED
      BY <3>2, <3>3 DEF Outputs
  <2>11. SessionFaults'
    <3>1. DoneIn(rx) => DoneIn(rx)'
      <4> SUFFICES ASSUME rx[Len(rx)] = R!Done PROVE DoneIn(rx)'
        BY DEF DoneIn
      <4>1. Len(rx) # 1
        BY <1>3, <1>10
      <4>2. Len(rx') \in 1 .. Len(rx') /\ Len(rx') + 1 = Len(rx)
        BY <1>3, <4>1
      <4>3. rx'[Len(rx')] = R!Done /\ rx' # <<>>
        BY <1>3, <4>2
      <4> QED
        BY <4>3 DEF DoneIn
    <3>2. \A i \in 1 .. Len(rx') : rx'[i] = R!Error => fault
      <4>1. \A i \in 1 .. Len(rx') : i + 1 \in 1 .. Len(rx) /\ rx'[i] = rx[i + 1]
        BY <1>3
      <4> QED
        BY <1>2, <4>1 DEF SessionInv, SessionFaults
    <3>3. DoneIn(stdout)' = DoneIn(stdout)
      BY <1>1 DEF DoneIn
    <3>4. Asked' <=> Asked
      BY <2>1 DEF Asked
    <3> QED
      BY <1>1, <1>2, <3>1, <3>2, <3>3, <3>4 DEF SessionInv, SessionFaults
  <2> QED
    BY <2>5, <2>6, <2>7, <2>8, <2>9, <2>10, <2>11 DEF SessionInv
<1> QED
  BY <1>8, <1>9, <1>10

\* Nothing has arrived.
LEMMA SessionPollEmptyKeeps ==
  ASSUME SessionInv, UNCHANGED started, R!PollEmpty
  PROVE  SessionInv' /\ Stands
<1>1. /\ pc \in {"poll", "await"} /\ rx = <<>>
      /\ UNCHANGED <<stream, given, judged, live, pipesAndLoop, endedEarly>>
  BY DEF R!PollEmpty, R!realtimeVars, R!pipeVars, R!workerVars, R!providerVars, pipesAndLoop
<1>2. Working /\ call.op \in {"accept", "finish"} /\ stream[One] = "open"
  BY <1>1, AtWork DEF SessionInv
<1>3. fault \in BOOLEAN /\ ~DoneIn(rx)
  BY <1>1 DEF SessionInv, RemoteTypes, DoneIn
<1>4. CASE R!Fails /\ (fault' = TRUE \/ (reader = "gone" /\ fault' = fault))
  <2>1. reader = "gone" => fault
    BY <1>2, <1>3 DEF SessionInv, SessionFaults
  <2>2. fault' \in BOOLEAN /\ fault'
    <3>1. CASE fault' = TRUE
      BY <3>1
    <3>2. CASE reader = "gone" /\ fault' = fault
      BY <1>3, <2>1, <3>2
    <3> QED
      BY <1>4, <3>1, <3>2
  <2>3. SessionTypes'
    BY <1>1, <1>4, CallTypesKept DEF SessionInv, R!Fails
  <2> QED
    BY <1>1, <1>4, <2>2, <2>3, SessionFailsKeeps
<1>5. CASE pc = "poll" /\ pc' = "return" /\ UNCHANGED <<call, fault>>
  <2>1. call.op = "accept" /\ call.left = 0
    BY <1>2, <1>5 DEF SessionInv, Inputs
  <2>2. RemoteTypes' /\ RemoteShape' /\ Stands /\ Judged' = Judged
    BY <1>1, <1>2, <1>5, <2>1, RemoteMoves DEF SessionInv
  <2>3. ~Asked /\ ~Asked'
    BY <1>5 DEF Asked
  <2>4. child = "none" => given[One] = call.left
    BY <1>2 DEF SessionInv, Bare
  <2>5. SessionTypes' /\ Bare' /\ Inputs' /\ Wires' /\ Outputs' /\ SessionFaults'
    BY <1>1, <1>2, <1>5, <2>1, <2>2, <2>3, <2>4, CallKept DEF SessionInv
  <2> QED
    BY <2>2, <2>5 DEF SessionInv
<1> QED
  BY <1>4, <1>5 DEF R!PollEmpty

\* The worker is dropped.
LEMMA SessionTeardownKeeps ==
  ASSUME SessionInv, UNCHANGED started, R!Drop \/ R!Join
  PROVE  SessionInv' /\ Stands
<1>1. /\ pc \in {"drop", "join"} /\ pc' \in {"join", "return"}
      /\ UNCHANGED <<stream, given, judged, call, fault, live, endedEarly>>
  BY DEF R!Drop, R!Join, R!providerVars
<1>2. /\ ~call.ok \/ call.op \in {"finish", "drop"}
      /\ call.ok /\ call.op = "finish" => judged[One] = UpTo(given[One]) \/ endedEarly
  BY <1>1 DEF SessionInv, RemoteShape
<1>3. RemoteTypes' /\ RemoteShape' /\ Stands
  BY <1>1, <1>2, RemoteMoves DEF SessionInv
<1>4. ~Working'
  BY <1>1, <1>2 DEF Working
<1>5. CASE R!Drop
  <2>1. SessionTypes'
    BY <1>5 DEF SessionInv, SessionTypes, R!Drop, R!pipeVars, R!providerVars
  <2> QED
    BY <1>3, <1>4, <2>1, SessionRests DEF SessionInv
<1>6. CASE R!Join
  <2>1. tx' \in Seq(Nat) /\ stdin' \in Seq(Nat) /\ segments' \in Seq(Nat) /\ wire' \in Seq(Message)
    BY <1>6 DEF R!Join
  <2>2. stdout' \in Seq(Seq(Nat)) /\ rx' \in Seq(Seq(Nat))
    BY <1>6 DEF R!Join
  <2>3. /\ pc' = "return" /\ writer' = "none" /\ reader' = "none" /\ child' = "none"
        /\ end' = 0 /\ heard' = 0 /\ said' = 0
    BY <1>6 DEF R!Join
  <2>4. broken' \in BOOLEAN /\ closing' \in BOOLEAN /\ endedEarly' \in BOOLEAN
    BY <1>1, <1>6 DEF SessionInv, SessionTypes, R!Join
  <2>5. SessionTypes'
    BY <2>1, <2>2, <2>3, <2>4 DEF SessionTypes
  <2> QED
    BY <1>3, <1>4, <2>5, SessionRests DEF SessionInv
<1> QED
  BY <1>5, <1>6

\* A call that returns.
LEMMA SessionReturnKeeps ==
  ASSUME SessionInv, UNCHANGED started, R!Return
  PROVE  SessionInv' /\ Stands
<1> USE DEF R!realtimeVars, R!pipeVars, R!workerVars, R!providerVars
<1>1. /\ RemoteTypes' /\ RemoteShape' /\ Stands /\ Judged' = Judged
      /\ Working' => Working /\ call.left = 0 /\ call'.left = 0
  BY RemoteReturns DEF SessionInv, R!Return, R!s, One, R!NoCall
<1>2. /\ pc = "return" /\ pc' \in {"idle", "ended"} /\ UNCHANGED <<given, live, pipesAndLoop, endedEarly>>
      /\ fault' = (fault /\ call.ok)
  BY DEF R!Return, pipesAndLoop
<1>3. ~Asked /\ ~Asked'
  BY <1>2 DEF Asked
<1>4. /\ Working' => (child = "none" => given[One] = call'.left)
      /\ Working' /\ fault => fault'
  BY <1>1, <1>2 DEF SessionInv, Bare, Working
<1>5. SessionTypes' /\ Bare' /\ Inputs' /\ Wires' /\ Outputs' /\ SessionFaults'
  BY <1>1, <1>2, <1>3, <1>4, CallKept DEF SessionInv
<1> QED
  BY <1>1, <1>5 DEF SessionInv

\* A frame, or Finish, is submitted, or there is no room for it.
LEMMA SessionSendKeeps ==
  ASSUME SessionInv, UNCHANGED started, R!Send
  PROVE  SessionInv' /\ Stands
<1>1. /\ pc = "feed" /\ child # "none" /\ (call.left > 0 \/ call.op = "finish")
      /\ UNCHANGED <<stream, given, judged, live, writer, stdin, reader, stdout, rx, broken, child, closing, segments, end>>
      /\ UNCHANGED <<heard, said, wire, endedEarly>>
  BY DEF R!Send, R!Sends, R!workerVars, R!providerVars
<1>2. Working /\ call.op \in {"accept", "finish"} /\ stream[One] = "open"
  BY <1>1, AtWork DEF SessionInv
<1>3. ~Asked /\ ~closing
  BY <1>1, <1>2 DEF SessionInv, Asked, Inputs
<1>4. /\ call \in RemoteCall /\ call.left \in Nat /\ given[One] \in Nat /\ Judged \in Nat
      /\ call.left =< given[One] /\ Judged =< given[One] /\ judged[One] = UpTo(Judged)
  BY <1>2, GivenFacts DEF SessionInv
<1>5. /\ tx \in Seq(Nat) /\ Len(tx) \in Nat /\ Len(stdin) \in Nat /\ heard \in Nat
      /\ \A i \in 1 .. Len(tx) : tx[i] # R!Finish
      /\ \A i \in 1 .. Len(stdin) : stdin[i] # R!Finish
      /\ heard + Len(stdin) + Len(tx) = given[One] - call.left
  <2>1. /\ tx \in Seq(Nat) /\ Len(tx) \in Nat /\ Len(stdin) \in Nat /\ heard \in Nat
    BY DEF SessionInv, SessionTypes
  <2>2. /\ \A i \in 1 .. Len(tx) : tx[i] # R!Finish
        /\ \A i \in 1 .. Len(stdin) : stdin[i] # R!Finish
        /\ heard + Len(stdin) + Len(tx) + 0 = given[One] - call.left + 0
    BY <1>2, <1>3 DEF SessionInv, Inputs, One0
  <2> QED
    BY <1>4, <2>1, <2>2
<1>6. PICK m \in Nat : Arrived(m) /\ UnderWay(m)
  BY <1>2 DEF SessionInv, Outputs
<1>7. CASE tx' = Append(tx, R!Input) /\ call.left > 0 /\ call' = [call EXCEPT !.left = @ - 1] /\ UNCHANGED <<pc, fault>>
  <2>1. /\ call' \in RemoteCall /\ call'.op = call.op /\ call'.ok = call.ok /\ call'.left = call.left - 1
        /\ call.left - 1 \in Nat
    BY <1>4, <1>7 DEF RemoteCall
  <2>2. RemoteTypes' /\ Judged' = Judged /\ Working'
    BY <1>1, <1>2, <1>7, <2>1 DEF SessionInv, RemoteTypes, CallerTypes, Judged, Working
  <2>3. RemoteShape'
    BY <1>1, <1>2, <1>4, <1>7, <2>1, <2>2 DEF SessionInv, RemoteShape
  <2>4. Stands
    BY <1>1, StillStands
  <2>5. R!Input = given[One] - call.left + 1 /\ R!Input \in Nat \ {0}
    BY <1>4, <1>7 DEF R!Input, R!s, One
  <2>6. /\ tx' \in Seq(Nat) /\ Len(tx') = Len(tx) + 1 /\ tx'[Len(tx) + 1] # R!Finish
        /\ \A i \in 1 .. Len(tx) : tx'[i] = tx[i]
    BY <1>5, <1>7, <2>5 DEF R!Finish
  <2>7. SessionTypes'
    BY <1>1, <1>7, <2>6 DEF SessionInv, SessionTypes
  <2>8. Bare'
    BY <1>1 DEF Bare
  <2>9. ~Asked'
    BY <1>1, <1>7 DEF Asked
  <2>10. Inputs'
    <3>1. heard + Len(stdin) + Len(tx') + 0 = given[One] - call'.left + 0
      <4>1. Len(tx') = Len(tx) + 1 /\ call'.left = call.left - 1
        BY <2>1, <2>6
      <4>2. /\ heard + Len(stdin) + Len(tx) = given[One] - call.left
            /\ heard \in Nat /\ Len(stdin) \in Nat /\ Len(tx) \in Nat
        BY <1>5
      <4>3. heard + Len(stdin) + (Len(tx) + 1) = given[One] - (call.left - 1)
        BY <1>4, <4>2
      <4>4. heard + Len(stdin) + Len(tx') = given[One] - call'.left /\ heard + Len(stdin) + Len(tx') \in Nat
        BY <4>1, <4>2, <4>3
      <4> QED
        BY <4>3, <4>4
    <3>2. One0(closing)' = 0 /\ One0(Asked)' = 0
      BY <1>1, <1>3, <2>9 DEF One0
    <3>3. ASSUME NEW i \in 1 .. Len(tx')
          PROVE  tx'[i] # R!Finish
      <4>1. i = Len(tx) + 1 \/ i \in 1 .. Len(tx)
        BY <1>5, <2>6
      <4> QED
        BY <1>5, <2>6, <4>1
    <3>4. pc' = "feed"
      BY <1>1, <1>7
    <3> QED
      BY <1>1, <1>3, <1>5, <2>9, <3>1, <3>2, <3>3, <3>4 DEF Inputs
  <2>11. Wires'
    BY <1>1, <1>2, WiresKept DEF SessionInv, SessionTypes
  <2>12. Outputs'
    <3>1. m =< given[One] - call.left
      BY <1>6 DEF Arrived
    <3>2. m =< given'[One] - call'.left
      BY <1>1, <1>4, <2>1, <3>1
    <3>3. Arrived(m)' /\ UnderWay(m)'
      BY <1>1, <1>6, <2>2, <3>2, ArrivedKept, UnderWayKept
    <3> QED
      BY <3>3 DEF Outputs
  <2>13. SessionFaults'
    BY <1>1, <1>2, <1>3, <1>7, FaultsKept DEF SessionInv
  <2> QED
    BY <2>2, <2>3, <2>4, <2>7, <2>8, <2>10, <2>11, <2>12, <2>13 DEF SessionInv
<1>8. CASE tx' = Append(tx, R!Input) /\ ~(call.left > 0) /\ pc' = "enter" /\ UNCHANGED <<call, fault>>
  <2>1. call.left = 0 /\ call.op = "finish" /\ R!Input = R!Finish
    BY <1>1, <1>4, <1>8 DEF R!Input
  <2>2. RemoteTypes' /\ RemoteShape' /\ Stands /\ Judged' = Judged
    BY <1>1, <1>2, <1>8, RemoteMoves DEF SessionInv
  <2>3. Asked'
    BY <1>8, <2>1 DEF Asked
  <2>4. /\ tx' \in Seq(Nat) /\ Len(tx') = Len(tx) + 1 /\ tx'[Len(tx) + 1] = R!Finish /\ tx' # <<>>
        /\ \A i \in 1 .. Len(tx) : tx'[i] = tx[i]
    BY <1>5, <1>8, <2>1 DEF R!Finish
  <2>5. SessionTypes'
    BY <1>1, <1>8, <2>4 DEF SessionInv, SessionTypes
  <2>6. Bare'
    BY <1>1 DEF Bare
  <2>7. Inputs'
    <3>1. heard + Len(stdin) + Len(tx') + 0 = given[One] - call.left + 1
      BY <1>4, <1>5, <2>1, <2>4
    <3>2. One0(closing)' = 0 /\ One0(Asked)' = 1
      BY <1>1, <1>3, <2>3 DEF One0
    <3>3. ASSUME NEW i \in 1 .. Len(tx')
          PROVE  (tx'[i] = R!Finish) <=> (i = Len(tx'))
      <4>1. i = Len(tx) + 1 \/ (i \in 1 .. Len(tx) /\ i # Len(tx'))
        BY <1>5, <2>4
      <4> QED
        BY <1>5, <2>4, <4>1
    <3> QED
      BY <1>1, <1>3, <1>5, <1>8, <2>1, <2>3, <2>4, <3>1, <3>2, <3>3 DEF Inputs
  <2>8. Wires'
    BY <1>1, <1>2, WiresKept DEF SessionInv, SessionTypes
  <2>9. Outputs'
    <3>1. m =< given'[One] - call'.left
      BY <1>1, <1>6, <1>8 DEF Arrived
    <3>2. Arrived(m)' /\ UnderWay(m)'
      BY <1>1, <1>6, <2>2, <3>1, ArrivedKept, UnderWayKept
    <3> QED
      BY <3>2 DEF Outputs
  <2>10. SessionFaults'
    BY <1>1, <1>2, <1>3, <1>8, FaultsKept DEF SessionInv
  <2> QED
    BY <2>2, <2>5, <2>6, <2>7, <2>8, <2>9, <2>10 DEF SessionInv
<1>9. CASE R!Fails /\ tx' = tx /\ (fault' = TRUE \/ ((broken \/ writer = "gone") /\ fault' = fault))
  <2>1. broken \/ writer = "gone" => fault
    BY <1>2, <1>3 DEF SessionInv, SessionFaults
  <2>2. fault' \in BOOLEAN /\ fault'
    <3>1. CASE fault' = TRUE
      BY <3>1
    <3>2. CASE (broken \/ writer = "gone") /\ fault' = fault
      BY <2>1, <3>2 DEF SessionInv, RemoteTypes
    <3> QED
      BY <1>9, <3>1, <3>2
  <2>3. SessionTypes'
    BY <1>1, <1>9 DEF SessionInv, SessionTypes, R!Fails
  <2> QED
    BY <1>1, <1>9, <2>2, <2>3, SessionFailsKeeps
<1> QED
  BY <1>7, <1>8, <1>9 DEF R!Send

-----------------------------------------------------------------------------
(* The steps of CloudRealtime: the threads, the worker and the provider. *)

\* A step beside the call.
LEMMA SessionFrame ==
  ASSUME SessionInv, fault' \in BOOLEAN, fault => fault', UNCHANGED <<started, endedEarly>>, UNCHANGED R!clientSide
  PROVE  /\ RemoteTypes' /\ RemoteShape' /\ Stands /\ (Working' <=> Working) /\ Judged' = Judged
         /\ (Asked' <=> Asked) /\ pc' = pc /\ call' = call /\ given' = given
<1>1. UNCHANGED <<stream, given, judged, call, pc, live>>
  BY DEF R!clientSide
<1>2. Asked' <=> Asked
  BY <1>1 DEF Asked
<1> QED
  BY <1>1, <1>2, RemoteFrame DEF SessionInv

\* What is on its way to the child is kept by a step of the other threads.
LEMMA InputsStay ==
  ASSUME Inputs, UNCHANGED <<tx, stdin, closing, heard, pc, call, given>>, Asked' <=> Asked,
         Working' => Working, child # "none" => child' # "none"
  PROVE  Inputs'
<1>1. Working => /\ pc \in {"enter", "poll", "await", "return"} => call.left = 0
                 /\ pc \in {"poll", "return"} => call.op = "accept"
                 /\ pc = "await" => call.op = "finish"
  BY DEF Inputs
<1> QED
  BY <1>1, InputsKept

\* What the provider has heard.
LEMMA HeardFacts ==
  ASSUME RemoteTypes, RemoteShape, SessionTypes, Inputs, Working
  PROVE  /\ heard =< given[One] - call.left
         /\ closing => heard = given[One] /\ tx = <<>> /\ stdin = <<>> /\ Asked
<1>1. /\ Len(tx) \in Nat /\ Len(stdin) \in Nat /\ heard \in Nat
      /\ tx = <<>> <=> Len(tx) = 0
      /\ stdin = <<>> <=> Len(stdin) = 0
  <2>1. tx \in Seq(Nat) /\ stdin \in Seq(Nat)
    BY DEF SessionTypes
  <2>2. \A L \in Seq(Nat) : L = <<>> <=> Len(L) = 0
    BY EmptySeq
  <2> QED
    BY <2>1, <2>2 DEF SessionTypes
<1>2. given[One] \in Nat /\ call.left \in Nat
  BY GivenFacts
<1>3. /\ heard + Len(stdin) + Len(tx) + One0(closing) = given[One] - call.left + One0(Asked)
      /\ closing <=> (Asked /\ tx = <<>> /\ stdin = <<>>)
      /\ Asked => call.left = 0
  BY DEF Inputs, Asked
<1>4. CASE ~Asked
  <2>1. heard + Len(stdin) + Len(tx) + 0 = given[One] - call.left + 0
    BY <1>3, <1>4 DEF One0
  <2> QED
    BY <1>1, <1>2, <1>3, <1>4, <2>1
<1>5. CASE Asked /\ closing
  <2>1. heard + Len(stdin) + Len(tx) + 1 = given[One] - call.left + 1
    BY <1>3, <1>5 DEF One0
  <2>2. Len(tx) = 0 /\ Len(stdin) = 0 /\ call.left = 0
    BY <1>1, <1>3, <1>5
  <2>3. heard = given[One] - call.left
    BY <1>1, <1>2, <2>1, <2>2
  <2> QED
    BY <1>2, <1>3, <1>5, <2>2, <2>3
<1>6. CASE Asked /\ ~closing
  <2>1. heard + Len(stdin) + Len(tx) + 0 = given[One] - call.left + 1
    BY <1>3, <1>6 DEF One0
  <2>2. Len(tx) # 0 \/ Len(stdin) # 0
    BY <1>1, <1>3, <1>6
  <2>3. heard =< given[One] - call.left
    BY <1>1, <1>2, <2>1, <2>2
  <2> QED
    BY <1>6, <2>3
<1> QED
  BY <1>4, <1>5, <1>6

\* Done comes only after the provider was asked to close, and last.
LEMMA DoneFacts ==
  ASSUME SessionInv, Working
  PROVE  /\ DoneIn(rx) => closing /\ reader = "gone"
         /\ reader = "running" /\ DoneIn(stdout) => closing /\ child = "gone"
<1>1. PICK m \in Nat : Arrived(m) /\ UnderWay(m)
  BY DEF SessionInv, Outputs
<1>2. rx \in Seq(Seq(Nat)) /\ stdout \in Seq(Seq(Nat))
  BY DEF SessionInv, SessionTypes
<1>3. \A L \in Seq(Seq(Nat)) : L # <<>> => Len(L) \in 1 .. Len(L)
  BY EmptySeq
<1>4. DoneIn(rx) => closing /\ reader = "gone"
  BY <1>1, <1>2, <1>3 DEF DoneIn, Arrived
<1>5. reader = "running" /\ DoneIn(stdout) => closing /\ child = "gone"
  BY <1>1, <1>2, <1>3 DEF DoneIn, UnderWay
<1> QED
  BY <1>4, <1>5

\* The writing thread passes an input on, or finds the pipe closed.
LEMMA SessionWriteKeeps ==
  ASSUME SessionInv, UNCHANGED started, R!Write
  PROVE  SessionInv' /\ Stands
<1>1. /\ writer = "running"
      /\ UNCHANGED <<R!clientSide, fault, reader, stdout, rx, child, closing, segments, end, heard, said, wire, endedEarly>>
  BY DEF R!Write, R!workerVars, R!providerVars
<1>2. /\ RemoteTypes' /\ RemoteShape' /\ Stands /\ (Working' <=> Working) /\ Judged' = Judged
      /\ (Asked' <=> Asked) /\ pc' = pc /\ call' = call /\ given' = given
  <2>1. fault' \in BOOLEAN
    BY <1>1 DEF SessionInv, RemoteTypes
  <2> QED
    BY <1>1, <2>1, SessionFrame
<1>3. Bare'
  BY <1>1, <1>2 DEF SessionInv, Bare
<1>4. Wires'
  BY <1>1, <1>2, WiresKept DEF SessionInv, SessionTypes
<1>5. Outputs'
  BY <1>1, <1>2, OutputsKept DEF SessionInv
<1>6. DoneIn(stdout)' = DoneIn(stdout) /\ DoneIn(rx)' = DoneIn(rx)
  BY <1>1 DEF DoneIn
<1>7. CASE /\ tx # <<>> /\ stdin' = Append(stdin, Head(tx)) /\ tx' = Tail(tx)
           /\ writer' = (IF Head(tx) = R!Finish THEN "gone" ELSE "running") /\ broken' = broken
  <2>1. tx \in Seq(Nat) /\ stdin \in Seq(Nat)
    BY DEF SessionInv, SessionTypes
  <2>2. /\ Len(tx) \in Nat \ {0} /\ Head(tx) = tx[1] /\ Head(tx) \in Nat
        /\ tx' \in Seq(Nat) /\ Len(tx') = Len(tx) - 1
        /\ \A i \in 1 .. Len(tx') : tx'[i] = tx[i + 1]
    BY <1>7, <2>1, Taken
  <2>3. /\ stdin' \in Seq(Nat) /\ Len(stdin') = Len(stdin) + 1 /\ stdin'[Len(stdin) + 1] = Head(tx)
        /\ \A i \in 1 .. Len(stdin) : stdin'[i] = stdin[i]
        /\ Len(stdin) \in Nat /\ stdin' # <<>>
    BY <1>7, <2>1, <2>2
  <2>4. writer' \in {"running", "gone"}
    BY <1>7
  <2>5. SessionTypes'
    BY <1>1, <1>2, <1>7, <2>2, <2>3, <2>4 DEF SessionInv, SessionTypes
  <2>6. Working => (Head(tx) = R!Finish <=> Asked /\ tx' = <<>>)
    <3>1. Working => (tx[1] = R!Finish <=> Asked /\ 1 = Len(tx))
      BY <2>2 DEF SessionInv, Inputs
    <3>2. tx' = <<>> <=> Len(tx') = 0
      BY <2>2, EmptySeq
    <3> QED
      BY <2>2, <3>1, <3>2
  <2>7. Inputs'
    <3> SUFFICES ASSUME Working PROVE Inputs'
      BY <1>2 DEF Inputs
    <3>1. ~closing
      BY <1>7 DEF SessionInv, Inputs
    <3>2. ASSUME NEW i \in 1 .. Len(tx')
          PROVE  (tx'[i] = R!Finish) <=> (Asked /\ i = Len(tx'))
      <4>1. i + 1 \in 1 .. Len(tx) /\ tx'[i] = tx[i + 1] /\ (i + 1 = Len(tx) <=> i = Len(tx'))
        BY <2>2
      <4> QED
        BY <4>1 DEF SessionInv, Inputs
    <3>3. ASSUME NEW i \in 1 .. Len(stdin')
          PROVE  (stdin'[i] = R!Finish) <=> (Asked /\ tx' = <<>> /\ i = Len(stdin'))
      <4>1. i = Len(stdin) + 1 \/ (i \in 1 .. Len(stdin) /\ i # Len(stdin'))
        BY <2>3
      <4>2. CASE i = Len(stdin) + 1
        BY <2>3, <2>6, <4>2
      <4>3. CASE i \in 1 .. Len(stdin) /\ i # Len(stdin')
        BY <1>7, <2>3, <4>3 DEF SessionInv, Inputs
      <4> QED
        BY <4>1, <4>2, <4>3
    <3>4. heard + Len(stdin') + Len(tx') + One0(closing) = given[One] - call.left + One0(Asked)
      <4>1. Len(stdin') + Len(tx') = Len(stdin) + Len(tx) /\ heard \in Nat
        BY <2>2, <2>3 DEF SessionInv, SessionTypes
      <4>2. heard + Len(stdin') + Len(tx') = heard + Len(stdin) + Len(tx)
        BY <2>2, <2>3, <4>1
      <4> QED
        BY <4>2 DEF SessionInv, Inputs
    <3>5. One0(closing)' = One0(closing) /\ One0(Asked)' = One0(Asked)
      BY <1>1, <1>2 DEF One0
    <3>6. /\ Asked => child # "none"
          /\ pc \in {"enter", "poll", "await", "return"} => call.left = 0
          /\ pc \in {"poll", "return"} => call.op = "accept"
          /\ pc = "await" => call.op = "finish"
      BY DEF SessionInv, Inputs
    <3> QED
      BY <1>1, <1>2, <2>3, <3>1, <3>2, <3>3, <3>4, <3>5, <3>6 DEF Inputs
  <2>8. SessionFaults'
    <3>1. Working /\ writer' = "gone" => Asked
      BY <1>7, <2>6
    <3> QED
      BY <1>1, <1>2, <1>6, <1>7, <2>4, <3>1 DEF SessionInv, SessionFaults
  <2> QED
    BY <1>2, <1>3, <1>4, <1>5, <2>5, <2>7, <2>8 DEF SessionInv
<1>8. CASE tx # <<>> /\ child = "gone" /\ broken' = TRUE /\ writer' = "gone" /\ UNCHANGED <<stdin, tx>>
  <2>1. SessionTypes'
    BY <1>1, <1>2, <1>8 DEF SessionInv, SessionTypes
  <2>2. Inputs'
    BY <1>1, <1>2, <1>8, InputsStay DEF SessionInv
  <2>3. SessionFaults'
    <3>1. Working => fault
      <4>1. Working => ~closing
        BY <1>8 DEF SessionInv, Inputs
      <4> QED
        BY <1>8, <4>1, DoneFacts DEF SessionInv, SessionFaults
    <3> QED
      BY <1>1, <1>2, <1>6, <1>8, <3>1 DEF SessionInv, SessionFaults
  <2> QED
    BY <1>2, <1>3, <1>4, <1>5, <2>1, <2>2, <2>3 DEF SessionInv
<1>9. CASE pc = "join" /\ writer' = "gone" /\ UNCHANGED <<stdin, tx, broken>>
  <2>1. SessionTypes'
    BY <1>1, <1>2, <1>9 DEF SessionInv, SessionTypes
  <2>2. ~Working'
    BY <1>2, <1>9 DEF Working
  <2> QED
    BY <1>2, <2>1, <2>2, SessionRests DEF SessionInv
<1> QED
  BY <1>7, <1>8, <1>9 DEF R!Write

\* The child takes an input.
LEMMA SessionInputKeeps ==
  ASSUME SessionInv, UNCHANGED started, R!TakeInput
  PROVE  SessionInv' /\ Stands
<1>1. /\ child = "ready" /\ ~closing /\ stdin # <<>> /\ stdin' = Tail(stdin)
      /\ UNCHANGED <<R!clientSide, tx, writer, reader, rx, broken, fault, stdout, child, segments, end, said, wire, endedEarly>>
  BY DEF R!TakeInput, R!loopSide
<1>2. /\ RemoteTypes' /\ RemoteShape' /\ Stands /\ (Working' <=> Working) /\ Judged' = Judged
      /\ (Asked' <=> Asked) /\ pc' = pc /\ call' = call /\ given' = given
  <2>1. fault' \in BOOLEAN
    BY <1>1 DEF SessionInv, RemoteTypes
  <2> QED
    BY <1>1, <2>1, SessionFrame
<1>3. /\ Len(stdin) \in Nat \ {0} /\ Head(stdin) = stdin[1]
      /\ stdin' \in Seq(Nat) /\ Len(stdin') = Len(stdin) - 1
      /\ \A i \in 1 .. Len(stdin') : stdin'[i] = stdin[i + 1]
      /\ stdin' = <<>> <=> Len(stdin) = 1
  <2>1. stdin \in Seq(Nat)
    BY DEF SessionInv, SessionTypes
  <2>2. /\ Len(stdin) \in Nat \ {0} /\ Head(stdin) = stdin[1]
        /\ stdin' \in Seq(Nat) /\ Len(stdin') = Len(stdin) - 1
        /\ \A i \in 1 .. Len(stdin') : stdin'[i] = stdin[i + 1]
    BY <1>1, <2>1, Taken
  <2>3. stdin' = <<>> <=> Len(stdin') = 0
    BY <2>2, EmptySeq
  <2> QED
    BY <2>2, <2>3
<1>4. /\ heard \in Nat /\ heard' \in Nat /\ heard =< heard' /\ closing' \in BOOLEAN
      /\ IF Head(stdin) = R!Finish THEN closing' = TRUE /\ heard' = heard
         ELSE closing' = closing /\ heard' = heard + 1
  <2>1. IF Head(stdin) = R!Finish THEN closing' = TRUE /\ heard' = heard
        ELSE closing' = closing /\ heard' = heard + 1
    BY DEF R!TakeInput
  <2>2. heard \in Nat /\ closing \in BOOLEAN
    BY DEF SessionInv, SessionTypes
  <2>3. CASE Head(stdin) = R!Finish
    <3>1. closing' = TRUE /\ heard' = heard
      BY <2>1, <2>3
    <3> QED
      BY <2>2, <2>3, <3>1
  <2>4. CASE Head(stdin) # R!Finish
    <3>1. closing' = closing /\ heard' = heard + 1
      BY <2>1, <2>4
    <3> QED
      BY <2>2, <2>4, <3>1
  <2> QED
    BY <2>3, <2>4
<1>5. SessionTypes'
  BY <1>1, <1>2, <1>3, <1>4 DEF SessionInv, SessionTypes
<1>6. Bare'
  BY <1>1 DEF Bare
<1>7. Wires'
  BY <1>1, <1>2, <1>4, WiresKept DEF SessionInv, SessionTypes
<1>8. Outputs'
  BY <1>1, <1>2, OutputsKept DEF SessionInv
<1>9. SessionFaults'
  BY <1>1, <1>2, FaultsKept DEF SessionInv
<1>10. Inputs'
  <2> SUFFICES ASSUME Working PROVE Inputs'
    BY <1>2 DEF Inputs
  <2>1. /\ \A i \in 1 .. Len(tx) : (tx[i] = R!Finish) <=> (Asked /\ i = Len(tx))
        /\ \A i \in 1 .. Len(stdin) : (stdin[i] = R!Finish) <=> (Asked /\ tx = <<>> /\ i = Len(stdin))
        /\ Asked => child # "none"
        /\ pc \in {"enter", "poll", "await", "return"} => call.left = 0
        /\ pc \in {"poll", "return"} => call.op = "accept"
        /\ pc = "await" => call.op = "finish"
    BY DEF SessionInv, Inputs
  <2>2. Head(stdin) = R!Finish <=> Asked /\ tx = <<>> /\ Len(stdin) = 1
    <3>1. 1 \in 1 .. Len(stdin)
      BY <1>3
    <3> QED
      BY <1>3, <2>1, <3>1
  <2>3. ASSUME NEW i \in 1 .. Len(stdin')
        PROVE  (stdin'[i] = R!Finish) <=> (Asked /\ tx = <<>> /\ i = Len(stdin'))
    <3>1. i + 1 \in 1 .. Len(stdin) /\ stdin'[i] = stdin[i + 1] /\ (i + 1 = Len(stdin) <=> i = Len(stdin'))
      BY <1>3
    <3> QED
      BY <2>1, <3>1
  <2>4. closing' <=> (Asked /\ tx = <<>> /\ stdin' = <<>>)
    BY <1>1, <1>3, <1>4, <2>2
  <2>5. heard' + Len(stdin') + Len(tx) + One0(closing') = given[One] - call.left + One0(Asked)
    <3>1. heard + Len(stdin) + Len(tx) + 0 = given[One] - call.left + One0(Asked) /\ Len(tx) \in Nat
      BY <1>1 DEF SessionInv, Inputs, One0, SessionTypes
    <3> DEFINE asks == One0(closing')
    <3>2. heard' + asks = heard + 1 /\ asks \in Nat
      <4>1. CASE Head(stdin) = R!Finish
        BY <1>4, <4>1 DEF One0
      <4>2. CASE Head(stdin) # R!Finish
        BY <1>1, <1>4, <4>2 DEF One0
      <4> QED
        BY <4>1, <4>2
    <3> HIDE DEF asks
    <3>3. heard' + Len(stdin') + Len(tx) + asks = heard + Len(stdin) + Len(tx) + 0
      <4>1. /\ Len(stdin') = Len(stdin) - 1 /\ Len(stdin) \in Nat \ {0} /\ heard \in Nat /\ heard' \in Nat
            /\ Len(tx) \in Nat
        BY <1>3, <1>4, <3>1
      <4> DEFINE a == heard
                 b == heard'
                 p == Len(stdin)
                 q == Len(tx)
      <4>2. a \in Nat /\ b \in Nat /\ p \in Nat /\ q \in Nat /\ asks \in Nat /\ b + asks = a + 1
        BY <3>2, <4>1
      <4> HIDE DEF a, b, p, q
      <4>3. b + (p - 1) + q + asks = a + p + q + 0
        BY <4>2
      <4> QED
        BY <4>1, <4>3 DEF a, b, p, q
    <3>4. heard' + Len(stdin') + Len(tx) + asks = given[One] - call.left + One0(Asked)
      BY <3>1, <3>3
    <3> QED
      BY <3>4 DEF asks
  <2>6. One0(closing)' = One0(closing') /\ One0(Asked)' = One0(Asked)
    BY <1>2 DEF One0
  <2> QED
    BY <1>1, <1>2, <2>1, <2>3, <2>4, <2>5, <2>6 DEF Inputs
<1> QED
  BY <1>2, <1>5, <1>6, <1>7, <1>8, <1>9, <1>10 DEF SessionInv

\* The child runs out of time.
LEMMA SessionExpireKeeps ==
  ASSUME SessionInv, UNCHANGED started, R!Expire
  PROVE  SessionInv' /\ Stands
<1>1. /\ child = "ready" /\ child' = "gone" /\ fault' = TRUE
      /\ UNCHANGED <<R!clientSide, tx, writer, reader, rx, broken, stdin, stdout, closing, segments, end, heard, said, wire, endedEarly>>
  BY DEF R!Expire, R!loopSide, R!providerVars
<1>2. /\ RemoteTypes' /\ RemoteShape' /\ Stands /\ (Working' <=> Working) /\ Judged' = Judged
      /\ (Asked' <=> Asked) /\ pc' = pc /\ call' = call /\ given' = given
  BY <1>1, SessionFrame
<1>3. SessionTypes'
  BY <1>1, <1>2 DEF SessionInv, SessionTypes
<1>4. Bare'
  BY <1>1 DEF Bare
<1>5. Inputs'
  BY <1>1, <1>2, InputsStay DEF SessionInv
<1>6. Wires'
  BY <1>1, <1>2, WiresKept DEF SessionInv, SessionTypes
<1>7. Outputs'
  BY <1>1, <1>2, OutputsKept DEF SessionInv
<1>8. SessionFaults'
  BY <1>1, <1>2, FaultsKept DEF SessionInv
<1> QED
  BY <1>2, <1>3, <1>4, <1>5, <1>6, <1>7, <1>8 DEF SessionInv

\* The reading thread hands one value on.
LEMMA SessionReadKeeps ==
  ASSUME SessionInv, UNCHANGED started, R!Read
  PROVE  SessionInv' /\ Stands
<1> DEFINE value == IF stdout = <<>> THEN R!Error ELSE Head(stdout)
           full == Len(rx) = Slots
<1>1. /\ reader = "running" /\ (stdout # <<>> \/ child = "gone")
      /\ stdout' = (IF stdout = <<>> THEN stdout ELSE Tail(stdout))
      /\ rx' = (IF full THEN rx ELSE Append(rx, value))
      /\ reader' = (IF full \/ value \in {R!Done, R!Error} THEN "gone" ELSE "running")
      /\ UNCHANGED <<R!clientSide, tx, writer, stdin, child, closing, segments, end, heard, said, wire, endedEarly>>
  BY DEF R!Read, R!workerVars, R!providerVars
<1>2. broken' = (broken \/ full) /\ fault' = (fault \/ full)
  BY DEF R!Read
<1>3. /\ rx \in Seq(Seq(Nat)) /\ stdout \in Seq(Seq(Nat)) /\ R!Error \in Seq(Nat) /\ fault \in BOOLEAN /\ broken \in BOOLEAN
  BY DEF SessionInv, SessionTypes, RemoteTypes, R!Error
<1>4. /\ stdout # <<>> =>
           /\ Len(stdout) \in Nat \ {0} /\ Head(stdout) = stdout[1] /\ Head(stdout) \in Seq(Nat)
           /\ stdout' \in Seq(Seq(Nat)) /\ Len(stdout') = Len(stdout) - 1
           /\ \A i \in 1 .. Len(stdout') : stdout'[i] = stdout[i + 1]
  <2> SUFFICES ASSUME stdout # <<>>
               PROVE  /\ Len(stdout) \in Nat \ {0} /\ Head(stdout) = stdout[1] /\ Head(stdout) \in Seq(Nat)
                      /\ stdout' \in Seq(Seq(Nat)) /\ Len(stdout') = Len(stdout) - 1
                      /\ \A i \in 1 .. Len(stdout') : stdout'[i] = stdout[i + 1]
    OBVIOUS
  <2>1. stdout' = Tail(stdout)
    BY <1>1
  <2> QED
    BY <1>3, <2>1, Taken
<1>5. value \in Seq(Nat) /\ stdout' \in Seq(Seq(Nat))
  <2>1. CASE stdout = <<>>
    BY <1>1, <1>3, <2>1
  <2>2. CASE stdout # <<>>
    BY <1>3, <1>4, <2>2
  <2> QED
    BY <2>1, <2>2
<1> HIDE DEF value, full
<1>6. rx' \in Seq(Seq(Nat)) /\ broken' \in BOOLEAN /\ fault' \in BOOLEAN /\ (fault => fault')
  <2>1. rx' \in Seq(Seq(Nat))
    BY <1>1, <1>3, <1>5
  <2>2. CASE full
    BY <1>2, <2>1, <2>2
  <2>3. CASE ~full
    BY <1>2, <1>3, <2>1, <2>3
  <2> QED
    BY <2>2, <2>3
<1>7. /\ RemoteTypes' /\ RemoteShape' /\ Stands /\ (Working' <=> Working) /\ Judged' = Judged
      /\ (Asked' <=> Asked) /\ pc' = pc /\ call' = call /\ given' = given
  BY <1>1, <1>6, SessionFrame
<1>8. SessionTypes'
  <2>1. reader' \in {"running", "gone"}
    BY <1>1
  <2> QED
    BY <1>1, <1>5, <1>6, <1>7, <2>1 DEF SessionInv, SessionTypes
<1>9. CASE ~Working
  BY <1>7, <1>8, <1>9, SessionRests DEF SessionInv
<1>10. CASE Working
  <2>1. child # "none" /\ child' # "none"
    BY <1>1, <1>10 DEF SessionInv, SessionFaults
  <2>2. Bare'
    BY <2>1 DEF Bare
  <2>3. Inputs'
    BY <1>1, <1>7, <2>1, InputsStay DEF SessionInv
  <2>4. Wires'
    BY <1>1, <1>7, WiresKept DEF SessionInv, SessionTypes
  <2>5. PICK m \in Nat : Arrived(m) /\ UnderWay(m)
    BY <1>10 DEF SessionInv, Outputs
  <2>6. PICK e \in Nat :
          /\ m =< e /\ e =< end /\ segments = Run(e, end) /\ Chain(stdout, m, e)
          /\ \A i \in 1 .. Len(stdout) : stdout[i] # R!Error
          /\ \A i \in 1 .. Len(stdout) : stdout[i] = R!Done =>
               i = Len(stdout) /\ closing /\ child = "gone" /\ segments = <<>> /\ (endedEarly \/ end = given[One])
    BY <1>1, <2>5 DEF UnderWay
  <2>7. /\ m =< given[One] - call.left /\ Chain(rx, Judged, m) /\ Judged \in Nat
        /\ \A i \in 1 .. Len(rx) : rx[i] # R!Done
    BY <1>1, <2>5, GivenFacts DEF Arrived, SessionInv
  <2>8. ~DoneIn(rx) /\ (child = "gone" => fault \/ DoneIn(stdout)) /\ (broken => fault)
        /\ (writer = "gone" => broken \/ Asked) /\ (\A i \in 1 .. Len(rx) : rx[i] = R!Error => fault)
        /\ writer # "none"
    <3>1. ~DoneIn(rx)
      BY <1>1, <1>10, DoneFacts
    <3> QED
      BY <1>10, <2>1, <3>1 DEF SessionInv, SessionFaults
  <2>9. CASE full
    <3>1. rx' = rx /\ reader' = "gone"
      BY <1>1, <2>9
    <3>2. fault' = TRUE /\ broken' = TRUE
      BY <1>2, <2>9
    <3>3. Arrived(m)' /\ UnderWay(m)'
      BY <1>1, <1>7, <2>7, <3>1 DEF Arrived, UnderWay
    <3>4. Outputs'
      BY <3>3 DEF Outputs
    <3>5. SessionFaults'
      BY <1>1, <2>1, <2>8, <3>1, <3>2 DEF SessionFaults
    <3> QED
      BY <1>7, <1>8, <2>2, <2>3, <2>4, <3>4, <3>5 DEF SessionInv
  <2>10. CASE ~full /\ stdout = <<>>
    <3>1. value = R!Error /\ child = "gone" /\ reader' = "gone" /\ rx' = Append(rx, R!Error)
      BY <1>1, <2>10 DEF value
    <3>2. fault' = fault /\ broken' = broken
      BY <1>2, <1>3, <2>10
    <3>3. fault
      BY <2>8, <2>10, <3>1 DEF DoneIn
    <3>4. /\ Len(rx') = Len(rx) + 1 /\ rx'[Len(rx) + 1] = R!Error /\ \A i \in 1 .. Len(rx) : rx'[i] = rx[i]
          /\ Len(rx) \in Nat
      BY <1>3, <3>1
    <3>5. Chain(rx', Judged, m)
      <4>1. Item(R!Error, m, m)
        BY DEF Item
      <4>2. Chain(Append(rx, R!Error), Judged, m)
        BY <1>3, <2>7, <4>1, ChainAppend
      <4> QED
        BY <3>1, <4>2
    <3>6. \A i \in 1 .. Len(rx') : rx'[i] # R!Done
      <4>1. \A i \in 1 .. Len(rx') : i \in 1 .. Len(rx) \/ i = Len(rx) + 1
        BY <3>4
      <4> QED
        BY <2>7, <3>4, <4>1, DoneIsNoError
    <3>7. Arrived(m)' /\ UnderWay(m)'
      BY <1>7, <2>7, <3>1, <3>5, <3>6 DEF Arrived, UnderWay
    <3>8. Outputs'
      BY <3>7 DEF Outputs
    <3>9. SessionFaults'
      BY <1>1, <1>7, <2>1, <2>8, <3>1, <3>2, <3>3 DEF SessionFaults
    <3> QED
      BY <1>7, <1>8, <2>2, <2>3, <2>4, <3>8, <3>9 DEF SessionInv
  <2>11. CASE ~full /\ stdout # <<>>
    <3> DEFINE x == Head(stdout)
    <3>1. /\ value = x /\ rx' = Append(rx, x)
          /\ reader' = (IF x \in {R!Done, R!Error} THEN "gone" ELSE "running")
      BY <1>1, <2>11 DEF value
    <3>2. fault' = fault /\ broken' = broken
      BY <1>2, <1>3, <2>11
    <3>3. /\ Len(stdout) \in Nat \ {0} /\ x = stdout[1] /\ 1 \in 1 .. Len(stdout) /\ x \in Seq(Nat)
          /\ stdout' \in Seq(Seq(Nat)) /\ Len(stdout') = Len(stdout) - 1 /\ stdout' = Tail(stdout)
          /\ \A i \in 1 .. Len(stdout') : i + 1 \in 1 .. Len(stdout) /\ stdout'[i] = stdout[i + 1]
      BY <1>1, <1>4, <2>11
    <3>4. PICK c \in Nat : c =< e /\ Item(x, m, c) /\ Chain(stdout', c, e)
      BY <1>3, <2>6, <2>11, <3>3, ChainTake
    <3>5. x # R!Error
      BY <2>6, <3>3
    <3> HIDE DEF x
    <3>6. Chain(rx', Judged, c)
      BY <1>3, <2>7, <3>1, <3>4, ChainAppend
    <3>7. /\ Len(rx') = Len(rx) + 1 /\ rx'[Len(rx) + 1] = x /\ \A i \in 1 .. Len(rx) : rx'[i] = rx[i]
          /\ Len(rx) \in Nat
      BY <1>3, <3>1, <3>3
    <3>8. \A i \in 1 .. Len(rx') : i \in 1 .. Len(rx) \/ i = Len(rx) + 1
      BY <3>7
    <3>9. \A i \in 1 .. Len(rx') : (rx'[i] = R!Done => i = Len(rx') /\ x = R!Done) /\ (rx'[i] = R!Error => fault)
      BY <2>7, <2>8, <3>5, <3>7, <3>8
    <3>10. c =< given[One] - call.left /\ end =< heard /\ heard =< given[One] - call.left /\ (closing => heard = given[One])
      <4>1. end =< said /\ said =< heard /\ end \in Nat /\ said \in Nat /\ heard \in Nat
        BY <1>10 DEF SessionInv, Wires, SessionTypes
      <4>2. heard =< given[One] - call.left /\ (closing => heard = given[One])
        BY <1>10, HeardFacts DEF SessionInv
      <4>3. given[One] \in Nat /\ call.left \in Nat
        BY GivenFacts DEF SessionInv
      <4> QED
        BY <2>6, <3>4, <4>1, <4>2, <4>3
    <3>11. CASE x = R!Done
      <4>1. /\ Len(stdout) = 1 /\ closing /\ child = "gone" /\ segments = <<>> /\ (endedEarly \/ end = given[One])
        BY <2>6, <3>3, <3>11
      <4>2. c = e
        BY <3>3, <3>4, <4>1 DEF Chain
      <4>3. e = end
        <5>1. Run(e, end) = R!Done <=> e = end
          BY <2>6, RunFacts DEF SessionInv, SessionTypes
        <5> QED
          BY <2>6, <4>1, <5>1 DEF R!Done
      <4>4. reader' = "gone"
        BY <3>1, <3>11
      <4>5. Arrived(c)'
        <5>1. endedEarly \/ c = given[One]
          BY <4>1, <4>2, <4>3
        <5> QED
          BY <1>1, <1>7, <3>6, <3>9, <3>10, <4>1, <4>4, <5>1 DEF Arrived
      <4>6. Outputs'
        BY <4>4, <4>5 DEF Outputs, UnderWay
      <4>7. DoneIn(rx)'
        <5>1. Len(rx') = Len(rx) + 1 /\ rx'[Len(rx')] = R!Done /\ rx' # <<>>
          BY <3>1, <3>7, <3>11
        <5> QED
          BY <5>1 DEF DoneIn
      <4>8. SessionFaults'
        BY <1>1, <1>7, <2>1, <2>8, <3>2, <3>9, <4>4, <4>7 DEF SessionFaults
      <4> QED
        BY <1>7, <1>8, <2>2, <2>3, <2>4, <4>6, <4>8 DEF SessionInv
    <3>12. CASE x # R!Done
      <4>1. reader' = "running"
        BY <3>1, <3>5, <3>12
      <4>2. Arrived(c)'
        BY <1>7, <3>6, <3>9, <3>10, <3>12 DEF Arrived
      <4>3. UnderWay(c)'
        <5>1. \A i \in 1 .. Len(stdout') : stdout'[i] # R!Error
          BY <2>6, <3>3
        <5>2. ASSUME NEW i \in 1 .. Len(stdout'), stdout'[i] = R!Done
              PROVE  i = Len(stdout') /\ closing /\ child = "gone" /\ segments = <<>> /\ (endedEarly \/ end = given[One])
          <6>1. i + 1 \in 1 .. Len(stdout) /\ stdout[i + 1] = R!Done
            BY <3>3, <5>2
          <6>2. i + 1 = Len(stdout)
            BY <2>6, <6>1
          <6>3. closing /\ child = "gone" /\ segments = <<>> /\ (endedEarly \/ end = given[One])
            BY <2>6, <6>1
          <6>4. Len(stdout') = Len(stdout) - 1 /\ Len(stdout) \in Nat
            BY <3>3
          <6>5. i = Len(stdout')
            BY <6>2, <6>4
          <6> QED
            BY <6>3, <6>5
        <5> QED
          BY <1>1, <1>7, <2>6, <3>4, <5>1, <5>2 DEF UnderWay
      <4>4. Outputs'
        BY <4>2, <4>3 DEF Outputs
      <4>5. DoneIn(stdout) => DoneIn(stdout)'
        <5> SUFFICES ASSUME stdout[Len(stdout)] = R!Done PROVE DoneIn(stdout)'
          BY DEF DoneIn
        <5>1. Len(stdout) # 1
          BY <3>3, <3>12
        <5>2. Len(stdout') \in 1 .. Len(stdout') /\ Len(stdout') + 1 = Len(stdout)
          BY <3>3, <5>1
        <5>3. stdout'[Len(stdout')] = stdout[Len(stdout') + 1]
          BY <3>3, <5>2
        <5>4. stdout' # <<>>
          BY <5>2
        <5> QED
          BY <5>2, <5>3, <5>4 DEF DoneIn
      <4>6. SessionFaults'
        BY <1>1, <1>7, <2>1, <2>8, <3>2, <3>9, <4>1, <4>5 DEF SessionFaults
      <4> QED
        BY <1>7, <1>8, <2>2, <2>3, <2>4, <4>4, <4>6 DEF SessionInv
    <3> QED
      BY <3>11, <3>12
  <2> QED
    BY <2>9, <2>10, <2>11
<1> QED
  BY <1>9, <1>10

\* A concatenation with one value, or with none.
LEMMA OneMore ==
  ASSUME NEW L \in Seq(Seq(Nat)), NEW x \in Seq(Nat)
  PROVE  L \o <<x>> = Append(L, x) /\ L \o <<>> = L
  BY AppendIsConcat, ConcatEmptySeq

\* One message of the provider's is taken.
LEMMA SessionReceiveKeeps ==
  ASSUME SessionInv, UNCHANGED started, R!Receive
  PROVE  SessionInv' /\ Stands
<1> DEFINE msg == Head(wire)
           last == closing /\ msg.type \in {"metadata", "close"}
           early == ~closing /\ msg.type = "close"
           done == R!Complete(msg)
           whole == R!Assembled(msg)
           told == stdout \o (IF done THEN <<whole>> ELSE <<>>)
<1>1. /\ child = "ready" /\ wire # <<>> /\ wire' = Tail(wire)
      /\ segments' = (IF done THEN <<>> ELSE whole)
      /\ end' = (IF msg.type = "final" /\ msg.n > end THEN msg.n ELSE end)
      /\ stdout' = told \o (IF last THEN <<R!Done>> ELSE <<>>)
      /\ child' = (IF last \/ early THEN "gone" ELSE "ready")
      /\ UNCHANGED <<R!clientSide, tx, writer, reader, rx, broken, stdin, closing, heard, said, endedEarly>>
  BY DEF R!Receive, R!loopSide
<1>2. fault' = (fault \/ early)
  BY DEF R!Receive
<1>3. /\ msg \in Message /\ msg = wire[1] /\ Len(wire) \in Nat \ {0}
      /\ wire' \in Seq(Message) /\ Len(wire') = Len(wire) - 1
      /\ \A i \in 1 .. Len(wire') : wire'[i] = wire[i + 1]
      /\ wire' = <<>> <=> Len(wire) = 1
  <2>1. wire \in Seq(Message)
    BY DEF SessionInv, SessionTypes
  <2>2. /\ msg \in Message /\ msg = wire[1] /\ Len(wire) \in Nat \ {0}
        /\ wire' \in Seq(Message) /\ Len(wire') = Len(wire) - 1
        /\ \A i \in 1 .. Len(wire') : wire'[i] = wire[i + 1]
    BY <1>1, <2>1, Taken
  <2>3. wire' = <<>> <=> Len(wire') = 0
    BY <2>2, EmptySeq
  <2> QED
    BY <2>2, <2>3
<1>4. /\ msg.n \in Nat /\ msg.type \in {"final", "end", "metadata", "close"}
  BY <1>3 DEF Message
<1>5. whole = (IF msg.type = "final" /\ msg.n > end THEN Append(segments, msg.n) ELSE segments)
  BY DEF R!Assembled, R!Extended
<1>6. done => whole # <<>>
  BY DEF R!Complete
<1>7. last /\ ~done => whole = <<>>
  BY DEF R!Complete
<1>8. segments \in Seq(Nat) /\ stdout \in Seq(Seq(Nat)) /\ end \in Nat /\ said \in Nat /\ heard \in Nat /\ fault \in BOOLEAN
  BY DEF SessionInv, SessionTypes, RemoteTypes
<1> HIDE DEF msg, done, whole
<1>9. whole \in Seq(Nat) /\ segments' \in Seq(Nat) /\ end' \in Nat
  <2>1. Append(segments, msg.n) \in Seq(Nat)
    BY <1>4, <1>8
  <2>2. whole \in Seq(Nat)
    BY <1>5, <1>8, <2>1
  <2> QED
    BY <1>1, <1>4, <1>8, <2>2
<1>10. told \in Seq(Seq(Nat)) /\ told = (IF done THEN Append(stdout, whole) ELSE stdout)
  <2>1. Append(stdout, whole) \in Seq(Seq(Nat))
    BY <1>8, <1>9
  <2>2. stdout \o <<whole>> = Append(stdout, whole) /\ stdout \o <<>> = stdout
    BY <1>8, <1>9, OneMore
  <2> QED
    BY <1>8, <2>1, <2>2
<1> HIDE DEF told
<1>11. stdout' \in Seq(Seq(Nat)) /\ stdout' = (IF last THEN Append(told, R!Done) ELSE told)
  <2>1. R!Done \in Seq(Nat)
    BY DEF R!Done
  <2>2. Append(told, R!Done) \in Seq(Seq(Nat))
    BY <1>10, <2>1
  <2>3. told \o <<R!Done>> = Append(told, R!Done) /\ told \o <<>> = told
    BY <1>10, <2>1, OneMore
  <2> QED
    BY <1>1, <1>10, <2>2, <2>3
<1> HIDE DEF last, early
<1>12. fault' \in BOOLEAN /\ (fault => fault') /\ (early => fault')
  BY <1>2, <1>8 DEF early
<1>13. /\ RemoteTypes' /\ RemoteShape' /\ Stands /\ (Working' <=> Working) /\ Judged' = Judged
       /\ (Asked' <=> Asked) /\ pc' = pc /\ call' = call /\ given' = given
  BY <1>1, <1>12, SessionFrame
<1>14. SessionTypes'
  <2>1. child' \in {"ready", "gone"}
    BY <1>1
  <2> QED
    BY <1>1, <1>3, <1>9, <1>11, <1>13, <2>1 DEF SessionInv, SessionTypes
<1>15. CASE ~Working
  BY <1>13, <1>14, <1>15, SessionRests DEF SessionInv
<1>16. CASE Working
  <2>1. child' # "none" /\ child' \in {"ready", "gone"}
    BY <1>1
  <2>2. Bare'
    BY <2>1 DEF Bare
  <2>3. Inputs'
    BY <1>1, <1>13, <2>1, InputsStay DEF SessionInv
  <2>4. \A i \in 1 .. Len(wire) :
          /\ wire[i].n = Before(i) \/ (wire[i].n = Before(i) + 1 /\ wire[i].type = "final")
          /\ wire[i].n =< said
          /\ wire[i].type \in {"metadata", "close"} => endedEarly \/ (closing /\ wire[i].n = heard)
    BY <1>16 DEF SessionInv, Wires
  <2>5. /\ msg.n = end \/ (msg.n = end + 1 /\ msg.type = "final")
        /\ msg.n =< said
        /\ last => endedEarly \/ msg.n = heard
    <3>1. 1 \in 1 .. Len(wire) /\ Before(1) = end
      BY <1>3 DEF Before
    <3> QED
      BY <1>3, <2>4, <3>1 DEF last
  <2>6. end' = msg.n /\ (end' = end \/ (end' = end + 1 /\ msg.type = "final" /\ msg.n > end)) /\ end =< end'
    BY <1>1, <1>4, <1>8, <2>5
  <2>7. whole = IF end' = end THEN segments ELSE Append(segments, end + 1)
    BY <1>4, <1>5, <1>8, <2>6
  <2>8. Wires'
    <3>1. said =< heard /\ said = wire[Len(wire)].n
      BY <1>1, <1>16 DEF SessionInv, Wires
    <3>2. ASSUME NEW i \in 1 .. Len(wire')
          PROVE  i + 1 \in 1 .. Len(wire) /\ wire'[i] = wire[i + 1] /\ Before(i)' = Before(i + 1)
      <4>1. i + 1 \in 1 .. Len(wire) /\ wire'[i] = wire[i + 1] /\ i + 1 # 1 /\ (i + 1) - 1 = i
        BY <1>3
      <4>2. CASE i = 1
        BY <1>3, <2>6, <4>1, <4>2 DEF Before
      <4>3. CASE i # 1
        <5>1. i - 1 \in 1 .. Len(wire') /\ (i - 1) + 1 = i
          BY <4>3
        <5>2. wire'[i - 1] = wire[(i - 1) + 1]
          BY <1>3, <5>1
        <5> QED
          BY <4>1, <4>3, <5>1, <5>2 DEF Before
      <4> QED
        BY <4>2, <4>3
    <3>3. \A i \in 1 .. Len(wire') :
            /\ wire'[i].n = Before(i)' \/ (wire'[i].n = Before(i)' + 1 /\ wire'[i].type = "final")
            /\ wire'[i].n =< said
            /\ wire'[i].type \in {"metadata", "close"} => endedEarly \/ (closing /\ wire'[i].n = heard)
      BY <2>4, <3>2
    <3>4. said = IF wire' = <<>> THEN end' ELSE wire'[Len(wire')].n
      <4>1. CASE wire' = <<>>
        BY <1>3, <2>6, <3>1, <4>1
      <4>2. CASE wire' # <<>>
        <5>1. Len(wire') \in 1 .. Len(wire') /\ Len(wire') + 1 = Len(wire)
          BY <1>3, <4>2
        <5>2. wire'[Len(wire')] = wire[Len(wire') + 1]
          BY <1>3, <5>1
        <5> QED
          BY <3>1, <4>2, <5>1, <5>2
      <4> QED
        BY <4>1, <4>2
    <3> QED
      BY <1>1, <2>5, <2>6, <3>1, <3>3, <3>4 DEF Wires
  <2>9. PICK m \in Nat : Arrived(m) /\ UnderWay(m)
    BY <1>16 DEF SessionInv, Outputs
  <2>10. Arrived(m)'
    <3>1. m =< given'[One] - call'.left
      BY <1>13, <2>9 DEF Arrived
    <3> QED
      BY <1>1, <1>13, <2>9, <3>1, ArrivedKept
  <2>11. CASE reader = "running"
    <3>1. PICK e \in Nat :
            /\ m =< e /\ e =< end /\ segments = Run(e, end) /\ Chain(stdout, m, e)
            /\ \A i \in 1 .. Len(stdout) : stdout[i] # R!Error /\ stdout[i] # R!Done
      BY <1>1, <2>9, <2>11 DEF UnderWay
    <3>2. whole = Run(e, end') /\ e =< end'
      <4>1. Append(Run(e, end), end + 1) = Run(e, end + 1)
        BY <1>8, <3>1, RunFacts
      <4>2. e =< end'
        BY <1>8, <1>9, <2>6, <3>1
      <4> QED
        BY <2>6, <2>7, <3>1, <4>1, <4>2
    <3>3. whole # R!Error /\ (whole = R!Done <=> e = end') /\ Run(end', end') = R!Done
      <4>1. Run(e, end') # R!Error /\ (Run(e, end') = R!Done <=> e = end')
        BY <1>9, <3>2, RunFacts
      <4>2. Run(end', end') = R!Done
        BY <1>9, RunFacts
      <4> QED
        BY <3>2, <4>1, <4>2
    <3> DEFINE f == IF done THEN end' ELSE e
    <3>4. f \in Nat /\ m =< f /\ f =< end'
      BY <1>9, <3>1, <3>2
    <3>5. segments' = Run(f, end')
      BY <1>1, <3>2, <3>3 DEF R!Done
    <3>6. Chain(told, m, f) /\ \A i \in 1 .. Len(told) : told[i] # R!Error /\ told[i] # R!Done
      <4>1. CASE done
        <5>1. Item(whole, e, end')
          BY <3>2 DEF Item
        <5>2. Chain(Append(stdout, whole), m, end')
          BY <1>8, <1>9, <3>1, <5>1, ChainAppend
        <5>3. whole # R!Done
          BY <1>6, <4>1 DEF R!Done
        <5>4. /\ Len(Append(stdout, whole)) = Len(stdout) + 1 /\ Append(stdout, whole)[Len(stdout) + 1] = whole
              /\ \A i \in 1 .. Len(stdout) : Append(stdout, whole)[i] = stdout[i]
              /\ \A i \in 1 .. Len(stdout) + 1 : i \in 1 .. Len(stdout) \/ i = Len(stdout) + 1
          BY <1>8, <1>9
        <5>5. \A i \in 1 .. Len(Append(stdout, whole)) : Append(stdout, whole)[i] # R!Error /\ Append(stdout, whole)[i] # R!Done
          BY <3>1, <3>3, <5>3, <5>4
        <5> QED
          BY <1>10, <4>1, <5>2, <5>5
      <4>2. CASE ~done
        BY <1>10, <3>1, <4>2
      <4> QED
        BY <4>1, <4>2
    <3>7. CASE ~last
      <4>1. stdout' = told
        BY <1>11, <3>7
      <4>2. UnderWay(m)'
        BY <1>1, <3>4, <3>5, <3>6, <4>1 DEF UnderWay
      <4>3. SessionFaults'
        <5>1. DoneIn(rx)' = DoneIn(rx) /\ (child' = "gone" => fault')
          BY <1>1, <1>12, <3>7 DEF DoneIn
        <5> QED
          BY <1>1, <1>12, <1>13, <1>16, <2>1, <5>1 DEF SessionInv, SessionFaults
      <4>4. Outputs'
        BY <2>10, <4>2 DEF Outputs
      <4> QED
        BY <1>13, <1>14, <2>2, <2>3, <2>8, <4>3, <4>4 DEF SessionInv
    <3>8. CASE last
      <4>1. stdout' = Append(told, R!Done) /\ closing /\ child' = "gone"
        BY <1>1, <1>11, <3>8 DEF last
      <4>2. segments' = <<>>
        BY <1>1, <1>7, <3>8
      <4>3. f = end'
        <5>1. Run(f, end') = R!Done <=> f = end'
          BY <1>9, <3>4, RunFacts
        <5> QED
          BY <3>5, <4>2, <5>1 DEF R!Done
      <4>4. Chain(stdout', m, end')
        <5>1. Item(R!Done, end', end')
          BY <1>9, <3>3 DEF Item
        <5>2. Chain(told, m, end')
          BY <3>6, <4>3
        <5>3. Chain(Append(told, R!Done), m, end')
          BY <1>9, <1>10, <5>1, <5>2, ChainAppend
        <5> QED
          BY <4>1, <5>3
      <4>5. endedEarly \/ end' = given[One]
        <5>1. heard = given[One]
          BY <1>16, <4>1, HeardFacts DEF SessionInv
        <5> QED
          BY <2>5, <2>6, <3>8, <5>1
      <4>6. /\ Len(stdout') = Len(told) + 1 /\ stdout'[Len(told) + 1] = R!Done /\ Len(told) \in Nat
            /\ \A i \in 1 .. Len(told) : stdout'[i] = told[i]
            /\ \A i \in 1 .. Len(stdout') : i \in 1 .. Len(told) \/ i = Len(stdout')
        <5>1. R!Done \in Seq(Nat)
          BY DEF R!Done
        <5> QED
          BY <1>10, <4>1, <5>1
      <4>7. \A i \in 1 .. Len(stdout') : stdout'[i] # R!Error /\ (stdout'[i] = R!Done => i = Len(stdout'))
        BY <3>6, <4>6, DoneIsNoError
      <4>8. UnderWay(m)'
        <5>1. segments' = Run(end', end') /\ m =< end' /\ end' =< end'
          BY <1>9, <3>4, <3>5, <4>3
        <5> QED
          BY <1>1, <1>9, <1>13, <4>1, <4>2, <4>4, <4>5, <4>7, <5>1 DEF UnderWay
      <4>9. DoneIn(stdout)'
        <5>1. stdout' # <<>> /\ stdout'[Len(stdout')] = R!Done
          BY <4>6
        <5> QED
          BY <5>1 DEF DoneIn
      <4>10. SessionFaults'
        <5>1. DoneIn(rx)' = DoneIn(rx)
          BY <1>1 DEF DoneIn
        <5> QED
          BY <1>1, <1>12, <1>13, <1>16, <2>1, <2>11, <4>9, <5>1 DEF SessionInv, SessionFaults
      <4>11. Outputs'
        BY <2>10, <4>8 DEF Outputs
      <4> QED
        BY <1>13, <1>14, <2>2, <2>3, <2>8, <4>10, <4>11 DEF SessionInv
    <3> QED
      BY <3>7, <3>8
  <2>12. CASE reader # "running"
    <3>1. UnderWay(m)'
      BY <1>1, <2>12 DEF UnderWay
    <3>2. Outputs'
      BY <2>10, <3>1 DEF Outputs
    <3>3. reader = "gone" /\ (fault \/ DoneIn(rx))
      BY <1>1, <1>16, <2>12 DEF SessionInv, SessionFaults, SessionTypes
    <3>4. SessionFaults'
      <4>1. DoneIn(rx)' = DoneIn(rx)
        BY <1>1 DEF DoneIn
      <4> QED
        BY <1>1, <1>12, <1>13, <1>16, <2>1, <3>3, <4>1 DEF SessionInv, SessionFaults
    <3> QED
      BY <1>13, <1>14, <2>2, <2>3, <2>8, <3>2, <3>4 DEF SessionInv
  <2> QED
    BY <2>11, <2>12
<1> QED
  BY <1>15, <1>16

\* The provider speaks.
LEMMA TellsKeeps ==
  ASSUME SessionTypes, Wires, Working' => Working, NEW m \in Message, wire' = Append(wire, m),
         UNCHANGED <<end, closing, heard>>, endedEarly => endedEarly',
         Working => /\ m.n = said \/ (m.n = said + 1 /\ m.type = "final")
                    /\ said' = m.n /\ said' =< heard
                    /\ m.type \in {"metadata", "close"} => endedEarly' \/ (closing /\ m.n = heard)
  PROVE  Wires' /\ wire' \in Seq(Message)
<1>1. /\ wire' \in Seq(Message) /\ Len(wire') = Len(wire) + 1 /\ wire'[Len(wire) + 1] = m /\ wire' # <<>>
      /\ \A i \in 1 .. Len(wire) : wire'[i] = wire[i]
      /\ Len(wire) \in Nat /\ (wire = <<>> <=> Len(wire) = 0)
  <2>1. wire \in Seq(Message)
    BY DEF SessionTypes
  <2>2. wire = <<>> <=> Len(wire) = 0
    BY <2>1, EmptySeq
  <2> QED
    BY <2>1, <2>2
<1>2. Wires'
  <2> SUFFICES ASSUME Working PROVE Wires'
    BY DEF Wires
  <2>1. /\ end =< said /\ said =< heard
        /\ \A i \in 1 .. Len(wire) :
             /\ wire[i].n = Before(i) \/ (wire[i].n = Before(i) + 1 /\ wire[i].type = "final")
             /\ wire[i].n =< said
             /\ wire[i].type \in {"metadata", "close"} => endedEarly \/ (closing /\ wire[i].n = heard)
        /\ said = IF wire = <<>> THEN end ELSE wire[Len(wire)].n
    BY DEF Wires
  <2>2. said \in Nat /\ end \in Nat /\ said =< said' /\ said' \in Nat
    BY DEF SessionTypes
  <2>3. ASSUME NEW i \in 1 .. Len(wire)
        PROVE  wire'[i] = wire[i] /\ Before(i)' = Before(i) /\ wire[i].n =< said'
    <3>1. wire'[i] = wire[i] /\ (i = 1 \/ i - 1 \in 1 .. Len(wire))
      BY <1>1
    <3>2. Before(i)' = Before(i)
      BY <1>1, <3>1 DEF Before
    <3>3. wire[i].n \in Nat
      <4>1. wire \in Seq(Message)
        BY DEF SessionTypes
      <4>2. wire[i] \in Message
        BY <4>1, ElementOfSeq
      <4> QED
        BY <4>2 DEF Message
    <3> QED
      BY <2>1, <2>2, <3>1, <3>2, <3>3
  <2>4. ASSUME NEW k \in Nat, k = Len(wire) + 1
        PROVE  Before(k)' = said
    <3>1. CASE wire = <<>>
      <4>1. k = 1
        BY <1>1, <2>4, <3>1
      <4> QED
        BY <2>1, <3>1, <4>1 DEF Before
    <3>2. CASE wire # <<>>
      <4>1. Len(wire) \in 1 .. Len(wire) /\ k # 1 /\ k - 1 = Len(wire)
        BY <1>1, <2>4, <3>2
      <4>2. wire'[k - 1] = wire[Len(wire)]
        BY <1>1, <4>1
      <4> QED
        BY <2>1, <3>2, <4>1, <4>2 DEF Before
    <3> QED
      BY <3>1, <3>2
  <2>5. ASSUME NEW i \in 1 .. Len(wire')
        PROVE  /\ wire'[i].n = Before(i)' \/ (wire'[i].n = Before(i)' + 1 /\ wire'[i].type = "final")
               /\ wire'[i].n =< said'
               /\ wire'[i].type \in {"metadata", "close"} => endedEarly' \/ (closing /\ wire'[i].n = heard)
    <3>1. i \in 1 .. Len(wire) \/ i = Len(wire) + 1
      BY <1>1
    <3>2. CASE i \in 1 .. Len(wire)
      BY <2>1, <2>3, <3>2
    <3>3. CASE i = Len(wire) + 1
      <4>1. wire'[i] = m /\ Before(i)' = said
        BY <1>1, <2>4, <3>3
      <4>2. said' = m.n /\ m.n =< said'
        BY <2>2
      <4> QED
        BY <4>1, <4>2
    <3> QED
      BY <3>1, <3>2, <3>3
  <2>6. end =< said' /\ said' =< heard /\ said' = wire'[Len(wire')].n
    BY <1>1, <2>1, <2>2
  <2> QED
    BY <1>1, <2>5, <2>6 DEF Wires
<1> QED
  BY <1>1, <1>2

\* The provider adds a message of its own accord.
LEMMA SessionTellsKeeps ==
  ASSUME SessionInv, UNCHANGED started, NEW m \in Message, R!Tells(m),
         m.n = said \/ (m.n = said + 1 /\ m.type = "final"), said' = m.n,
         said < heard \/ said' = said,
         m.type \in {"metadata", "close"} => endedEarly' \/ (closing /\ said = heard),
         m.type \notin {"metadata", "close"} => endedEarly' = endedEarly,
         m.type \in {"metadata", "close"} => said' = said,
         endedEarly' \in BOOLEAN, endedEarly => endedEarly'
  PROVE  SessionInv' /\ Stands
<1>1. /\ child = "ready" /\ wire' = Append(wire, m)
      /\ UNCHANGED <<R!clientSide, fault, tx, writer, stdin, reader, stdout, rx, broken, child, closing, segments, end, heard>>
  BY DEF R!Tells, R!pipeVars, R!workerVars
<1>2. UNCHANGED <<stream, given, judged, call, pc, live>>
  BY <1>1 DEF R!clientSide
<1>3. RemoteTypes' /\ (Working' <=> Working) /\ Judged' = Judged /\ (Asked' <=> Asked)
  BY <1>1, <1>2 DEF SessionInv, RemoteTypes, CallerTypes, Working, Judged, Asked
<1>4. RemoteShape'
  BY <1>1, <1>2 DEF SessionInv, RemoteShape, Judged
<1>5. Stands
  <2>1. ASSUME endedEarly' = TRUE
        PROVE  Contract!Cut
    BY <1>2, <2>1 DEF Contract!Cut
  <2>2. ASSUME endedEarly' # TRUE
        PROVE  endedEarly' = endedEarly
    BY <2>2 DEF SessionInv, SessionTypes
  <2>3. \A t \in Stream : ~Fails(t)
    BY <1>2 DEF Fails
  <2> QED
    BY <1>2, <2>1, <2>2, <2>3, StillStands DEF Stands, Contract!Next
<1>6. said \in Nat /\ heard \in Nat /\ said' \in Nat
  BY DEF SessionInv, SessionTypes, Message
<1>7. Wires' /\ wire' \in Seq(Message)
  <2>1. Working => said =< heard
    BY DEF SessionInv, Wires
  <2>2. Working => said' =< heard
    BY <1>6, <2>1
  <2> QED
    BY <1>1, <1>3, <2>2, TellsKeeps DEF SessionInv
<1>8. SessionTypes'
  BY <1>1, <1>2, <1>6, <1>7 DEF SessionInv, SessionTypes
<1>9. Bare'
  BY <1>1 DEF Bare
<1>10. Inputs'
  BY <1>1, <1>2, <1>3, InputsStay DEF SessionInv
<1>11. Outputs'
  BY <1>1, <1>2, <1>3, OutputsKept DEF SessionInv
<1>12. SessionFaults'
  BY <1>1, <1>2, <1>3, FaultsKept DEF SessionInv
<1> QED
  BY <1>3, <1>4, <1>5, <1>7, <1>8, <1>9, <1>10, <1>11, <1>12 DEF SessionInv

\* The provider answers, in the order of its segments.
LEMMA SessionProviderKeeps ==
  ASSUME SessionInv, UNCHANGED started, R!Provider
  PROVE  SessionInv' /\ Stands
<1>1. said \in Nat /\ heard \in Nat /\ endedEarly \in BOOLEAN /\ closing \in BOOLEAN
  BY DEF SessionInv, SessionTypes
<1>2. CASE R!Says
  <2>1. PICK b \in BOOLEAN : R!Tells(R!Final(said + 1, b))
    BY <1>2 DEF R!Says
  <2>2. said < heard /\ said' = said + 1 /\ endedEarly' = endedEarly
    BY <1>2 DEF R!Says
  <2> DEFINE m == R!Final(said + 1, b)
  <2>3. m \in Message /\ m.n = said + 1 /\ m.type = "final"
    BY <1>1 DEF R!Final, Message
  <2> HIDE DEF m
  <2> QED
    BY <1>1, <2>1, <2>2, <2>3, SessionTellsKeeps DEF m
<1>3. CASE R!Repeats
  <2>1. PICK b \in BOOLEAN : R!Tells(R!Final(said, b))
    BY <1>3 DEF R!Repeats
  <2>2. said' = said /\ endedEarly' = endedEarly
    BY <1>3 DEF R!Repeats
  <2> DEFINE m == R!Final(said, b)
  <2>3. m \in Message /\ m.n = said /\ m.type = "final"
    BY <1>1 DEF R!Final, Message
  <2> HIDE DEF m
  <2> QED
    BY <1>1, <2>1, <2>2, <2>3, SessionTellsKeeps DEF m
<1>4. CASE R!EndsUtterance
  <2> DEFINE m == R!Other("end")
  <2>1. m \in Message /\ m.n = said /\ m.type = "end"
    BY <1>1 DEF R!Other, Message
  <2>2. R!Tells(m) /\ said' = said /\ endedEarly' = endedEarly
    BY <1>4 DEF R!EndsUtterance
  <2> HIDE DEF m
  <2> QED
    BY <1>1, <2>1, <2>2, SessionTellsKeeps
<1>5. CASE R!EndsSession
  <2>1. PICK type \in {"metadata", "close"} : R!Tells(R!Other(type))
    BY <1>5 DEF R!EndsSession
  <2>2. said' = said /\ (closing => said = heard) /\ endedEarly' = (endedEarly \/ ~closing)
    BY <1>5 DEF R!EndsSession
  <2>3. endedEarly' \in BOOLEAN /\ (endedEarly => endedEarly') /\ (endedEarly' \/ (closing /\ said = heard))
    BY <1>1, <2>2
  <2> DEFINE m == R!Other(type)
  <2>4. m \in Message /\ m.n = said /\ m.type \in {"metadata", "close"}
    BY <1>1 DEF R!Other, Message
  <2>5. R!Tells(m)
    BY <2>1
  <2> HIDE DEF m
  <2> QED
    BY <1>1, <2>2, <2>3, <2>4, <2>5, SessionTellsKeeps
<1> QED
  BY <1>2, <1>3, <1>4, <1>5 DEF R!Provider

\* A step of the engine of one session.
LEMMA SessionKeeps ==
  ASSUME SessionInv, UNCHANGED started, R!Next
  PROVE  SessionInv' /\ Stands
  BY SessionEnterKeeps, SessionDropStreamKeeps, SessionStartKeeps, SessionSendKeeps, SessionFedKeeps,
     SessionEnterPollKeeps, SessionPollKeeps, SessionPollEmptyKeeps, SessionTeardownKeeps, SessionReturnKeeps,
     SessionWriteKeeps, SessionReadKeeps, SessionInputKeeps, SessionReceiveKeeps, SessionExpireKeeps,
     SessionProviderKeeps
  DEF R!Next, R!Caller, R!Client, R!Loop

\* Nothing is said yet.
LEMMA SessionInitially ==
  ASSUME Init, engine = "realtime"
  PROVE  SessionInv
<1>1. /\ stream = [s \in Stream |-> "new"] /\ started = {}
      /\ given = [s \in Stream |-> 0] /\ judged = [s \in Stream |-> <<>>]
      /\ call = [op |-> "none", left |-> 0, ok |-> TRUE] /\ pc = "idle"
      /\ fault = FALSE /\ live \in BOOLEAN
      /\ writer = "none" /\ child = "none"
      /\ tx = <<>> /\ stdin = <<>> /\ stdout = <<>> /\ rx = <<>> /\ wire = <<>>
      /\ reader = "none" /\ broken = FALSE /\ closing = FALSE /\ segments = <<>> /\ end = 0
      /\ heard = 0 /\ said = 0 /\ endedEarly = FALSE
  BY DEF Init, Native, ClientInit, Q!NoCall, R!SessionInit
<1>2. RemoteTypes
  <2>1. CallerTypes /\ call \in RemoteCall
    BY <1>1 DEF CallerTypes, Phases, RemoteCall
  <2>2. fault \in BOOLEAN /\ live \in BOOLEAN
    BY <1>1
  <2> QED
    BY <2>1, <2>2 DEF RemoteTypes
<1>3. Judged = 0 /\ judged[One] = UpTo(0) /\ given[One] = 0 /\ stream[One] = "new"
  BY <1>1, OneIsAStream, UpToFacts DEF Judged
<1>4. RemoteShape
  BY <1>1, <1>3 DEF RemoteShape
<1>5. SessionTypes
  <2>1. tx \in Seq(Nat) /\ stdin \in Seq(Nat) /\ segments \in Seq(Nat) /\ wire \in Seq(Message)
    BY <1>1
  <2>2. stdout \in Seq(Seq(Nat)) /\ rx \in Seq(Seq(Nat))
    BY <1>1
  <2>3. broken \in BOOLEAN /\ closing \in BOOLEAN /\ endedEarly \in BOOLEAN
    BY <1>1
  <2> QED
    BY <1>1, <2>1, <2>2, <2>3 DEF SessionTypes
<1>6. Bare
  BY <1>1, <1>3 DEF Bare
<1>7. ~Asked /\ One0(closing) = 0 /\ One0(Asked) = 0
  BY <1>1 DEF Asked, One0
<1>8. Inputs
  BY <1>1, <1>3, <1>7 DEF Inputs
<1>9. Wires
  BY <1>1 DEF Wires
<1>10. Outputs
  <2>1. Chain(<<>>, 0, 0)
    BY ChainEmpty
  <2>2. Arrived(0) /\ UnderWay(0)
    BY <1>1, <1>3, <2>1 DEF Arrived, UnderWay
  <2> QED
    BY <2>2 DEF Outputs
<1>11. SessionFaults
  BY <1>1 DEF SessionFaults
<1> QED
  BY <1>2, <1>4, <1>5, <1>6, <1>8, <1>9, <1>10, <1>11 DEF SessionInv

-----------------------------------------------------------------------------
(* Any engine. *)

EngineInv ==
  /\ engine \in Native \cup {"cloud", "realtime"}
  /\ engine \in Native => LinkInv
  /\ engine = "cloud" => QueueInv
  /\ engine = "realtime" => SessionInv

\* Whichever engine it is, nothing was asked of it yet.
LEMMA EngineInit ==
  ASSUME Init
  PROVE  EngineInv /\ Contract!Init
<1>1. engine \in Native \cup {"cloud", "realtime"}
  BY DEF Init
<1>2. Contract!Init
  BY DEF Init, R!SessionInit, Contract!Init
<1> QED
  BY <1>1, <1>2, LinkInit, QueueInitially, SessionInitially DEF EngineInv

\* A fault is a reason.
LEMMA StandsIsPromise ==
  ASSUME Stands
  PROVE  Promise
  BY DEF Stands, Promise, Reason

\* A step of an engine with a process of its own.
LEMMA NativeStep ==
  ASSUME EngineInv, Next, engine \in Native
  PROVE  EngineInv' /\ Promise
<1>1. LinkInv /\ UNCHANGED engine
  BY DEF EngineInv, Next
<1>2. engine' \in Native /\ engine' \notin {"cloud", "realtime"} /\ engine \notin {"cloud", "realtime"}
  BY <1>1 DEF Native
<1>3. UNCHANGED endedEarly
  BY <1>2 DEF Next, LocalStep, remoteVars, sessionVars
<1>4. \/ engine = "audiocpp" /\ A!Next
      \/ engine = "openvino-genai" /\ O!Next
      \/ engine = "whispercpp" /\ W!Next
      \/ engine = "trained" /\ T!Next
  BY <1>2 DEF Next, LocalStep
<1>5. LinkInv' /\ Promise
  <2>1. CASE engine = "audiocpp" /\ A!Next
    BY <1>1, <1>3, <2>1, AudioCppKeeps, AudioCppPromise
  <2>2. CASE engine = "openvino-genai" /\ O!Next
    BY <1>1, <1>3, <2>2, OpenVinoKeeps, OpenVinoPromise
  <2>3. CASE engine = "whispercpp" /\ W!Next
    BY <1>1, <1>3, <2>3, WhisperKeeps, WhisperPromise
  <2>4. CASE engine = "trained" /\ T!Next
    BY <1>1, <1>3, <2>4, TrainedKeeps, TrainedPromise
  <2> QED
    BY <1>4, <2>1, <2>2, <2>3, <2>4
<1> QED
  BY <1>2, <1>5 DEF EngineInv

\* A step of a remote engine.
LEMMA RemoteStep ==
  ASSUME EngineInv, Next, engine \in {"cloud", "realtime"}
  PROVE  EngineInv' /\ Promise
<1>1. UNCHANGED engine
  BY DEF Next
<1>2. CASE engine = "cloud"
  <2>1. Q!Next /\ UNCHANGED <<started, endedEarly>>
    BY <1>2 DEF Next, QueueStep, sessionVars
  <2>2. QueueInv' /\ Promise
    BY <1>2, <2>1, QueueKeeps, StandsIsPromise DEF EngineInv
  <2> QED
    BY <1>1, <1>2, <2>2 DEF EngineInv, Native
<1>3. CASE engine = "realtime"
  <2>1. R!Next /\ UNCHANGED started
    BY <1>3 DEF Next, SessionStep
  <2>2. SessionInv' /\ Promise
    BY <1>3, <2>1, SessionKeeps, StandsIsPromise DEF EngineInv
  <2> QED
    BY <1>1, <1>3, <2>2 DEF EngineInv, Native
<1> QED
  BY <1>2, <1>3

\* A step that changes nothing keeps the invariant.
LEMMA QueueUnchanged ==
  ASSUME QueueInv, UNCHANGED vars
  PROVE  QueueInv'
<1>1. UNCHANGED <<stream, started, given, judged, call, pc, fault, live, writer, child, pending, requests, results, endedEarly>>
  BY DEF vars, linkVars, callerVars, clientVars, workerVars, remoteVars, queueVars, sessionVars
<1>2. RemoteTypes' /\ RemoteShape' /\ (Working' <=> Working) /\ Judged' = Judged
  BY <1>1, RemoteFrame DEF QueueInv, RemoteTypes
<1>3. Has' = Has
  BY <1>1 DEF Has
<1>4. QueueTypes' /\ QueueFaults'
  BY <1>1, <1>2 DEF QueueInv, QueueTypes, QueueFaults
<1>5. QueueOrder'
  BY <1>1, <1>2, <1>3 DEF QueueInv, QueueOrder
<1> QED
  BY <1>2, <1>4, <1>5 DEF QueueInv

\* A step that changes nothing keeps the invariant.
LEMMA SessionUnchanged ==
  ASSUME SessionInv, UNCHANGED vars
  PROVE  SessionInv'
<1>1. /\ UNCHANGED <<stream, started, given, judged, call, pc, fault, live, endedEarly>>
      /\ UNCHANGED pipesAndLoop
  BY DEF vars, linkVars, callerVars, clientVars, workerVars, remoteVars, queueVars, sessionVars, pipesAndLoop
<1>2. RemoteTypes' /\ RemoteShape' /\ (Working' <=> Working) /\ Judged' = Judged
  BY <1>1, RemoteFrame DEF SessionInv, RemoteTypes
<1>3. SessionTypes'
  BY <1>1 DEF SessionInv, SessionTypes, pipesAndLoop
<1>4. Asked' <=> Asked
  BY <1>1 DEF Asked
<1>5. UNCHANGED <<tx, writer, stdin, reader, stdout, rx, broken, child, closing, segments, end, heard, said, wire>>
  BY <1>1 DEF pipesAndLoop
<1>6. Bare'
  BY <1>1, <1>2, <1>5 DEF SessionInv, Bare
<1>7. Inputs'
  BY <1>1, <1>2, <1>4, <1>5, InputsStay DEF SessionInv
<1>8. Wires'
  BY <1>1, <1>2, <1>5, WiresKept DEF SessionInv, SessionTypes
<1>9. Outputs'
  BY <1>1, <1>2, <1>5, OutputsKept DEF SessionInv
<1>10. SessionFaults'
  BY <1>1, <1>2, <1>4, <1>5, FaultsKept DEF SessionInv
<1> QED
  BY <1>2, <1>3, <1>6, <1>7, <1>8, <1>9, <1>10 DEF SessionInv

\* A step that changes nothing keeps the invariant.
LEMMA EngineUnchanged ==
  ASSUME EngineInv, UNCHANGED vars
  PROVE  EngineInv'
<1>1. UNCHANGED engine /\ UNCHANGED linkVars
  BY DEF vars
<1> QED
  BY <1>1, LinkUnchanged, QueueUnchanged, SessionUnchanged DEF EngineInv

\* Any step of any engine.
LEMMA EngineStep ==
  ASSUME EngineInv, Next
  PROVE  EngineInv' /\ Promise
  BY NativeStep, RemoteStep DEF EngineInv

\* What holds of an engine in every state it reaches: its calls, requests,
\* replies and processes belong together (LinkInv), or its utterances, its
\* segments and its faults do (QueueInv, SessionInv).
THEOREM EngineInvariant == Spec => []EngineInv
<1>1. Init => EngineInv
  BY EngineInit
<1>2. EngineInv /\ [Next]_vars => EngineInv'
  BY EngineStep, EngineUnchanged
<1> QED
  BY <1>1, <1>2, PTL DEF Spec

\* Every engine implements StreamContract: each of its steps gives, judges,
\* finishes, fails or closes a stream as the contract has it, or does nothing
\* the contract knows of.
THEOREM EnginesKeepContract == Spec => KeepsContract
<1>1. Init => EngineInv /\ Contract!Init
  BY EngineInit
<1>2. EngineInv /\ [Next]_vars => EngineInv' /\ [Contract!Next]_(Contract!vars)
  <2>1. ASSUME EngineInv, Next
        PROVE  EngineInv' /\ [Contract!Next]_(Contract!vars)
    BY <2>1, EngineStep DEF Promise
  <2>2. ASSUME EngineInv, UNCHANGED vars
        PROVE  EngineInv' /\ [Contract!Next]_(Contract!vars)
    <3>1. UNCHANGED Contract!vars
      BY <2>2 DEF vars, linkVars, callerVars, remoteVars, sessionVars, Contract!vars
    <3> QED
      BY <2>2, <3>1, EngineUnchanged
  <2> QED
    BY <2>1, <2>2
<1> QED
  BY <1>1, <1>2, PTL DEF Spec, KeepsContract, Contract!Spec

\* A stream with no audio at an engine fails only for a reason: a fault of that
\* call, another stream that is being served, or a trained-word engine that was
\* closed.
THEOREM FailuresHaveReasons == Spec => FailsForAReason
<1>1. Init => EngineInv
  BY EngineInit
<1>2. EngineInv /\ [Next]_vars => EngineInv'
  BY EngineStep, EngineUnchanged
<1>3. EngineInv /\ [Next]_vars =>
        [\A s \in Stream : Fails(s) => fault \/ s \in started \/ Busy \/ (engine = "trained" /\ ~open)]_vars
  BY EngineStep DEF Promise, Reason
<1> QED
  BY <1>1, <1>2, <1>3, PTL DEF Spec, FailsForAReason

=============================================================================
