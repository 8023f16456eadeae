---------------------------- MODULE DaemonProofs ----------------------------
(***************************************************************************)
(* What holds of the daemon for any set of connections, any limit of holds *)
(* and any budget of a poll.                                               *)
(*                                                                         *)
(* ControlInv is inductive together with TypeOK; NoOpenMicUnderHold and    *)
(* NoActionWhilePaused follow from it, and with it every step of the       *)
(* daemon is a step of CaptureLease or leaves its variables alone.         *)
(***************************************************************************)
EXTENDS Daemon, FiniteSetTheorems, TLAPS

\* The type invariant: every variable of the daemon keeps its type.
THEOREM TypeCorrect == Spec => []TypeOK
<1>1. Init => TypeOK
  <2> SUFFICES ASSUME Init PROVE TypeOK
    OBVIOUS
  <2>1. backlog \in Seq(Conn) /\ answers \in [Conn -> Seq(Answers)]
    BY DEF Init
  <2>2. /\ holds \in SUBSET Conn /\ acked \in SUBSET Conn
        /\ pc \in Steps /\ mode \in Modes /\ budget \in 0 .. MaxCommands
    BY BoundsAssumption DEF BoundsAssumption, Init, Steps, Modes
  <2>3. QED
    BY <2>1, <2>2 DEF Init, TypeOK
<1>2. TypeOK /\ [Next]_vars => TypeOK'
  <2> SUFFICES ASSUME TypeOK, [Next]_vars PROVE TypeOK'
    OBVIOUS
  <2> USE BoundsAssumption DEF BoundsAssumption, TypeOK, clientVars, controlVars, pollVars, flagVars, cycleVars
  <2>1. ASSUME NEW c \in Conn, NEW r \in Requests, Connect(c, r) PROVE TypeOK'
    BY <2>1 DEF Connect
  <2>2. ASSUME NEW c \in Conn, Disconnect(c) PROVE TypeOK'
    BY <2>2 DEF Disconnect
  <2>3. ASSUME NEW c \in Conn, SendExtra(c) PROVE TypeOK'
    BY <2>3 DEF SendExtra
  <2>4. CASE Signal
    BY <2>4 DEF Signal
  <2>5. CASE Restart
    BY <2>5 DEF Restart, Steps
  <2>6. ASSUME Exit PROVE TypeOK'
    <3>1. backlog' \in Seq(Conn)
      BY <2>6 DEF Exit
    <3>2. holds' \in SUBSET Conn /\ acked' \in SUBSET Conn /\ budget' \in 0 .. MaxCommands
      BY <2>6 DEF Exit
    <3>3. QED
      BY <2>6, <3>1, <3>2 DEF Exit, Steps, Modes
  <2>7. ASSUME NEW m \in Modes, BeginPoll(m) PROVE TypeOK'
    BY <2>7 DEF BeginPoll, Steps
  <2>8. CASE Loop
    BY <2>8, <2>6, <2>7 DEF Loop, Steps, Modes
  <2>9. CASE OpenCapture
    BY <2>9 DEF OpenCapture, Steps
  <2>10. CASE ArmedTop
    BY <2>10, <2>7 DEF ArmedTop, Steps, Modes
  <2>11. CASE WaitTop
    BY <2>11, <2>7 DEF WaitTop, Steps, Modes
  <2>12. CASE Receive
    <3>1. pc' \in Steps
      BY <2>12 DEF Receive, Steps
    <3>2. /\ fault' \in {"none", "capture", "fatal"}
          /\ triggered' \in BOOLEAN
      BY <2>12 DEF Receive
    <3>3. /\ UNCHANGED <<open, req, extra, answers, backlog, manual, holds, acked, mode, budget>>
          /\ UNCHANGED <<command, paused, shutdown, signalled, mic>>
      BY <2>12 DEF Receive
    <3>4. QED
      BY <3>1, <3>2, <3>3
  <2>13. CASE Release
    BY <2>13, <2>6 DEF Release, Steps
  <2>14. CASE Apply
    BY <2>14 DEF Apply, Steps
  <2>15. CASE Execute
    BY <2>15 DEF Execute, Steps
  <2>16. CASE Cooldown
    BY <2>16 DEF Cooldown, Steps
  <2>17. CASE AcknowledgeHolds
    BY <2>17 DEF AcknowledgeHolds, Steps, Answers, Modes
  <2>18. CASE AcceptFails
    BY <2>18, <2>6 DEF AcceptFails, Steps
  <2>19. CASE EndPoll
    BY <2>19 DEF EndPoll, Yield, Steps
  <2>20. ASSUME NEW c \in Conn, NEW r \in Requests, Serve(c, r)
         PROVE /\ backlog' \in Seq(Conn) /\ budget' \in 0 .. MaxCommands
               /\ req' \in [Conn -> Requests \cup {"none"}]
               /\ extra' \in [Conn -> {"none", "unread", "swallowed"}]
    <3>1. backlog' \in Seq(Conn)
      BY <2>20 DEF Serve
    <3>2. QED
      BY <2>20, <3>1 DEF Serve
  <2>21. ASSUME NEW c \in Conn, NEW a \in Answers, Answer(c, a)
         PROVE answers' \in [Conn -> Seq(Answers)]
    BY <2>21 DEF Answer
  <2>22. ASSUME NEW c \in Conn,
                \/ RefuseHold(c) \/ GrantHold(c) \/ QueueHold(c) \/ HandlePause(c)
                \/ HandleResume(c) \/ HandleStatus(c) \/ HandleShutdown(c) \/ HandleInvalid(c)
         PROVE TypeOK'
    <3>1. ASSUME NEW cmd \in {"pause", "resume", "shutdown"}, Yield(cmd)
          PROVE pc' \in Steps /\ command' \in {"none", "pause", "resume", "shutdown"}
      BY <3>1 DEF Yield, Steps
    <3>2. \A r \in Requests : Serve(c, r) =>
            /\ backlog' \in Seq(Conn) /\ budget' \in 0 .. MaxCommands
            /\ req' \in [Conn -> Requests \cup {"none"}]
            /\ extra' \in [Conn -> {"none", "unread", "swallowed"}]
            /\ UNCHANGED <<open, mode, fault, flagVars, cycleVars>>
      BY <2>20 DEF Serve
    <3>3. \A a \in Answers : Answer(c, a) => answers' \in [Conn -> Seq(Answers)]
      BY <2>21
    <3>4. mode \in Answers /\ {"busy", "error", "paused", "armed", "stopping"} \subseteq Answers
      BY DEF Answers, Modes
    <3>5. {"hold_pause", "pause", "resume", "status", "shutdown", "invalid"} \subseteq Requests
      BY DEF Requests
    <3>6. CASE RefuseHold(c)
      BY <3>6, <3>2, <3>3, <3>4, <3>5 DEF RefuseHold
    <3>7. CASE GrantHold(c)
      BY <3>7, <3>2, <3>3, <3>4, <3>5 DEF GrantHold
    <3>8. CASE QueueHold(c)
      BY <3>8, <3>1, <3>2, <3>5 DEF QueueHold
    <3>9. CASE HandlePause(c)
      BY <3>9, <3>1, <3>2, <3>3, <3>4, <3>5 DEF HandlePause
    <3>10. CASE HandleResume(c)
      BY <3>10, <3>1, <3>2, <3>3, <3>4, <3>5 DEF HandleResume
    <3>11. CASE HandleStatus(c)
      BY <3>11, <3>2, <3>3, <3>4, <3>5 DEF HandleStatus
    <3>12. CASE HandleShutdown(c)
      BY <3>12, <3>1, <3>2, <3>3, <3>4, <3>5 DEF HandleShutdown
    <3>13. CASE HandleInvalid(c)
      BY <3>13, <3>2, <3>3, <3>4, <3>5 DEF HandleInvalid
    <3>14. QED
      BY <2>22, <3>6, <3>7, <3>8, <3>9, <3>10, <3>11, <3>12, <3>13
  <2>23. CASE UNCHANGED vars
    BY <2>23 DEF vars
  <2>24. QED
    BY <2>1, <2>2, <2>3, <2>4, <2>5, <2>8, <2>9, <2>10, <2>11, <2>12, <2>13, <2>14, <2>15,
       <2>16, <2>17, <2>18, <2>19, <2>22, <2>23
    DEF Next, Thread, Handle, Environment
<1>3. QED
  BY <1>1, <1>2, PTL DEF Spec

-----------------------------------------------------------------------------
(* The control invariant. *)

\* Where an answer is written by a poll, the client's list of answers is its own again.
LEMMA EnvironmentKeepsControl ==
  ASSUME ControlInv, Environment \/ UNCHANGED vars PROVE ControlInv'
BY DEF ControlInv, MicAt, ModeAt, OnTheWay, PausesApplied, Environment, Connect, Disconnect,
       SendExtra, Signal, Restart, vars, clientVars, controlVars, pollVars, flagVars, cycleVars

\* The end of the daemon leaves nothing in force.
LEMMA ExitKeepsControl == ASSUME Exit PROVE ControlInv'
BY DEF Exit, ControlInv, MicAt, ModeAt, OnTheWay, PausesApplied

\* Every step of the daemon outside a poll keeps the control invariant.
LEMMA CycleKeepsControl ==
  ASSUME TypeOK, ControlInv,
         Loop \/ OpenCapture \/ ArmedTop \/ WaitTop \/ Receive \/ Release \/ Apply
           \/ Execute \/ Cooldown
  PROVE  ControlInv'
<1> USE DEF ControlInv, MicAt, ModeAt, OnTheWay, PausesApplied, clientVars, controlVars,
            pollVars, flagVars, cycleVars
<1>1. CASE Loop
  BY <1>1, ExitKeepsControl DEF Loop, BeginPoll
<1>2. CASE OpenCapture
  BY <1>2 DEF OpenCapture
<1>3. CASE ArmedTop
  <2>1. CASE signalled
    BY <1>3, <2>1 DEF ArmedTop, BeginPoll
  <2>2. CASE ~signalled
    <3>1. /\ pc = "armed" /\ pc' = "accept" /\ mode' = "armed"
          /\ UNCHANGED <<mic, manual, command, fault, paused, triggered>>
      BY <1>3, <2>2 DEF ArmedTop, BeginPoll
    <3>2. mic /\ ~paused /\ holds = {} /\ ~manual /\ acked = {}
      BY <3>1
    <3>3. holds' = {} /\ acked' = {}
      BY <1>3, <2>2, <3>2 DEF ArmedTop, BeginPoll
    <3>4. QED
      BY <3>1, <3>2, <3>3
  <2>3. QED
    BY <2>1, <2>2
<1>4. CASE WaitTop
  BY <1>4 DEF WaitTop, BeginPoll
<1>5. CASE Receive
  BY <1>5 DEF Receive
<1>6. CASE Release
  BY <1>6, ExitKeepsControl DEF Release, TypeOK
<1>7. CASE Apply
  BY <1>7 DEF Apply, TypeOK
<1>8. CASE Execute
  BY <1>8 DEF Execute
<1>9. CASE Cooldown
  BY <1>9 DEF Cooldown
<1>10. QED
  BY <1>1, <1>2, <1>3, <1>4, <1>5, <1>6, <1>7, <1>8, <1>9

\* Every step of a poll keeps the control invariant.
LEMMA PollKeepsControl ==
  ASSUME TypeOK, ControlInv, AcknowledgeHolds \/ Handle \/ AcceptFails \/ EndPoll
  PROVE  ControlInv'
<1> USE DEF ControlInv, MicAt, ModeAt, OnTheWay, PausesApplied, clientVars, controlVars,
            pollVars, flagVars, cycleVars
<1>1. CASE AcknowledgeHolds
  BY <1>1 DEF AcknowledgeHolds
<1>2. CASE AcceptFails
  BY <1>2, ExitKeepsControl DEF AcceptFails
<1>3. CASE EndPoll
  BY <1>3 DEF EndPoll, NothingHeld, Yield
<1>4. ASSUME NEW c \in Conn, RefuseHold(c) PROVE ControlInv'
  BY <1>4 DEF RefuseHold, Serve
<1>5. ASSUME NEW c \in Conn, GrantHold(c) PROVE ControlInv'
  BY <1>5 DEF GrantHold, Serve
<1>6. ASSUME NEW c \in Conn, QueueHold(c) PROVE ControlInv'
  BY <1>6 DEF QueueHold, Serve, Yield
<1>7. ASSUME NEW c \in Conn, HandlePause(c) PROVE ControlInv'
  BY <1>7 DEF HandlePause, Serve, Yield
<1>8. ASSUME NEW c \in Conn, HandleResume(c) PROVE ControlInv'
  BY <1>8 DEF HandleResume, Serve, Yield
<1>9. ASSUME NEW c \in Conn, HandleStatus(c) PROVE ControlInv'
  BY <1>9 DEF HandleStatus, Serve
<1>10. ASSUME NEW c \in Conn, HandleShutdown(c) PROVE ControlInv'
  BY <1>10 DEF HandleShutdown, Serve, Yield
<1>11. ASSUME NEW c \in Conn, HandleInvalid(c) PROVE ControlInv'
  BY <1>11 DEF HandleInvalid, Serve
<1>12. QED
  BY <1>1, <1>2, <1>3, <1>4, <1>5, <1>6, <1>7, <1>8, <1>9, <1>10, <1>11 DEF Handle

\* The control invariant: where the capture is alive, that the flag `paused' agrees with
\* the poll that runs, and that every pause taken in is applied or on its way.
THEOREM ControlHolds == Spec => []ControlInv
<1>1. Init => ControlInv
  BY DEF Init, ControlInv, MicAt, ModeAt, OnTheWay, PausesApplied
<1>2. TypeOK /\ ControlInv /\ [Next]_vars => ControlInv'
  BY EnvironmentKeepsControl, CycleKeepsControl, PollKeepsControl DEF Next, Thread
<1>3. QED
  BY <1>1, <1>2, TypeCorrect, PTL DEF Spec

\* No capture is alive while a program that was told it owns a pause is connected.
THEOREM NoOpenMic == Spec => []NoOpenMicUnderHold
<1>1. ControlInv => NoOpenMicUnderHold
  BY DEF ControlInv, MicAt, ModeAt, PausesApplied, NoOpenMicUnderHold, LiveOwners
<1>2. QED
  BY <1>1, ControlHolds, PTL

\* No action of a detection starts while a pause of either kind is in force.
THEOREM NoAction == Spec => []NoActionWhilePaused
<1>1. ControlInv => NoActionWhilePaused
  BY DEF ControlInv, MicAt, OnTheWay, PausesApplied, NoActionWhilePaused
<1>2. QED
  BY <1>1, ControlHolds, PTL

\* A poll that answers "armed" to a status request is the poll of a live capture, and has
\* taken in no pause: the state argument it was given has not gone stale.
THEOREM StatusIsTruthful == Spec => StatusTruthful
<1>1. ASSUME ControlInv, NEW c \in Conn, HandleStatus(c), mode = "armed"
      PROVE  mic /\ ~manual /\ holds = {}
  <2>1. pc = "accept"
    BY <1>1 DEF HandleStatus, Serve
  <2>2. QED
    BY <1>1, <2>1 DEF ControlInv, MicAt, ModeAt, PausesApplied
<1>2. ControlInv => [\A c \in Conn : HandleStatus(c) /\ mode = "armed"
                                       => mic /\ ~manual /\ holds = {}]_vars
  BY <1>1
<1>3. QED
  BY <1>2, ControlHolds, PTL DEF Spec, StatusTruthful

-----------------------------------------------------------------------------
(* Answers, the limit of holds, and the life of a hold. *)

\* A request that is taken out of the listener has not been answered.
LEMMA ServedIsUnanswered ==
  ASSUME Unanswered, NEW c \in Conn, NEW r \in Requests, Serve(c, r)
  PROVE  answers[c] = <<>> /\ c \notin holds
BY DEF Unanswered, Serve, Requests

\* Answering a request that had no answer gives it one, and no other any.
LEMMA AnswerKeepsUnanswered ==
  ASSUME TypeOK, Unanswered, AtMostOneAnswer, NEW c \in Conn, NEW r \in Requests,
         Serve(c, r), NEW a \in Answers, Answer(c, a), holds' \ acked' \subseteq holds \ acked,
         holds' \subseteq holds \cup {c}
  PROVE  Unanswered' /\ AtMostOneAnswer'
<1>1. answers[c] = <<>> /\ c \notin holds
  BY ServedIsUnanswered
<1>2. answers'[c] = IF open[c] THEN <<a>> ELSE <<>>
  BY <1>1 DEF Answer, TypeOK
<1>3. \A d \in Conn \ {c} : answers'[d] = answers[d]
  BY DEF Answer, TypeOK
<1>4. open' = open /\ \A d \in Conn : req'[d] = IF d = c THEN "none" ELSE req[d]
  BY DEF Serve, TypeOK
<1>5. Len(<<a>>) = 1 /\ Len(<<>>) = 0
  OBVIOUS
<1>6. AtMostOneAnswer'
  <2> SUFFICES ASSUME NEW d \in Conn PROVE Len(answers'[d]) <= 1
    BY DEF AtMostOneAnswer
  <2>1. CASE d = c
    BY <2>1, <1>2, <1>5
  <2>2. CASE d # c
    BY <2>2, <1>3 DEF AtMostOneAnswer
  <2>3. QED
    BY <2>1, <2>2
<1>7. Unanswered'
  BY <1>1, <1>2, <1>3, <1>4 DEF Unanswered
<1>8. QED
  BY <1>6, <1>7

\* A client is answered at most once; Unanswered is what makes that inductive.
THEOREM OneAnswer == Spec => [](Unanswered /\ AtMostOneAnswer)
<1>1. Init => Unanswered /\ AtMostOneAnswer
  <2>1. Len(<<>>) = 0
    OBVIOUS
  <2>2. QED
    BY <2>1 DEF Init, Unanswered, AtMostOneAnswer
<1>2. TypeOK /\ ControlInv /\ Unanswered /\ AtMostOneAnswer /\ [Next]_vars
        => Unanswered' /\ AtMostOneAnswer'
  <2> SUFFICES ASSUME TypeOK, ControlInv, Unanswered, AtMostOneAnswer, [Next]_vars
               PROVE  Unanswered' /\ AtMostOneAnswer'
    OBVIOUS
  <2> USE DEF clientVars, controlVars, pollVars, flagVars, cycleVars
  <2>1. Len(<<>>) = 0
    OBVIOUS
  <2>2. ASSUME NEW c \in Conn, NEW r \in Requests, Connect(c, r)
        PROVE  Unanswered' /\ AtMostOneAnswer'
    BY <2>2 DEF Connect, Unanswered, AtMostOneAnswer, TypeOK
  <2>3. ASSUME NEW c \in Conn, Disconnect(c) PROVE Unanswered' /\ AtMostOneAnswer'
    BY <2>3, <2>1 DEF Disconnect, Unanswered, AtMostOneAnswer, TypeOK
  <2>4. ASSUME UNCHANGED <<open, req, answers>>, holds' \subseteq holds,
               holds' \ acked' \subseteq holds \ acked
        PROVE  Unanswered' /\ AtMostOneAnswer'
    BY <2>4 DEF Unanswered, AtMostOneAnswer
  <2>5. CASE (\E c \in Conn : SendExtra(c)) \/ Signal \/ Restart \/ UNCHANGED vars
    BY <2>5, <2>4 DEF SendExtra, Signal, Restart, vars
  <2>6. ASSUME Exit PROVE Unanswered' /\ AtMostOneAnswer'
    BY <2>6 DEF Exit, Unanswered, AtMostOneAnswer
  <2>7. ASSUME NEW m \in Modes, BeginPoll(m) PROVE Unanswered' /\ AtMostOneAnswer'
    BY <2>7, <2>4 DEF BeginPoll
  <2>8. CASE Loop \/ ArmedTop \/ WaitTop
    BY <2>8, <2>4, <2>6, <2>7 DEF Loop, ArmedTop, WaitTop, Modes
  <2>9. CASE OpenCapture \/ Receive \/ Release \/ Apply \/ Execute \/ Cooldown
    BY <2>9, <2>4, <2>6 DEF OpenCapture, Receive, Release, Apply, Execute, Cooldown
  <2>10. CASE AcceptFails \/ EndPoll
    BY <2>10, <2>4, <2>6 DEF AcceptFails, EndPoll
  <2>11. CASE AcknowledgeHolds
    <3> DEFINE told == {c \in holds \ acked : open[c]}
    <3>1. \A c \in Conn : answers'[c] = IF c \in told THEN <<"paused">> ELSE answers[c]
      <4>1. \A c \in told : answers[c] = <<>>
        BY DEF Unanswered, TypeOK
      <4>2. Append(<<>>, "paused") = <<"paused">>
        OBVIOUS
      <4>3. answers' = [c \in Conn |-> IF c \in told THEN Append(answers[c], "paused")
                                                     ELSE answers[c]]
        BY <2>11 DEF AcknowledgeHolds
      <4>4. QED
        BY <4>1, <4>2, <4>3
    <3>2. holds' = acked' /\ holds' = acked \cup told /\ UNCHANGED <<open, req>>
      BY <2>11 DEF AcknowledgeHolds
    <3>3. Len(<<"paused">>) = 1
      OBVIOUS
    <3> HIDE DEF told
    <3>4. AtMostOneAnswer'
      <4> SUFFICES ASSUME NEW c \in Conn PROVE Len(answers'[c]) <= 1
        BY DEF AtMostOneAnswer
      <4>1. CASE c \in told
        <5>1. answers'[c] = <<"paused">>
          BY <4>1, <3>1
        <5>2. QED
          BY <5>1, <3>3
      <4>2. CASE c \notin told
        BY <4>2, <3>1 DEF AtMostOneAnswer
      <4>3. QED
        BY <4>1, <4>2
    <3>5. \A c \in Conn : ~open[c] \/ req[c] # "none" => c \notin told
      BY DEF Unanswered, told
    <3>6. holds' \ acked' = {}
      BY <3>2
    <3>7. \A c \in Conn : req[c] # "none" => c \notin holds'
      BY <3>2 DEF ControlInv, PausesApplied, Unanswered, told
    <3>8. Unanswered'
      BY <3>1, <3>2, <3>5, <3>6, <3>7 DEF Unanswered
    <3>9. QED
      BY <3>4, <3>8
  <2>12. mode \in Answers /\ {"busy", "error", "paused", "armed", "stopping"} \subseteq Answers
    BY DEF Answers, Modes, TypeOK
  <2>13. {"hold_pause", "pause", "resume", "status", "shutdown", "invalid"} \subseteq Requests
    BY DEF Requests
  <2>14. ASSUME NEW c \in Conn, NEW r \in Requests, Serve(c, r), NEW a \in Answers, Answer(c, a),
                holds' \ acked' \subseteq holds \ acked, holds' \subseteq holds \cup {c}
         PROVE  Unanswered' /\ AtMostOneAnswer'
    BY <2>14, AnswerKeepsUnanswered
  <2>15. ASSUME NEW c \in Conn, RefuseHold(c) PROVE Unanswered' /\ AtMostOneAnswer'
    BY <2>15, <2>12, <2>13, <2>14 DEF RefuseHold
  <2>16. ASSUME NEW c \in Conn, GrantHold(c) PROVE Unanswered' /\ AtMostOneAnswer'
    BY <2>16, <2>12, <2>13, <2>14 DEF GrantHold
  <2>17. ASSUME NEW c \in Conn, QueueHold(c) PROVE Unanswered' /\ AtMostOneAnswer'
    <3>1. Serve(c, "hold_pause") /\ answers' = answers /\ holds' = holds \cup {c} /\ acked' = acked
      BY <2>17 DEF QueueHold
    <3>2. answers[c] = <<>>
      BY <3>1, <2>13, ServedIsUnanswered
    <3>3. open' = open /\ \A d \in Conn : req'[d] = IF d = c THEN "none" ELSE req[d]
      BY <3>1 DEF Serve, TypeOK
    <3>4. QED
      BY <3>1, <3>2, <3>3 DEF Unanswered, AtMostOneAnswer
  <2>18. ASSUME NEW c \in Conn, HandlePause(c) \/ HandleShutdown(c) \/ HandleInvalid(c)
         PROVE  Unanswered' /\ AtMostOneAnswer'
    BY <2>18, <2>12, <2>13, <2>14 DEF HandlePause, HandleShutdown, HandleInvalid
  <2>19. ASSUME NEW c \in Conn, HandleResume(c) PROVE Unanswered' /\ AtMostOneAnswer'
    BY <2>19, <2>12, <2>13, <2>14 DEF HandleResume
  <2>20. ASSUME NEW c \in Conn, HandleStatus(c) PROVE Unanswered' /\ AtMostOneAnswer'
    BY <2>20, <2>12, <2>13, <2>14 DEF HandleStatus
  <2>21. QED
    BY <2>2, <2>3, <2>5, <2>8, <2>9, <2>10, <2>11, <2>15, <2>16, <2>17, <2>18, <2>19, <2>20, SMTT(30)
    DEF Next, Thread, Handle, Environment
<1>3. QED
  BY <1>1, <1>2, TypeCorrect, ControlHolds, PTL DEF Spec

\* The holds of a poll are a finite set, so that counting one more is adding one.
LEMMA HoldsCount ==
  ASSUME TypeOK
  PROVE  /\ Cardinality(holds) \in Nat
         /\ \A c \in Conn : /\ Cardinality(holds \cup {c}) \in Nat
                            /\ Cardinality(holds \cup {c}) <= Cardinality(holds) + 1
         /\ \A S \in SUBSET holds : Cardinality(S) \in Nat /\ Cardinality(S) <= Cardinality(holds)
<1>1. IsFiniteSet(holds)
  BY ConnAssumption, FS_Subset DEF ConnAssumption, TypeOK
<1>2. Cardinality(holds) \in Nat
  BY <1>1, FS_CardinalityType
<1>3. \A c \in Conn : /\ Cardinality(holds \cup {c}) \in Nat
                      /\ Cardinality(holds \cup {c}) <= Cardinality(holds) + 1
  BY <1>1, <1>2, FS_AddElement
<1>4. \A S \in SUBSET holds : Cardinality(S) \in Nat /\ Cardinality(S) <= Cardinality(holds)
  BY <1>1, FS_Subset, FS_CardinalityType
<1>5. QED
  BY <1>2, <1>3, <1>4

\* There are never more holds than MAX_HOLDS, whichever polls took them in.
THEOREM HoldsLimited == Spec => []HoldsBounded
<1>1. Init => HoldsBounded
  BY BoundsAssumption, FS_EmptySet DEF BoundsAssumption, Init, HoldsBounded
<1>2. TypeOK /\ ControlInv /\ HoldsBounded /\ [Next]_vars => HoldsBounded'
  <2> SUFFICES ASSUME TypeOK, ControlInv, HoldsBounded, [Next]_vars PROVE HoldsBounded'
    OBVIOUS
  <2> USE DEF clientVars, controlVars, pollVars, flagVars, cycleVars
  <2>1. ASSUME holds' \subseteq holds PROVE HoldsBounded'
    <3>1. Cardinality(holds) \in Nat /\ Cardinality(holds') \in Nat
      BY <2>1, HoldsCount
    <3>2. Cardinality(holds') <= Cardinality(holds)
      BY <2>1, HoldsCount
    <3>3. QED
      BY <3>1, <3>2, BoundsAssumption DEF HoldsBounded, BoundsAssumption
  <2>2. ASSUME NEW c \in Conn, ~LimitReached, holds' = holds \/ holds' = holds \cup {c}
        PROVE HoldsBounded'
    <3>1. Cardinality(holds) \in Nat /\ Cardinality(holds') \in Nat
      BY <2>2, HoldsCount
    <3>2. Cardinality(holds') <= Cardinality(holds) + 1
      BY <2>2, <3>1, HoldsCount
    <3>3. Cardinality(holds) < MaxHolds
      BY <2>2, <3>1, BoundsAssumption DEF HoldsBounded, LimitReached, BoundsAssumption
    <3>4. QED
      BY <3>1, <3>2, <3>3, BoundsAssumption DEF HoldsBounded, BoundsAssumption
  <2>3. CASE Environment \/ UNCHANGED vars
    BY <2>3, <2>1 DEF Environment, Connect, Disconnect, SendExtra, Signal, Restart, vars
  <2>4. CASE Loop \/ ArmedTop \/ WaitTop \/ Release
    BY <2>4, <2>1 DEF Loop, ArmedTop, WaitTop, Release, BeginPoll, Exit
  <2>5. CASE OpenCapture \/ Receive \/ Apply \/ Execute \/ Cooldown
    BY <2>5, <2>1 DEF OpenCapture, Receive, Apply, Execute, Cooldown
  <2>6. CASE AcknowledgeHolds
    BY <2>6, <2>1 DEF AcknowledgeHolds, ControlInv, PausesApplied
  <2>7. CASE AcceptFails \/ EndPoll
    BY <2>7, <2>1 DEF AcceptFails, EndPoll, Exit
  <2>8. ASSUME NEW c \in Conn, GrantHold(c) \/ QueueHold(c) PROVE HoldsBounded'
    BY <2>8, <2>2 DEF GrantHold, QueueHold
  <2>9. ASSUME NEW c \in Conn,
               \/ RefuseHold(c) \/ HandlePause(c) \/ HandleResume(c) \/ HandleStatus(c)
               \/ HandleShutdown(c) \/ HandleInvalid(c)
        PROVE HoldsBounded'
    BY <2>9, <2>1
    DEF RefuseHold, HandlePause, HandleResume, HandleStatus, HandleShutdown, HandleInvalid
  <2>10. QED
    BY <2>3, <2>4, <2>5, <2>6, <2>7, <2>8, <2>9 DEF Next, Thread, Handle
<1>3. QED
  BY <1>1, <1>2, TypeCorrect, ControlHolds, PTL DEF Spec

\* Only its owner, or the end of the daemon, takes an acknowledged hold away.
THEOREM HoldsStay == Spec => HoldStays
<1> DEFINE Keeps == \A c \in Conn : c \in LiveOwners /\ Connected(c)' => c \in acked' \/ pc' = "exited"
<1> USE DEF clientVars, controlVars, pollVars, flagVars, cycleVars
<1>1. [Next]_vars => Keeps
  <2> SUFFICES ASSUME [Next]_vars PROVE Keeps
    OBVIOUS
  <2>1. ASSUME acked \subseteq acked' \/ pc' = "exited" PROVE Keeps
    BY <2>1 DEF LiveOwners
  <2>2. ASSUME NEW m \in Modes, BeginPoll(m) PROVE Keeps
    BY <2>2 DEF BeginPoll, LiveOwners
  <2>3. CASE Environment \/ UNCHANGED vars
    BY <2>3, <2>1 DEF Environment, Connect, Disconnect, SendExtra, Signal, Restart, vars
  <2>4. CASE Loop \/ ArmedTop \/ WaitTop
    BY <2>4, <2>1, <2>2 DEF Loop, ArmedTop, WaitTop, Exit, Modes
  <2>5. CASE OpenCapture \/ Receive \/ Release \/ Apply \/ Execute \/ Cooldown
    BY <2>5, <2>1 DEF OpenCapture, Receive, Release, Apply, Execute, Cooldown, Exit
  <2>6. CASE AcknowledgeHolds \/ AcceptFails \/ EndPoll
    BY <2>6, <2>1 DEF AcknowledgeHolds, AcceptFails, EndPoll, Exit
  <2>7. CASE Handle
    BY <2>7, <2>1 DEF Handle, RefuseHold, GrantHold, QueueHold, HandlePause, HandleResume,
                      HandleStatus, HandleShutdown, HandleInvalid
  <2>8. QED
    BY <2>3, <2>4, <2>5, <2>6, <2>7 DEF Next, Thread
<1>2. QED
  BY <1>1, PTL DEF Spec, HoldStays

-----------------------------------------------------------------------------
(* The daemon implements CaptureLease. *)

\* Reading a request, the bytes behind it included, changes no owner.
LEMMA ServeKeepsOwners ==
  ASSUME TypeOK, ControlInv, Unanswered, NEW c \in Conn, NEW r \in Requests, Serve(c, r)
  PROVE  /\ UNCHANGED mic
         /\ \A d \in acked : Connected(d)' <=> Connected(d)
<1>1. c \notin acked
  BY ServedIsUnanswered DEF ControlInv, PausesApplied
<1>2. UNCHANGED <<open, mic>> /\ \A d \in Conn \ {c} : extra'[d] = extra[d]
  BY DEF Serve, TypeOK, cycleVars
<1>3. QED
  BY <1>1, <1>2 DEF Connected, TypeOK

\* A request handled within a poll grants a pause on a closed microphone, turns the
\* manual switch, or changes nothing of the contract.
LEMMA HandleRefines ==
  ASSUME TypeOK, ControlInv, Unanswered, Handle
  PROVE  Lease!Grant \/ Lease!Switch
<1> USE DEF Lease!Grant, Lease!Switch
<1>1. {"hold_pause", "pause", "resume", "status", "shutdown", "invalid"} \subseteq Requests
  BY DEF Requests
<1>2. ASSUME NEW c \in Conn, NEW r \in Requests, Serve(c, r), acked' = acked, manual' \in BOOLEAN
      PROVE  Lease!Switch
  BY <1>2, ServeKeepsOwners DEF LiveOwners
<1>3. ASSUME NEW c \in Conn, GrantHold(c) PROVE Lease!Grant
  <2>1. Serve(c, "hold_pause") /\ mode = "paused" /\ UNCHANGED manual /\ acked' \subseteq acked \cup {c}
        /\ acked \subseteq acked'
    BY <1>3 DEF GrantHold
  <2>2. ~mic
    BY <2>1 DEF Serve, ControlInv, MicAt
  <2>3. UNCHANGED mic /\ \A d \in acked : Connected(d)' <=> Connected(d)
    BY <2>1, <1>1, ServeKeepsOwners
  <2>4. LiveOwners \subseteq LiveOwners' /\ LiveOwners' \in SUBSET Conn
    BY <2>1, <2>3 DEF LiveOwners, TypeOK
  <2>5. QED
    BY <2>1, <2>2, <2>3, <2>4
<1>4. ASSUME NEW c \in Conn, RefuseHold(c) \/ QueueHold(c) \/ HandlePause(c) \/ HandleResume(c)
             \/ HandleStatus(c) \/ HandleShutdown(c) \/ HandleInvalid(c)
      PROVE  Lease!Switch
  <2>1. acked' = acked /\ manual' \in BOOLEAN
    BY <1>4 DEF RefuseHold, QueueHold, HandlePause, HandleResume, HandleStatus,
                HandleShutdown, HandleInvalid, TypeOK, controlVars
  <2>2. \E r \in Requests : Serve(c, r)
    BY <1>4, <1>1 DEF RefuseHold, QueueHold, HandlePause, HandleResume, HandleStatus,
                HandleShutdown, HandleInvalid
  <2>3. QED
    BY <2>1, <2>2, <1>2
<1>5. QED
  BY <1>3, <1>4 DEF Handle

\* Every step of the daemon and of what surrounds it is a step of the contract or
\* leaves its variables alone.
LEMMA StepRefines ==
  ASSUME TypeOK, ControlInv, Unanswered, [Next]_vars
  PROVE  [Lease!Next]_(Lease!leaseVars)
<1> USE DEF Lease!Next, clientVars, controlVars, pollVars, flagVars, cycleVars
<1>1. ASSUME UNCHANGED <<mic, manual>>, LiveOwners' \subseteq LiveOwners
      PROVE  Lease!Next
  BY <1>1 DEF Lease!Leave
<1>2. ASSUME Exit PROVE Lease!Next
  BY <1>2 DEF Exit, Lease!Stop, LiveOwners
<1>3. ASSUME NEW m \in Modes, BeginPoll(m) PROVE Lease!Next
  BY <1>3, <1>1 DEF BeginPoll, LiveOwners, Connected
<1>4. ASSUME UNCHANGED <<mic, manual, open, extra, acked>> PROVE Lease!Next
  BY <1>4, <1>1 DEF LiveOwners, Connected
<1>5. ASSUME NEW c \in Conn, NEW r \in Requests, Connect(c, r) PROVE Lease!Next
  <2>1. \A d \in acked : open'[d] = open[d] /\ extra' = extra
    BY <1>5 DEF Connect, TypeOK, ControlInv, PausesApplied
  <2>2. LiveOwners' \subseteq LiveOwners
    BY <1>5, <2>1 DEF Connect, LiveOwners, Connected
  <2>3. QED
    BY <1>1, <1>5, <2>2 DEF Connect
<1>6. ASSUME NEW c \in Conn, Disconnect(c) \/ SendExtra(c) PROVE Lease!Next
  <2>1. \A d \in Conn : Connected(d)' => Connected(d)
    BY <1>6 DEF Disconnect, SendExtra, Connected, TypeOK
  <2>2. LiveOwners' \subseteq LiveOwners
    BY <1>6, <2>1 DEF Disconnect, SendExtra, LiveOwners, TypeOK
  <2>3. QED
    BY <1>1, <1>6, <2>2 DEF Disconnect, SendExtra
<1>7. CASE Signal \/ Restart
  BY <1>7, <1>4 DEF Signal, Restart
<1>8. CASE Loop \/ ArmedTop \/ WaitTop
  BY <1>8, <1>2, <1>3, <1>4 DEF Loop, ArmedTop, WaitTop, Modes
<1>9. CASE OpenCapture
  <2>1. ~mic /\ ~manual /\ acked = {}
    BY <1>9 DEF OpenCapture, ControlInv, MicAt, ModeAt, PausesApplied
  <2>2. LiveOwners = {} /\ LiveOwners' = {}
    BY <1>9, <2>1 DEF OpenCapture, LiveOwners
  <2>3. QED
    BY <1>9, <2>1, <2>2 DEF OpenCapture, Lease!OpenMic, Lease!CloseMic
<1>10. CASE Release
  <2>1. CASE fault = "fatal"
    BY <1>10, <2>1, <1>2 DEF Release
  <2>2. CASE fault # "fatal"
    <3>1. mic' = FALSE /\ UNCHANGED <<manual, LiveOwners>>
      BY <1>10, <2>2 DEF Release, LiveOwners, Connected
    <3>2. QED
      BY <3>1 DEF Lease!CloseMic
  <2>3. QED
    BY <2>1, <2>2
<1>11. CASE Receive \/ Apply \/ Execute \/ Cooldown \/ EndPoll
  BY <1>11, <1>4 DEF Receive, Apply, Execute, Cooldown, EndPoll
<1>12. CASE AcceptFails
  BY <1>12, <1>2, <1>4 DEF AcceptFails
<1>13. CASE AcknowledgeHolds
  <2>1. ~mic
    BY <1>13 DEF AcknowledgeHolds, ControlInv, MicAt
  <2>2. UNCHANGED <<mic, manual, open, extra>> /\ acked \subseteq acked' /\ acked' \subseteq Conn
    BY <1>13 DEF AcknowledgeHolds, TypeOK
  <2>3. LiveOwners \subseteq LiveOwners' /\ LiveOwners' \in SUBSET Conn
    BY <2>2 DEF LiveOwners, Connected
  <2>4. QED
    BY <2>1, <2>2, <2>3 DEF Lease!Grant
<1>14. CASE Handle
  BY <1>14, HandleRefines
<1>15. CASE UNCHANGED vars
  BY <1>15, <1>4 DEF vars
<1>16. QED
  BY <1>5, <1>6, <1>7, <1>8, <1>9, <1>10, <1>11, <1>12, <1>13, <1>14, <1>15
  DEF Next, Thread, Environment

\* The daemon keeps the contract of docs/PLAYBACK-OWNERSHIP.md: pauses are granted on a
\* closed microphone, and it opens only when no pause of either kind is in force.
THEOREM Refinement == Spec => ImplementsLease
<1>1. Init => Lease!Init
  BY DEF Init, Lease!Init, LiveOwners
<1>2. TypeOK /\ ControlInv /\ Unanswered /\ [Next]_vars => [Lease!Next]_(Lease!leaseVars)
  BY StepRefines
<1>3. QED
  BY <1>1, <1>2, TypeCorrect, ControlHolds, OneAnswer, PTL
  DEF Spec, ImplementsLease, Lease!Spec
=============================================================================
