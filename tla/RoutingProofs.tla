---------------------------- MODULE RoutingProofs ----------------------------
(***************************************************************************)
(* What holds of the routed detector for any number of groups and streams. *)
(***************************************************************************)
EXTENDS Routing, TLAPS

Sent == [command : Commands, number : Nat]
Answer == [number : Nat, ok : BOOLEAN]

RoutingTypes ==
  /\ at \in [Owner -> {"loading", "idle", "busy", "answer", "exited"}]
  /\ doing \in [Owner -> [command : Commands \cup {"none"}, number : Nat, ok : BOOLEAN]]
  /\ session \in [Owner -> BOOLEAN]
  /\ commands \in [Owner -> Seq(Sent)] /\ responses \in [Owner -> Seq(Answer)]
  /\ ready \in [Owner -> {"none", "ok", "error"}]
  /\ alive \in BOOLEAN
  /\ pc \in {"load", "idle", "send", "receive", "closed"}
  /\ next \in Owner
  /\ todo \in Seq(Commands) /\ erred \in BOOLEAN
  /\ active \in BOOLEAN /\ failed \in BOOLEAN
  /\ sent \in Nat /\ drained \in [Owner -> Nat]

\* An owner between two commands; one that has been given the command of this
\* exchange: it waits, is worked on, or was answered.
Resting(o, open) ==
  /\ responses[o] = <<>>
  /\ at[o] # "exited" => at[o] = "idle" /\ commands[o] = <<>> /\ session[o] = open

After == SessionAfter(Head(todo), active)
Given == <<[command |-> Head(todo), number |-> sent]>>
Underway(o) ==
  /\ at[o] \in {"idle", "busy", "answer", "exited"}
  /\ at[o] = "idle" =>
       \/ commands[o] = Given /\ responses[o] = <<>> /\ session[o] = active
       \/ /\ commands[o] = <<>> /\ session[o] = After
          /\ \E ok \in BOOLEAN : responses[o] = <<[number |-> sent, ok |-> ok]>>
  /\ at[o] # "idle" => responses[o] = <<>>
  /\ at[o] = "busy" =>
       /\ commands[o] = <<>> /\ session[o] = active
       /\ doing[o].command = Head(todo) /\ doing[o].number = sent
  /\ at[o] = "answer" =>
       commands[o] = <<>> /\ session[o] = After /\ doing[o].number = sent

\* An owner that has not been sent anything; it has left "loading" when it is ready.
Fresh(o) ==
  /\ commands[o] = <<>> /\ responses[o] = <<>> /\ ~session[o]
  /\ at[o] \in {"loading", "idle", "exited"}
  /\ ready[o] = "ok" => at[o] # "loading"

\* What the caller may rely on where it is.
Loading == pc = "load" =>
  /\ ~failed /\ ~active /\ todo = <<>>
  /\ \A o \in Owner : Fresh(o) /\ (o < next => ready[o] = "ok")
Calm == pc = "idle" /\ ~failed => \A o \in Owner : Resting(o, active)
Sending == pc = "send" =>
  /\ ~failed /\ todo # <<>>
  /\ \A o \in Owner : IF o < next THEN Underway(o) ELSE Resting(o, active)
Receiving == pc = "receive" =>
  /\ ~failed /\ todo # <<>>
  /\ ~erred => \A o \in Owner :
       IF o < next THEN Resting(o, After) /\ drained[o] = sent ELSE Underway(o)
Open == pc # "closed" => alive

RoutingInv == RoutingTypes /\ Loading /\ Calm /\ Sending /\ Receiving /\ Open

USE GroupsAssumption DEF Owner

-----------------------------------------------------------------------------
(* Sequences of one element or none. *)

LEMMA OneMessage == ASSUME NEW m PROVE Head(<<m>>) = m /\ Tail(<<m>>) = <<>> /\ <<m>> # <<>>
  OBVIOUS

LEMMA FirstOf ==
  ASSUME NEW S, NEW s \in Seq(S), s # <<>>
  PROVE  Head(s) \in S /\ Tail(s) \in Seq(S)
  OBVIOUS

LEMMA NoneIn == ASSUME NEW S PROVE <<>> \in Seq(S)
  OBVIOUS

LEMMA SingleIn == ASSUME NEW S, NEW m \in S PROVE <<m>> \in Seq(S)
  OBVIOUS

LEMMA PairIn == ASSUME NEW S, NEW m \in S, NEW n \in S PROVE <<m, n>> \in Seq(S)
  OBVIOUS

LEMMA Nonempty == ASSUME NEW m, NEW n PROVE <<m>> # <<>> /\ <<m, n>> # <<>>
  OBVIOUS

LEMMA RoutingInitially == Init => RoutingInv
<1> SUFFICES ASSUME Init PROVE RoutingInv
  OBVIOUS
<1>1. commands \in [Owner -> Seq(Sent)] /\ responses \in [Owner -> Seq(Answer)]
  BY NoneIn DEF Init
<1>2. todo \in Seq(Commands)
  BY NoneIn DEF Init
<1>3. 1 \in Owner /\ 0 \in Nat /\ \A o \in Owner : ~(o < 1)
  OBVIOUS
<1>4. /\ at \in [Owner -> {"loading", "idle", "busy", "answer", "exited"}]
      /\ session \in [Owner -> BOOLEAN]
      /\ ready \in [Owner -> {"none", "ok", "error"}]
      /\ drained \in [Owner -> Nat]
  BY <1>3 DEF Init
<1>5. doing \in [Owner -> [command : Commands \cup {"none"}, number : Nat, ok : BOOLEAN]]
  BY <1>3 DEF Init
<1>6. RoutingTypes
  BY <1>1, <1>2, <1>3, <1>4, <1>5 DEF Init, RoutingTypes
<1>7. Loading
  BY <1>3 DEF Init, Loading, Fresh
<1>8. Calm /\ Sending /\ Receiving /\ Open
  BY DEF Init, Calm, Sending, Receiving, Open
<1> QED
  BY <1>6, <1>7, <1>8 DEF RoutingInv

-----------------------------------------------------------------------------
(* The owners *)

\* A step of owner p alone keeps the invariant when it keeps what is said of p.
StepOf(p) ==
  /\ UNCHANGED <<alive, callVars, streamVars, ghostVars>>
  /\ \A o \in Owner : o # p =>
       /\ at'[o] = at[o] /\ doing'[o] = doing[o] /\ session'[o] = session[o]
       /\ commands'[o] = commands[o] /\ responses'[o] = responses[o] /\ ready'[o] = ready[o]

Keeps(p) ==
  alive => /\ Underway(p) => Underway(p)'
           /\ \A open \in BOOLEAN : Resting(p, open) => Resting(p, open)'
           /\ Fresh(p) => Fresh(p)'
           /\ Fresh(p) /\ ready[p] = "ok" => ready'[p] = "ok"

LEMMA OwnerStep ==
  ASSUME RoutingInv, RoutingTypes', NEW p \in Owner, StepOf(p), Keeps(p)
  PROVE  RoutingInv'
<1> USE DEF StepOf, Keeps, callVars, streamVars, ghostVars
<1>1. ASSUME alive, NEW o \in Owner PROVE Underway(o) => Underway(o)'
  BY <1>1 DEF Underway, Given, After
<1>2. ASSUME alive, NEW o \in Owner, NEW open \in BOOLEAN PROVE Resting(o, open) => Resting(o, open)'
  BY <1>2 DEF Resting
<1>3. ASSUME alive, NEW o \in Owner PROVE (Fresh(o) => Fresh(o)') /\ (Fresh(o) /\ ready[o] = "ok" => ready'[o] = "ok")
  BY <1>3 DEF Fresh
<1>4. active \in BOOLEAN /\ After \in BOOLEAN
  BY DEF RoutingInv, RoutingTypes, After, SessionAfter
<1>5. Loading'
  BY <1>3 DEF RoutingInv, Loading, Open
<1>6. Calm'
  BY <1>2, <1>4 DEF RoutingInv, Calm, Open
<1>7. Sending'
  BY <1>1, <1>2, <1>4 DEF RoutingInv, Sending, Open
<1>8. After' = After
  BY DEF After
<1>9. Receiving'
  BY <1>1, <1>2, <1>4, <1>8 DEF RoutingInv, Receiving, Open
<1> QED
  BY <1>5, <1>6, <1>7, <1>9 DEF RoutingInv, Open

LEMMA LoadedStep ==
  ASSUME RoutingInv, NEW p \in Owner, Loaded(p)
  PROVE  RoutingInv'
<1> USE DEF Loaded, callVars, streamVars, ghostVars
<1>1. RoutingTypes'
  BY DEF RoutingInv, RoutingTypes
<1>2. StepOf(p)
  BY DEF StepOf, RoutingInv, RoutingTypes
<1>3. ~Underway(p) /\ ~Resting(p, TRUE) /\ ~Resting(p, FALSE)
  BY DEF Underway, Resting
<1>4. ASSUME alive, Fresh(p) PROVE Fresh(p)'
  BY <1>4 DEF Fresh, RoutingInv, RoutingTypes
<1>5. ~(Fresh(p) /\ ready[p] = "ok")
  BY DEF Fresh
<1>6. Keeps(p)
  BY <1>3, <1>4, <1>5 DEF Keeps
<1> QED
  BY <1>1, <1>2, <1>6, OwnerStep

LEMMA TakeStep ==
  ASSUME RoutingInv, NEW p \in Owner, Take(p)
  PROVE  RoutingInv'
<1> USE DEF callVars, streamVars, ghostVars
<1>1. CASE commands[p] # <<>>
  <2>1. /\ at[p] = "idle"
        /\ doing' = [doing EXCEPT ![p].command = Head(commands[p]).command,
                                  ![p].number = Head(commands[p]).number]
        /\ commands' = [commands EXCEPT ![p] = Tail(@)]
        /\ at' = [at EXCEPT ![p] = "busy"]
        /\ UNCHANGED <<session, responses, ready, alive, callVars, streamVars, ghostVars>>
    BY <1>1 DEF Take
  <2>2. Head(commands[p]) \in Sent /\ Tail(commands[p]) \in Seq(Sent)
    BY <1>1, FirstOf DEF RoutingInv, RoutingTypes
  <2>3. commands' \in [Owner -> Seq(Sent)]
    BY <2>1, <2>2 DEF RoutingInv, RoutingTypes
  <2>4. doing' \in [Owner -> [command : Commands \cup {"none"}, number : Nat, ok : BOOLEAN]]
    <3> DEFINE c == Head(commands[p]).command
               n == Head(commands[p]).number
    <3>1. c \in Commands /\ n \in Nat
      BY <2>2 DEF Sent
    <3>2. doing' = [doing EXCEPT ![p].command = c, ![p].number = n]
      BY <2>1
    <3> HIDE DEF c, n
    <3> QED
      BY <3>1, <3>2 DEF RoutingInv, RoutingTypes
  <2>5. RoutingTypes'
    BY <2>1, <2>3, <2>4 DEF RoutingInv, RoutingTypes
  <2>6. /\ at'[p] = "busy" /\ commands'[p] = Tail(commands[p])
        /\ session'[p] = session[p] /\ responses'[p] = responses[p] /\ ready'[p] = ready[p]
        /\ doing'[p].command = Head(commands[p]).command
        /\ doing'[p].number = Head(commands[p]).number
    BY <2>1 DEF RoutingInv, RoutingTypes
  <2>7. ASSUME Underway(p) PROVE Underway(p)'
    <3>1. commands[p] = Given /\ responses[p] = <<>> /\ session[p] = active
      BY <1>1, <2>1, <2>7 DEF Underway
    <3>2. Head(commands[p]) = [command |-> Head(todo), number |-> sent] /\ Tail(commands[p]) = <<>>
      BY <3>1, OneMessage DEF Given
    <3> QED
      BY <2>1, <2>6, <3>1, <3>2 DEF Underway
  <2>8. ~Resting(p, TRUE) /\ ~Resting(p, FALSE) /\ ~Fresh(p)
    BY <1>1, <2>1 DEF Resting, Fresh
  <2> QED
    <3>1. StepOf(p)
      BY <2>1 DEF StepOf, RoutingInv, RoutingTypes
    <3>2. Keeps(p)
      BY <2>1, <2>7, <2>8 DEF Keeps
    <3> QED
      BY <2>5, <3>1, <3>2, OwnerStep
<1>2. CASE commands[p] = <<>>
  <2>1. /\ at[p] = "idle" /\ ~alive
        /\ at' = [at EXCEPT ![p] = "exited"] /\ session' = [session EXCEPT ![p] = FALSE]
        /\ UNCHANGED <<doing, commands, responses, ready, alive, callVars, streamVars, ghostVars>>
    BY <1>2 DEF Take
  <2>2. RoutingTypes'
    BY <2>1 DEF RoutingInv, RoutingTypes
  <2> QED
    <3>1. StepOf(p) /\ Keeps(p)
      BY <2>1 DEF StepOf, Keeps, RoutingInv, RoutingTypes
    <3> QED
      BY <2>2, <3>1, OwnerStep
<1> QED
  BY <1>1, <1>2

LEMMA WorkStep ==
  ASSUME RoutingInv, NEW p \in Owner, Work(p)
  PROVE  RoutingInv'
<1> USE DEF chanVars, callVars, streamVars, ghostVars
<1>1. PICK ok \in BOOLEAN :
        /\ at[p] = "busy"
        /\ doing' = [doing EXCEPT ![p] = [@ EXCEPT !.command = "none", !.ok = ok]]
        /\ session' = [session EXCEPT ![p] = SessionAfter(doing[p].command, @)]
        /\ at' = [at EXCEPT ![p] = "answer"]
        /\ UNCHANGED <<chanVars, callVars, streamVars, ghostVars>>
  <2>1. \A command, open : open \in BOOLEAN => AnswersOf(command, open) \subseteq BOOLEAN
    BY DEF AnswersOf
  <2>2. session[p] \in BOOLEAN
    BY DEF RoutingInv, RoutingTypes
  <2> QED
    BY <2>1, <2>2 DEF Work
<1>2. session' \in [Owner -> BOOLEAN]
  BY <1>1 DEF RoutingInv, RoutingTypes, SessionAfter
<1>3. doing' \in [Owner -> [command : Commands \cup {"none"}, number : Nat, ok : BOOLEAN]]
  BY <1>1 DEF RoutingInv, RoutingTypes
<1>4. RoutingTypes'
  BY <1>1, <1>2, <1>3 DEF RoutingInv, RoutingTypes
<1>5. /\ at'[p] = "answer" /\ doing'[p].number = doing[p].number
      /\ session'[p] = SessionAfter(doing[p].command, session[p])
  BY <1>1 DEF RoutingInv, RoutingTypes
<1>6. Underway(p) => Underway(p)'
  BY <1>1, <1>5 DEF Underway, After
<1>7. ~Resting(p, TRUE) /\ ~Resting(p, FALSE) /\ ~Fresh(p)
  BY <1>1 DEF Resting, Fresh
<1> QED
  <2>1. StepOf(p)
    BY <1>1 DEF StepOf, RoutingInv, RoutingTypes
  <2>2. Keeps(p)
    BY <1>1, <1>6, <1>7 DEF Keeps
  <2> QED
    BY <1>4, <2>1, <2>2, OwnerStep

LEMMA RespondStep ==
  ASSUME RoutingInv, NEW p \in Owner, Respond(p)
  PROVE  RoutingInv'
<1> USE DEF callVars, streamVars, ghostVars
<1>1. CASE ~alive
  <2>1. /\ at' = [at EXCEPT ![p] = "exited"] /\ session' = [session EXCEPT ![p] = FALSE]
        /\ UNCHANGED <<doing, commands, responses, ready, alive, callVars, streamVars, ghostVars>>
    BY <1>1 DEF Respond
  <2>2. RoutingTypes'
    BY <2>1 DEF RoutingInv, RoutingTypes
  <2> QED
    <3>1. StepOf(p) /\ Keeps(p)
      BY <1>1, <2>1 DEF StepOf, Keeps, RoutingInv, RoutingTypes
    <3> QED
      BY <2>2, <3>1, OwnerStep
<1>2. CASE alive
  <2> DEFINE answer == [number |-> doing[p].number, ok |-> doing[p].ok]
  <2>1. /\ at[p] = "answer"
        /\ responses' = [responses EXCEPT ![p] = <<answer>>] /\ at' = [at EXCEPT ![p] = "idle"]
        /\ UNCHANGED <<session, doing, commands, ready, alive, callVars, streamVars, ghostVars>>
    BY <1>2 DEF Respond
  <2>2. answer \in Answer /\ doing[p].ok \in BOOLEAN
    BY DEF RoutingInv, RoutingTypes, Answer
  <2>3. <<answer>> \in Seq(Answer)
    BY <2>2, SingleIn
  <2>4. responses' \in [Owner -> Seq(Answer)] /\ responses'[p] = <<answer>> /\ at'[p] = "idle"
    BY <2>1, <2>3 DEF RoutingInv, RoutingTypes
  <2>5. RoutingTypes'
    BY <2>1, <2>4 DEF RoutingInv, RoutingTypes
  <2>6. Underway(p) => Underway(p)'
    BY <2>1, <2>2, <2>4 DEF Underway, After
  <2>7. ~Resting(p, TRUE) /\ ~Resting(p, FALSE) /\ ~Fresh(p)
    BY <2>1 DEF Resting, Fresh
  <2> QED
    <3>1. StepOf(p)
      BY <2>1 DEF StepOf, RoutingInv, RoutingTypes
    <3>2. Keeps(p)
      BY <2>1, <2>6, <2>7 DEF Keeps
    <3> QED
      BY <2>5, <3>1, <3>2, OwnerStep
<1> QED
  BY <1>1, <1>2

LEMMA PanicStep ==
  ASSUME RoutingInv, NEW p \in Owner, Panic(p)
  PROVE  RoutingInv'
<1> USE DEF Panic, callVars, streamVars, ghostVars
<1>1. commands' \in [Owner -> Seq(Sent)]
  BY NoneIn DEF RoutingInv, RoutingTypes
<1>2. RoutingTypes'
  BY <1>1 DEF RoutingInv, RoutingTypes
<1>3. at[p] = "busy" /\ at'[p] = "exited" /\ responses'[p] = responses[p]
  BY DEF RoutingInv, RoutingTypes
<1>4. Underway(p) => Underway(p)'
  BY <1>3 DEF Underway
<1>5. ~Resting(p, TRUE) /\ ~Resting(p, FALSE) /\ ~Fresh(p)
  BY <1>3 DEF Resting, Fresh
<1> QED
  <2>1. StepOf(p)
    BY DEF StepOf, RoutingInv, RoutingTypes
  <2>2. Keeps(p)
    BY <1>4, <1>5 DEF Keeps
  <2> QED
    BY <1>2, <2>1, <2>2, OwnerStep

-----------------------------------------------------------------------------
(* The caller *)

\* Once the Owner values are gone, or the detector has failed, little is said.
LEMMA AfterDrop ==
  ASSUME RoutingInv, Drop, UNCHANGED <<ownerVars, streamVars, ghostVars>>
  PROVE  RoutingInv'
<1> USE DEF Drop, ownerVars, streamVars, ghostVars
<1>1. responses' \in [Owner -> Seq(Answer)]
  BY NoneIn
<1>2. RoutingTypes'
  BY <1>1 DEF RoutingInv, RoutingTypes
<1>3. Loading' /\ Calm' /\ Sending' /\ Receiving' /\ Open'
  BY DEF Loading, Calm, Sending, Receiving, Open
<1> QED
  BY <1>2, <1>3 DEF RoutingInv

LEMMA AfterFailure ==
  ASSUME RoutingInv, RoutingTypes', pc' = "idle", failed', alive' = alive, pc # "closed"
  PROVE  RoutingInv'
BY DEF RoutingInv, Loading, Calm, Sending, Receiving, Open

LEMMA AwaitReadyStep ==
  ASSUME RoutingInv, AwaitReady
  PROVE  RoutingInv'
<1> USE DEF callVars, streamVars, ghostVars, ownerVars, chanVars
<1>1. CASE ready[next] # "ok"
  <2>1. Drop /\ UNCHANGED <<ownerVars, streamVars, ghostVars>>
    BY <1>1 DEF AwaitReady
  <2> QED
    BY <2>1, AfterDrop
<1>2. CASE ready[next] = "ok"
  <2>1. /\ pc = "load"
        /\ next' = IF next = Groups THEN 1 ELSE next + 1
        /\ pc' = IF next = Groups THEN "idle" ELSE "load"
        /\ UNCHANGED <<chanVars, using, todo, erred, ownerVars, streamVars, ghostVars>>
    BY <1>2 DEF AwaitReady
  <2>a. next' \in Owner /\ pc' \in {"load", "idle", "send", "receive", "closed"}
    BY <2>1 DEF RoutingInv, RoutingTypes
  <2>2. RoutingTypes'
    BY <2>1, <2>a DEF RoutingInv, RoutingTypes
  <2>3. /\ ~failed /\ ~active /\ todo = <<>> /\ next \in Owner /\ alive
        /\ \A o \in Owner : Fresh(o) /\ (o < next => ready[o] = "ok")
    BY <2>1 DEF RoutingInv, RoutingTypes, Loading, Open
  <2>4. \A o \in Owner : Fresh(o)'
    BY <2>1, <2>3 DEF Fresh
  <2>5. Loading'
    BY <1>2, <2>1, <2>3, <2>4 DEF Loading
  <2>6. Calm'
    <3> SUFFICES ASSUME next = Groups, NEW o \in Owner PROVE Resting(o, active)'
      BY <2>1 DEF Calm
    <3>1. Fresh(o) /\ ready[o] = "ok"
      BY <1>2, <2>3
    <3> QED
      BY <2>1, <2>3, <3>1 DEF Fresh, Resting, RoutingInv, RoutingTypes
  <2> QED
    BY <2>1, <2>2, <2>3, <2>5, <2>6 DEF RoutingInv, Sending, Receiving, Open
<1> QED
  BY <1>1, <1>2

\* A call that is to begin: only what is to be exchanged is new.
LEMMA CallStep ==
  ASSUME RoutingInv, NEW s \in Stream, NEW plan \in Seq(Commands), Call(s, plan)
  PROVE  RoutingInv'
<1> USE DEF Call, ownerVars, chanVars, streamVars, ghostVars
<1>1. RoutingTypes'
  BY DEF RoutingInv, RoutingTypes
<1>2. \A o \in Owner : Resting(o, active) => Resting(o, active)'
  BY DEF Resting
<1>3. Calm'
  BY <1>2 DEF RoutingInv, Calm
<1> QED
  BY <1>1, <1>3 DEF RoutingInv, Loading, Sending, Receiving, Open

LEMMA StreamStep ==
  ASSUME RoutingInv, NEW s \in Stream, Accept(s) \/ Finish(s) \/ DropStream(s)
  PROVE  RoutingInv'
<1>1. \A last \in {"audio", "finish"} : Plan(s, last) \in Seq(Commands)
  BY SingleIn, PairIn DEF Plan, Commands
<1>2. <<"cancel">> \in Seq(Commands)
  BY SingleIn DEF Commands
<1>3. CASE Accept(s) \/ Finish(s)
  BY <1>1, <1>3, CallStep DEF Accept, Finish
<1>4. CASE DropStream(s)
  <2>1. CASE stream[s] = "started"
    <3>1. Call(s, <<"cancel">>)
      BY <1>4, <2>1 DEF DropStream
    <3> QED
      BY <1>2, <3>1, CallStep
  <2>2. CASE stream[s] # "started"
    <3> USE DEF ownerVars, chanVars, callVars, ghostVars
    <3>1. pc = "idle" /\ UNCHANGED <<ownerVars, chanVars, callVars, active, failed, ghostVars>>
      BY <1>4, <2>2 DEF DropStream
    <3>2. RoutingTypes'
      BY <3>1 DEF RoutingInv, RoutingTypes
    <3>3. \A o \in Owner : Resting(o, active) => Resting(o, active)'
      BY <3>1 DEF Resting
    <3> QED
      BY <3>1, <3>2, <3>3 DEF RoutingInv, Loading, Calm, Sending, Receiving, Open
  <2> QED
    BY <2>1, <2>2
<1> QED
  BY <1>3, <1>4

\* What is left of a call: one command fewer, or none.
LEMMA Settled ==
  ASSUME RoutingInv, todo # <<>>, NEW ok \in BOOLEAN, Settle(Head(todo), ok)
  PROVE  /\ Head(todo) \in Commands /\ todo' \in Seq(Commands)
         /\ active' \in BOOLEAN /\ (ok => active' = After)
<1>1. Head(todo) \in Commands /\ Tail(todo) \in Seq(Commands) /\ <<>> \in Seq(Commands)
  BY FirstOf, NoneIn DEF RoutingInv, RoutingTypes
<1>2. active \in BOOLEAN
  BY DEF RoutingInv, RoutingTypes
<1>3. todo' \in Seq(Commands)
  BY <1>1 DEF Settle
<1>4. active' = ((active \/ (Head(todo) = "start" /\ ok)) /\ Head(todo) \notin {"finish", "cancel"})
  BY DEF Settle
<1> QED
  BY <1>1, <1>2, <1>3, <1>4 DEF After, SessionAfter, Commands

LEMMA RefuseStep ==
  ASSUME RoutingInv, Refuse
  PROVE  RoutingInv'
<1> USE DEF ownerVars, chanVars, ghostVars
<1>1. /\ pc = "idle" /\ todo # <<>> /\ failed /\ Settle(Head(todo), FALSE)
      /\ UNCHANGED <<pc, next, using, erred, failed, ownerVars, chanVars, ghostVars>>
  BY DEF Refuse
<1>2. RoutingTypes'
  BY <1>1, Settled DEF RoutingInv, RoutingTypes
<1> QED
  BY <1>1, <1>2, AfterFailure

LEMMA BeginExchangeStep ==
  ASSUME RoutingInv, BeginExchange
  PROVE  RoutingInv'
<1> USE DEF BeginExchange, ownerVars, chanVars, streamVars
<1>1. RoutingTypes'
  BY DEF RoutingInv, RoutingTypes
<1>2. \A o \in Owner : Resting(o, active)'
  BY DEF RoutingInv, Calm, Resting
<1> QED
  BY <1>1, <1>2 DEF RoutingInv, Loading, Calm, Sending, Receiving, Open

LEMMA SendStep ==
  ASSUME RoutingInv, Send
  PROVE  RoutingInv'
<1> USE DEF streamVars, ownerVars, ghostVars
<1> DEFINE message == [command |-> Head(todo), number |-> sent]
<1>1. /\ pc = "send" /\ ~failed /\ todo # <<>> /\ next \in Owner /\ alive
      /\ \A o \in Owner : IF o < next THEN Underway(o) ELSE Resting(o, active)
  BY DEF Send, RoutingInv, RoutingTypes, Sending, Open
<1>2. CASE at[next] # "exited" /\ commands[next] = <<>>
  <2>1. /\ commands' = [commands EXCEPT ![next] = <<message>>]
        /\ pc' = IF next = Groups THEN "receive" ELSE "send"
        /\ next' = IF next = Groups THEN 1 ELSE next + 1
        /\ erred' = FALSE
        /\ UNCHANGED <<todo, streamVars, using, responses, ready, alive, ownerVars, ghostVars>>
    BY <1>2 DEF Send
  <2>2. message \in Sent
    BY <1>1, FirstOf DEF RoutingInv, RoutingTypes, Sent
  <2>3. commands' \in [Owner -> Seq(Sent)] /\ commands'[next] = <<message>>
    BY <1>1, <2>1, <2>2, SingleIn DEF RoutingInv, RoutingTypes
  <2>a. next' \in Owner /\ pc' \in {"load", "idle", "send", "receive", "closed"}
    BY <1>1, <2>1
  <2>4. RoutingTypes'
    BY <2>1, <2>3, <2>a DEF RoutingInv, RoutingTypes
  <2>5. ASSUME NEW o \in Owner, o # next PROVE commands'[o] = commands[o]
    BY <2>1, <2>5 DEF RoutingInv, RoutingTypes
  <2>6. ASSUME NEW o \in Owner, o = next PROVE Underway(o)'
    <3>1. Resting(next, active)
      BY <1>1
    <3>2. at[next] = "idle" /\ responses[next] = <<>> /\ session[next] = active
      BY <1>2, <3>1 DEF Resting
    <3>3. (commands'[next] = Given')
      BY <2>1, <2>3 DEF Given
    <3> QED
      BY <2>1, <2>6, <3>2, <3>3 DEF Underway
  <2>7. ASSUME NEW o \in Owner, o < next PROVE Underway(o)'
    <3>1. Underway(o) /\ o # next
      BY <1>1, <2>7
    <3>2. Given' = Given /\ After' = After /\ commands'[o] = commands[o]
      BY <2>1, <2>5, <3>1 DEF Given, After
    <3> QED
      BY <2>1, <3>1, <3>2 DEF Underway
  <2>8. ASSUME NEW o \in Owner, next < o PROVE Resting(o, active)'
    BY <1>1, <2>1, <2>5, <2>8 DEF Resting
  <2>b. ASSUME NEW o \in Owner PROVE o < next \/ o = next \/ next < o
    BY <1>1
  <2>9. Sending'
    <3> SUFFICES ASSUME next # Groups, NEW o \in Owner
                 PROVE  IF o < next + 1 THEN Underway(o)' ELSE Resting(o, active)'
      BY <1>1, <2>1 DEF Sending
    <3>1. next \in Int /\ o \in Int
      BY <1>1
    <3> QED
      BY <2>6, <2>7, <2>8, <2>b, <3>1
  <2>10. Receiving'
    <3> SUFFICES ASSUME next = Groups, NEW o \in Owner
                 PROVE  (~(o < 1)) /\ Underway(o)'
      BY <1>1, <2>1 DEF Receiving
    <3>1. ~(o < 1) /\ (o < next \/ o = next)
      OBVIOUS
    <3> QED
      BY <2>6, <2>7, <3>1
  <2> QED
    BY <1>1, <2>1, <2>4, <2>9, <2>10 DEF RoutingInv, Loading, Calm, Open
<1>3. CASE at[next] = "exited" \/ commands[next] # <<>>
  <2>1. /\ failed' = TRUE /\ pc' = "idle" /\ Settle(Head(todo), FALSE)
        /\ UNCHANGED <<commands, next, erred, using, responses, ready, alive, ownerVars, ghostVars>>
    BY <1>3 DEF Send
  <2>2. RoutingTypes'
    BY <1>1, <2>1, Settled DEF RoutingInv, RoutingTypes
  <2> QED
    BY <1>1, <2>1, <2>2, AfterFailure
<1> QED
  BY <1>2, <1>3

\* An answer, if all have been given so far, is the one to this exchange.
LEMMA Answered ==
  ASSUME RoutingInv, Receive, ~erred'
  PROVE  /\ ~erred /\ drained' = [drained EXCEPT ![next] = sent]
         /\ responses' = [responses EXCEPT ![next] = <<>>]
         /\ at[next] = "idle" /\ commands[next] = <<>> /\ session[next] = After
<1>1. responses[next] # <<>>
  BY DEF Receive
<1>2. /\ responses' = [responses EXCEPT ![next] = <<>>]
      /\ drained' = [drained EXCEPT ![next] = Head(responses[next]).number]
      /\ ~erred
  BY <1>1 DEF Receive
<1>3. next \in Owner /\ Underway(next)
  BY <1>2 DEF Receive, RoutingInv, RoutingTypes, Receiving
<1>4. /\ at[next] = "idle" /\ commands[next] = <<>> /\ session[next] = After
      /\ \E ok \in BOOLEAN : responses[next] = <<[number |-> sent, ok |-> ok]>>
  BY <1>1, <1>3 DEF Underway
<1>5. Head(responses[next]).number = sent
  BY <1>4, OneMessage
<1> QED
  BY <1>2, <1>4, <1>5

LEMMA ReceiveTypes ==
  ASSUME RoutingInv, Receive
  PROVE  RoutingTypes'
<1> USE DEF streamVars, ownerVars
<1>1. /\ pc = "receive" /\ ~failed /\ todo # <<>> /\ next \in Owner
      /\ UNCHANGED <<using, commands, ready, alive, ownerVars, sent>>
  BY DEF Receive, RoutingInv, RoutingTypes, Receiving
<1>2. responses' \in [Owner -> Seq(Answer)] /\ drained' \in [Owner -> Nat] /\ erred' \in BOOLEAN
  <2>1. CASE responses[next] # <<>>
    <3>1. Head(responses[next]) \in Answer /\ <<>> \in Seq(Answer)
      BY <1>1, <2>1, FirstOf, NoneIn DEF RoutingInv, RoutingTypes
    <3>2. Head(responses[next]).number \in Nat /\ Head(responses[next]).ok \in BOOLEAN
      BY <3>1 DEF Answer
    <3>3. /\ responses' = [responses EXCEPT ![next] = <<>>]
          /\ drained' = [drained EXCEPT ![next] = Head(responses[next]).number]
          /\ erred' = (erred \/ ~Head(responses[next]).ok)
      BY <2>1 DEF Receive
    <3>4. responses' \in [Owner -> Seq(Answer)]
      BY <1>1, <3>1, <3>3 DEF RoutingInv, RoutingTypes
    <3>5. drained' \in [Owner -> Nat]
      BY <1>1, <3>2, <3>3 DEF RoutingInv, RoutingTypes
    <3> QED
      BY <3>2, <3>3, <3>4, <3>5 DEF RoutingInv, RoutingTypes
  <2>2. CASE responses[next] = <<>>
    BY <2>2 DEF Receive, RoutingInv, RoutingTypes
  <2> QED
    BY <2>1, <2>2
<1>3. CASE next < Groups
  <2>1. next' = next + 1 /\ UNCHANGED <<pc, todo, streamVars>>
    BY <1>3 DEF Receive
  <2>2. next' \in Owner
    BY <1>1, <1>3, <2>1
  <2> QED
    BY <1>1, <1>2, <2>1, <2>2 DEF RoutingInv, RoutingTypes
<1>4. CASE ~(next < Groups)
  <2>1. pc' = "idle" /\ next' = 1 /\ failed' = erred' /\ Settle(Head(todo), ~erred')
    BY <1>4 DEF Receive
  <2>2. todo' \in Seq(Commands) /\ active' \in BOOLEAN
    BY <1>1, <1>2, <2>1, Settled
  <2>3. next' \in Owner /\ failed' \in BOOLEAN /\ pc' = "idle"
    BY <1>2, <2>1
  <2> QED
    BY <1>1, <1>2, <2>2, <2>3 DEF RoutingInv, RoutingTypes
<1> QED
  BY <1>3, <1>4

\* The owners up to this one, once they have all answered.
LEMMA AllAnswered ==
  ASSUME RoutingInv, Receive, ~erred', NEW o \in Owner
  PROVE  /\ o <= next => drained'[o] = sent
         /\ o <= next /\ at[o] # "exited" =>
              at[o] = "idle" /\ commands[o] = <<>> /\ session[o] = After
         /\ o <= next => responses'[o] = <<>>
         /\ o > next => Underway(o) /\ responses'[o] = responses[o]
<1>1. /\ ~erred /\ drained' = [drained EXCEPT ![next] = sent]
      /\ responses' = [responses EXCEPT ![next] = <<>>]
      /\ at[next] = "idle" /\ commands[next] = <<>> /\ session[next] = After
  BY Answered
<1>2. /\ next \in Owner /\ drained \in [Owner -> Nat] /\ responses \in [Owner -> Seq(Answer)]
      /\ IF o < next THEN Resting(o, After) /\ drained[o] = sent ELSE Underway(o)
  BY <1>1 DEF Receive, RoutingInv, RoutingTypes, Receiving
<1>3. CASE o = next
  BY <1>1, <1>2, <1>3
<1>4. CASE o < next
  <2>1. o # next /\ ~(o > next) /\ Resting(o, After) /\ drained[o] = sent
    BY <1>2, <1>4
  <2>2. drained'[o] = drained[o] /\ responses'[o] = responses[o]
    BY <1>1, <1>2, <2>1
  <2> QED
    BY <2>1, <2>2 DEF Resting
<1>5. CASE o > next
  BY <1>1, <1>2, <1>5
<1> QED
  BY <1>2, <1>3, <1>4, <1>5

LEMMA ReceiveStep ==
  ASSUME RoutingInv, Receive
  PROVE  RoutingInv'
<1> USE DEF streamVars, ownerVars
<1>1. /\ pc = "receive" /\ ~failed /\ todo # <<>> /\ next \in Owner /\ alive
      /\ UNCHANGED <<using, commands, ready, alive, ownerVars, sent>>
  BY DEF Receive, RoutingInv, RoutingTypes, Receiving, Open
<1>2. RoutingTypes'
  BY ReceiveTypes
<1>3. CASE next < Groups
  <2>1. next' = next + 1 /\ UNCHANGED <<pc, todo, streamVars>>
    BY <1>3 DEF Receive
  <2>2. After' = After
    BY <2>1 DEF After
  <2>3. ASSUME ~erred', NEW o \in Owner
        PROVE IF o < next' THEN Resting(o, After)' /\ drained'[o] = sent' ELSE Underway(o)'
    <3>1. ASSUME o <= next PROVE Resting(o, After)' /\ drained'[o] = sent'
      BY <1>1, <2>1, <2>2, <2>3, <3>1, AllAnswered DEF Resting
    <3>2. ASSUME o > next PROVE Underway(o)'
      <4>1. Underway(o) /\ responses'[o] = responses[o]
        BY <2>3, <3>2, AllAnswered
      <4>2. Given' = Given /\ sent' = sent
        BY <1>1, <2>1 DEF Given
      <4> QED
        BY <1>1, <2>1, <2>2, <4>1, <4>2 DEF Underway
    <3>3. (o <= next <=> o < next') /\ (o <= next \/ o > next)
      BY <1>1, <2>1
    <3> QED
      BY <3>1, <3>2, <3>3
  <2>4. Receiving'
    BY <1>1, <2>1, <2>3 DEF Receiving
  <2> QED
    BY <1>1, <1>2, <2>1, <2>4 DEF RoutingInv, Loading, Calm, Sending, Open
<1>4. CASE ~(next < Groups)
  <2>1. pc' = "idle" /\ next' = 1 /\ failed' = erred' /\ Settle(Head(todo), ~erred')
    BY <1>4 DEF Receive
  <2>2. CASE erred'
    BY <1>1, <1>2, <2>1, <2>2, AfterFailure
  <2>3. CASE ~erred'
    <3>1. active' = After
      BY <1>1, <2>1, <2>3, Settled
    <3>2. \A o \in Owner : o <= next
      BY <1>1, <1>4
    <3>3. Calm'
      BY <1>1, <2>3, <3>1, <3>2, AllAnswered DEF Calm, Resting
    <3> QED
      BY <1>1, <1>2, <2>1, <3>3 DEF RoutingInv, Loading, Sending, Receiving, Open
  <2> QED
    BY <2>2, <2>3
<1> QED
  BY <1>3, <1>4

-----------------------------------------------------------------------------
LEMMA RoutingInductive == RoutingInv /\ [Next]_vars => RoutingInv'
<1> SUFFICES ASSUME RoutingInv, [Next]_vars PROVE RoutingInv'
  OBVIOUS
<1>1. CASE Step
  BY <1>1, AwaitReadyStep, RefuseStep, BeginExchangeStep, SendStep, ReceiveStep DEF Step
<1>2. CASE Close
  BY <1>2, AfterDrop DEF Close
<1>3. CASE \E s \in Stream : Accept(s) \/ Finish(s) \/ DropStream(s)
  BY <1>3, StreamStep
<1>4. CASE \E o \in Owner : Loaded(o) \/ Serve(o) \/ Panic(o)
  BY <1>4, LoadedStep, TakeStep, WorkStep, RespondStep, PanicStep DEF Serve
<1>5. CASE UNCHANGED vars
  BY <1>5 DEF vars, ownerVars, chanVars, callVars, streamVars, ghostVars, RoutingInv, RoutingTypes,
       Loading, Calm, Sending, Receiving, Open, Fresh, Resting, Underway, Given, After
<1> QED
  BY <1>1, <1>2, <1>3, <1>4, <1>5 DEF Next

\* Whatever the number of groups, where the caller and the owners are, with what is in
\* their channels, fits together (RoutedBackend::exchange_inner, run_owner).
THEOREM RoutingInvariant == Spec => []RoutingInv
  BY RoutingInitially, RoutingInductive, PTL DEF Spec

\* Between two calls all groups have the session the stream asks for, and no living
\* group is ever sent a command while it still has one.
THEOREM GroupsInStep == Spec => []SessionsInStep
<1>1. RoutingInv => SessionsInStep
  BY DEF RoutingInv, RoutingTypes, Calm, Sending, Resting, SessionsInStep
<1> QED
  BY <1>1, RoutingInvariant, PTL

\* An exchange that succeeds has had the answer to its own command from every group,
\* however many time limits have run out, or threads have ended, on the way.
THEOREM OwnAnswersOnly == Spec => AnswersAligned
<1>1. ASSUME RoutingInv, [Next]_vars
      PROVE  [pc = "receive" /\ pc' = "idle" /\ ~failed' => \A o \in Owner : drained'[o] = sent]_vars
  <2> SUFFICES ASSUME Next, pc = "receive", pc' = "idle", ~failed', NEW o \in Owner
               PROVE  drained'[o] = sent
    BY <1>1
  <2>1. Receive
    BY DEF Next, Step, AwaitReady, Refuse, BeginExchange, Send, Close, Accept, Finish, DropStream,
         Call, Loaded, Serve, Take, Work, Respond, Panic, Drop, callVars
  <2>2. ~(next < Groups) /\ ~erred' /\ next \in Owner
    BY <1>1, <2>1 DEF Receive, RoutingInv, RoutingTypes
  <2> QED
    BY <1>1, <2>1, <2>2, AllAnswered
<1> QED
  BY <1>1, RoutingInvariant, PTL DEF Spec, AnswersAligned
=============================================================================
