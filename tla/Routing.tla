------------------------------- MODULE Routing -------------------------------
(***************************************************************************)
(* RoutedBackend: one owner thread per engine group, each with a command   *)
(* channel and a response channel of one slot, and the streams of the      *)
(* daemon's thread that send every command to all owners and wait for all  *)
(* their answers within one deadline.                                      *)
(*                                                                         *)
(* Abstracted: what a group detects (an answer is accepted or an error),   *)
(* the audio, the statuses.  A time limit may run out whenever its wait is *)
(* not over.  A native call may end its thread (a panic).                  *)
(***************************************************************************)
EXTENDS Integers, Sequences, FiniteSets

CONSTANTS
  Groups,         \* engine groups, one owner each
  Stream,         \* the streams that are opened, each used once
  MaxExchanges    \* bound of the model: commands sent to the owners

ASSUME GroupsAssumption == Groups \in 1 .. 8
ASSUME ExchangesAssumption == MaxExchanges \in Nat

Owner == 1 .. Groups

VARIABLES
  at,         \* where the thread of owner o is
  doing,      \* the command it works on, or "none"
  session,    \* the owner's recognition session is open
  commands,   \* the command channel of o
  responses,  \* the response channel of o
  ready,      \* the readiness channel of o: "none", "ok", "error"
  alive,      \* this end still has its Owner values: tx and rx of o are open
  pc,         \* what the caller does
  next,       \* the owner it is at in a loop over the owners
  stream,     \* the state of each stream
  using,      \* the stream of the running call
  todo,       \* commands this call has still to exchange
  erred,      \* first_error is set
  active, failed,
  sent,       \* number of the last exchange
  drained     \* number of the exchange whose answer this owner last gave

ownerVars  == <<at, doing, session>>
chanVars   == <<commands, responses, ready, alive>>
callVars   == <<pc, next, using, todo, erred>>
streamVars == <<stream, active, failed>>
ghostVars  == <<sent, drained>>
vars == <<ownerVars, chanVars, callVars, streamVars, ghostVars>>

Commands == {"start", "audio", "finish", "cancel"}

Init ==
  /\ at = [o \in Owner |-> "loading"]
  /\ doing = [o \in Owner |-> [command |-> "none", number |-> 0, ok |-> TRUE]]
  /\ session = [o \in Owner |-> FALSE]
  /\ commands = [o \in Owner |-> <<>>]
  /\ responses = [o \in Owner |-> <<>>]
  /\ ready = [o \in Owner |-> "none"]
  /\ alive = TRUE
  /\ pc = "load" /\ next = 1
  /\ stream = [s \in Stream |-> "new"]
  /\ using \in Stream
  /\ todo = <<>> /\ erred = FALSE
  /\ active = FALSE /\ failed = FALSE
  /\ sent = 0 /\ drained = [o \in Owner |-> 0]

-----------------------------------------------------------------------------
(* The thread of an owner. *)

\* The model is loaded, or not; nobody may be waiting for the news any more.
Loaded(o) ==
  /\ at[o] = "loading"
  /\ \E ok \in BOOLEAN :
       /\ ready' = [ready EXCEPT ![o] = IF ~alive THEN @ ELSE IF ok THEN "ok" ELSE "error"]
       /\ at' = [at EXCEPT ![o] = IF ok /\ alive THEN "idle" ELSE "exited"]
  /\ UNCHANGED <<doing, session, commands, responses, alive, callVars, streamVars, ghostVars>>

\* Slip: a closed command channel does not end the thread.
TakeForever(o) ==
  /\ at[o] = "idle"
  /\ commands[o] # <<>>
  /\ doing' = [doing EXCEPT ![o].command = Head(commands[o]).command,
                            ![o].number = Head(commands[o]).number]
  /\ commands' = [commands EXCEPT ![o] = Tail(@)]
  /\ at' = [at EXCEPT ![o] = "busy"]
  /\ UNCHANGED <<session, responses, ready, alive, callVars, streamVars, ghostVars>>

\* commands.recv() yields what is in the channel before it notices a closed one.
Take(o) ==
  /\ at[o] = "idle"
  /\ \/ /\ commands[o] # <<>>
        /\ doing' = [doing EXCEPT ![o].command = Head(commands[o]).command,
                                  ![o].number = Head(commands[o]).number]
        /\ commands' = [commands EXCEPT ![o] = Tail(@)]
        /\ at' = [at EXCEPT ![o] = "busy"]
        /\ UNCHANGED session
     \/ /\ commands[o] = <<>> /\ ~alive
        /\ at' = [at EXCEPT ![o] = "exited"]
        /\ session' = [session EXCEPT ![o] = FALSE]
        /\ UNCHANGED <<doing, commands>>
  /\ UNCHANGED <<responses, ready, alive, callVars, streamVars, ghostVars>>

\* What a command does to the session, and the answers it may have.
SessionAfter(command, open) == (open /\ command = "audio") \/ command = "start"
AnswersOf(command, open) ==
  CASE command = "start"  -> {~open}
    [] command = "cancel" -> {TRUE}
    [] OTHER              -> IF open THEN BOOLEAN ELSE {FALSE}

\* The session handles the command.
Work(o) ==
  /\ at[o] = "busy"
  /\ \E ok \in AnswersOf(doing[o].command, session[o]) :
       doing' = [doing EXCEPT ![o] = [@ EXCEPT !.command = "none", !.ok = ok]]
  /\ session' = [session EXCEPT ![o] = SessionAfter(doing[o].command, @)]
  /\ at' = [at EXCEPT ![o] = "answer"]
  /\ UNCHANGED <<chanVars, callVars, streamVars, ghostVars>>

\* responses.send() waits for a free slot, and fails once nobody can receive.
Respond(o) ==
  /\ at[o] = "answer"
  /\ \/ /\ ~alive
        /\ at' = [at EXCEPT ![o] = "exited"]
        /\ session' = [session EXCEPT ![o] = FALSE]
        /\ UNCHANGED responses
     \/ /\ alive /\ responses[o] = <<>>
        /\ responses' = [responses EXCEPT ![o] = <<[number |-> doing[o].number, ok |-> doing[o].ok]>>]
        /\ at' = [at EXCEPT ![o] = "idle"]
        /\ UNCHANGED session
  /\ UNCHANGED <<doing, commands, ready, alive, callVars, streamVars, ghostVars>>

\* The native call panics: the thread ends and its ends of the channels close.
Panic(o) ==
  /\ at[o] = "busy"
  /\ at' = [at EXCEPT ![o] = "exited"]
  /\ session' = [session EXCEPT ![o] = FALSE]
  /\ commands' = [commands EXCEPT ![o] = <<>>]
  /\ UNCHANGED <<doing, responses, ready, alive, callVars, streamVars, ghostVars>>

Serve(o) == Take(o) \/ Work(o) \/ Respond(o)

-----------------------------------------------------------------------------
(* The caller: load_with, exchange and exchange_inner, the Stream. *)

\* The Owner values are dropped: both channels of every owner close.
Drop ==
  /\ alive' = FALSE
  /\ pc' = "closed"
  /\ responses' = [o \in Owner |-> <<>>]
  /\ UNCHANGED <<commands, ready, next, using, todo, erred>>

\* load_with waits for the owners in order; one that fails or is late ends the load.
AwaitReady ==
  /\ pc = "load"
  /\ \/ /\ ready[next] = "ok"
        /\ next' = IF next = Groups THEN 1 ELSE next + 1
        /\ pc' = IF next = Groups THEN "idle" ELSE "load"
        /\ UNCHANGED <<chanVars, using, todo, erred>>
     \/ /\ ready[next] # "ok"
        /\ Drop
  /\ UNCHANGED <<ownerVars, streamVars, ghostVars>>

\* What a call on stream s has to exchange; a stream starts with its first use.
Plan(s, last) == IF stream[s] = "new" THEN <<"start", last>> ELSE <<last>>

Call(s, plan) ==
  /\ pc = "idle" /\ sent + Len(plan) <= MaxExchanges
  /\ using' = s
  /\ todo' = plan
  /\ UNCHANGED <<pc, next, erred, ownerVars, chanVars, streamVars, ghostVars>>

\* accept() and finish() refuse a finished stream, and a new one while another is active.
MayStart(s) == stream[s] = "started" \/ (stream[s] = "new" /\ ~active)

Accept(s) == todo = <<>> /\ MayStart(s) /\ Call(s, Plan(s, "audio"))
Finish(s) == todo = <<>> /\ MayStart(s) /\ Call(s, Plan(s, "finish"))

\* Slip: a dropped stream only clears the flag.
DropStreamQuietly(s) ==
  /\ pc = "idle" /\ todo = <<>> /\ stream[s] \in {"new", "started"}
  /\ stream' = [stream EXCEPT ![s] = "over"]
  /\ active' = (active /\ stream[s] = "new")
  /\ UNCHANGED <<ownerVars, chanVars, callVars, failed, ghostVars>>

\* A stream that is dropped in the middle cancels the sessions of the owners.
DropStream(s) ==
  /\ todo = <<>> /\ stream[s] \in {"new", "started"}
  /\ IF stream[s] = "started"
     THEN Call(s, <<"cancel">>)
     ELSE /\ pc = "idle"
          /\ stream' = [stream EXCEPT ![s] = "over"]
          /\ UNCHANGED <<ownerVars, chanVars, callVars, active, failed, ghostVars>>

\* How the stream of a call is left once a command was exchanged, or could not be.
Settle(command, ok) ==
  /\ stream' = [stream EXCEPT ![using] =
       IF command \in {"finish", "cancel"} THEN "over"
       ELSE IF command = "start" /\ ok THEN "started" ELSE @]
  /\ active' = ((active \/ (command = "start" /\ ok)) /\ command \notin {"finish", "cancel"})
  /\ todo' = IF ok THEN Tail(todo) ELSE <<>>

\* exchange() refuses to go on after a failure.
Refuse ==
  /\ pc = "idle" /\ todo # <<>> /\ failed
  /\ Settle(Head(todo), FALSE)
  /\ UNCHANGED <<pc, next, using, erred, failed, ownerVars, chanVars, ghostVars>>

\* Slip: a failure is not remembered.
BeginExchangeUnlatched ==
  /\ pc = "idle" /\ todo # <<>>
  /\ pc' = "send" /\ next' = 1
  /\ sent' = sent + 1
  /\ UNCHANGED <<using, todo, erred, ownerVars, chanVars, streamVars, drained>>

BeginExchange ==
  /\ pc = "idle" /\ todo # <<>> /\ ~failed
  /\ pc' = "send" /\ next' = 1
  /\ sent' = sent + 1
  /\ UNCHANGED <<using, todo, erred, ownerVars, chanVars, streamVars, drained>>

\* try_send() to the next owner: a full channel or an ended thread is an error at once.
Send ==
  /\ pc = "send"
  /\ \/ /\ at[next] # "exited" /\ commands[next] = <<>>
        /\ commands' = [commands EXCEPT ![next] = <<[command |-> Head(todo), number |-> sent]>>]
        /\ pc' = IF next = Groups THEN "receive" ELSE "send"
        /\ next' = IF next = Groups THEN 1 ELSE next + 1
        /\ erred' = FALSE
        /\ UNCHANGED <<todo, streamVars>>
     \/ /\ at[next] = "exited" \/ commands[next] # <<>>
        /\ failed' = TRUE
        /\ pc' = "idle"
        /\ Settle(Head(todo), FALSE)
        /\ UNCHANGED <<commands, next, erred>>
  /\ UNCHANGED <<using, responses, ready, alive, ownerVars, ghostVars>>

\* Slip: recv() without a time limit, and an ended thread is not noticed.
ReceivePatiently ==
  /\ pc = "receive" /\ responses[next] # <<>>
  /\ responses' = [responses EXCEPT ![next] = <<>>]
  /\ drained' = [drained EXCEPT ![next] = Head(responses[next]).number]
  /\ erred' = (erred \/ ~Head(responses[next]).ok)
  /\ IF next < Groups
     THEN /\ next' = next + 1
          /\ UNCHANGED <<pc, todo, streamVars>>
     ELSE /\ pc' = "idle" /\ next' = 1
          /\ failed' = erred'
          /\ Settle(Head(todo), ~erred')
  /\ UNCHANGED <<using, commands, ready, alive, ownerVars, sent>>

\* recv_timeout() from the next owner: an answer, or the deadline or an ended thread.
\* Every owner is waited for, whatever the others answered.
Receive ==
  /\ pc = "receive"
  /\ \/ /\ responses[next] # <<>>
        /\ responses' = [responses EXCEPT ![next] = <<>>]
        /\ drained' = [drained EXCEPT ![next] = Head(responses[next]).number]
        /\ erred' = (erred \/ ~Head(responses[next]).ok)
     \/ /\ responses[next] = <<>>
        /\ erred' = TRUE
        /\ UNCHANGED <<responses, drained>>
  /\ IF next < Groups
     THEN /\ next' = next + 1
          /\ UNCHANGED <<pc, todo, streamVars>>
     ELSE /\ pc' = "idle" /\ next' = 1
          /\ failed' = erred'
          /\ Settle(Head(todo), ~erred')
  /\ UNCHANGED <<using, commands, ready, alive, ownerVars, sent>>

\* The detector is dropped, its streams being over.
Close ==
  /\ pc = "idle" /\ todo = <<>>
  /\ \A s \in Stream : stream[s] # "started"
  /\ Drop
  /\ UNCHANGED <<ownerVars, streamVars, ghostVars>>

\* The steps of a call that is under way, each bounded by a time limit.
Step == AwaitReady \/ Refuse \/ BeginExchange \/ Send \/ Receive

Next ==
  \/ Step \/ Close
  \/ \E s \in Stream : Accept(s) \/ Finish(s) \/ DropStream(s)
  \/ \E o \in Owner : Loaded(o) \/ Serve(o) \/ Panic(o)

Spec == Init /\ [][Next]_vars

\* A call goes on once it has begun, and a native call of a loaded owner returns or
\* panics ("Native IPC is independently bounded"); a model may load forever.
FairSpec == Spec /\ WF_vars(Step) /\ \A o \in Owner : WF_vars(Serve(o))

-----------------------------------------------------------------------------
(* Properties. *)

TypeOK ==
  /\ at \in [Owner -> {"loading", "idle", "busy", "answer", "exited"}]
  /\ doing \in [Owner -> [command : Commands \cup {"none"}, number : Nat, ok : BOOLEAN]]
  /\ session \in [Owner -> BOOLEAN]
  /\ \A o \in Owner : Len(commands[o]) <= 1 /\ Len(responses[o]) <= 1
  /\ ready \in [Owner -> {"none", "ok", "error"}]
  /\ alive \in BOOLEAN
  /\ pc \in {"load", "idle", "send", "receive", "closed"}
  /\ next \in Owner
  /\ stream \in [Stream -> {"new", "started", "over"}]
  /\ using \in Stream
  /\ todo \in Seq(Commands) /\ erred \in BOOLEAN
  /\ active \in BOOLEAN /\ failed \in BOOLEAN
  /\ sent \in Nat /\ drained \in [Owner -> Nat]

\* An exchange that succeeds has had, from every group, the answer to its own command:
\* no answer of an earlier, timed-out exchange is ever taken for it.
AnswersAligned ==
  [][pc = "receive" /\ pc' = "idle" /\ ~failed' => \A o \in Owner : drained'[o] = sent]_vars

\* Between two calls every owner that lives has a session open exactly when a stream is
\* active: the next stream starts all groups afresh, and none hears a part only.  And the
\* one slot of a command channel is free whenever a living owner is sent to: no call
\* fails because a group has not kept up with an earlier one.
SessionsInStep ==
  /\ pc = "idle" /\ ~failed => \A o \in Owner : at[o] # "exited" => session[o] = active
  /\ pc = "send" /\ at[next] # "exited" => commands[next] = <<>>

\* Once the Owner values are gone, by the end of the detector or by a load that failed
\* half-way, the thread of every group that has loaded ends, whatever it was doing.
OwnersExit == \A o \in Owner : ~alive /\ at[o] # "loading" ~> at[o] = "exited"

\* A call returns, with an error perhaps, though an owner may panic at any moment.
CallReturns == todo # <<>> ~> todo = <<>>
=============================================================================
