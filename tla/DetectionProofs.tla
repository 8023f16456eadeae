-------------------------- MODULE DetectionProofs --------------------------
(***************************************************************************)
(* What holds of a capture and its users for any queue, any wake words and *)
(* transcripts, and any number of actions; of what is found in a           *)
(* transcript, by induction on its tokens; of the utterances that are cut  *)
(* out of the audio, for all sizes of the buffers; and of the report of an *)
(* evaluation, for any manifest and anything heard.                        *)
(***************************************************************************)
EXTENDS Detection, ActivityBuffer, Evaluation, SequenceTheorems, FiniteSetTheorems, WellFoundedInduction, TLAPS

\* Where nothing of a capture is left, where all of it is there, and its drop.
Off == Released \cup {"dropped"}
On == {"receive", "hand", "heard", "drop"}
Stopping == {"kill", "wait", "join"}

CaptureTypeOK ==
  /\ backend \in {"cpal", "pipewire"}
  /\ delivers \in BOOLEAN /\ stopped \in BOOLEAN
  /\ stream \in {"closed", "playing", "failed"}
  /\ recorder \in {"none", "running", "killed", "exited", "reaped"}
  /\ lock \in {"none", "watcher", "owner"}
  /\ reader \in {"none", "reading", "ended"}
  /\ watcher \in {"none", "looking", "alarm", "kill", "wait", "ended"}
  /\ queue \in Seq({"samples", "error"})
  /\ pc \in Off \cup On \cup Stopping

\* Each user of the mutex has it where it waits for the recorder, and only there.
Mutex ==
  /\ lock = "owner" <=> pc = "wait"
  /\ lock = "watcher" <=> watcher = "wait"

\* What is there of a capture at each place of the user's thread.
Held ==
  /\ pc \in Off => ~Open /\ queue = <<>>
  /\ pc \in On /\ backend = "cpal" => stream # "closed" /\ recorder = "none"
  /\ pc \in Stopping \cup {"spawn"} => backend = "pipewire"
  /\ pc \in On \cup Stopping /\ backend = "pipewire" =>
       /\ stream = "closed"
       /\ recorder # "none" /\ reader # "none" /\ watcher # "none"
  /\ recorder = "none" <=> reader = "none"
  /\ recorder = "none" <=> watcher = "none"
  /\ pc = "wait" => recorder # "running"
  /\ pc = "join" => recorder = "reaped"

\* The queue never holds more than its capacity: an event that finds no room is lost.
Bounded == Len(queue) <= Capacity

CaptureInv == CaptureTypeOK /\ Mutex /\ Held /\ Bounded

\* A child that was started and not reaped is the reaper's, or on its way to it.
Reapable ==
  /\ action \in [Slot -> {"free", "running", "exited"}]
  /\ channel \subseteq Slot /\ held \subseteq Slot
  /\ \A a \in Slot : action[a] # "free" <=> a \in channel \cup held

\* A recorder is forgotten only when it has been waited for: there is no zombie.
RecorderReaped == [][recorder # "none" /\ recorder' = "none" => recorder = "reaped"]_vars

-----------------------------------------------------------------------------
USE DEF Off, On, Stopping, Released, Goto

LEMMA CaptureInitially == ASSUME Init PROVE CaptureInv
<1>1. <<>> \in Seq({"samples", "error"}) /\ Len(<<>>) = 0
  OBVIOUS
<1>2. /\ backend \in {"cpal", "pipewire"} /\ delivers \in BOOLEAN
      /\ stream = "closed" /\ recorder = "none" /\ lock = "none" /\ stopped = FALSE
      /\ reader = "none" /\ watcher = "none" /\ queue = <<>> /\ pc = "open"
  BY DEF Init, CaptureInit
<1> USE CapacityAssumption DEF CaptureInv, CaptureTypeOK, Mutex, Held, Bounded, Open
<1>a. CaptureTypeOK
  BY <1>1, <1>2
<1>b. Mutex
  BY <1>1, <1>2
<1>c. Held
  BY <1>1, <1>2
<1>d. Bounded
  BY <1>1, <1>2
<1> QED
  BY <1>a, <1>b, <1>c, <1>d

\* What is sent finds room or is lost.
LEMMA SentFits ==
  ASSUME CaptureInv, NEW event \in {"samples", "error"}
  PROVE  Sent(event) \in Seq({"samples", "error"}) /\ Len(Sent(event)) <= Capacity
<1> USE CapacityAssumption DEF CaptureInv, CaptureTypeOK, Bounded, Sent
<1>1. Append(queue, event) \in Seq({"samples", "error"}) /\ Len(Append(queue, event)) = Len(queue) + 1
  OBVIOUS
<1>2. Len(queue) \in Nat
  OBVIOUS
<1> QED
  BY <1>1, <1>2

\* What is taken leaves a shorter queue.
LEMMA TakenFits ==
  ASSUME CaptureInv, queue # <<>>
  PROVE  Tail(queue) \in Seq({"samples", "error"}) /\ Len(Tail(queue)) <= Capacity
<1> USE CapacityAssumption DEF CaptureInv, CaptureTypeOK, Bounded
<1>1. Tail(queue) \in Seq({"samples", "error"}) /\ Len(Tail(queue)) = Len(queue) - 1 /\ Len(queue) \in Nat
  OBVIOUS
<1> QED
  BY <1>1

\* The device, the processes and the threads of a capture keep its invariant.
LEMMA InsideKeepsCapture ==
  ASSUME CaptureInv, Surroundings \/ Threads
  PROVE  CaptureInv'
<1>s. /\ Sent("samples") \in Seq({"samples", "error"}) /\ Len(Sent("samples")) <= Capacity
      /\ Sent("error") \in Seq({"samples", "error"}) /\ Len(Sent("error")) <= Capacity
  BY SentFits
<1>u. UNCHANGED pc
  BY DEF Surroundings, Threads, userVars
<1> USE <1>s, <1>u DEF CaptureInv, CaptureTypeOK, Mutex, Held, Bounded, Open
<1>1. CASE Device \/ RecorderExits
  <2>1. /\ UNCHANGED <<backend, stream, lock, stopped, reader, watcher, queue>>
        /\ delivers' \in BOOLEAN
        /\ recorder' = recorder \/ (recorder' = "exited" /\ recorder \in {"running", "killed"})
    BY <1>1 DEF Device, RecorderExits
  <2> QED
    BY <2>1
<1>2. CASE CallBack \/ ErrorBack
  BY <1>2 DEF CallBack, ErrorBack
<1>3. CASE ReadBlock \/ ReadEnd
  BY <1>3 DEF ReadBlock, ReadEnd
<1>4. CASE Look
  BY <1>4 DEF Look
<1>5. CASE Alarm
  BY <1>5 DEF Alarm
<1>6. CASE WatcherKills
  BY <1>6 DEF WatcherKills, KillAs, Killed
<1>7. CASE WatcherWaits
  BY <1>7 DEF WatcherWaits, WaitAs
<1> QED
  BY <1>1, <1>2, <1>3, <1>4, <1>5, <1>6, <1>7
  DEF Surroundings, Threads, Callbacks, Reader, Watcher

\* So does its user: what it opens it drops on every way out of the loop.
LEMMA UserKeepsCapture ==
  ASSUME CaptureInv, User
  PROVE  CaptureInv'
<1>e. <<>> \in Seq({"samples", "error"}) /\ Len(<<>>) = 0
  OBVIOUS
<1> USE <1>e, CapacityAssumption DEF CaptureInv, CaptureTypeOK, Mutex, Held, Bounded, Open, captureVars, Leave
<1>1. CASE OpenFails \/ Resolve \/ Retry \/ RunAction \/ ActionsStarted \/ Rearm
  BY <1>1 DEF OpenFails, Resolve, Retry, RunAction, ActionsStarted, Rearm, Unavailable
<1>2. CASE OpenCpal
  BY <1>2 DEF OpenCpal, PlayStream
<1>3. CASE Spawn
  <2>1. /\ UNCHANGED <<backend, delivers, stream, lock>> /\ pc = "spawn" /\ pc' = "receive"
        /\ recorder' = "running" /\ stopped' = FALSE /\ queue' = <<>>
        /\ reader' = "reading" /\ watcher' = "looking"
    BY <1>3 DEF Spawn, SpawnRecorder
  <2>a. CaptureTypeOK'
    BY <2>1
  <2>b. Mutex'
    BY <2>1
  <2>c. Held'
    BY <2>1
  <2>d. Bounded'
    BY <2>1
  <2> QED
    BY <2>a, <2>b, <2>c, <2>d
<1>4. CASE Interrupted \/ Accept \/ Deadline
  BY <1>4 DEF Interrupted, Accept, Deadline
<1>5. CASE Collected
  BY <1>5 DEF Collected
<1>6. CASE ReceiveSamples
  BY <1>6, TakenFits DEF ReceiveSamples, TakeEvent
<1>7. CASE ReceiveLoss
  BY <1>7, TakenFits DEF ReceiveLoss, TakeEvent
<1>8. CASE CloseCpal
  BY <1>8 DEF CloseCpal, DropStream
<1>9. CASE CloseRecorder
  <2>1. CASE pc = "drop" /\ Stop /\ Goto("kill")
    BY <1>9, <2>1 DEF CloseRecorder, Stop
  <2>2. CASE pc = "kill" /\ OwnerKills /\ Goto("wait")
    BY <1>9, <2>2 DEF CloseRecorder, OwnerKills, KillAs, Killed
  <2>3. CASE pc = "wait" /\ OwnerWaits /\ Goto("join")
    BY <1>9, <2>3 DEF CloseRecorder, OwnerWaits, WaitAs
  <2>4. CASE pc = "join" /\ Join /\ Goto("dropped")
    <3>1. /\ UNCHANGED <<backend, delivers, stream, lock>> /\ watcher = "ended"
          /\ recorder' = "none" /\ stopped' = FALSE /\ queue' = <<>>
          /\ reader' = "none" /\ watcher' = "none" /\ pc = "join" /\ pc' = "dropped"
      BY <2>4 DEF Join, Forget
    <3>2. backend = "pipewire" /\ stream = "closed" /\ lock = "none"
      BY <3>1
    <3>a. CaptureTypeOK'
      BY <3>1, <3>2
    <3>b. Mutex'
      BY <3>1, <3>2
    <3>c. Held'
      BY <3>1, <3>2
    <3>d. Bounded'
      BY <3>1, <3>2
    <3> QED
      BY <3>a, <3>b, <3>c, <3>d
  <2> QED
    BY <1>9, <2>1, <2>2, <2>3, <2>4 DEF CloseRecorder
<1>10. CASE Dropped
  BY <1>10 DEF Dropped, Unavailable
<1> QED
  BY <1>1, <1>2, <1>3, <1>4, <1>5, <1>6, <1>7, <1>8, <1>9, <1>10
  DEF User, Opening, Loop, Closing, Between

\* The inductive invariant of a capture and its user (audio::Capture and its Drop).
THEOREM CaptureInvariant == Spec => []CaptureInv
<1>1. CaptureInv /\ [Next]_vars => CaptureInv'
  <2> SUFFICES ASSUME CaptureInv, [Next]_vars PROVE CaptureInv'
    OBVIOUS
  <2>1. ASSUME UNCHANGED <<captureVars, pc>> PROVE CaptureInv'
    BY <2>1 DEF captureVars, CaptureInv, CaptureTypeOK, Mutex, Held, Bounded, Open
  <2>2. CASE Turn \/ (\E a \in Slot : ActionExits(a)) \/ UNCHANGED vars
    BY <2>1, <2>2 DEF Turn, ActionExits, vars, userVars
  <2> QED
    BY <2>2, InsideKeepsCapture, UserKeepsCapture DEF Next
<1> QED
  BY <1>1, CaptureInitially, PTL DEF Spec

\* Between two captures, while an action runs and when the program ends, nothing of the
\* last capture is left, on whichever of its errors, commands and losses it was dropped.
THEOREM MicIsReleased == Spec => []MicReleased
<1>1. CaptureInv => MicReleased
  BY DEF CaptureInv, CaptureTypeOK, Mutex, Held, Open, MicReleased
<1> QED
  BY <1>1, CaptureInvariant, PTL

\* Nobody leaves a zombie: the recorder's drop kills and waits, even where the watcher
\* has killed it and waits too (RecorderProcess and its mutex).
THEOREM NoZombieRecorder == Spec => RecorderReaped
<1>1. ASSUME CaptureInv, Next PROVE recorder # "none" /\ recorder' = "none" => recorder = "reaped"
  <2> USE <1>1 DEF captureVars, userVars
  <2>1. CASE Surroundings \/ Threads
    BY <2>1 DEF Surroundings, Threads, Device, RecorderExits, Callbacks, CallBack, ErrorBack, Reader,
      ReadBlock, ReadEnd, Watcher, Look, Alarm, WatcherKills, KillAs, Killed, WatcherWaits, WaitAs
  <2>2. CASE Turn \/ \E a \in Slot : ActionExits(a)
    BY <2>2 DEF Turn, ActionExits
  <2>3. CASE CloseRecorder
    BY <2>3 DEF CloseRecorder, Stop, OwnerKills, KillAs, Killed, OwnerWaits, WaitAs, Join, CaptureInv, Held
  <2>4. CASE User /\ ~CloseRecorder
    BY <2>4 DEF User, Opening, OpenFails, OpenCpal, PlayStream, Resolve, Spawn, SpawnRecorder,
      Loop, Interrupted, ReceiveSamples, ReceiveLoss, TakeEvent, Accept, Collected, Deadline,
      Closing, CloseCpal, DropStream, Dropped, Between, Retry, RunAction, ActionsStarted, Rearm
  <2> QED
    BY <2>1, <2>2, <2>3, <2>4 DEF Next
<1>2. CaptureInv /\ [Next]_vars => [recorder # "none" /\ recorder' = "none" => recorder = "reaped"]_vars
  BY <1>1
<1> QED
  BY <1>2, CaptureInvariant, PTL DEF Spec, RecorderReaped

-----------------------------------------------------------------------------
\* Every child that runs or has ended is in the reaper's hands, or in its channel.
THEOREM EveryChildReapable == Spec => []Reapable
<1>1. Init => Reapable
  BY DEF Init, Reapable
<1>2. Reapable /\ [Next]_vars => Reapable'
  <2> SUFFICES ASSUME Reapable, [Next]_vars PROVE Reapable'
    OBVIOUS
  <2> USE DEF Reapable, Ended
  <2>1. CASE Turn
    BY <2>1 DEF Turn
  <2>2. ASSUME NEW a \in Slot, ActionExits(a) PROVE Reapable'
    BY <2>2 DEF ActionExits
  <2>3. CASE RunAction
    BY <2>3 DEF RunAction
  <2>4. ASSUME UNCHANGED reaperVars PROVE Reapable'
    BY <2>4 DEF reaperVars
  <2>5. CASE Surroundings \/ Threads
    BY <2>4, <2>5 DEF Surroundings, Threads
  <2>6. CASE User /\ ~RunAction
    BY <2>4, <2>6 DEF User, Opening, OpenFails, OpenCpal, Resolve, Spawn,
      Loop, Interrupted, ReceiveSamples, ReceiveLoss, Accept, Collected, Deadline,
      Closing, CloseCpal, CloseRecorder, Dropped, Between, Retry, ActionsStarted, Rearm, reaperVars
  <2>7. CASE UNCHANGED vars
    BY <2>4, <2>7 DEF vars
  <2> QED
    BY <2>1, <2>2, <2>3, <2>5, <2>6, <2>7 DEF Next
<1> QED
  BY <1>1, <1>2, PTL DEF Spec

-----------------------------------------------------------------------------
(* PhraseMatcher *)

HIDE DEF Off, On, Stopping, Released, Goto

\* Of numbers there is a least one; and what holds of 0 and of the successor of each number
\* it holds of, holds of all.
LEMMA Least == ASSUME NEW S, S \subseteq Nat, S # {} PROVE \E n \in S : \A m \in S : n =< m
<1>1. PICK n \in S : \A m \in S : ~(<<m, n>> \in OpToRel(<, Nat))
  BY NatLessThanWellFounded, WFMin
<1>2. \A m \in S : ~(m < n)
  BY <1>1, Zenon DEF OpToRel
<1> QED
  BY <1>2

LEMMA Inductive == ASSUME NEW S, 0 \in S, \A n \in Nat : n \in S => n + 1 \in S PROVE \A n \in Nat : n \in S
<1> DEFINE T == Nat \ S
<1>1. SUFFICES ASSUME T # {} PROVE FALSE
  OBVIOUS
<1>2. PICK n \in T : \A m \in T : n =< m
  BY <1>1, Least
<1>3. n # 0 /\ n - 1 \in Nat /\ ~(n - 1 \in T)
  BY <1>2
<1> QED
  BY <1>2, <1>3

-----------------------------------------------------------------------------
Text(tokens, n, f) == IF n = 0 THEN <<>> ELSE f[n - 1] \o tokens[n]
IsText(tokens, f) == f = [n \in 0 .. Len(tokens) |-> Text(tokens, n, f)]

LEMMA TextExists == ASSUME NEW tokens, Len(tokens) \in Nat PROVE \E f : IsText(tokens, f)
<1> DEFINE S == {k \in Nat : \E f : f = [n \in 0 .. k |-> Text(tokens, n, f)]}
<1>1. 0 \in S
  <2> DEFINE f == [n \in 0 .. 0 |-> <<>>]
  <2>1. f = [n \in 0 .. 0 |-> Text(tokens, n, f)]
    BY DEF Text
  <2> QED
    BY <2>1
<1>2. ASSUME NEW k \in Nat, k \in S PROVE k + 1 \in S
  <2>1. PICK f : f = [n \in 0 .. k |-> Text(tokens, n, f)]
    BY <1>2
  <2> DEFINE g == [n \in 0 .. k + 1 |-> Text(tokens, n, f)]
  <2>2. \A n \in 0 .. k : g[n] = f[n]
    BY <2>1
  <2>3. \A n \in 0 .. k + 1 : Text(tokens, n, f) = Text(tokens, n, g)
    <3> HIDE DEF g
    <3> QED
      BY <2>2 DEF Text
  <2>4. g = [n \in 0 .. k + 1 |-> Text(tokens, n, g)]
    BY <2>3
  <2> HIDE DEF g
  <2> QED
    BY <2>4
<1> HIDE DEF S
<1>3. Len(tokens) \in S
  BY <1>1, <1>2, Inductive
<1> QED
  BY <1>3 DEF S, IsText

LEMMA CanonicalIsText ==
  ASSUME NEW tokens, Len(tokens) \in Nat
  PROVE  \E f : IsText(tokens, f) /\ Canonical(tokens) = f[Len(tokens)]
<1> DEFINE f == CHOOSE f : IsText(tokens, f)
<1>1. IsText(tokens, f)
  BY TextExists
<1>2. Canonical(tokens) = f[Len(tokens)]
  BY DEF Canonical, IsText, Text
<1> QED
  BY <1>1, <1>2

LEMMA TextGrows ==
  ASSUME NEW C, NEW tokens \in Seq(Seq(C) \ {<<>>}), NEW f, IsText(tokens, f)
  PROVE  /\ \A n \in 0 .. Len(tokens) : f[n] \in Seq(C)
         /\ \A n \in 0 .. Len(tokens) : \A k \in Nat : k < n => Len(f[k]) < Len(f[n])
<1>len. Len(tokens) \in Nat
  OBVIOUS
<1>0. /\ f[0] \in Seq(C)
      /\ \A n \in Nat : n + 1 =< Len(tokens) =>
           f[n + 1] = f[n] \o tokens[n + 1] /\ tokens[n + 1] \in Seq(C) /\ Len(tokens[n + 1]) > 0
  <2>1. f[0] = <<>> /\ <<>> \in Seq(C)
    BY DEF IsText, Text
  <2>2. ASSUME NEW n \in Nat, n + 1 =< Len(tokens) PROVE f[n + 1] = f[n] \o tokens[n + 1]
    <3>1. n + 1 \in 0 .. Len(tokens) /\ n + 1 # 0 /\ (n + 1) - 1 = n
      BY <2>2
    <3>2. f[n + 1] = Text(tokens, n + 1, f)
      BY <3>1 DEF IsText
    <3> QED
      BY <3>1, <3>2 DEF Text
  <2>3. ASSUME NEW n \in Nat, n + 1 =< Len(tokens)
        PROVE  tokens[n + 1] \in Seq(C) /\ Len(tokens[n + 1]) > 0
    <3>1. tokens[n + 1] \in Seq(C) /\ tokens[n + 1] # <<>>
      BY <2>3
    <3> QED
      BY <3>1
  <2> QED
    BY <2>1, <2>2, <2>3
<1> DEFINE S == {n \in Nat : n =< Len(tokens) => f[n] \in Seq(C)}
<1>1. 0 \in S
  BY <1>0
<1>2. ASSUME NEW n \in Nat, n \in S PROVE n + 1 \in S
  <2>1. SUFFICES ASSUME n + 1 =< Len(tokens) PROVE f[n + 1] \in Seq(C)
    OBVIOUS
  <2>2. f[n + 1] = f[n] \o tokens[n + 1] /\ f[n] \in Seq(C) /\ tokens[n + 1] \in Seq(C)
    <3>1. n =< Len(tokens)
      BY <1>len, <2>1
    <3> QED
      BY <1>0, <1>2, <2>1, <3>1
  <2> QED
    BY <2>2
<1> HIDE DEF S
<1>3. \A n \in Nat : n \in S
  BY <1>1, <1>2, Inductive
<1>4. \A n \in 0 .. Len(tokens) : f[n] \in Seq(C)
  BY <1>3 DEF S
<1>5. \A n \in Nat : n + 1 =< Len(tokens) => Len(f[n]) < Len(f[n + 1])
  <2>1. ASSUME NEW n \in Nat, n + 1 =< Len(tokens) PROVE Len(f[n]) < Len(f[n + 1])
    <3>1. f[n + 1] = f[n] \o tokens[n + 1] /\ f[n] \in Seq(C) /\ tokens[n + 1] \in Seq(C)
          /\ Len(tokens[n + 1]) > 0
      <4>1. n \in 0 .. Len(tokens)
        BY <1>len, <2>1
      <4> QED
        BY <1>0, <1>4, <2>1, <4>1
    <3>2. Len(f[n] \o tokens[n + 1]) = Len(f[n]) + Len(tokens[n + 1])
      BY <3>1
    <3>3. Len(f[n]) \in Nat /\ Len(tokens[n + 1]) \in Nat
      BY <3>1
    <3>4. Len(f[n + 1]) = Len(f[n]) + Len(tokens[n + 1])
      BY <3>1, <3>2, Zenon
    <3>5. Len(tokens[n + 1]) > 0
      BY <3>1
    <3> DEFINE a == Len(f[n])
               b == Len(tokens[n + 1])
               c == Len(f[n + 1])
    <3>6. a \in Nat /\ b \in Nat /\ b > 0 /\ c = a + b
      BY <3>3, <3>4, <3>5
    <3> HIDE DEF a, b, c
    <3>7. a < c
      BY <3>6
    <3> QED
      BY <3>7 DEF a, c
  <2> QED
    BY <2>1
<1> DEFINE R == {n \in Nat : n =< Len(tokens) => \A k \in Nat : k < n => Len(f[k]) < Len(f[n])}
<1>6. 0 \in R
  OBVIOUS
<1>7. ASSUME NEW n \in Nat, n \in R PROVE n + 1 \in R
  <2>1. SUFFICES ASSUME n + 1 =< Len(tokens), NEW k \in Nat, k < n + 1 PROVE Len(f[k]) < Len(f[n + 1])
    OBVIOUS
  <2>2. Len(f[n]) < Len(f[n + 1]) /\ Len(f[n]) \in Nat /\ Len(f[n + 1]) \in Nat
    BY <1>4, <1>5, <2>1
  <2>3. k = n \/ (Len(f[k]) < Len(f[n]) /\ Len(f[k]) \in Nat)
    BY <1>4, <1>7, <2>1
  <2> QED
    BY <2>2, <2>3
<1> HIDE DEF R
<1>8. \A n \in Nat : n \in R
  BY <1>6, <1>7, Inductive
<1> QED
  BY <1>4, <1>8 DEF R

LEMMA SameBeginning ==
  ASSUME NEW p, NEW q, Len(p) \in Nat, Len(q) \in Nat, Len(p) =< Len(q),
         \A k \in 1 .. Len(p) : p[k] = q[k],
         NEW f, IsText(p, f), NEW g, IsText(q, g)
  PROVE  f[Len(p)] = g[Len(p)]
<1>0. /\ f[0] = g[0]
      /\ \A n \in Nat : n + 1 =< Len(p) => f[n + 1] = f[n] \o p[n + 1] /\ g[n + 1] = g[n] \o p[n + 1]
  <2>1. f[0] = g[0]
    BY DEF IsText, Text
  <2>2. ASSUME NEW n \in Nat, n + 1 =< Len(p)
        PROVE  f[n + 1] = f[n] \o p[n + 1] /\ g[n + 1] = g[n] \o p[n + 1]
    <3>1. n + 1 \in 0 .. Len(p) /\ n + 1 \in 0 .. Len(q) /\ n + 1 # 0 /\ (n + 1) - 1 = n /\ p[n + 1] = q[n + 1]
      BY <2>2
    <3>2. f[n + 1] = Text(p, n + 1, f) /\ g[n + 1] = Text(q, n + 1, g)
      BY <3>1 DEF IsText
    <3> QED
      BY <3>1, <3>2 DEF Text
  <2> QED
    BY <2>1, <2>2
<1> DEFINE S == {n \in Nat : n =< Len(p) => f[n] = g[n]}
<1>1. 0 \in S
  BY <1>0
<1>2. ASSUME NEW n \in Nat, n \in S PROVE n + 1 \in S
  <2>1. SUFFICES ASSUME n + 1 =< Len(p) PROVE f[n + 1] = g[n + 1]
    OBVIOUS
  <2>2. n =< Len(p)
    BY <2>1
  <2> QED
    BY <1>0, <1>2, <2>1, <2>2
<1> HIDE DEF S
<1>3. Len(p) \in S
  BY <1>1, <1>2, Inductive
<1> QED
  BY <1>3 DEF S

\* Of two runs of tokens from the same start the longer one has the longer text.
LEMMA LongerText ==
  ASSUME NEW C, NEW p \in Seq(Seq(C) \ {<<>>}), NEW q \in Seq(Seq(C) \ {<<>>}),
         Len(p) < Len(q), \A k \in 1 .. Len(p) : p[k] = q[k]
  PROVE  /\ Canonical(p) \in Seq(C) /\ Canonical(q) \in Seq(C)
         /\ Len(Canonical(p)) < Len(Canonical(q))
<1>1. Len(p) \in Nat /\ Len(q) \in Nat
  OBVIOUS
<1>2. PICK f : IsText(p, f) /\ Canonical(p) = f[Len(p)]
  BY <1>1, CanonicalIsText
<1>3. PICK g : IsText(q, g) /\ Canonical(q) = g[Len(q)]
  BY <1>1, CanonicalIsText
<1>4. f[Len(p)] = g[Len(p)]
  <2>1. Len(p) =< Len(q)
    BY <1>1
  <2> QED
    BY <1>1, <1>2, <1>3, <2>1, SameBeginning
<1>5. f[Len(p)] \in Seq(C)
  BY <1>1, <1>2, TextGrows
<1>6. g[Len(q)] \in Seq(C) /\ Len(g[Len(p)]) < Len(g[Len(q)])
  <2>1. Len(q) \in 0 .. Len(q)
    BY <1>1
  <2> QED
    BY <1>1, <1>3, <2>1, TextGrows
<1> QED
  BY <1>2, <1>3, <1>4, <1>5, <1>6

-----------------------------------------------------------------------------
\* A run of the tokens of a transcript.
LEMMA RunOfTokens ==
  ASSUME NEW S, NEW t \in Seq(S), NEW s \in Nat \ {0}, NEW e \in Nat, s < e, e =< Len(t) + 1
  PROVE  /\ SubSeq(t, s, e - 1) \in Seq(S) /\ Len(SubSeq(t, s, e - 1)) = e - s
         /\ \A k \in 1 .. e - s : SubSeq(t, s, e - 1)[k] = t[s + k - 1]
<1>1. Len(t) \in Nat /\ \A i \in 1 .. Len(t) : t[i] \in S
  OBVIOUS
<1>2. /\ SubSeq(t, s, e - 1) = [k \in 1 .. (e - 1) - s + 1 |-> t[s + k - 1]]
  OBVIOUS
<1>3. (e - 1) - s + 1 = e - s /\ e - s \in Nat
  OBVIOUS
<1>4. \A k \in 1 .. e - s : s + k - 1 \in 1 .. Len(t)
  BY <1>1
<1>5. SubSeq(t, s, e - 1) = [k \in 1 .. e - s |-> t[s + k - 1]]
  BY <1>2, <1>3
<1> QED
  BY <1>1, <1>3, <1>4, <1>5

LEMMA CandidateTyped ==
  ASSUME NEW ws, NEW S, NEW t \in Seq(S), NEW c \in Candidates(ws, t)
  PROVE  /\ c.phrase \in Phrases(ws) /\ c.start \in Nat \ {0} /\ c.end \in Nat
         /\ c.start < c.end /\ c.end =< Len(t) + 1
         /\ c.phrase.canonical = Canonical(SubSeq(t, c.start, c.end - 1))
         /\ c = [phrase |-> c.phrase, start |-> c.start, end |-> c.end]
<1>1. c \in [phrase : Phrases(ws), start : DOMAIN t, end : 2 .. Len(t) + 1]
  BY DEF Candidates
<1>2. c.start < c.end /\ Canonical(SubSeq(t, c.start, c.end - 1)) = c.phrase.canonical
  BY DEF Candidates
<1>3. c.end \in 2 .. Len(t) + 1
  BY <1>1
<1> QED
  BY <1>1, <1>2, <1>3

\* From one start the longer run has the longer phrase, and one run has one phrase.
LEMMA OneForARun ==
  ASSUME NEW ws, Compiles(ws), NEW C, NEW t \in Seq(Seq(C) \ {<<>>}),
         NEW c \in Candidates(ws, t), NEW d \in Candidates(ws, t), c.start = d.start
  PROVE  /\ Len(c.phrase.canonical) \in Nat
         /\ c.end = d.end => c = d
         /\ c.end < d.end => Len(c.phrase.canonical) < Len(d.phrase.canonical)
<1>1. /\ c.phrase \in Phrases(ws) /\ c.start \in Nat \ {0} /\ c.end \in Nat
      /\ c.start < c.end /\ c.end =< Len(t) + 1
      /\ c.phrase.canonical = Canonical(SubSeq(t, c.start, c.end - 1))
      /\ c = [phrase |-> c.phrase, start |-> c.start, end |-> c.end]
  BY CandidateTyped
<1>2. /\ d.phrase \in Phrases(ws) /\ d.start \in Nat \ {0} /\ d.end \in Nat
      /\ d.start < d.end /\ d.end =< Len(t) + 1
      /\ d.phrase.canonical = Canonical(SubSeq(t, d.start, d.end - 1))
      /\ d = [phrase |-> d.phrase, start |-> d.start, end |-> d.end]
  BY CandidateTyped
<1> DEFINE p == SubSeq(t, c.start, c.end - 1)
           q == SubSeq(t, d.start, d.end - 1)
<1>3. /\ p \in Seq(Seq(C) \ {<<>>}) /\ Len(p) = c.end - c.start
      /\ \A k \in 1 .. c.end - c.start : p[k] = t[c.start + k - 1]
  BY <1>1, RunOfTokens, SMTT(60)
<1>4. /\ q \in Seq(Seq(C) \ {<<>>}) /\ Len(q) = d.end - d.start
      /\ \A k \in 1 .. d.end - d.start : q[k] = t[d.start + k - 1]
  BY <1>2, RunOfTokens
<1>5. Len(c.phrase.canonical) \in Nat
  <2>len. Len(p) \in Nat
    BY <1>3
  <2> HIDE DEF p
  <2>1. PICK f : IsText(p, f) /\ Canonical(p) = f[Len(p)]
    BY <2>len, CanonicalIsText
  <2>2. Len(p) \in 0 .. Len(p)
    BY <2>len
  <2>3. f[Len(p)] \in Seq(C)
    BY <1>3, <2>1, <2>2, TextGrows
  <2> QED
    BY <1>1, <2>1, <2>3 DEF p
<1>6. ASSUME c.end = d.end PROVE c = d
  <2>1. c.phrase.canonical = d.phrase.canonical
    BY <1>1, <1>2, <1>6
  <2>2. c.phrase = d.phrase
    BY <1>1, <1>2, <2>1 DEF Compiles
  <2> QED
    BY <1>1, <1>2, <1>6, <2>2
<1>7. ASSUME c.end < d.end PROVE Len(c.phrase.canonical) < Len(d.phrase.canonical)
  <2>1. Len(p) < Len(q)
    BY <1>1, <1>2, <1>3, <1>4, <1>7
  <2>2. \A k \in 1 .. Len(p) : p[k] = q[k]
    <3> HIDE DEF p, q
    <3>1. ASSUME NEW k \in 1 .. Len(p) PROVE p[k] = q[k]
      <4>1. k \in 1 .. c.end - c.start /\ k \in 1 .. d.end - d.start
        BY <1>1, <1>2, <1>3, <1>4, <2>1
      <4>2. p[k] = t[c.start + k - 1] /\ q[k] = t[d.start + k - 1]
        BY <1>3, <1>4, <4>1
      <4> QED
        BY <4>2
    <3> QED
      BY <3>1
  <2> HIDE DEF p, q
  <2>3. Len(Canonical(p)) < Len(Canonical(q))
    BY <1>3, <1>4, <2>1, <2>2, LongerText
  <2> QED
    BY <1>1, <1>2, <2>3 DEF p, q
<1> QED
  BY <1>5, <1>6, <1>7

-----------------------------------------------------------------------------
Foremost(cs) == CHOOSE c \in cs : \A d \in cs \ {c} : Before(c, d)

\* What comes before: an earlier start, or with the same start no shorter a phrase.
LEMMA BeforeMeans ==
  ASSUME NEW c, NEW d, c.start \in Nat, d.start \in Nat,
         Len(c.phrase.canonical) \in Nat, Len(d.phrase.canonical) \in Nat
  PROVE  /\ c.start < d.start \/ (c.start = d.start /\ Len(c.phrase.canonical) > Len(d.phrase.canonical))
              => Before(c, d)
         /\ Before(c, d) => c.start < d.start
              \/ (c.start = d.start /\ Len(c.phrase.canonical) >= Len(d.phrase.canonical))
<1> DEFINE key(e) == <<e.start, 1000 - Len(e.phrase.canonical), e.phrase.order>>
<1>1. /\ key(c)[1] = c.start /\ key(c)[2] = 1000 - Len(c.phrase.canonical)
      /\ key(d)[1] = d.start /\ key(d)[2] = 1000 - Len(d.phrase.canonical)
  OBVIOUS
<1>2. Before(c, d) <=> \E i \in 1 .. 3 : key(c)[i] < key(d)[i] /\ \A j \in 1 .. i - 1 : key(c)[j] = key(d)[j]
  BY DEF Before
<1> HIDE DEF key
<1>3. ASSUME c.start < d.start PROVE Before(c, d)
  <2>1. 1 \in 1 .. 3 /\ key(c)[1] < key(d)[1] /\ \A j \in 1 .. 1 - 1 : key(c)[j] = key(d)[j]
    BY <1>1, <1>3
  <2> QED
    BY <1>2, <2>1
<1>4. ASSUME c.start = d.start, Len(c.phrase.canonical) > Len(d.phrase.canonical) PROVE Before(c, d)
  <2>1. 2 \in 1 .. 3 /\ key(c)[2] < key(d)[2] /\ \A j \in 1 .. 2 - 1 : key(c)[j] = key(d)[j]
    BY <1>1, <1>4
  <2> QED
    BY <1>2, <2>1
<1>5. ASSUME Before(c, d)
      PROVE  c.start < d.start
               \/ (c.start = d.start /\ Len(c.phrase.canonical) >= Len(d.phrase.canonical))
  <2>1. PICK i \in 1 .. 3 : key(c)[i] < key(d)[i] /\ \A j \in 1 .. i - 1 : key(c)[j] = key(d)[j]
    BY <1>2, <1>5
  <2>2. CASE i = 1
    BY <1>1, <2>1, <2>2
  <2>3. CASE i = 2
    BY <1>1, <2>1, <2>3
  <2>4. CASE i = 3
    BY <1>1, <2>1, <2>4
  <2> QED
    BY <2>2, <2>3, <2>4
<1> QED
  BY <1>3, <1>4, <1>5

\* Some candidate comes before all others.
LEMMA ForemostIsFirst ==
  ASSUME NEW ws, Compiles(ws), NEW C, NEW t \in Seq(Seq(C) \ {<<>>}),
         NEW cs, cs \subseteq Candidates(ws, t), cs # {}
  PROVE  Foremost(cs) \in cs /\ \A d \in cs \ {Foremost(cs)} : Before(Foremost(cs), d)
<1>0. Len(t) \in Nat
  OBVIOUS
<1>1. \A c \in cs : c.start \in Nat /\ c.end \in Nat /\ c.end =< Len(t) + 1 /\ Len(c.phrase.canonical) \in Nat
  <2> SUFFICES ASSUME NEW c \in cs
               PROVE  c.start \in Nat /\ c.end \in Nat /\ c.end =< Len(t) + 1 /\ Len(c.phrase.canonical) \in Nat
    OBVIOUS
  <2>1. c \in Candidates(ws, t)
    OBVIOUS
  <2>2. c.start \in Nat /\ c.end \in Nat /\ c.end =< Len(t) + 1
    BY <2>1, CandidateTyped
  <2>3. Len(c.phrase.canonical) \in Nat
    BY <2>1, OneForARun
  <2> QED
    BY <2>2, <2>3
<1>2. PICK a \in cs : \A d \in cs : a.start =< d.start
  <2> DEFINE T == {c.start : c \in cs}
  <2>1. T \subseteq Nat /\ T # {}
    BY <1>1
  <2> HIDE DEF T
  <2>2. PICK n \in T : \A m \in T : n =< m
    BY <2>1, Least
  <2> QED
    BY <2>2 DEF T
<1>3. PICK c \in cs : c.start = a.start /\ \A d \in cs : d.start = a.start => d.end =< c.end
  <2> DEFINE T == {Len(t) + 1 - d.end : d \in {e \in cs : e.start = a.start}}
  <2>1. T \subseteq Nat /\ T # {}
    BY <1>0, <1>1
  <2> HIDE DEF T
  <2>2. PICK n \in T : \A m \in T : n =< m
    BY <2>1, Least
  <2>3. PICK c \in cs : c.start = a.start /\ n = Len(t) + 1 - c.end
    BY <2>2 DEF T
  <2>4. ASSUME NEW d \in cs, d.start = a.start PROVE d.end =< c.end
    <3>1. Len(t) + 1 - d.end \in T
      BY <2>4 DEF T
    <3>2. Len(t) + 1 - c.end =< Len(t) + 1 - d.end
      BY <2>2, <2>3, <3>1
    <3>3. c.end \in Nat /\ d.end \in Nat
      BY <1>1
    <3> QED
      BY <1>0, <3>2, <3>3
  <2> QED
    BY <2>3, <2>4
<1>4. ASSUME NEW d \in cs \ {c} PROVE Before(c, d)
  <2>1. c \in Candidates(ws, t) /\ d \in Candidates(ws, t) /\ d \in cs /\ c # d
    OBVIOUS
  <2>2. c.start =< d.start
    BY <1>2, <1>3, <2>1
  <2>3. CASE c.start = d.start
    <3>1. d.end < c.end
      <4>1. d.end =< c.end
        BY <1>2, <1>3, <2>1, <2>3
      <4>2. d.end # c.end
        BY <2>1, <2>3, OneForARun
      <4> QED
        BY <1>1, <2>1, <4>1, <4>2
    <3>2. Len(d.phrase.canonical) < Len(c.phrase.canonical)
      BY <2>1, <2>3, <3>1, OneForARun
    <3> QED
      BY <1>1, <2>1, <2>3, <3>2, BeforeMeans
  <2>4. CASE c.start < d.start
    BY <1>1, <2>1, <2>4, BeforeMeans
  <2> QED
    BY <1>1, <2>1, <2>2, <2>3, <2>4
<1>5. \E e \in cs : \A d \in cs \ {e} : Before(e, d)
  BY <1>4
<1> QED
  BY <1>5 DEF Foremost

-----------------------------------------------------------------------------
\* The candidates are gone through from the front: what may still be accepted begins
\* behind what has been.
Taken(cs, f) == IF cs = {} THEN {} ELSE {Foremost(cs)} \cup f[Left(cs, Foremost(cs))]
IsAccepted(all, f) == f = [cs \in SUBSET all |-> Taken(cs, f)]
Behind(all, n) == {cs \in SUBSET all : \A c \in cs : c.start > n}

LEMMA LeftIsBehind ==
  ASSUME NEW ws, Compiles(ws), NEW C, NEW t \in Seq(Seq(C) \ {<<>>}),
         NEW n \in Nat, NEW cs \in Behind(Candidates(ws, t), n), cs # {}
  PROVE  Left(cs, Foremost(cs)) \in Behind(Candidates(ws, t), n + 1)
<1> DEFINE c == Foremost(cs)
<1>1. cs \subseteq Candidates(ws, t) /\ \A d \in cs : d.start > n
  BY DEF Behind
<1>2. c \in cs /\ \A d \in cs \ {c} : Before(c, d)
  BY <1>1, ForemostIsFirst
<1> HIDE DEF c
<1>3. ASSUME NEW d \in Left(cs, c) PROVE d.start > n + 1
  <2>1. d \in cs /\ d # c /\ ~Overlap(c, d)
    BY <1>3 DEF Left
  <2>2. /\ c.start \in Nat /\ c.end \in Nat /\ d.start \in Nat /\ d.end \in Nat
        /\ c.start < c.end /\ d.start < d.end /\ c.start > n
    BY <1>1, <1>2, <2>1, CandidateTyped
  <2>3. Len(c.phrase.canonical) \in Nat /\ Len(d.phrase.canonical) \in Nat
    BY <1>1, <1>2, <2>1, OneForARun
  <2>4. c.start =< d.start
    BY <1>2, <2>1, <2>2, <2>3, BeforeMeans
  <2> QED
    BY <2>1, <2>2, <2>4 DEF Overlap
<1>4. Left(cs, c) \subseteq Candidates(ws, t)
  BY <1>1 DEF Left
<1> QED
  BY <1>3, <1>4 DEF Behind, c

\* There is such a function: by induction on how many tokens there are from the first start.
LEMMA AcceptedExists ==
  ASSUME NEW ws, Compiles(ws), NEW C, NEW t \in Seq(Seq(C) \ {<<>>})
  PROVE  \E f : IsAccepted(Candidates(ws, t), f)
<1> DEFINE all == Candidates(ws, t)
           From(k) == Behind(all, Len(t) - k)
           S == {k \in Nat : k =< Len(t) => \E f : f = [cs \in From(k) |-> Taken(cs, f)]}
<1>0. Len(t) \in Nat /\ \A c \in all : c.start \in Nat \ {0} /\ c.start =< Len(t)
  <2>1. ASSUME NEW c \in all PROVE c.start \in Nat \ {0} /\ c.start =< Len(t)
    BY <2>1, CandidateTyped
  <2> QED
    BY <2>1
<1>1. 0 \in S
  <2>1. From(0) = {{}}
    BY <1>0 DEF Behind
  <2> DEFINE f == [cs \in {{}} |-> {}]
  <2>2. f = [cs \in From(0) |-> Taken(cs, f)]
    BY <2>1 DEF Taken
  <2> QED
    BY <2>2
<1>2. ASSUME NEW k \in Nat, k \in S PROVE k + 1 \in S
  <2>1. SUFFICES ASSUME k + 1 =< Len(t) PROVE \E g : g = [cs \in From(k + 1) |-> Taken(cs, g)]
    OBVIOUS
  <2>2. k =< Len(t) /\ Len(t) - (k + 1) \in Nat /\ Len(t) - (k + 1) + 1 = Len(t) - k
    BY <1>0, <2>1
  <2>3. PICK f : f = [cs \in From(k) |-> Taken(cs, f)]
    BY <1>2, <2>2
  <2> DEFINE g == [cs \in From(k + 1) |-> Taken(cs, f)]
  <2>4. \A cs \in From(k) : cs \in From(k + 1) /\ g[cs] = f[cs]
    <3>1. \A cs \in From(k) : cs \in From(k + 1)
      BY <1>0, <2>2 DEF Behind
    <3> HIDE DEF From
    <3> QED
      BY <2>3, <3>1
  <2>5. ASSUME NEW cs \in From(k + 1) PROVE Taken(cs, f) = Taken(cs, g)
    <3>1. cs # {} => Left(cs, Foremost(cs)) \in From(k)
      BY <2>2, <2>5, LeftIsBehind
    <3> HIDE DEF g, From
    <3> QED
      BY <2>4, <3>1 DEF Taken
  <2>6. g = [cs \in From(k + 1) |-> Taken(cs, g)]
    <3> HIDE DEF From
    <3> QED
      BY <2>5
  <2> HIDE DEF g
  <2> QED
    BY <2>6
<1> HIDE DEF S
<1>3. Len(t) \in S
  BY <1>0, <1>1, <1>2, Inductive
<1>4. PICK f : f = [cs \in From(Len(t)) |-> Taken(cs, f)]
  BY <1>0, <1>3 DEF S
<1>5. From(Len(t)) = SUBSET all
  BY <1>0 DEF Behind
<1> HIDE DEF From, all
<1> QED
  BY <1>4, <1>5 DEF IsAccepted, all

LEMMA MatchesAccepts ==
  ASSUME NEW ws, Compiles(ws), NEW C, NEW t \in Seq(Seq(C) \ {<<>>})
  PROVE  \E f : IsAccepted(Candidates(ws, t), f) /\ Matches(ws, t) = f[Candidates(ws, t)]
<1> DEFINE all == Candidates(ws, t)
           f == CHOOSE f : IsAccepted(all, f)
<1>1. IsAccepted(all, f)
  BY AcceptedExists
<1>2. Matches(ws, t) = f[all]
  BY DEF Matches, IsAccepted, Taken, Foremost
<1> QED
  BY <1>1, <1>2

\* Of any of the candidates what is accepted is a matching.
Sound(cs, found) ==
  /\ found \subseteq cs
  /\ \A c, d \in found : c # d => c.phrase.id # d.phrase.id /\ ~Overlap(c, d)
  /\ \A c \in cs : (\A d \in found : d.phrase.id # c.phrase.id) =>
       \E d \in found : Overlap(c, d) /\ (d.start = c.start => d.end >= c.end)

LEMMA OneMore ==
  ASSUME NEW ws, Compiles(ws), NEW C, NEW t \in Seq(Seq(C) \ {<<>>}),
         NEW cs, cs \subseteq Candidates(ws, t), cs # {},
         NEW found, Sound(Left(cs, Foremost(cs)), found)
  PROVE  Sound(cs, {Foremost(cs)} \cup found)
<1> DEFINE first == Foremost(cs)
<1>1. first \in cs /\ \A d \in cs \ {first} : Before(first, d)
  BY ForemostIsFirst
<1>2. Sound(Left(cs, first), found)
  OBVIOUS
<1> HIDE DEF first
<1>3. found \subseteq Left(cs, first)
  BY <1>2 DEF Sound
<1>4. \A d \in found : d \in cs /\ d.phrase.id # first.phrase.id /\ ~Overlap(first, d) /\ ~Overlap(d, first)
  BY <1>3 DEF Left, Overlap
<1>5. \A c, d \in {first} \cup found : c # d => c.phrase.id # d.phrase.id /\ ~Overlap(c, d)
  BY <1>2, <1>4 DEF Sound
<1>6. ASSUME NEW c \in cs, \A d \in {first} \cup found : d.phrase.id # c.phrase.id
      PROVE  \E d \in {first} \cup found : Overlap(c, d) /\ (d.start = c.start => d.end >= c.end)
  <2>1. CASE c \in Left(cs, first)
    BY <1>2, <1>6, <2>1 DEF Sound
  <2>2. CASE c \notin Left(cs, first)
    <3>1. c.phrase.id # first.phrase.id /\ c # first
      BY <1>6
    <3>2. Overlap(c, first)
      BY <2>2, <3>1 DEF Left, Overlap
    <3>3. c \in Candidates(ws, t) /\ first \in Candidates(ws, t) /\ Before(first, c)
      BY <1>1, <3>1
    <3>4. c.start \in Nat /\ first.start \in Nat /\ c.end \in Nat /\ first.end \in Nat
      BY <3>3, CandidateTyped
    <3>5. Len(c.phrase.canonical) \in Nat /\ Len(first.phrase.canonical) \in Nat
      BY <3>3, OneForARun
    <3>6. first.start < c.start
            \/ (first.start = c.start /\ Len(first.phrase.canonical) >= Len(c.phrase.canonical))
      BY <3>3, <3>4, <3>5, BeforeMeans
    <3>7. ASSUME first.start = c.start PROVE first.end >= c.end
      <4>1. first.end < c.end => Len(first.phrase.canonical) < Len(c.phrase.canonical)
        BY <3>3, <3>7, OneForARun
      <4>2. Len(first.phrase.canonical) >= Len(c.phrase.canonical)
        BY <3>4, <3>6, <3>7
      <4> QED
        BY <3>4, <3>5, <4>1, <4>2
    <3> QED
      BY <3>2, <3>7
  <2> QED
    BY <2>1, <2>2
<1>7. {first} \cup found \subseteq cs
  BY <1>1, <1>4
<1> QED
  BY <1>5, <1>6, <1>7 DEF Sound, first

\* For every configuration that compiles and every transcript: what the matcher finds is a
\* matching: each word at most once, no token for two words, and a phrase that is there left
\* out only for one that shares a token with it, and takes no fewer where both begin together
\* (PhraseMatcher::matches).
THEOREM MatchesAreRight ==
  ASSUME NEW ws, Compiles(ws), NEW C, NEW t \in Seq(Seq(C) \ {<<>>})
  PROVE  IsMatching(ws, t, Matches(ws, t))
<1> DEFINE all == Candidates(ws, t)
<1>1. PICK f : IsAccepted(all, f) /\ Matches(ws, t) = f[all]
  BY MatchesAccepts
<1>0. Len(t) \in Nat /\ \A c \in all : c.start \in Nat \ {0} /\ c.start =< Len(t)
  <2>1. ASSUME NEW c \in all PROVE c.start \in Nat \ {0} /\ c.start =< Len(t)
    BY <2>1, CandidateTyped
  <2> QED
    BY <2>1
<1> DEFINE From(k) == Behind(all, Len(t) - k)
           S == {k \in Nat : k =< Len(t) => \A cs \in From(k) : Sound(cs, f[cs])}
<1>2. \A cs \in SUBSET all : f[cs] = Taken(cs, f)
  BY <1>1 DEF IsAccepted
<1>3. Sound({}, f[{}])
  BY <1>2 DEF Taken, Sound
<1>4. 0 \in S
  <2>1. From(0) = {{}}
    BY <1>0 DEF Behind
  <2> QED
    BY <1>3, <2>1
<1>5. ASSUME NEW k \in Nat, k \in S PROVE k + 1 \in S
  <2>1. SUFFICES ASSUME k + 1 =< Len(t), NEW cs \in From(k + 1) PROVE Sound(cs, f[cs])
    OBVIOUS
  <2>2. k =< Len(t) /\ Len(t) - (k + 1) \in Nat /\ Len(t) - (k + 1) + 1 = Len(t) - k
    BY <1>0, <2>1
  <2>3. cs \subseteq all
    BY <2>1 DEF Behind
  <2>4. CASE cs = {}
    BY <1>3, <2>4
  <2>5. CASE cs # {}
    <3>1. Left(cs, Foremost(cs)) \in From(k)
      BY <2>1, <2>2, <2>5, LeftIsBehind
    <3>2. Sound(Left(cs, Foremost(cs)), f[Left(cs, Foremost(cs))])
      BY <1>5, <2>2, <3>1
    <3>3. f[cs] = {Foremost(cs)} \cup f[Left(cs, Foremost(cs))]
      BY <1>2, <2>3, <2>5 DEF Taken
    <3> DEFINE found == f[Left(cs, Foremost(cs))]
    <3> HIDE DEF found
    <3>4. Sound(cs, {Foremost(cs)} \cup found)
      BY <2>3, <2>5, <3>2, OneMore DEF found
    <3> QED
      BY <3>3, <3>4 DEF found
  <2> QED
    BY <2>4, <2>5
<1> HIDE DEF S
<1>6. Len(t) \in S
  BY <1>0, <1>4, <1>5, Inductive
<1>7. all \in From(Len(t))
  BY <1>0 DEF Behind
<1>8. Sound(all, f[all])
  BY <1>0, <1>6, <1>7 DEF S
<1> QED
  BY <1>1, <1>8 DEF Sound, IsMatching

-----------------------------------------------------------------------------
\* The matcher is that of the words, and what is heard is a transcript.
MatcherInv ==
  /\ Compiles(words) /\ matches = [t \in Transcripts |-> Matches(words, t)]
  /\ pc = "heard" => transcript \in Transcripts

\* Whatever the capture does, the matcher in use is the one that was compiled.
THEOREM MatcherInvariant == Spec => []MatcherInv
<1>1. Init => MatcherInv
  BY DEF Init, MatcherInv
<1>2. MatcherInv /\ [Next]_vars => MatcherInv'
  <2> SUFFICES ASSUME MatcherInv, [Next]_vars PROVE MatcherInv'
    OBVIOUS
  <2> USE DEF MatcherInv
  <2>1. ASSUME UNCHANGED <<words, matches>>, pc' = "heard" => transcript' \in Transcripts PROVE MatcherInv'
    BY <2>1
  <2>2. CASE Accept
    BY <2>2, <2>1 DEF Accept, Hear, Goto, Leave
  <2>3. CASE Deadline
    BY <2>3, <2>1 DEF Deadline, Hear, Goto
  <2>4. CASE Collected
    BY <2>4, <2>1 DEF Collected, Goto, Leave
  <2>5. CASE User /\ ~Accept /\ ~Deadline /\ ~Collected
    <3>1. CASE Opening
      BY <2>1, <3>1 DEF Opening, OpenFails, OpenCpal, Resolve, Spawn, Goto, matchVars, Unavailable
    <3>2. CASE Interrupted \/ ReceiveSamples \/ ReceiveLoss
      BY <2>1, <3>2 DEF Interrupted, ReceiveSamples, ReceiveLoss, Goto, Leave, matchVars
    <3>3. CASE Closing
      BY <2>1, <3>3 DEF Closing, CloseCpal, CloseRecorder, Dropped, Goto, matchVars, Unavailable
    <3>4. CASE Between
      BY <2>1, <3>4 DEF Between, Retry, RunAction, ActionsStarted, Rearm, Goto, matchVars
    <3> QED
      BY <2>5, <3>1, <3>2, <3>3, <3>4 DEF User, Loop
  <2>6. ASSUME UNCHANGED userVars PROVE MatcherInv'
    BY <2>1, <2>6 DEF userVars, matchVars
  <2>7. CASE Surroundings \/ Threads \/ Turn \/ \E a \in Slot : ActionExits(a)
    BY <2>6, <2>7 DEF Surroundings, Threads, Turn, ActionExits
  <2>8. CASE UNCHANGED vars
    BY <2>6, <2>8 DEF vars
  <2> QED
    BY <2>2, <2>3, <2>4, <2>5, <2>7, <2>8 DEF Next
<1> QED
  BY <1>1, <1>2, PTL DEF Spec

\* For every configuration that compiles and whatever an engine hears: each word is found at
\* most once and takes no token of another, and a phrase that is there goes without its word
\* only to one that takes a token of it, and no fewer where both begin together
\* (PhraseMatcher::matches).
THEOREM WordsAreRight == Spec => []RightWords
<1>1. MatcherInv => RightWords
  <2> SUFFICES ASSUME MatcherInv, pc = "heard" PROVE IsMatching(words, transcript, matches[transcript])
    BY DEF RightWords
  <2>1. Compiles(words) /\ transcript \in Transcripts /\ matches[transcript] = Matches(words, transcript)
    BY DEF MatcherInv
  <2>2. transcript \in Seq(Seq(Character) \ {<<>>})
    BY <2>1, TranscriptAssumption
  <2> QED
    BY <2>1, <2>2, MatchesAreRight
<1> QED
  BY <1>1, MatcherInvariant, PTL

-----------------------------------------------------------------------------
(* ActivityBuffer *)

Recording == [samples : Seq(Int), start : Int, end : Int, silence : Nat]

\* Where the audio begins that the next utterance may hold.
Unused == IF out # NoUtterance THEN cursor ELSE taken

BufferTypes ==
  /\ engine \in Engines /\ cursor \in Nat /\ taken \in Nat /\ taken =< cursor
  /\ speaking \in BOOLEAN /\ utterance \in Recording /\ out \in Recording

\* The idle frames are the last ones, and none that was handed out is among them.
IdleExact ==
  /\ idle \in Seq(Int) /\ Len(idle) =< Retained
  /\ \A i \in 1 .. Len(idle) : idle[i] = cursor - Frame * (Len(idle) - i + 1)
  /\ cursor - Frame * Len(idle) >= Unused

\* A recording without a gap, of what was not handed out.
Consecutive(u) ==
  /\ u.start >= taken /\ Len(u.samples) =< MaxUtterance
  /\ \A i \in 1 .. Len(u.samples) : u.samples[i] = u.start + i - 1

\* The utterance under way reaches to the end of the last frame, and has no end while
\* there is speech.
Underway ==
  utterance # NoUtterance =>
    /\ out = NoUtterance /\ idle = <<>>
    /\ Consecutive(utterance)
    /\ utterance.start + Len(utterance.samples) = cursor
    /\ utterance.end # Never => ~speaking /\ engine # "whisper"
Emitted == out # NoUtterance => utterance = NoUtterance /\ idle = <<>>

BufferInv == BufferTypes /\ IdleExact /\ Underway /\ Emitted /\ UtteranceExact

-----------------------------------------------------------------------------
LEMMA Sizes ==
  /\ Frame \in Nat /\ Frame > 0 /\ PreRoll \in Nat /\ PostRoll \in Nat
  /\ MaxUtterance \in Nat /\ MaxUtterance > 0 /\ EndSilence \in Nat /\ EndSilence > 0
  /\ MaxUtterance >= PreRoll + 2 * Frame
  BY SizesFit

LEMMA RetainedFits == Retained \in Nat /\ \A n \in Nat : n =< Retained => Frame * n =< MaxUtterance
<1> DEFINE q == PreRoll \div Frame
<1>1. q \in Nat /\ Frame * q =< PreRoll
  BY Sizes
<1>2. Retained \in Nat /\ Retained =< q + 2
  BY <1>1 DEF Retained
<1> HIDE DEF q
<1>3. ASSUME NEW n \in Nat, n =< Retained PROVE Frame * n =< MaxUtterance
  <2>1. Frame * n =< Frame * (q + 2)
    BY <1>1, <1>2, <1>3, Sizes
  <2>2. Frame * (q + 2) = Frame * q + 2 * Frame
    BY <1>1, Sizes
  <2>3. Frame * n \in Nat /\ Frame * q \in Nat /\ Frame * (q + 2) \in Nat
    BY <1>1, Sizes
  <2> QED
    BY <1>1, <2>1, <2>2, <2>3, Sizes
<1> QED
  BY <1>2, <1>3

LEMMA FrameSamples ==
  ASSUME NEW first \in Int
  PROVE  /\ SamplesOf(first) \in Seq(Int) /\ Len(SamplesOf(first)) = Frame
         /\ \A i \in 1 .. Frame : SamplesOf(first)[i] = first + i - 1
  BY Sizes DEF SamplesOf

LEMMA SubSeqFacts ==
  ASSUME NEW s \in Seq(Int), NEW m \in Nat, NEW n \in Nat, m =< n, n =< Len(s)
  PROVE  /\ SubSeq(s, m + 1, n) \in Seq(Int) /\ Len(SubSeq(s, m + 1, n)) = n - m
         /\ \A i \in 1 .. n - m : SubSeq(s, m + 1, n)[i] = s[m + i]
<1>1. \A i \in m + 1 .. n : s[i] \in Int
  OBVIOUS
<1>2. /\ SubSeq(s, m + 1, n) \in Seq(Int)
      /\ Len(SubSeq(s, m + 1, n)) = IF m + 1 <= n THEN n - (m + 1) + 1 ELSE 0
      /\ \A i \in 1 .. n - (m + 1) + 1 : SubSeq(s, m + 1, n)[i] = s[m + 1 + i - 1]
  <2>1. m + 1 \in Int /\ n \in Int
    OBVIOUS
  <2> QED
    BY <1>1, <2>1, SubSeqProperties
<1>3. n - (m + 1) + 1 = n - m /\ \A i \in Int : m + 1 + i - 1 = m + i
  OBVIOUS
<1> DEFINE r == SubSeq(s, m + 1, n)
<1> HIDE DEF r
<1>4. /\ r \in Seq(Int) /\ Len(r) = (IF m + 1 <= n THEN n - (m + 1) + 1 ELSE 0)
      /\ \A i \in 1 .. n - (m + 1) + 1 : r[i] = s[m + 1 + i - 1]
  BY <1>2 DEF r
<1>5. Len(r) = n - m
  BY <1>4
<1>6. ASSUME NEW i \in 1 .. n - m PROVE r[i] = s[m + i]
  <2>1. i \in 1 .. n - (m + 1) + 1 /\ m + 1 + i - 1 = m + i
    OBVIOUS
  <2> QED
    BY <1>4, <2>1
<1> QED
  BY <1>4, <1>5, <1>6 DEF r

LEMMA ConcatFacts ==
  ASSUME NEW s \in Seq(Int), NEW t \in Seq(Int)
  PROVE  /\ s \o t \in Seq(Int) /\ Len(s \o t) = Len(s) + Len(t)
         /\ \A i \in 1 .. Len(s) : (s \o t)[i] = s[i]
         /\ \A i \in 1 .. Len(t) : (s \o t)[Len(s) + i] = t[i]
  OBVIOUS

\* Frames that follow one another, in one piece (Vec::extend_from_slice).
Piece(seqs, i, f) == IF i = 1 THEN seqs[i] ELSE f[i - 1] \o seqs[i]
IsPieces(seqs, f) == f = [i \in 1 .. Len(seqs) |-> Piece(seqs, i, f)]

LEMMA PiecesExist == ASSUME NEW seqs, Len(seqs) \in Nat PROVE \E f : IsPieces(seqs, f)
<1> DEFINE S == {k \in Nat : \E f : f = [i \in 1 .. k |-> Piece(seqs, i, f)]}
<1>1. 0 \in S
  <2> DEFINE f == [i \in 1 .. 0 |-> <<>>]
  <2>1. f = [i \in 1 .. 0 |-> Piece(seqs, i, f)]
    OBVIOUS
  <2> QED
    BY <2>1
<1>2. ASSUME NEW k \in Nat, k \in S PROVE k + 1 \in S
  <2>1. PICK f : f = [i \in 1 .. k |-> Piece(seqs, i, f)]
    BY <1>2
  <2> DEFINE g == [i \in 1 .. k + 1 |-> Piece(seqs, i, f)]
  <2>2. \A i \in 1 .. k : g[i] = f[i]
    BY <2>1
  <2>3. \A i \in 1 .. k + 1 : Piece(seqs, i, f) = Piece(seqs, i, g)
    <3> HIDE DEF g
    <3> QED
      BY <2>2 DEF Piece
  <2>4. g = [i \in 1 .. k + 1 |-> Piece(seqs, i, g)]
    BY <2>3
  <2> HIDE DEF g
  <2> QED
    BY <2>4
<1> HIDE DEF S
<1>3. Len(seqs) \in S
  BY <1>1, <1>2, Inductive
<1> QED
  BY <1>3 DEF S, IsPieces

LEMMA Flattened ==
  ASSUME NEW base \in Int, NEW seqs, Len(seqs) \in Nat,
         \A i \in 1 .. Len(seqs) : seqs[i] = SamplesOf(base + Frame * (i - 1)),
         Len(seqs) = 0 => seqs = <<>>
  PROVE  /\ FlattenSeq(seqs) \in Seq(Int) /\ Len(FlattenSeq(seqs)) = Frame * Len(seqs)
         /\ \A i \in 1 .. Frame * Len(seqs) : FlattenSeq(seqs)[i] = base + i - 1
<1>0. CASE Len(seqs) = 0
  BY <1>0, Sizes DEF FlattenSeq
<1>1. CASE Len(seqs) # 0
  <2> DEFINE f == CHOOSE f : IsPieces(seqs, f)
  <2>1. IsPieces(seqs, f)
    BY PiecesExist
  <2>2. FlattenSeq(seqs) = f[Len(seqs)]
    BY <1>1 DEF FlattenSeq, IsPieces, Piece
  <2> HIDE DEF f
  <2>3. \A i \in 1 .. Len(seqs) : f[i] = Piece(seqs, i, f)
    BY <2>1 DEF IsPieces
  <2> DEFINE Exact(s, n) == /\ s \in Seq(Int) /\ Len(s) = Frame * n
                            /\ \A i \in 1 .. Frame * n : s[i] = base + i - 1
             S == {n \in Nat : n + 1 =< Len(seqs) => Exact(f[n + 1], n + 1)}
  <2>4. 0 \in S
    <3>1. 1 \in 1 .. Len(seqs) /\ 1 - 1 = 0 /\ base + Frame * 0 = base /\ Frame * 1 = Frame
      BY <1>1, Sizes
    <3>2. seqs[1] = SamplesOf(base)
      BY <3>1, Zenon
    <3>3. f[1] = SamplesOf(base)
      BY <2>3, <3>1, <3>2 DEF Piece
    <3>4. Exact(f[1], 1)
      BY <3>1, <3>3, FrameSamples
    <3> HIDE DEF Exact
    <3>5. 0 + 1 = 1
      OBVIOUS
    <3> QED
      BY <3>4, <3>5
  <2>5. ASSUME NEW n \in Nat, n \in S PROVE n + 1 \in S
    <3>1. SUFFICES ASSUME n + 2 =< Len(seqs) PROVE Exact(f[n + 2], n + 2)
      OBVIOUS
    <3> DEFINE p == Frame * (n + 1)
               first == base + p
               s == f[n + 1]
               t == SamplesOf(first)
    <3>2. /\ n + 2 \in 1 .. Len(seqs) /\ n + 2 # 1 /\ (n + 2) - 1 = n + 1 /\ n + 1 =< Len(seqs)
          /\ p \in Nat /\ Frame * (n + 2) = p + Frame
      BY <3>1, Sizes
    <3>3. Exact(s, n + 1)
      BY <2>5, <3>2
    <3>4. f[n + 2] = s \o t
      <4>1. f[n + 2] = Piece(seqs, n + 2, f)
        BY <2>3, <3>2
      <4>2. seqs[n + 2] = SamplesOf(base + Frame * ((n + 2) - 1))
        BY <3>2
      <4>3. seqs[n + 2] = t
        BY <3>2, <4>2, Zenon
      <4>4. Piece(seqs, n + 2, f) = f[(n + 2) - 1] \o seqs[n + 2]
        BY <3>2, Zenon DEF Piece
      <4> QED
        BY <3>2, <4>1, <4>3, <4>4, Zenon
    <3>5. s \in Seq(Int) /\ Len(s) = p /\ \A i \in 1 .. p : s[i] = base + i - 1
      BY <3>3
    <3> HIDE DEF s, t, p, first
    <3>6. t \in Seq(Int) /\ Len(t) = Frame /\ \A i \in 1 .. Frame : t[i] = first + i - 1
      <4>1. first \in Int
        BY <3>2 DEF first
      <4> QED
        BY <4>1, FrameSamples DEF t
    <3> DEFINE r == s \o t
    <3>7. /\ r \in Seq(Int) /\ Len(r) = p + Frame
          /\ \A i \in 1 .. p : r[i] = s[i]
          /\ \A i \in 1 .. Frame : r[p + i] = t[i]
      <4>1. /\ r \in Seq(Int) /\ Len(r) = Len(s) + Len(t)
            /\ \A i \in 1 .. Len(s) : r[i] = s[i]
            /\ \A i \in 1 .. Len(t) : r[Len(s) + i] = t[i]
        BY <3>5, <3>6, ConcatFacts
      <4> HIDE DEF r
      <4> QED
        BY <3>5, <3>6, <4>1
    <3> HIDE DEF r
    <3>8. ASSUME NEW i \in 1 .. p + Frame PROVE r[i] = base + i - 1
      <4>1. CASE i =< p
        BY <3>2, <3>5, <3>7, <4>1
      <4>2. CASE ~(i =< p)
        <5> DEFINE k == i - p
        <5>1. k \in 1 .. Frame /\ p + k = i
          BY <3>2, <4>2, Sizes
        <5>2. r[p + k] = t[k] /\ t[k] = first + k - 1
          BY <3>6, <3>7, <5>1
        <5>3. first + k - 1 = base + i - 1
          BY <3>2, <5>1 DEF first
        <5> QED
          BY <5>1, <5>2, <5>3
      <4> QED
        BY <3>2, <4>1, <4>2
    <3>9. f[n + 2] = r
      BY <3>4 DEF r
    <3> QED
      BY <3>2, <3>7, <3>8, <3>9
  <2>6. Exact(f[Len(seqs)], Len(seqs))
    <3> HIDE DEF S, Exact
    <3>1. Len(seqs) - 1 \in S
      BY <1>1, <2>4, <2>5, Inductive
    <3> QED
      BY <1>1, <3>1 DEF S
  <2> QED
    BY <2>2, <2>6
<1> QED
  BY <1>0, <1>1

-----------------------------------------------------------------------------
LEMMA KeptFacts ==
  ASSUME cursor \in Nat, taken \in Nat, taken =< cursor, IdleExact
  PROVE  /\ Kept \in Seq(Int) /\ Len(Kept) \in Nat /\ Len(Kept) =< Retained
         /\ \A i \in 1 .. Len(Kept) : Kept[i] = FrameEnd - Frame * (Len(Kept) - i + 1)
         /\ FrameEnd - Frame * Len(Kept) >= Unused /\ Frame * Len(Kept) \in Nat
         /\ Unused \in Nat
<1> DEFINE frames == Append(idle, cursor)
           n == Len(idle)
           d == Larger(n + 1 - Retained, 0)
           m == n + 1 - d
<1>1. n \in Nat /\ Retained \in Nat /\ n =< Retained
  BY RetainedFits DEF IdleExact
<1>2. frames \in Seq(Int) /\ Len(frames) = n + 1 /\ frames[n + 1] = cursor
      /\ \A i \in 1 .. n : frames[i] = idle[i]
  BY DEF IdleExact
<1> HIDE DEF n
<1>3. d \in Nat /\ d =< 1 /\ m \in Nat /\ m =< Retained /\ m =< n + 1 /\ d =< n + 1 /\ m + d = n + 1
  BY <1>1 DEF Larger
<1>a. Kept = SubSeq(frames, Larger(Len(frames) - Retained, 0) + 1, Len(frames))
  BY Zenon DEF Kept
<1> HIDE DEF frames
<1>b. Kept = SubSeq(frames, d + 1, n + 1)
  <2>1. Larger(Len(frames) - Retained, 0) = d
    BY <1>1, <1>2 DEF Larger
  <2> HIDE DEF d
  <2> QED
    BY <1>2, <1>a, <2>1, Zenon
<1> HIDE DEF d, m
<1>4. Kept \in Seq(Int) /\ Len(Kept) = m /\ \A i \in 1 .. m : Kept[i] = frames[d + i]
  <2>1. n + 1 \in Nat /\ (n + 1) - d = m /\ n + 1 =< Len(frames)
    BY <1>1, <1>2, <1>3
  <2> DEFINE last == n + 1
  <2>2. frames \in Seq(Int) /\ d \in Nat /\ d =< last /\ last \in Nat /\ last - d = m /\ last =< Len(frames)
    BY <1>2, <1>3, <2>1
  <2>3. Kept = SubSeq(frames, d + 1, last)
    BY <1>b
  <2> HIDE DEF last
  <2>4. /\ SubSeq(frames, d + 1, last) \in Seq(Int) /\ Len(SubSeq(frames, d + 1, last)) = last - d
        /\ \A i \in 1 .. last - d : SubSeq(frames, d + 1, last)[i] = frames[d + i]
    BY <2>2, SubSeqFacts
  <2> QED
    BY <2>2, <2>3, <2>4, Zenon
<1>5. \A i \in 1 .. n : idle[i] = cursor - Frame * (n - i + 1)
  BY DEF IdleExact, n
<1>6. ASSUME NEW i \in 1 .. m PROVE Kept[i] = FrameEnd - Frame * (m - i + 1)
  <2> DEFINE j == d + i
  <2>1. j \in 1 .. n + 1 /\ Kept[i] = frames[j] /\ m - i = (n + 1) - j
    BY <1>1, <1>3, <1>4
  <2> HIDE DEF j
  <2>2. CASE j = n + 1
    <3>1. Kept[i] = cursor /\ m - i + 1 = 1
      BY <1>1, <1>2, <1>3, <2>1, <2>2
    <3>2. Frame * (m - i + 1) = Frame
      BY <3>1, Sizes
    <3> QED
      BY <3>1, <3>2, Sizes DEF FrameEnd
  <2>3. CASE j # n + 1
    <3>1. j \in 1 .. n /\ n - j + 1 = m - i
      BY <1>1, <2>1, <2>3
    <3>2. Kept[i] = cursor - Frame * (m - i)
      BY <1>2, <1>5, <2>1, <3>1
    <3>3. Frame * (m - i + 1) = Frame * (m - i) + Frame /\ Frame * (m - i) \in Int
      BY <1>3, Sizes
    <3> QED
      BY <3>2, <3>3, Sizes DEF FrameEnd
  <2> QED
    BY <2>2, <2>3
<1>7. Frame * m =< Frame * n + Frame /\ Frame * m \in Nat /\ Frame * n \in Nat
  BY <1>1, <1>3, Sizes
<1>8. cursor - Frame * n >= Unused /\ Unused \in Nat
  BY DEF n, Unused, IdleExact
<1>9. FrameEnd - Frame * m >= Unused
  BY <1>7, <1>8, Sizes DEF FrameEnd
<1> QED
  BY <1>3, <1>4, <1>6, <1>7, <1>8, <1>9

\* What is recorded of the idle frames is what lies between the start and the end of the
\* frame.
LEMMA OpenedFacts ==
  ASSUME cursor \in Nat, taken \in Nat, taken =< cursor, IdleExact,
         NEW start \in Int, FrameEnd - Frame * Len(Kept) =< start, start =< FrameEnd
  PROVE  /\ Opened(start) \in Recording /\ Opened(start).start = start /\ Opened(start).end = Never
         /\ Opened(start).silence = 0
         /\ start >= Unused /\ start \in Nat
         /\ Len(Opened(start).samples) = FrameEnd - start
         /\ FrameEnd - start =< MaxUtterance
         /\ \A i \in 1 .. Len(Opened(start).samples) : Opened(start).samples[i] = start + i - 1
<1> DEFINE m == Len(Kept)
           base == FrameEnd - Frame * m
           seqs == [i \in DOMAIN Kept |-> SamplesOf(Kept[i])]
           recorded == FlattenSeq(seqs)
           missing == Smaller(start - base, Len(recorded))
           samples == SubSeq(recorded, missing + 1, Len(recorded))
<1>1. /\ Kept \in Seq(Int) /\ m \in Nat /\ m =< Retained
      /\ \A i \in 1 .. m : Kept[i] = FrameEnd - Frame * (m - i + 1)
      /\ base >= Unused /\ Frame * m \in Nat /\ Unused \in Nat
  BY KeptFacts
<1>2. Frame * m =< MaxUtterance /\ FrameEnd \in Nat /\ base \in Int
  <2>1. FrameEnd \in Nat
    BY Sizes DEF FrameEnd
  <2> HIDE DEF m
  <2>2. Frame * m =< MaxUtterance
    BY <1>1, RetainedFits
  <2> QED
    BY <1>1, <2>1, <2>2
<1>3. DOMAIN Kept = 1 .. m /\ Len(seqs) = m /\ (m = 0 => seqs = <<>>)
  BY <1>1
<1>4. ASSUME NEW i \in 1 .. m PROVE seqs[i] = SamplesOf(base + Frame * (i - 1))
  <2>1. Frame * (m - i + 1) = Frame * m - Frame * (i - 1)
    BY <1>1, Sizes
  <2>2. Frame * (i - 1) \in Int /\ Frame * m \in Int
    BY <1>1, Sizes
  <2>3. Kept[i] = base + Frame * (i - 1)
    BY <1>1, <1>2, <2>1, <2>2
  <2> QED
    BY <1>3, <2>3
<1> HIDE DEF m, seqs
<1>5. /\ recorded \in Seq(Int) /\ Len(recorded) = Frame * m
      /\ \A i \in 1 .. Frame * m : recorded[i] = base + i - 1
  <2>1. base \in Int /\ Len(seqs) = m /\ Len(seqs) \in Nat /\ (Len(seqs) = 0 => seqs = <<>>)
    BY <1>1, <1>2, <1>3
  <2> HIDE DEF base
  <2>2. \A i \in 1 .. Len(seqs) : seqs[i] = SamplesOf(base + Frame * (i - 1))
    BY <1>4, <2>1, Zenon
  <2>3. /\ FlattenSeq(seqs) \in Seq(Int) /\ Len(FlattenSeq(seqs)) = Frame * Len(seqs)
        /\ \A i \in 1 .. Frame * Len(seqs) : FlattenSeq(seqs)[i] = base + i - 1
    BY <2>1, <2>2, Flattened
  <2> QED
    BY <2>1, <2>3, Zenon
<1>6. Opened(start) = [NoUtterance EXCEPT !.samples = samples, !.start = start]
  BY DEF Opened, m, seqs
<1> HIDE DEF recorded
<1>7. missing = start - base /\ missing \in Nat /\ missing =< Frame * m /\ Frame * m - missing = FrameEnd - start
  BY <1>1, <1>2, <1>5 DEF Smaller, m
<1> DEFINE whole == Frame * m
<1>8. /\ whole \in Nat /\ whole =< MaxUtterance /\ FrameEnd \in Nat /\ base \in Nat /\ base + whole = FrameEnd
      /\ missing = start - base /\ missing \in Nat /\ missing =< whole /\ whole - missing = FrameEnd - start
      /\ base >= Unused /\ Unused \in Nat /\ base =< start
  BY <1>1, <1>2, <1>7 DEF m
<1>9. samples = SubSeq(recorded, missing + 1, whole) /\ Len(recorded) = whole /\ recorded \in Seq(Int)
  BY <1>5
<1> HIDE DEF whole, samples, missing, base
<1>10. /\ samples \in Seq(Int) /\ Len(samples) = whole - missing
       /\ \A i \in 1 .. whole - missing : samples[i] = recorded[missing + i]
  BY <1>8, <1>9, SubSeqFacts
<1>11. Len(samples) = FrameEnd - start
  BY <1>8, <1>10
<1>12. ASSUME NEW i \in 1 .. Len(samples) PROVE samples[i] = start + i - 1
  <2>1. i \in 1 .. whole - missing /\ missing + i \in 1 .. whole /\ base + (missing + i) - 1 = start + i - 1
    BY <1>8, <1>10, <1>12
  <2>2. \A k \in 1 .. whole : recorded[k] = base + k - 1
    BY <1>5 DEF whole
  <2> DEFINE k == missing + i
  <2>3. samples[i] = recorded[k] /\ k \in 1 .. whole /\ base + k - 1 = start + i - 1
    BY <1>10, <2>1
  <2> HIDE DEF k
  <2> QED
    BY <2>2, <2>3
<1>13. start >= Unused /\ start \in Nat /\ FrameEnd - start =< MaxUtterance
  BY <1>8, Sizes
<1>14. /\ Opened(start) \in Recording /\ Opened(start).start = start /\ Opened(start).end = Never
       /\ Opened(start).silence = 0 /\ Opened(start).samples = samples
  <2>1. Opened(start) = [samples |-> samples, start |-> start, end |-> Never, silence |-> 0]
    BY <1>6 DEF NoUtterance, Never
  <2>2. Never \in Int
    BY DEF Never
  <2> QED
    BY <1>10, <2>1, <2>2 DEF Recording
<1> QED
  BY <1>11, <1>12, <1>13, <1>14
-----------------------------------------------------------------------------
LEMMA ExtendedFacts ==
  ASSUME NEW u \in Recording, Consecutive(u), u.start \in Nat, cursor \in Nat,
         u.start + Len(u.samples) = cursor
  PROVE  /\ Extended(u) \in Recording /\ Extended(u).start = u.start
         /\ Extended(u).end = u.end /\ Extended(u).silence = u.silence
         /\ Consecutive(Extended(u))
         /\ u.start + Len(Extended(u).samples) =< FrameEnd
         /\ Len(Extended(u).samples) < MaxUtterance => u.start + Len(Extended(u).samples) = FrameEnd
<1> DEFINE old == u.samples
           n == Len(old)
           k == Smaller(Frame, MaxUtterance - n)
           new == SubSeq(SamplesOf(cursor), 1, k)
           both == old \o new
<1>1. old \in Seq(Int) /\ Len(old) \in Nat /\ Len(old) =< MaxUtterance
      /\ \A i \in 1 .. Len(old) : old[i] = u.start + i - 1
  BY DEF Recording, Consecutive
<1>2. Extended(u) = [u EXCEPT !.samples = both]
  BY DEF Extended
<1>3. /\ n \in Nat /\ n =< MaxUtterance /\ u.start + n = cursor
      /\ k \in Nat /\ k =< Frame /\ n + k =< MaxUtterance
      /\ k < Frame => n + k = MaxUtterance
  <2>1. n \in Nat /\ n =< MaxUtterance /\ u.start + n = cursor
    BY <1>1
  <2> HIDE DEF n
  <2> QED
    BY <2>1, Sizes DEF Smaller
<1>4. /\ SamplesOf(cursor) \in Seq(Int) /\ Len(SamplesOf(cursor)) = Frame
      /\ \A i \in 1 .. Frame : SamplesOf(cursor)[i] = cursor + i - 1
  BY FrameSamples
<1> HIDE DEF k, old
<1>5. /\ new \in Seq(Int) /\ Len(new) = k
      /\ \A i \in 1 .. k : new[i] = cursor + i - 1
  <2> DEFINE frame == SamplesOf(cursor)
  <2>1. 0 \in Nat /\ 0 + 1 = 1 /\ k - 0 = k /\ \A i \in 1 .. k : 0 + i = i /\ i \in 1 .. Frame
    BY <1>3, Sizes
  <2> HIDE DEF frame
  <2>2. /\ SubSeq(frame, 0 + 1, k) \in Seq(Int) /\ Len(SubSeq(frame, 0 + 1, k)) = k - 0
        /\ \A i \in 1 .. k - 0 : SubSeq(frame, 0 + 1, k)[i] = frame[0 + i]
    BY <1>3, <1>4, <2>1, SubSeqFacts DEF frame
  <2>3. new = SubSeq(frame, 0 + 1, k)
    BY <2>1 DEF frame
  <2> HIDE DEF new
  <2> QED
    BY <1>4, <2>1, <2>2, <2>3 DEF frame
<1> HIDE DEF new
<1>6. /\ both \in Seq(Int) /\ Len(both) = n + k
      /\ \A i \in 1 .. n : both[i] = old[i]
      /\ \A i \in 1 .. k : both[n + i] = new[i]
  BY <1>1, <1>5, ConcatFacts
<1> HIDE DEF both, n
<1>7. ASSUME NEW i \in 1 .. n + k PROVE both[i] = u.start + i - 1
  <2>1. CASE i =< n
    BY <1>1, <1>3, <1>6, <2>1 DEF n
  <2>2. CASE ~(i =< n)
    <3> DEFINE j == i - n
    <3>1. j \in 1 .. k /\ n + j = i /\ cursor + j - 1 = u.start + i - 1
      BY <1>3, <2>2, SMTT(30)
    <3>2. both[n + j] = new[j] /\ new[j] = cursor + j - 1
      BY <1>5, <1>6, <3>1
    <3> QED
      BY <3>1, <3>2
  <2> QED
    BY <1>3, <2>1, <2>2
<1>8. /\ Extended(u) \in Recording /\ Extended(u).start = u.start
      /\ Extended(u).end = u.end /\ Extended(u).silence = u.silence /\ Extended(u).samples = both
  BY <1>2, <1>6 DEF Recording
<1>9. Consecutive(Extended(u))
  BY <1>3, <1>6, <1>7, <1>8 DEF Consecutive
<1>10. /\ u.start + (n + k) =< FrameEnd
       /\ n + k < MaxUtterance => u.start + (n + k) = FrameEnd
  BY <1>3, Sizes DEF FrameEnd
<1> QED
  BY <1>6, <1>8, <1>9, <1>10

LEMMA UtteranceFacts ==
  ASSUME NEW u \in Recording, Consecutive(u), u.start \in Nat, NEW end \in Int
  PROVE  /\ Utterance(u, end) \in Recording /\ Utterance(u, end).start = u.start
         /\ Utterance(u, end).end = u.start + Len(Utterance(u, end).samples)
         /\ Consecutive(Utterance(u, end))
         /\ end >= u.start + Len(u.samples) => Len(Utterance(u, end).samples) = Len(u.samples)
<1> DEFINE s == u.samples
           length == Smaller(Larger(end, u.start) - u.start, Len(s))
           t == SubSeq(s, 1, length)
<1>1. s \in Seq(Int) /\ Len(s) \in Nat /\ Len(s) =< MaxUtterance
      /\ \A i \in 1 .. Len(s) : s[i] = u.start + i - 1
  BY DEF Recording, Consecutive
<1>2. Utterance(u, end) = [u EXCEPT !.samples = t, !.end = u.start + length]
  BY DEF Utterance
<1>3. /\ length \in Nat /\ length =< Len(s)
      /\ end >= u.start + Len(s) => length = Len(s)
  BY <1>1 DEF Smaller, Larger
<1> HIDE DEF length, s
<1>4. t \in Seq(Int) /\ Len(t) = length /\ \A i \in 1 .. length : t[i] = s[i]
  <2>1. 0 \in Nat /\ 0 + 1 = 1 /\ length - 0 = length /\ \A i \in 1 .. length : 0 + i = i
    BY <1>3
  <2>2. /\ SubSeq(s, 0 + 1, length) \in Seq(Int) /\ Len(SubSeq(s, 0 + 1, length)) = length - 0
        /\ \A i \in 1 .. length - 0 : SubSeq(s, 0 + 1, length)[i] = s[0 + i]
    BY <1>1, <1>3, <2>1, SubSeqFacts
  <2>3. t = SubSeq(s, 0 + 1, length)
    BY <2>1
  <2> HIDE DEF t
  <2> QED
    BY <2>1, <2>2, <2>3
<1> HIDE DEF t
<1>5. /\ Utterance(u, end) \in Recording /\ Utterance(u, end).start = u.start
      /\ Utterance(u, end).end = u.start + length /\ Utterance(u, end).samples = t
  <2>1. u.start + length \in Int
    BY <1>3
  <2> QED
    BY <1>2, <1>4, <2>1 DEF Recording
<1>6. Consecutive(Utterance(u, end))
  <2>1. \A i \in 1 .. length : t[i] = u.start + i - 1
    <3>1. ASSUME NEW i \in 1 .. length PROVE t[i] = u.start + i - 1
      <4>1. i \in 1 .. Len(s)
        BY <1>1, <1>3
      <4> QED
        BY <1>1, <1>4, <4>1
    <3> QED
      BY <3>1
  <2>2. length =< MaxUtterance
    BY <1>1, <1>3, Sizes
  <2> QED
    BY <1>4, <1>5, <2>1, <2>2 DEF Consecutive
<1> QED
  BY <1>3, <1>4, <1>5, <1>6 DEF s

-----------------------------------------------------------------------------
LEMMA EmptyIdle ==
  ASSUME BufferTypes', engine' = engine, idle' = <<>>
  PROVE  IdleExact'
<1>1. Retained' = Retained /\ Retained \in Nat
  BY RetainedFits DEF Retained
<1>2. Unused' =< cursor' /\ cursor' \in Nat /\ Unused' \in Nat
  BY DEF BufferTypes, Unused
<1>3. Frame * 0 = 0
  BY Sizes
<1>4. idle' \in Seq(Int) /\ Len(idle') = 0
  OBVIOUS
<1> QED
  BY <1>1, <1>2, <1>3, <1>4 DEF IdleExact

\* What is handed out is exact, and leaves nothing behind.
LEMMA EmitKeeps ==
  ASSUME BufferInv, NEW u \in Recording, u.start >= taken', Consecutive(u), Emit(u),
         u.end = u.start + Len(u.samples) \/ (engine = "whisper" /\ Len(u.samples) = MaxUtterance),
         speaking' => Len(u.samples) = MaxUtterance,
         speaking' \in BOOLEAN, engine' = engine, idle' = <<>>,
         taken' \in Nat, cursor' \in Nat, taken' =< cursor'
  PROVE  BufferInv'
<1>1. utterance' = NoUtterance /\ out' = u
  BY DEF Emit
<1>2. NoUtterance \in Recording
  BY DEF NoUtterance, Recording
<1>3. BufferTypes'
  BY <1>1, <1>2 DEF BufferInv, BufferTypes
<1>4. IdleExact'
  BY <1>3, EmptyIdle
<1>5. UtteranceExact'
  <2>1. DOMAIN u.samples = 1 .. Len(u.samples)
    BY DEF Recording
  <2> QED
    BY <1>1, <2>1 DEF Consecutive, UtteranceExact
<1> QED
  BY <1>1, <1>3, <1>4, <1>5 DEF BufferInv, Underway, Emitted

\* What goes on reaches to the end of the frame.
LEMMA ContinueKeeps ==
  ASSUME BufferInv, NEW u \in Recording, u.start >= taken', taken' \in Nat, taken' =< cursor',
         Len(u.samples) =< MaxUtterance,
         \A i \in 1 .. Len(u.samples) : u.samples[i] = u.start + i - 1,
         u.start + Len(u.samples) = cursor', Continue(u),
         u.end # Never => ~speaking' /\ engine # "whisper",
         speaking' \in BOOLEAN, engine' = engine, idle' = <<>>, cursor' \in Nat
  PROVE  BufferInv'
<1>1. utterance' = u /\ out' = NoUtterance
  BY DEF Continue
<1>2. NoUtterance \in Recording
  BY DEF NoUtterance, Recording
<1>3. BufferTypes'
  BY <1>1, <1>2 DEF BufferInv, BufferTypes
<1>4. IdleExact'
  BY <1>3, EmptyIdle
<1>5. Underway'
  BY <1>1 DEF Underway, Consecutive
<1> QED
  BY <1>1, <1>3, <1>4, <1>5 DEF BufferInv, Emitted, UtteranceExact

\* While nothing is recorded the frames wait.
LEMMA WaitKeeps ==
  ASSUME BufferInv, Advance, idle' = Kept, Continue(NoUtterance), speaking' \in BOOLEAN
  PROVE  BufferInv'
<1>1. cursor \in Nat /\ taken \in Nat /\ taken =< cursor /\ IdleExact
  BY DEF BufferInv, BufferTypes
<1>2. /\ Kept \in Seq(Int) /\ Len(Kept) \in Nat /\ Len(Kept) =< Retained
      /\ \A i \in 1 .. Len(Kept) : Kept[i] = FrameEnd - Frame * (Len(Kept) - i + 1)
      /\ FrameEnd - Frame * Len(Kept) >= Unused
  BY <1>1, KeptFacts
<1>3. /\ cursor' = FrameEnd /\ taken' = Unused /\ engine' = engine
      /\ utterance' = NoUtterance /\ out' = NoUtterance
  BY DEF Advance, Continue, Unused
<1>4. Unused' = Unused /\ Retained' = Retained
  BY <1>3 DEF Unused, Retained
<1>5. FrameEnd \in Nat /\ Unused \in Nat /\ Unused =< FrameEnd /\ NoUtterance \in Recording
  BY <1>1, Sizes DEF FrameEnd, Unused, NoUtterance, Recording
<1>6. BufferTypes'
  BY <1>3, <1>5 DEF BufferInv, BufferTypes
<1>7. IdleExact'
  BY <1>2, <1>3, <1>4 DEF IdleExact
<1> QED
  BY <1>3, <1>6, <1>7 DEF BufferInv, Underway, Emitted, UtteranceExact
-----------------------------------------------------------------------------
LEMMA Recorded ==
  ASSUME BufferInv, utterance # NoUtterance
  PROVE  /\ utterance \in Recording /\ Consecutive(utterance) /\ utterance.start \in Nat
         /\ utterance.start >= taken /\ utterance.end \in Int /\ utterance.silence \in Nat
         /\ utterance.start + Len(utterance.samples) = cursor
         /\ cursor \in Nat /\ FrameEnd \in Nat /\ taken \in Nat /\ taken =< cursor /\ cursor =< FrameEnd
         /\ out = NoUtterance /\ idle = <<>> /\ engine \in Engines
         /\ utterance.end # Never => ~speaking /\ engine # "whisper"
<1>1. /\ utterance \in Recording /\ cursor \in Nat /\ taken \in Nat /\ taken =< cursor /\ engine \in Engines
      /\ Consecutive(utterance) /\ utterance.start + Len(utterance.samples) = cursor
      /\ out = NoUtterance /\ idle = <<>>
      /\ utterance.end # Never => ~speaking /\ engine # "whisper"
  BY DEF BufferInv, BufferTypes, Underway
<1>2. utterance.start >= taken /\ utterance.start \in Int /\ utterance.end \in Int /\ utterance.silence \in Nat
  BY <1>1 DEF Consecutive, Recording
<1>3. FrameEnd \in Nat /\ cursor =< FrameEnd
  BY <1>1, Sizes DEF FrameEnd
<1> QED
  BY <1>1, <1>2, <1>3

LEMMA BackwardsFacts == ASSUME cursor \in Nat, NEW back \in Nat PROVE Backwards(back) \in Nat /\ Backwards(back) =< FrameEnd
  BY Sizes DEF Backwards, FrameEnd, Larger

LEMMA PushActiveKeeps ==
  ASSUME BufferInv, NEW start \in {Never} \cup Nat, NEW end \in {Never} \cup Nat, engine # "whisper",
         PushActive(start, end), Advance,
         speaking' = (end = Never /\ (start # Never \/ (speaking /\ out = NoUtterance)))
  PROVE  BufferInv'
<1> DEFINE u == utterance
           e == EndOf(start, end, u)
           x == Extended(u)
           longer == [x EXCEPT !.end = e]
<1>0. utterance # NoUtterance
  BY DEF PushActive
<1>1. /\ u \in Recording /\ Consecutive(u) /\ u.start \in Nat /\ u.start >= taken /\ u.end \in Int
      /\ u.start + Len(u.samples) = cursor
      /\ cursor \in Nat /\ FrameEnd \in Nat /\ taken \in Nat /\ taken =< cursor /\ cursor =< FrameEnd
      /\ out = NoUtterance /\ idle = <<>> /\ (u.end # Never => ~speaking)
  BY <1>0, Recorded
<1>2. cursor' = FrameEnd /\ taken' = taken /\ engine' = engine /\ idle' = <<>> /\ speaking' \in BOOLEAN
  BY <1>1 DEF Advance, PushActive
<1>3. /\ x \in Recording /\ x.start = u.start /\ Consecutive(x)
      /\ u.start + Len(x.samples) =< FrameEnd
      /\ Len(x.samples) < MaxUtterance => u.start + Len(x.samples) = FrameEnd
  BY <1>1, ExtendedFacts
<1>4. e \in Int /\ (e # Never => ~speaking')
  <2>1. end # Never => Backwards(end) \in Int
    BY <1>1, BackwardsFacts
  <2>2. Never \in Int
    BY DEF Never
  <2>3. CASE end # Never
    BY <2>1, <2>3 DEF EndOf
  <2>4. CASE end = Never /\ start # Never
    BY <2>2, <2>4 DEF EndOf
  <2>5. CASE end = Never /\ start = Never
    BY <1>1, <2>5 DEF EndOf
  <2> QED
    BY <2>3, <2>4, <2>5
<1>5. IF Closes(longer.end) THEN Emit(Utterance(longer, longer.end + PostRoll))
      ELSE IF Len(longer.samples) >= MaxUtterance THEN Emit(Utterance(longer, FrameEnd))
      ELSE Continue(longer)
  BY Zenon DEF PushActive
<1> HIDE DEF x, e
<1>6. longer \in Recording /\ longer.start = u.start /\ longer.end = e /\ longer.samples = x.samples
  BY <1>3, <1>4 DEF Recording
<1> HIDE DEF longer
<1>7. Consecutive(longer) /\ longer.start \in Nat
  BY <1>1, <1>3, <1>6 DEF Consecutive
<1> HIDE DEF u
<1>8. Len(longer.samples) \in Nat /\ Len(longer.samples) =< MaxUtterance
  BY <1>6, <1>7 DEF Consecutive, Recording
<1>9. CASE Closes(longer.end)
  <2> DEFINE v == Utterance(longer, longer.end + PostRoll)
  <2>1. longer.end + PostRoll \in Int
    BY <1>4, <1>6, Sizes
  <2>2. v \in Recording /\ v.start = longer.start /\ v.end = longer.start + Len(v.samples) /\ Consecutive(v)
    BY <1>6, <1>7, <2>1, UtteranceFacts
  <2>3. Emit(v)
    BY <1>5, <1>9
  <2> HIDE DEF v
  <2>4. ~speaking'
    BY <1>4, <1>6, <1>9 DEF Closes
  <2> QED
    BY <1>1, <1>2, <1>6, <2>2, <2>3, <2>4, EmitKeeps
<1>10. CASE ~Closes(longer.end) /\ Len(longer.samples) >= MaxUtterance
  <2> DEFINE v == Utterance(longer, FrameEnd)
  <2>1. FrameEnd \in Int /\ FrameEnd >= longer.start + Len(longer.samples)
    BY <1>1, <1>3, <1>6, <1>8
  <2>2. /\ v \in Recording /\ v.start = longer.start /\ v.end = longer.start + Len(v.samples) /\ Consecutive(v)
        /\ Len(v.samples) = Len(longer.samples)
    BY <1>6, <1>7, <2>1, UtteranceFacts
  <2>3. Emit(v)
    BY <1>5, <1>10
  <2>4. Len(longer.samples) = MaxUtterance
    BY <1>8, <1>10, Sizes
  <2> HIDE DEF v
  <2> QED
    BY <1>1, <1>2, <1>6, <2>2, <2>3, <2>4, EmitKeeps
<1>11. CASE ~Closes(longer.end) /\ ~(Len(longer.samples) >= MaxUtterance)
  <2>1. Continue(longer)
    BY <1>5, <1>11
  <2>2. Len(x.samples) < MaxUtterance
    BY <1>6, <1>8, <1>11, Sizes
  <2>3. longer.start + Len(longer.samples) = cursor'
    BY <1>2, <1>3, <1>6, <2>2
  <2>4. longer.start >= taken' /\ taken' \in Nat /\ taken' =< cursor' /\ cursor' \in Nat
    BY <1>1, <1>2, <1>6
  <2>5. \A i \in 1 .. Len(longer.samples) : longer.samples[i] = longer.start + i - 1
    BY <1>7 DEF Consecutive
  <2> QED
    BY <1>2, <1>4, <1>6, <1>8, <2>1, <2>3, <2>4, <2>5, ContinueKeeps
<1> QED
  BY <1>9, <1>10, <1>11

LEMMA PushIdleKeeps ==
  ASSUME BufferInv, NEW start \in {Never} \cup Nat, NEW end \in {Never} \cup Nat, engine # "whisper",
         PushIdle(start, end), Advance,
         speaking' = (end = Never /\ (start # Never \/ (speaking /\ out = NoUtterance)))
  PROVE  BufferInv'
<1>1. CASE start = Never
  BY <1>1, WaitKeeps DEF PushIdle
<1>2. CASE start # Never
  <2> DEFINE first == Larger(FrameEnd - Frame * Len(Kept), Larger(Backwards(start) - PreRoll, 0))
             e == EndOf(Never, end, NoUtterance)
             x == Opened(first)
             begun == [x EXCEPT !.end = e]
  <2>1. cursor \in Nat /\ taken \in Nat /\ taken =< cursor /\ IdleExact /\ FrameEnd \in Nat /\ cursor =< FrameEnd
    BY Sizes DEF BufferInv, BufferTypes, FrameEnd
  <2>2. /\ FrameEnd - Frame * Len(Kept) >= Unused /\ Frame * Len(Kept) \in Nat /\ Unused \in Nat
        /\ FrameEnd - Frame * Len(Kept) =< FrameEnd /\ FrameEnd - Frame * Len(Kept) \in Int
    <3>1. FrameEnd - Frame * Len(Kept) >= Unused /\ Frame * Len(Kept) \in Nat /\ Unused \in Nat
      BY <2>1, KeptFacts
    <3> DEFINE whole == Frame * Len(Kept)
    <3> HIDE DEF whole
    <3>2. FrameEnd - whole =< FrameEnd /\ FrameEnd - whole \in Int
      BY <2>1, <3>1 DEF whole
    <3> QED
      BY <3>1, <3>2 DEF whole
  <2>3. first \in Int /\ FrameEnd - Frame * Len(Kept) =< first /\ first =< FrameEnd
    <3>1. Backwards(start) \in Nat /\ Backwards(start) =< FrameEnd
      BY <1>2, <2>1, BackwardsFacts
    <3> DEFINE base == FrameEnd - Frame * Len(Kept)
    <3>2. base \in Int /\ base =< FrameEnd
      BY <2>2
    <3> HIDE DEF base
    <3>3. /\ Larger(base, Larger(Backwards(start) - PreRoll, 0)) \in Int
          /\ base =< Larger(base, Larger(Backwards(start) - PreRoll, 0))
          /\ Larger(base, Larger(Backwards(start) - PreRoll, 0)) =< FrameEnd
      BY <2>1, <3>1, <3>2, Sizes DEF Larger
    <3> QED
      BY <3>3 DEF base
  <2>4. e \in Int /\ (e # Never => ~speaking')
    <3>1. end # Never => Backwards(end) \in Int
      BY <2>1, BackwardsFacts
    <3>2. NoUtterance.end = Never /\ Never \in Int
      BY DEF NoUtterance, Never
    <3> QED
      BY <3>1, <3>2 DEF EndOf
  <2>5. /\ idle' = <<>>
        /\ IF engine = "audiocpp" /\ Closes(begun.end) THEN Emit(Utterance(begun, begun.end + PostRoll))
           ELSE Continue(begun)
    BY <1>2, Zenon DEF PushIdle
  <2> HIDE DEF first, e
  <2>6. /\ x \in Recording /\ x.start = first /\ x.end = Never
        /\ first >= Unused /\ first \in Nat
        /\ Len(x.samples) = FrameEnd - first /\ FrameEnd - first =< MaxUtterance
        /\ \A i \in 1 .. Len(x.samples) : x.samples[i] = first + i - 1
    BY <2>1, <2>3, OpenedFacts
  <2> HIDE DEF x
  <2>7. begun \in Recording /\ begun.start = first /\ begun.end = e /\ begun.samples = x.samples
    BY <2>4, <2>6 DEF Recording
  <2> HIDE DEF begun
  <2>8. taken =< Unused /\ Unused =< cursor
    BY <2>1 DEF Unused
  <2>9. /\ cursor' = FrameEnd /\ taken' = Unused /\ engine' = engine /\ speaking' \in BOOLEAN
        /\ taken' \in Nat /\ taken' =< cursor' /\ cursor' \in Nat
    BY <2>1, <2>2, <2>8 DEF Advance, Unused
  <2>10. Consecutive(begun) /\ begun.start \in Nat /\ Len(begun.samples) =< MaxUtterance
    <3>1. Len(begun.samples) =< MaxUtterance /\ begun.start \in Nat
      <4>1. Len(begun.samples) = FrameEnd - first
        BY <2>6, <2>7, Zenon
      <4> QED
        BY <2>6, <2>7, <4>1
    <3>2. begun.start >= taken
      BY <2>1, <2>2, <2>6, <2>7, <2>8
    <3>3. \A i \in 1 .. Len(begun.samples) : begun.samples[i] = begun.start + i - 1
      BY <2>6, <2>7, Zenon
    <3> QED
      BY <3>1, <3>2, <3>3, Zenon DEF Consecutive
  <2>11. CASE engine = "audiocpp" /\ Closes(begun.end)
    <3> DEFINE v == Utterance(begun, begun.end + PostRoll)
    <3>1. begun.end + PostRoll \in Int
      BY <2>4, <2>7, Sizes
    <3>2. v \in Recording /\ v.start = begun.start /\ v.end = begun.start + Len(v.samples) /\ Consecutive(v)
      BY <2>7, <2>10, <3>1, UtteranceFacts
    <3>3. Emit(v)
      BY <2>5, <2>11
    <3> HIDE DEF v
    <3>4. ~speaking'
      BY <2>4, <2>7, <2>11 DEF Closes
    <3>5. v.start >= taken'
      BY <2>6, <2>7, <2>9, <3>2
    <3> QED
      BY <2>5, <2>9, <3>2, <3>3, <3>4, <3>5, EmitKeeps
  <2>12. CASE ~(engine = "audiocpp" /\ Closes(begun.end))
    <3>1. Continue(begun)
      BY <2>5, <2>12
    <3>2. begun.start + Len(begun.samples) = cursor'
      BY <2>1, <2>6, <2>7, <2>9
    <3>3. begun.start >= taken' /\ \A i \in 1 .. Len(begun.samples) : begun.samples[i] = begun.start + i - 1
      BY <2>6, <2>7, <2>9
    <3> QED
      BY <2>4, <2>5, <2>7, <2>9, <2>10, <3>1, <3>2, <3>3, ContinueKeeps
  <2> QED
    BY <2>11, <2>12
<1> QED
  BY <1>1, <1>2

LEMMA PushKeeps == ASSUME BufferInv, NEW start \in {Never} \cup Nat, NEW end \in {Never} \cup Nat, Push(start, end) PROVE BufferInv'
  BY PushActiveKeeps, PushIdleKeeps DEF Push

LEMMA HearActiveKeeps ==
  ASSUME BufferInv, NEW level \in Levels, engine = "whisper", HearActive(level), Advance,
         speaking' = (level # "silence")
  PROVE  BufferInv'
<1> DEFINE u == utterance
           x == Extended(u)
           quiet == IF level = "silence" THEN x.silence + 1 ELSE 0
           longer == [x EXCEPT !.silence = quiet]
<1>0. utterance # NoUtterance
  BY DEF HearActive
<1>1. /\ u \in Recording /\ Consecutive(u) /\ u.start \in Nat /\ u.start >= taken
      /\ u.start + Len(u.samples) = cursor /\ u.end = Never
      /\ cursor \in Nat /\ FrameEnd \in Nat /\ taken \in Nat /\ taken =< cursor /\ cursor =< FrameEnd
      /\ out = NoUtterance /\ idle = <<>>
  BY <1>0, Recorded
<1>2. /\ cursor' = FrameEnd /\ taken' = taken /\ engine' = engine /\ idle' = <<>> /\ speaking' \in BOOLEAN
      /\ taken' \in Nat /\ taken' =< cursor' /\ cursor' \in Nat
  BY <1>1 DEF Advance, HearActive
<1>3. /\ x \in Recording /\ x.start = u.start /\ Consecutive(x) /\ x.end = u.end
      /\ u.start + Len(x.samples) =< FrameEnd
      /\ Len(x.samples) < MaxUtterance => u.start + Len(x.samples) = FrameEnd
  BY <1>1, ExtendedFacts DEF Extended
<1>4. IF longer.silence >= EndSilence \/ Len(longer.samples) >= MaxUtterance
      THEN Emit([longer EXCEPT !.end = FrameEnd])
      ELSE Continue(longer)
  BY Zenon DEF HearActive
<1> HIDE DEF x
<1>5. quiet \in Nat /\ (quiet >= EndSilence => level = "silence")
  BY <1>3, Sizes DEF Recording
<1> HIDE DEF quiet
<1>6. /\ longer \in Recording /\ longer.start = u.start /\ longer.samples = x.samples
      /\ longer.end = Never /\ longer.silence = quiet
  BY <1>1, <1>3, <1>5 DEF Recording
<1> HIDE DEF longer
<1>7. Consecutive(longer) /\ longer.start \in Nat
  BY <1>1, <1>3, <1>6 DEF Consecutive
<1> HIDE DEF u
<1>8. Len(longer.samples) \in Nat /\ Len(longer.samples) =< MaxUtterance
  BY <1>6, <1>7 DEF Consecutive, Recording
<1>9. CASE longer.silence >= EndSilence \/ Len(longer.samples) >= MaxUtterance
  <2> DEFINE v == [longer EXCEPT !.end = FrameEnd]
  <2>1. v \in Recording /\ v.start = longer.start /\ v.end = FrameEnd /\ v.samples = longer.samples
    BY <1>1, <1>6 DEF Recording
  <2>2. Emit(v)
    BY <1>4, <1>9
  <2> HIDE DEF v
  <2>3. Consecutive(v)
    BY <1>7, <2>1 DEF Consecutive
  <2>4. v.end = v.start + Len(v.samples) \/ (engine = "whisper" /\ Len(v.samples) = MaxUtterance)
    BY <1>1, <1>3, <1>6, <1>8, <2>1, Sizes
  <2>5. speaking' => Len(v.samples) = MaxUtterance
    <3>1. CASE Len(longer.samples) >= MaxUtterance
      BY <1>8, <2>1, <3>1, Sizes
    <3>2. CASE longer.silence >= EndSilence
      BY <1>5, <1>6, <3>2
    <3> QED
      BY <1>9, <3>1, <3>2
  <2>6. v.start >= taken'
    BY <1>1, <1>2, <1>6, <2>1
  <2> QED
    BY <1>2, <2>1, <2>2, <2>3, <2>4, <2>5, <2>6, EmitKeeps
<1>10. CASE ~(longer.silence >= EndSilence \/ Len(longer.samples) >= MaxUtterance)
  <2>1. Continue(longer)
    BY <1>4, <1>10
  <2>2. Len(x.samples) < MaxUtterance
    BY <1>6, <1>8, <1>10, Sizes
  <2>3. longer.start + Len(longer.samples) = cursor'
    BY <1>2, <1>3, <1>6, <2>2
  <2>4. longer.start >= taken'
    BY <1>1, <1>2, <1>6
  <2>5. \A i \in 1 .. Len(longer.samples) : longer.samples[i] = longer.start + i - 1
    BY <1>7 DEF Consecutive
  <2> QED
    BY <1>2, <1>6, <1>8, <2>1, <2>3, <2>4, <2>5, ContinueKeeps
<1> QED
  BY <1>9, <1>10

LEMMA HearIdleKeeps ==
  ASSUME BufferInv, NEW level \in Levels, engine = "whisper", HearIdle(level), Advance,
         speaking' = (level # "silence")
  PROVE  BufferInv'
<1>1. CASE level # "speech"
  BY <1>1, WaitKeeps DEF HearIdle
<1>2. CASE level = "speech"
  <2> DEFINE first == FrameEnd - Frame * Len(Kept)
             u == Opened(first)
  <2>1. cursor \in Nat /\ taken \in Nat /\ taken =< cursor /\ IdleExact /\ FrameEnd \in Nat /\ cursor =< FrameEnd
    BY Sizes DEF BufferInv, BufferTypes, FrameEnd
  <2>2. first \in Int /\ first =< FrameEnd
    <3>1. Frame * Len(Kept) \in Nat
      BY <2>1, KeptFacts
    <3> DEFINE whole == Frame * Len(Kept)
    <3> HIDE DEF whole
    <3>2. FrameEnd - whole =< FrameEnd /\ FrameEnd - whole \in Int
      BY <2>1, <3>1 DEF whole
    <3> QED
      BY <3>2 DEF whole
  <2>3. FrameEnd - Frame * Len(Kept) =< first
    <3> HIDE DEF first
    <3> QED
      BY <2>2 DEF first
  <2>4. idle' = <<>> /\ Continue(u)
    BY <1>2, Zenon DEF HearIdle
  <2> HIDE DEF first
  <2>5. /\ u \in Recording /\ u.start = first /\ u.end = Never
        /\ first >= Unused /\ first \in Nat
        /\ Len(u.samples) = FrameEnd - first /\ FrameEnd - first =< MaxUtterance
        /\ \A i \in 1 .. Len(u.samples) : u.samples[i] = first + i - 1
    BY <2>1, <2>2, <2>3, OpenedFacts
  <2> HIDE DEF u
  <2>6. taken =< Unused /\ Unused =< cursor /\ Unused \in Nat
    BY <2>1 DEF Unused
  <2>7. /\ cursor' = FrameEnd /\ taken' = Unused /\ engine' = engine /\ speaking' \in BOOLEAN
        /\ taken' \in Nat /\ taken' =< cursor' /\ cursor' \in Nat
    BY <2>1, <2>6 DEF Advance, Unused
  <2>8. u.start + Len(u.samples) = cursor' /\ u.start >= taken'
    BY <2>1, <2>5, <2>7
  <2>9. \A i \in 1 .. Len(u.samples) : u.samples[i] = u.start + i - 1
    BY <2>5, Zenon
  <2>10. Len(u.samples) =< MaxUtterance
    BY <2>5, Zenon
  <2> QED
    BY <2>4, <2>5, <2>7, <2>8, <2>9, <2>10, ContinueKeeps
<1> QED
  BY <1>1, <1>2

LEMMA HearKeeps == ASSUME BufferInv, NEW level \in Levels, HearFrame(level) PROVE BufferInv'
  BY HearActiveKeeps, HearIdleKeeps DEF HearFrame

LEMMA FinishKeeps == ASSUME BufferInv, FinishStream PROVE BufferInv'
<1> DEFINE u == utterance
<1>0. utterance # NoUtterance
  BY DEF FinishStream
<1>1. /\ u \in Recording /\ Consecutive(u) /\ u.start \in Nat /\ u.start >= taken
      /\ u.start + Len(u.samples) = cursor
      /\ cursor \in Nat /\ taken \in Nat /\ taken =< cursor
      /\ out = NoUtterance /\ idle = <<>>
  BY <1>0, Recorded
<1>2. /\ cursor' = cursor /\ taken' = taken /\ engine' = engine /\ idle' = <<>> /\ ~speaking' /\ speaking' \in BOOLEAN
  BY <1>1 DEF FinishStream
<1>3. CASE engine = "whisper"
  <2> DEFINE v == [u EXCEPT !.end = cursor]
  <2>1. v \in Recording /\ v.start = u.start /\ v.end = cursor /\ v.samples = u.samples
    BY <1>1 DEF Recording
  <2>2. Emit(v)
    BY <1>3 DEF FinishStream
  <2> HIDE DEF v, u
  <2>3. Consecutive(v)
    BY <1>1, <2>1 DEF Consecutive
  <2> QED
    BY <1>1, <1>2, <2>1, <2>2, <2>3, EmitKeeps
<1>4. CASE engine # "whisper"
  <2> DEFINE v == Utterance(u, cursor)
  <2>1. v \in Recording /\ v.start = u.start /\ v.end = u.start + Len(v.samples) /\ Consecutive(v)
    BY <1>1, UtteranceFacts
  <2>2. Emit(v)
    BY <1>4 DEF FinishStream
  <2> HIDE DEF v, u
  <2> QED
    BY <1>1, <1>2, <2>1, <2>2, EmitKeeps
<1> QED
  BY <1>3, <1>4

LEMMA FreshBuffer ==
  ASSUME engine \in Engines, cursor = 0, idle = <<>>, utterance = NoUtterance, out = NoUtterance,
         taken = 0, speaking = FALSE
  PROVE  BufferInv
<1>1. BufferTypes
  <2>1. speaking \in BOOLEAN
    BY Zenon
  <2>2. NoUtterance \in Recording
    BY DEF NoUtterance, Recording
  <2> QED
    BY <2>1, <2>2 DEF BufferTypes
<1>2. Frame * 0 = 0 /\ Retained \in Nat
  BY Sizes, RetainedFits
<1>3. IdleExact
  BY <1>2 DEF IdleExact, Unused
<1> QED
  BY <1>1, <1>3 DEF BufferInv, Underway, Emitted, UtteranceExact

LEMMA StartKeeps == ASSUME BufferInv, StartStream PROVE BufferInv'
<1>1. /\ engine' = engine /\ cursor' = 0 /\ idle' = <<>> /\ utterance' = NoUtterance /\ out' = NoUtterance
      /\ taken' = 0 /\ speaking' = FALSE /\ engine \in Engines
  BY DEF StartStream, BufferInv, BufferTypes
<1>2. NoUtterance \in Recording
  BY DEF NoUtterance, Recording
<1>3. speaking' \in BOOLEAN
  BY <1>1, Zenon
<1>4. BufferTypes'
  BY <1>1, <1>2, <1>3 DEF BufferTypes
<1>5. IdleExact'
  BY <1>1, <1>4, EmptyIdle
<1> QED
  BY <1>1, <1>4, <1>5 DEF BufferInv, Underway, Emitted, UtteranceExact

LEMMA BufferStays == ASSUME BufferInv, [BufferStep]_bufferVars PROVE BufferInv'
<1>1. CASE \E start, end \in {Never} \cup 0 .. MaxBack : Push(start, end)
  <2>1. 0 .. MaxBack \subseteq Nat
    OBVIOUS
  <2> QED
    BY <1>1, <2>1, PushKeeps
<1>2. CASE \E level \in Levels : HearFrame(level)
  BY <1>2, HearKeeps
<1>3. CASE FinishStream
  BY <1>3, FinishKeeps
<1>4. CASE StartStream
  BY <1>4, StartKeeps
<1>5. CASE UNCHANGED bufferVars
  <2>1. /\ engine' = engine /\ cursor' = cursor /\ idle' = idle /\ utterance' = utterance /\ out' = out
        /\ taken' = taken /\ speaking' = speaking
    BY <1>5 DEF bufferVars
  <2> QED
    BY <2>1 DEF BufferInv, BufferTypes, IdleExact, Underway, Consecutive, Emitted, UtteranceExact, Unused, Retained
<1> QED
  BY <1>1, <1>2, <1>3, <1>4, <1>5 DEF BufferStep

\* The invariant of the buffers of the three workers: the idle frames are the last ones
\* and none of them was handed out, and what is being recorded reaches without a gap to
\* the end of the last frame.
THEOREM BufferInvariant == BufferSpec => []BufferInv
<1>1. BufferInit => BufferInv
  BY FreshBuffer DEF BufferInit
<1> QED
  BY <1>1, BufferStays, PTL DEF BufferSpec

\* Whatever the sizes of the frames, of the pre-roll and of the longest utterance, and
\* wherever the detector puts its events: an utterance holds the samples of the interval
\* it reports, none of them handed out before, and only its size ends it while there is
\* speech (ActivityBuffer::push and EndpointBuffer::push).
THEOREM UtterancesAreExact == BufferSpec => []UtteranceExact
<1>1. BufferInv => UtteranceExact
  BY DEF BufferInv
<1> QED
  BY <1>1, BufferInvariant, PTL

-----------------------------------------------------------------------------
(* Evaluation: sums over finite sets *)

\* What holds of the empty set and, with any set, of one with one element more, holds of
\* every finite set.
LEMMA SetInductive ==
  ASSUME NEW U, IsFiniteSet(U), NEW F, {} \in F,
         \A T \in SUBSET U : \A x \in U \ T : T \in F => T \cup {x} \in F
  PROVE  \A T \in SUBSET U : T \in F
<1> DEFINE N == {n \in Nat : \A T \in SUBSET U : Cardinality(T) = n => T \in F}
<1>1. \A T \in SUBSET U : IsFiniteSet(T) /\ Cardinality(T) \in Nat
  BY FS_Subset, FS_CardinalityType
<1>2. 0 \in N
  BY <1>1, FS_EmptySet
<1>3. ASSUME NEW n \in Nat, n \in N PROVE n + 1 \in N
  <2> SUFFICES ASSUME NEW T \in SUBSET U, Cardinality(T) = n + 1 PROVE T \in F
    BY <1>3
  <2>0. IsFiniteSet(T) /\ Cardinality({}) = 0
    BY <1>1, FS_EmptySet
  <2>1. T # {}
    BY <2>0
  <2>2. PICK x \in T : TRUE
    BY <2>1
  <2>r. Cardinality(T \ {x}) = Cardinality(T) - 1
    BY <2>0, FS_RemoveElement
  <2>3. Cardinality(T \ {x}) = n
    BY <2>r
  <2>4. T \ {x} \in F
    BY <1>3, <2>3
  <2>5. T = (T \ {x}) \cup {x} /\ x \in U \ (T \ {x}) /\ T \ {x} \in SUBSET U
    OBVIOUS
  <2> QED
    BY <2>4, <2>5
<1>4. \A n \in Nat : n \in N
  <2> HIDE DEF N
  <2> QED
    BY <1>2, <1>3, Inductive
<1> QED
  BY <1>1, <1>4

First(s) == CHOOSE x \in s : TRUE
Folded(g, s, h) == IF s = {} THEN 0 ELSE g[First(s)] + h[s \ {First(s)}]
IsFold(g, h) == h = [s \in SUBSET DOMAIN g |-> Folded(g, s, h)]

LEMMA SumIsFold == ASSUME NEW g PROVE SumOf(g) = (CHOOSE h : IsFold(g, h))[DOMAIN g]
  BY DEF SumOf, MapThenSumSet, MapThenFoldSet, IsFold, Folded, First

LEMMA FoldExists ==
  ASSUME NEW S, IsFiniteSet(S), NEW g \in [S -> Int]
  PROVE  \E h \in [SUBSET S -> Int] : IsFold(g, h)
<1> DEFINE N == {k \in Nat : \E h \in [SUBSET S -> Int] :
                   \A s \in SUBSET S : Cardinality(s) =< k => h[s] = Folded(g, s, h)}
<1>1. \A s \in SUBSET S : IsFiniteSet(s) /\ Cardinality(s) \in Nat /\ Cardinality(s) =< Cardinality(S)
  BY FS_Subset, FS_CardinalityType
<1>2. \A s \in SUBSET S : s # {} =>
        First(s) \in s /\ First(s) \in S /\ g[First(s)] \in Int /\ s \ {First(s)} \in SUBSET S
          /\ Cardinality(s \ {First(s)}) = Cardinality(s) - 1
  BY <1>1, FS_RemoveElement DEF First
<1>t. ASSUME NEW h \in [SUBSET S -> Int], NEW s \in SUBSET S PROVE Folded(g, s, h) \in Int
  <2>1. CASE s = {}
    BY <2>1 DEF Folded
  <2>2. CASE s # {}
    <3> DEFINE a == g[First(s)]
               b == h[s \ {First(s)}]
    <3>1. a \in Int /\ b \in Int
      BY <1>2, <2>2
    <3>2. Folded(g, s, h) = a + b
      BY <2>2 DEF Folded
    <3> HIDE DEF a, b
    <3> QED
      BY <3>1, <3>2
  <2> QED
    BY <2>1, <2>2
<1>3. 0 \in N
  <2> DEFINE h == [s \in SUBSET S |-> 0]
  <2>1. h \in [SUBSET S -> Int]
    OBVIOUS
  <2>2. ASSUME NEW s \in SUBSET S, Cardinality(s) =< 0 PROVE h[s] = Folded(g, s, h)
    <3>1. s = {}
      BY <1>1, <2>2, FS_EmptySet
    <3> QED
      BY <3>1 DEF Folded
  <2> QED
    BY <2>1, <2>2
<1>4. ASSUME NEW k \in Nat, k \in N PROVE k + 1 \in N
  <2>1. PICK h \in [SUBSET S -> Int] : \A s \in SUBSET S : Cardinality(s) =< k => h[s] = Folded(g, s, h)
    BY <1>4
  <2> DEFINE j == [s \in SUBSET S |-> IF Cardinality(s) =< k THEN h[s] ELSE Folded(g, s, h)]
  <2>2. j \in [SUBSET S -> Int]
    BY <1>t
  <2>3. ASSUME NEW s \in SUBSET S, Cardinality(s) =< k + 1 PROVE j[s] = Folded(g, s, j)
    <3>1. j[s] = Folded(g, s, h)
      BY <2>1
    <3>2. CASE s = {}
      BY <3>1, <3>2 DEF Folded
    <3>3. CASE s # {}
      <4>1. s \ {First(s)} \in SUBSET S /\ Cardinality(s \ {First(s)}) =< k
        BY <1>1, <1>2, <2>3, <3>3
      <4>2. j[s \ {First(s)}] = h[s \ {First(s)}]
        BY <4>1
      <4> QED
        BY <3>1, <3>3, <4>2 DEF Folded
    <3> QED
      BY <3>2, <3>3
  <2> HIDE DEF j
  <2> QED
    BY <2>2, <2>3
<1>5. Cardinality(S) \in N
  <2>1. \A k \in Nat : k \in N
    <3> HIDE DEF N
    <3> QED
      BY <1>3, <1>4, Inductive
  <2> QED
    BY <2>1, <1>1
<1>6. PICK h \in [SUBSET S -> Int] : \A s \in SUBSET S : h[s] = Folded(g, s, h)
  BY <1>1, <1>5
<1>7. h = [s \in SUBSET DOMAIN g |-> Folded(g, s, h)]
  BY <1>6
<1> QED
  BY <1>7 DEF IsFold

\* A sum is 0 of nothing and more by what it adds.
Adds(S, g, h) ==
  /\ h[{}] = 0
  /\ \A T \in SUBSET S : \A x \in S \ T : h[T \cup {x}] = g[x] + h[T]

LEMMA FoldAdds ==
  ASSUME NEW S, IsFiniteSet(S), NEW g \in [S -> Int], NEW h \in [SUBSET S -> Int], IsFold(g, h)
  PROVE  Adds(S, g, h)
<1> DEFINE P(T) == \A x \in S \ T : h[T \cup {x}] = g[x] + h[T]
           N == {n \in Nat : \A T \in SUBSET S : Cardinality(T) = n => P(T)}
<1>0. \A s \in SUBSET S : h[s] = Folded(g, s, h)
  BY DEF IsFold
<1>1. \A s \in SUBSET S : IsFiniteSet(s) /\ Cardinality(s) \in Nat
  BY FS_Subset, FS_CardinalityType
<1>2. \A s \in SUBSET S : s # {} => First(s) \in s /\ h[s] = g[First(s)] + h[s \ {First(s)}]
  BY <1>0 DEF Folded, First
<1>3. h[{}] = 0
  BY <1>0 DEF Folded
<1>4. 0 \in N
  <2> SUFFICES ASSUME NEW x \in S PROVE h[{} \cup {x}] = g[x] + h[{}]
    BY <1>1, FS_EmptySet
  <2>1. {x} \in SUBSET S /\ {x} # {} /\ {x} \ {x} = {} /\ {} \cup {x} = {x}
    OBVIOUS
  <2>2. First({x}) \in {x} /\ h[{x}] = g[First({x})] + h[{x} \ {First({x})}]
    BY <1>2, <2>1, Zenon
  <2>3. First({x}) = x
    BY <2>2
  <2> QED
    BY <2>1, <2>2, <2>3
<1>5. ASSUME NEW n \in Nat, n \in N PROVE n + 1 \in N
  <2> SUFFICES ASSUME NEW T \in SUBSET S, Cardinality(T) = n + 1, NEW x \in S \ T
               PROVE  h[T \cup {x}] = g[x] + h[T]
    BY <1>5
  <2> DEFINE y == First(T \cup {x})
  <2>1. y \in T \cup {x} /\ h[T \cup {x}] = g[y] + h[(T \cup {x}) \ {y}] /\ T \cup {x} \in SUBSET S
    BY <1>2
  <2> HIDE DEF y
  <2>2. CASE y = x
    <3>1. (T \cup {x}) \ {x} = T
      OBVIOUS
    <3> QED
      BY <2>1, <2>2, <3>1
  <2>3. CASE y # x
    <3> DEFINE V == T \ {y}
    <3>1. y \in T /\ V \in SUBSET S /\ (T \cup {x}) \ {y} = V \cup {x} /\ x \in S \ V /\ T = V \cup {y} /\ y \in S \ V
      BY <2>1, <2>3
    <3>2. Cardinality(V) = n
      BY <1>1, <3>1, FS_RemoveElement
    <3>3. P(V)
      BY <1>5, <3>1, <3>2
    <3> HIDE DEF V
    <3>4. h[V \cup {x}] = g[x] + h[V] /\ h[V \cup {y}] = g[y] + h[V]
      BY <3>1, <3>3
    <3>5. h[V] \in Int /\ g[x] \in Int /\ g[y] \in Int
      BY <3>1
    <3>6. h[T \cup {x}] = g[y] + h[V \cup {x}]
      BY <2>1, <3>1
    <3>7. h[T] = g[y] + h[V]
      BY <3>1, <3>4
    <3> QED
      BY <3>4, <3>5, <3>6, <3>7
  <2> QED
    BY <2>2, <2>3
<1>6. \A n \in Nat : n \in N
  <2> HIDE DEF N
  <2> QED
    BY <1>4, <1>5, Inductive
<1> QED
  BY <1>1, <1>3, <1>6 DEF Adds

SameOn(S, f, g) == \A x \in S : f[x] = g[x]

LEMMA FoldSame ==
  ASSUME NEW S, IsFiniteSet(S), NEW g \in [S -> Int], NEW h \in [SUBSET S -> Int], IsFold(g, h),
         NEW T, T \subseteq S, NEW f \in [T -> Int], SameOn(T, f, g),
         NEW k \in [SUBSET T -> Int], IsFold(f, k)
  PROVE  SameOn(SUBSET T, k, h)
<1> DEFINE F == {V \in SUBSET T : k[V] = h[V]}
<1>1. IsFiniteSet(T) /\ T \in SUBSET S
  BY FS_Subset
<1>a. Adds(S, g, h)
  BY FoldAdds, Zenon
<1>b. Adds(T, f, k)
  BY FoldAdds, <1>1, Zenon
<1>2. {} \in F
  BY <1>a, <1>b DEF Adds
<1>3. ASSUME NEW V \in SUBSET T, NEW x \in T \ V, V \in F PROVE V \cup {x} \in F
  <2>1. k[V \cup {x}] = f[x] + k[V]
    BY <1>b DEF Adds
  <2>2. h[V \cup {x}] = g[x] + h[V]
    BY <1>a DEF Adds
  <2> QED
    BY <1>3, <2>1, <2>2 DEF SameOn
<1>4. \A V \in SUBSET T : V \in F
  <2> HIDE DEF F
  <2> QED
    BY <1>1, <1>2, <1>3, SetInductive
<1> QED
  BY <1>4 DEF SameOn

\* The sum of a function over the subsets of a finite set.
Totals(S, g, h) == Adds(S, g, h) /\ \A T \in SUBSET S : SumOf([x \in T |-> g[x]]) = h[T]

LEMMA SumExists ==
  ASSUME NEW S, IsFiniteSet(S), NEW g \in [S -> Int]
  PROVE  \E h \in [SUBSET S -> Int] : Totals(S, g, h)
<1>1. PICK h \in [SUBSET S -> Int] : IsFold(g, h)
  BY FoldExists, Zenon
<1>2. ASSUME NEW T \in SUBSET S PROVE SumOf([x \in T |-> g[x]]) = h[T]
  <2> DEFINE f == [x \in T |-> g[x]]
  <2>1. f \in [T -> Int] /\ DOMAIN f = T /\ \A x \in T : f[x] = g[x]
    OBVIOUS
  <2>2. IsFiniteSet(T)
    BY FS_Subset
  <2> HIDE DEF f
  <2>k. PICK k : k = CHOOSE i : IsFold(f, i)
    OBVIOUS
  <2>3. PICK j \in [SUBSET T -> Int] : IsFold(f, j)
    BY <2>1, <2>2, FoldExists, Zenon
  <2>4. IsFold(f, k)
    BY <2>3, <2>k, Zenon
  <2>5. k = [s \in SUBSET T |-> Folded(f, s, k)]
    BY <2>1, <2>4 DEF IsFold
  <2>6. k \in [SUBSET T -> Int]
    <3> DEFINE F == {s \in SUBSET T : k[s] = j[s]}
    <3>0. \A s \in SUBSET T : k[s] = Folded(f, s, k) /\ j[s] = Folded(f, s, j)
      BY <2>1, <2>3, <2>5 DEF IsFold
    <3>1. \A s \in SUBSET T : s \in F
      <4> DEFINE N == {n \in Nat : \A s \in SUBSET T : Cardinality(s) = n => s \in F}
      <4>1. \A s \in SUBSET T : IsFiniteSet(s) /\ Cardinality(s) \in Nat
        BY <2>2, FS_Subset, FS_CardinalityType
      <4>2. 0 \in N
        <5> SUFFICES ASSUME NEW s \in SUBSET T, Cardinality(s) = 0 PROVE s \in F
          OBVIOUS
        <5>1. s = {}
          BY <4>1, FS_EmptySet
        <5> QED
          BY <3>0, <5>1 DEF Folded
      <4>3. ASSUME NEW n \in Nat, n \in N PROVE n + 1 \in N
        <5> SUFFICES ASSUME NEW s \in SUBSET T, Cardinality(s) = n + 1 PROVE k[s] = j[s]
          BY <4>3
        <5>1. Cardinality({}) = 0
          BY FS_EmptySet
        <5>2. s # {}
          <6> SUFFICES ASSUME s = {} PROVE FALSE
            OBVIOUS
          <6>1. n + 1 = 0
            BY <5>1
          <6> QED
            BY <6>1
        <5>3. First(s) \in s
          BY <5>2 DEF First
        <5>4. IsFiniteSet(s)
          BY <4>1
        <5>5. Cardinality(s \ {First(s)}) = Cardinality(s) - 1
          BY <5>3, <5>4, FS_RemoveElement
        <5>6. k[s \ {First(s)}] = j[s \ {First(s)}]
          <6>1. s \ {First(s)} \in SUBSET T /\ Cardinality(s \ {First(s)}) = n
            BY <5>5
          <6> QED
            BY <4>3, <6>1
        <5> QED
          BY <3>0, <5>2, <5>6 DEF Folded
      <4>4. \A n \in Nat : n \in N
        <5> HIDE DEF N
        <5> QED
          BY <4>2, <4>3, Inductive
      <4> QED
        BY <4>1, <4>4
    <3> QED
      BY <2>5, <3>1
  <2>s. T \subseteq S
    OBVIOUS
  <2>7. \A V \in SUBSET T : k[V] = h[V]
    <3>1. f \in [T -> Int] /\ SameOn(T, f, g)
      BY <2>1 DEF SameOn
    <3>2. SameOn(SUBSET T, k, h)
      BY <2>s, <1>1, <3>1, <2>4, <2>6, FoldSame, Zenon
    <3> QED
      BY <3>2 DEF SameOn
  <2>8. SumOf(f) = k[T]
    BY <2>1, <2>k, SumIsFold
  <2> QED
    BY <2>7, <2>8 DEF f
<1>3. Adds(S, g, h)
  BY <1>1, FoldAdds, Zenon
<1> QED
  BY <1>1, <1>2, <1>3 DEF Totals


LEMMA SumWhole ==
  ASSUME NEW S, IsFiniteSet(S), NEW g \in [S -> Int]
  PROVE  /\ SumOf(g) \in Int
         /\ \E h \in [SUBSET S -> Int] : Adds(S, g, h) /\ h[S] = SumOf(g)
<1>1. PICK h \in [SUBSET S -> Int] : Totals(S, g, h)
  BY SumExists, Zenon
<1>2. [x \in S |-> g[x]] = g /\ S \in SUBSET S
  OBVIOUS
<1>3. SumOf(g) = h[S] /\ Adds(S, g, h)
  BY <1>1, <1>2, Zenon DEF Totals
<1> QED
  BY <1>1, <1>2, <1>3

\* The sum of the sums is that of the functions.
IsPlus(S, k, f, g) ==
  f \in [S -> Int] /\ g \in [S -> Int] /\ k \in [S -> Int] /\ \A x \in S : k[x] = f[x] + g[x]

LEMMA SumPlus ==
  ASSUME NEW S, IsFiniteSet(S), NEW f, NEW g, NEW k, IsPlus(S, k, f, g)
  PROVE  SumOf(k) = SumOf(f) + SumOf(g)
<1>0. f \in [S -> Int] /\ g \in [S -> Int] /\ k \in [S -> Int]
  BY DEF IsPlus
<1>1. PICK hf \in [SUBSET S -> Int] : Adds(S, f, hf) /\ hf[S] = SumOf(f)
  BY <1>0, SumWhole, Zenon
<1>2. PICK hg \in [SUBSET S -> Int] : Adds(S, g, hg) /\ hg[S] = SumOf(g)
  BY <1>0, SumWhole, Zenon
<1>3. PICK hk \in [SUBSET S -> Int] : Adds(S, k, hk) /\ hk[S] = SumOf(k)
  BY <1>0, SumWhole, Zenon
<1> DEFINE F == {T \in SUBSET S : hk[T] = hf[T] + hg[T]}
<1>4. {} \in F
  BY <1>1, <1>2, <1>3 DEF Adds
<1>5. ASSUME NEW T \in SUBSET S, NEW x \in S \ T, T \in F PROVE T \cup {x} \in F
  <2>1. hk[T \cup {x}] = k[x] + hk[T] /\ hf[T \cup {x}] = f[x] + hf[T] /\ hg[T \cup {x}] = g[x] + hg[T]
    BY <1>1, <1>2, <1>3 DEF Adds
  <2>2. hf[T] \in Int /\ hg[T] \in Int /\ f[x] \in Int /\ g[x] \in Int
    BY <1>0
  <2>k. k[x] = f[x] + g[x] /\ hk[T] = hf[T] + hg[T]
    BY <1>5 DEF IsPlus
  <2>s. hk[T \cup {x}] = (f[x] + g[x]) + (hf[T] + hg[T])
    BY <2>1, <2>k
  <2>t. hf[T \cup {x}] + hg[T \cup {x}] = (f[x] + hf[T]) + (g[x] + hg[T])
    BY <2>1
  <2>u. \A a, b, c, d \in Int : (a + b) + (c + d) = (a + c) + (b + d)
    OBVIOUS
  <2>3. hk[T \cup {x}] = hf[T \cup {x}] + hg[T \cup {x}]
    BY <2>2, <2>s, <2>t, <2>u
  <2> QED
    BY <2>3
<1>6. S \in F
  <2> HIDE DEF F
  <2> QED
    BY <1>4, <1>5, SetInductive
<1> QED
  BY <1>1, <1>2, <1>3, <1>6

LEMMA SumNotMore ==
  ASSUME NEW S, IsFiniteSet(S), NEW f \in [S -> Int], NEW g \in [S -> Int], \A x \in S : f[x] =< g[x]
  PROVE  SumOf(f) =< SumOf(g)
<1>1. PICK hf \in [SUBSET S -> Int] : Adds(S, f, hf) /\ hf[S] = SumOf(f)
  BY SumWhole, Zenon
<1>2. PICK hg \in [SUBSET S -> Int] : Adds(S, g, hg) /\ hg[S] = SumOf(g)
  BY SumWhole, Zenon
<1> DEFINE F == {T \in SUBSET S : hf[T] =< hg[T]}
<1>4. {} \in F
  BY <1>1, <1>2 DEF Adds
<1>5. ASSUME NEW T \in SUBSET S, NEW x \in S \ T, T \in F PROVE T \cup {x} \in F
  <2>1. hf[T \cup {x}] = f[x] + hf[T] /\ hg[T \cup {x}] = g[x] + hg[T]
    BY <1>1, <1>2 DEF Adds
  <2>2. hf[T] \in Int /\ hg[T] \in Int /\ f[x] \in Int /\ g[x] \in Int /\ f[x] =< g[x]
    OBVIOUS
  <2>3. hf[T \cup {x}] =< hg[T \cup {x}]
    BY <1>5, <2>1, <2>2
  <2> QED
    BY <2>3
<1>6. S \in F
  <2> HIDE DEF F
  <2> QED
    BY <1>4, <1>5, SetInductive
<1> QED
  BY <1>1, <1>2, <1>6

\* Rows first or columns first.
LEMMA SumSwap ==
  ASSUME NEW S, IsFiniteSet(S), NEW U, IsFiniteSet(U), NEW g \in [S -> [U -> Int]]
  PROVE  SumOf([x \in S |-> SumOf(g[x])]) = SumOf([y \in U |-> SumOf([x \in S |-> g[x][y]])])
<1> DEFINE row == [x \in S |-> SumOf(g[x])]
           col(y) == [x \in S |-> g[x][y]]
           sum == [y \in U |-> CHOOSE h \in [SUBSET S -> Int] : Adds(S, col(y), h) /\ h[S] = SumOf(col(y))]
           over(T) == [y \in U |-> sum[y][T]]
<1>1. row \in [S -> Int]
  BY SumWhole
<1>2. ASSUME NEW y \in U PROVE sum[y] \in [SUBSET S -> Int] /\ Adds(S, col(y), sum[y]) /\ sum[y][S] = SumOf(col(y))
  <2>1. col(y) \in [S -> Int]
    OBVIOUS
  <2> HIDE DEF col
  <2>2. \E h \in [SUBSET S -> Int] : Adds(S, col(y), h) /\ h[S] = SumOf(col(y))
    BY <2>1, SumWhole, Zenon
  <2> QED
    BY <2>2
<1>3. PICK h \in [SUBSET S -> Int] : Adds(S, row, h) /\ h[S] = SumOf(row)
  <2> HIDE DEF row
  <2> QED
    BY <1>1, SumWhole, Zenon
<1>4. \A x \in S : row[x] = SumOf(g[x]) /\ \A y \in U : col(y)[x] = g[x][y] /\ g[x][y] \in Int
  OBVIOUS
<1> HIDE DEF row, col, sum
<1> DEFINE F == {T \in SUBSET S : h[T] = SumOf(over(T))}
<1>t. \A T \in SUBSET S : over(T) \in [U -> Int]
  BY <1>2
<1>5. {} \in F
  <2> DEFINE z == over({})
  <2>1. z \in [U -> Int] /\ \A y \in U : z[y] = 0
    BY <1>2, <1>t DEF Adds
  <2> HIDE DEF z
  <2>2. IsPlus(U, z, z, z)
    BY <2>1 DEF IsPlus
  <2>3. SumOf(z) = SumOf(z) + SumOf(z)
    BY <2>1, <2>2, SumPlus
  <2>4. SumOf(z) \in Int
    BY <2>1, SumWhole, Zenon
  <2>u. \A n \in Int : n = n + n => n = 0
    OBVIOUS
  <2>5. SumOf(z) = 0
    BY <2>3, <2>4, <2>u, Zenon
  <2> QED
    BY <1>3, <2>5 DEF Adds, z
<1>6. ASSUME NEW T \in SUBSET S, NEW x \in S \ T, T \in F PROVE T \cup {x} \in F
  <2>1. T \cup {x} \in SUBSET S /\ x \in S
    OBVIOUS
  <2>a. PICK a \in [U -> Int] : a = over(T)
    BY <1>t, <2>1
  <2>b. PICK b \in [U -> Int] : b = over(T \cup {x})
    BY <1>t, <2>1
  <2>f. PICK f \in [U -> Int] : f = g[x]
    BY <2>1
  <2>3. ASSUME NEW y \in U PROVE b[y] = g[x][y] + a[y]
    <3>0. b[y] = sum[y][T \cup {x}] /\ a[y] = sum[y][T]
      BY <2>a, <2>b
    <3>1. Adds(S, col(y), sum[y]) /\ col(y)[x] = g[x][y]
      BY <1>2, <1>4
    <3>2. sum[y][T \cup {x}] = col(y)[x] + sum[y][T]
      BY <3>1 DEF Adds
    <3> QED
      BY <3>0, <3>1, <3>2
  <2>4. h[T] = SumOf(a)
    BY <1>6, <2>a
  <2>5. SumOf(b) = SumOf(g[x]) + SumOf(a)
    <3>1. IsPlus(U, b, f, a)
      BY <2>f, <2>3 DEF IsPlus
    <3>2. SumOf(b) = SumOf(f) + SumOf(a)
      BY <3>1, SumPlus
    <3> QED
      BY <2>f, <3>2
  <2>6. h[T \cup {x}] = row[x] + h[T]
    BY <1>3 DEF Adds
  <2>7. h[T \cup {x}] = SumOf(b)
    BY <1>4, <2>4, <2>5, <2>6
  <2> QED
    BY <2>1, <2>7, <2>b
<1>7. S \in F
  <2> HIDE DEF F
  <2> QED
    BY <1>5, <1>6, SetInductive
<1>8. over(S) = [y \in U |-> SumOf(col(y))]
  BY <1>2
<1> QED
  BY <1>3, <1>7, <1>8 DEF row, col

\* The elements of a finite set, counted by what they are given.
LEMMA SumParts ==
  ASSUME NEW W, IsFiniteSet(W), NEW X, IsFiniteSet(X), NEW k \in [X -> W]
  PROVE  SumOf([w \in W |-> Cardinality({x \in X : k[x] = w})]) = Cardinality(X)
<1> DEFINE part == [w \in W |-> Cardinality({x \in X : k[x] = w})]
           of(V) == {x \in X : k[x] \in V}
<1>1. ASSUME NEW V PROVE IsFiniteSet(of(V)) /\ Cardinality(of(V)) \in Nat
  BY FS_Subset, FS_CardinalityType
<1>2. \A w \in W : {x \in X : k[x] = w} = of({w}) /\ part[w] = Cardinality(of({w})) /\ part[w] \in Int
  <2> SUFFICES ASSUME NEW w \in W
               PROVE  {x \in X : k[x] = w} = of({w}) /\ part[w] = Cardinality(of({w})) /\ part[w] \in Int
    OBVIOUS
  <2>1. {x \in X : k[x] = w} = of({w})
    OBVIOUS
  <2>2. Cardinality(of({w})) \in Nat
    BY <1>1
  <2> QED
    BY <2>1, <2>2
<1>3. part \in [W -> Int]
  BY <1>2
<1> HIDE DEF part
<1>4. PICK h \in [SUBSET W -> Int] : Adds(W, part, h) /\ h[W] = SumOf(part)
  BY <1>3, SumWhole, Zenon
<1> DEFINE F == {V \in SUBSET W : h[V] = Cardinality(of(V))}
<1>5. {} \in F
  <2>1. of({}) = {} /\ Cardinality({}) = 0
    BY FS_EmptySet
  <2> QED
    BY <1>4, <2>1 DEF Adds
<1>6. ASSUME NEW V \in SUBSET W, NEW w \in W \ V, V \in F PROVE V \cup {w} \in F
  <2>1. of(V \cup {w}) = of(V) \cup of({w}) /\ of(V) \cap of({w}) = {}
    OBVIOUS
  <2>2. IsFiniteSet(of(V)) /\ IsFiniteSet(of({w})) /\ Cardinality(of(V)) \in Nat /\ Cardinality(of({w})) \in Nat
    BY <1>1
  <2>3. h[V \cup {w}] = part[w] + h[V] /\ part[w] = Cardinality(of({w})) /\ h[V] = Cardinality(of(V))
    BY <1>2, <1>4, <1>6 DEF Adds
  <2>4. V \cup {w} \in SUBSET W
    OBVIOUS
  <2> HIDE DEF of
  <2>5. Cardinality(of(V) \cup of({w})) = Cardinality(of(V)) + Cardinality(of({w})) - Cardinality({})
    BY <2>1, <2>2, FS_Union
  <2>6. Cardinality(of(V \cup {w})) = Cardinality(of(V)) + Cardinality(of({w}))
    <3>1. Cardinality({}) = 0
      BY FS_EmptySet
    <3> DEFINE m == Cardinality(of(V))
               n == Cardinality(of({w}))
    <3>2. Cardinality(of(V \cup {w})) = m + n - 0 /\ m \in Nat /\ n \in Nat
      BY <2>1, <2>2, <2>5, <3>1
    <3> HIDE DEF m, n
    <3>3. Cardinality(of(V \cup {w})) = m + n
      BY <3>2
    <3> QED
      BY <3>3 DEF m, n
  <2> QED
    BY <2>2, <2>3, <2>4, <2>6
<1>7. W \in F
  <2> HIDE DEF F
  <2> QED
    BY <1>5, <1>6, SetInductive
<1>8. of(W) = X
  OBVIOUS
<1> QED
  BY <1>4, <1>7, <1>8 DEF part

-----------------------------------------------------------------------------
(* Evaluation: the order of the events and the predictions of a word *)

InTurn(key, a, b) == key[a] < key[b] \/ (key[a] = key[b] /\ a < b)
InOrder(S, key, s) ==
  /\ s \in [1 .. Cardinality(S) -> S]
  /\ \A a, b \in 1 .. Cardinality(S) : a < b => InTurn(key, s[a], s[b])

LEMMA LastExists ==
  ASSUME NEW n \in Nat, NEW key \in [1 .. n -> Int]
  PROVE  \A S \in SUBSET (1 .. n) : S # {} => \E m \in S : \A x \in S : x = m \/ InTurn(key, x, m)
<1> DEFINE F == {S \in SUBSET (1 .. n) : S # {} => \E m \in S : \A x \in S : x = m \/ InTurn(key, x, m)}
<1>1. {} \in F
  OBVIOUS
<1>2. ASSUME NEW T \in SUBSET (1 .. n), NEW y \in (1 .. n) \ T, T \in F PROVE T \cup {y} \in F
  <2>1. CASE T = {}
    BY <2>1
  <2>2. CASE T # {}
    <3>1. PICK m \in T : \A x \in T : x = m \/ InTurn(key, x, m)
      BY <1>2, <2>2
    <3>2. key[m] \in Int /\ key[y] \in Int /\ m \in Int /\ y \in Int /\ m # y
      OBVIOUS
    <3>3. CASE InTurn(key, y, m)
      BY <3>1, <3>3
    <3>4. CASE ~InTurn(key, y, m)
      <4>1. InTurn(key, m, y)
        BY <3>2, <3>4 DEF InTurn
      <4>2. ASSUME NEW x \in T PROVE InTurn(key, x, y)
        <5>1. key[x] \in Int /\ x \in Int
          OBVIOUS
        <5> QED
          BY <3>1, <3>2, <4>1, <5>1 DEF InTurn
      <4> QED
        BY <4>2
    <3> QED
      BY <3>3, <3>4
  <2> QED
    BY <2>1, <2>2
<1>3. \A S \in SUBSET (1 .. n) : S \in F
  <2>1. IsFiniteSet(1 .. n)
    BY FS_Interval
  <2> HIDE DEF F
  <2> QED
    BY <1>1, <1>2, <2>1, SetInductive
<1> QED
  BY <1>3

LEMMA OrderExists ==
  ASSUME NEW n \in Nat, NEW key \in [1 .. n -> Int]
  PROVE  \A S \in SUBSET (1 .. n) : \E s : InOrder(S, key, s)
<1> DEFINE N == {k \in Nat : \A S \in SUBSET (1 .. n) : Cardinality(S) = k => \E s : InOrder(S, key, s)}
<1>0. \A S \in SUBSET (1 .. n) : IsFiniteSet(S) /\ Cardinality(S) \in Nat
  <2>1. IsFiniteSet(1 .. n)
    BY FS_Interval
  <2> QED
    BY <2>1, FS_Subset, FS_CardinalityType
<1>1. 0 \in N
  <2> SUFFICES ASSUME NEW S \in SUBSET (1 .. n), Cardinality(S) = 0 PROVE \E s : InOrder(S, key, s)
    OBVIOUS
  <2>1. InOrder(S, key, [a \in 1 .. 0 |-> 0])
    BY DEF InOrder
  <2> QED
    BY <2>1
<1>2. ASSUME NEW k \in Nat, k \in N PROVE k + 1 \in N
  <2> SUFFICES ASSUME NEW S \in SUBSET (1 .. n), Cardinality(S) = k + 1 PROVE \E s : InOrder(S, key, s)
    BY <1>2
  <2>1. Cardinality({}) = 0 /\ IsFiniteSet(S)
    BY <1>0, FS_EmptySet
  <2>2. S # {}
    <3> SUFFICES ASSUME S = {} PROVE FALSE
      OBVIOUS
    <3>1. k + 1 = 0
      BY <2>1
    <3> QED
      BY <3>1
  <2>3. PICK m \in S : \A x \in S : x = m \/ InTurn(key, x, m)
    BY <2>2, LastExists
  <2> DEFINE V == S \ {m}
  <2>4. Cardinality(V) = Cardinality(S) - 1
    BY <2>1, FS_RemoveElement
  <2>5. V \in SUBSET (1 .. n) /\ Cardinality(V) = k
    BY <2>4
  <2>6. PICK s : InOrder(V, key, s)
    BY <1>2, <2>5
  <2>7. s \in [1 .. k -> V] /\ \A a, b \in 1 .. k : a < b => InTurn(key, s[a], s[b])
    BY <2>5, <2>6 DEF InOrder
  <2> DEFINE t == [a \in 1 .. k + 1 |-> IF a = k + 1 THEN m ELSE s[a]]
  <2>8. t \in [1 .. k + 1 -> S]
    BY <2>7
  <2>9. ASSUME NEW a \in 1 .. k + 1, NEW b \in 1 .. k + 1, a < b PROVE InTurn(key, t[a], t[b])
    <3>1. a \in 1 .. k /\ t[a] = s[a] /\ s[a] \in V
      BY <2>7, <2>9
    <3>2. CASE b = k + 1
      BY <2>3, <3>1, <3>2
    <3>3. CASE b # k + 1
      <4>1. b \in 1 .. k /\ t[b] = s[b]
        BY <3>3
      <4> QED
        BY <2>7, <2>9, <3>1, <4>1
    <3> QED
      BY <3>2, <3>3
  <2> HIDE DEF t
  <2>10. InOrder(S, key, t)
    BY <2>8, <2>9 DEF InOrder
  <2> QED
    BY <2>10
<1>3. \A k \in Nat : k \in N
  <2> HIDE DEF N
  <2> QED
    BY <1>1, <1>2, Inductive
<1> QED
  BY <1>0, <1>3

\* A list of all the elements of a set, in their order.
LEMMA SortedIs ==
  ASSUME NEW n \in Nat, NEW key \in [1 .. n -> Int], NEW S \in SUBSET (1 .. n)
  PROVE  /\ InOrder(S, key, Sorted(S, key))
         /\ \A x \in S : \E a \in 1 .. Cardinality(S) : Sorted(S, key)[a] = x
<1>0. IsFiniteSet(S) /\ Cardinality(S) \in Nat
  <2>1. IsFiniteSet(1 .. n)
    BY FS_Interval
  <2> QED
    BY <2>1, FS_Subset, FS_CardinalityType
<1> DEFINE Good(s) == \A a, b \in DOMAIN s :
             a < b => key[s[a]] < key[s[b]] \/ (key[s[a]] = key[s[b]] /\ s[a] < s[b])
<1>1. ASSUME NEW s, InOrder(S, key, s) PROVE s \in SetToSeqs(S) /\ Good(s)
  <2>1. s \in [1 .. Cardinality(S) -> S] /\ DOMAIN s = 1 .. Cardinality(S)
    BY <1>1 DEF InOrder
  <2>2. ASSUME NEW a \in 1 .. Cardinality(S), NEW b \in 1 .. Cardinality(S), a # b PROVE s[a] # s[b]
    <3>1. s[a] \in 1 .. n /\ s[b] \in 1 .. n /\ key[s[a]] \in Int /\ key[s[b]] \in Int
      BY <2>1
    <3>2. (a < b \/ b < a)
      BY <2>2, <1>0
    <3>3. InTurn(key, s[a], s[b]) \/ InTurn(key, s[b], s[a])
      BY <1>1, <3>2 DEF InOrder
    <3> QED
      BY <3>1, <3>3 DEF InTurn
  <2> QED
    BY <1>1, <2>1, <2>2 DEF SetToSeqs, InOrder, InTurn
<1>2. \E s \in SetToSeqs(S) : Good(s)
  <2>1. PICK s : InOrder(S, key, s)
    BY OrderExists
  <2> QED
    BY <1>1, <2>1
<1>3. PICK s : s = Sorted(S, key)
  OBVIOUS
<1>4. s \in SetToSeqs(S) /\ Good(s)
  <2>1. Sorted(S, key) = CHOOSE t \in SetToSeqs(S) : Good(t)
    BY DEF Sorted
  <2> HIDE DEF Good
  <2>2. (CHOOSE t \in SetToSeqs(S) : Good(t)) \in SetToSeqs(S) /\ Good(CHOOSE t \in SetToSeqs(S) : Good(t))
    BY <1>2, Zenon
  <2> QED
    BY <1>3, <2>1, <2>2
<1>5. s \in [1 .. Cardinality(S) -> S] /\ \A a, b \in 1 .. Cardinality(S) : a # b => s[a] # s[b]
  BY <1>4 DEF SetToSeqs
<1>6. InOrder(S, key, s)
  BY <1>4, <1>5 DEF InOrder, InTurn
<1>7. ASSUME NEW x \in S PROVE \E a \in 1 .. Cardinality(S) : s[a] = x
  <2> DEFINE D == 1 .. Cardinality(S)
  <2>1. IsFiniteSet(D) /\ Cardinality(D) = Cardinality(S)
    <3>0. PICK m \in Nat : m = Cardinality(S)
      BY <1>0
    <3>1. IsFiniteSet(1 .. m) /\ Cardinality(1 .. m) = IF 1 > m THEN 0 ELSE m - 1 + 1
      BY FS_Interval
    <3>2. Cardinality(1 .. m) = m
      BY <3>1
    <3> QED
      BY <3>0, <3>1, <3>2
  <2>2. s \in Injection(D, S)
    BY <1>5 DEF Injection, IsInjective
  <2>3. s \in Surjection(D, S)
    BY <1>0, <2>1, <2>2, FS_Injection
  <2> QED
    BY <2>3 DEF Surjection
<1> QED
  BY <1>3, <1>6, <1>7

-----------------------------------------------------------------------------
(* Evaluation: the table *)

Entry(file, events, ends, cell, i, j) ==
  IF i = 0 \/ j = 0 THEN Empty
  ELSE BestOf(file, events[i], ends[j], cell[<<i - 1, j - 1>>], cell[<<i - 1, j>>], cell[<<i, j - 1>>])
IsTable(file, events, ends, m, n, cell) ==
  cell = [at \in (0 .. m) \X (0 .. n) |-> Entry(file, events, ends, cell, at[1], at[2])]

LEMMA TableExists ==
  ASSUME NEW file, NEW events, NEW ends, NEW m \in Nat, NEW n \in Nat
  PROVE  \E cell : IsTable(file, events, ends, m, n, cell)
<1> DEFINE E(c, i, j) == Entry(file, events, ends, c, i, j)
           N == {k \in Nat : \E c : DOMAIN c = (0 .. m) \X (0 .. n) /\ c = [p \in DOMAIN c |-> c[p]] /\
                   \A i \in 0 .. m : \A j \in 0 .. n : i + j =< k => c[<<i, j>>] = E(c, i, j)}
<1>1. 0 \in N
  <2> DEFINE c == [p \in (0 .. m) \X (0 .. n) |-> Empty]
  <2>1. DOMAIN c = (0 .. m) \X (0 .. n) /\ c = [p \in DOMAIN c |-> c[p]]
    OBVIOUS
  <2>2. \A i \in 0 .. m : \A j \in 0 .. n : i + j =< 0 => c[<<i, j>>] = E(c, i, j)
    BY DEF Entry
  <2> HIDE DEF c
  <2> QED
    BY <2>1, <2>2
<1>2. ASSUME NEW k \in Nat, k \in N PROVE k + 1 \in N
  <2>1. PICK c : DOMAIN c = (0 .. m) \X (0 .. n) /\ c = [p \in DOMAIN c |-> c[p]] /\
                   \A i \in 0 .. m : \A j \in 0 .. n : i + j =< k => c[<<i, j>>] = E(c, i, j)
    BY <1>2
  <2> DEFINE d == [p \in (0 .. m) \X (0 .. n) |-> IF p[1] + p[2] =< k THEN c[p] ELSE E(c, p[1], p[2])]
  <2>2. DOMAIN d = (0 .. m) \X (0 .. n) /\ d = [p \in DOMAIN d |-> d[p]]
    OBVIOUS
  <2>3. \A i \in 0 .. m : \A j \in 0 .. n : d[<<i, j>>] = IF i + j =< k THEN c[<<i, j>>] ELSE E(c, i, j)
    OBVIOUS
  <2> HIDE DEF d
  <2>4. ASSUME NEW i \in 0 .. m, NEW j \in 0 .. n, i + j =< k + 1 PROVE d[<<i, j>>] = E(d, i, j)
    <3>1. d[<<i, j>>] = E(c, i, j)
      BY <2>1, <2>3
    <3>2. CASE i = 0 \/ j = 0
      BY <3>1, <3>2 DEF Entry
    <3>3. CASE i # 0 /\ j # 0
      <4>1. i - 1 \in 0 .. m /\ j - 1 \in 0 .. n /\ (i - 1) + j =< k /\ i + (j - 1) =< k /\ (i - 1) + (j - 1) =< k
        BY <2>4, <3>3
      <4>2. d[<<i - 1, j - 1>>] = c[<<i - 1, j - 1>>] /\ d[<<i - 1, j>>] = c[<<i - 1, j>>] /\ d[<<i, j - 1>>] = c[<<i, j - 1>>]
        BY <2>3, <4>1
      <4> QED
        BY <3>1, <4>2 DEF Entry
    <3> QED
      BY <3>2, <3>3
  <2> QED
    BY <2>2, <2>4
<1>3. m + n \in N
  <2>1. \A k \in Nat : k \in N
    <3> HIDE DEF N
    <3> QED
      BY <1>1, <1>2, Inductive
  <2>2. m + n \in Nat
    OBVIOUS
  <2> HIDE DEF N
  <2> QED
    BY <2>1, <2>2
<1>4. PICK c : DOMAIN c = (0 .. m) \X (0 .. n) /\ c = [p \in DOMAIN c |-> c[p]] /\ \A i \in 0 .. m : \A j \in 0 .. n : c[<<i, j>>] = E(c, i, j)
  BY <1>3
<1>5. c = [p \in (0 .. m) \X (0 .. n) |-> E(c, p[1], p[2])]
  BY <1>4
<1> QED
  BY <1>5 DEF IsTable


\* What the clips of a valid manifest and what is heard in them have.
Clean(file) ==
  /\ file.expected \in Seq(Event) /\ file.predictions \in Seq(Prediction)
  /\ \A i \in DOMAIN file.expected :
       file.expected[i].start = Untimed <=> file.expected[i].end = Untimed
  /\ InTimeOrder(file.expected)

\* The events and the predictions of a word, in order.
Listed(file, word, events, ends) ==
  /\ Clean(file)
  /\ events \in Seq(DOMAIN file.expected) /\ ends \in Seq(DOMAIN file.predictions)
  /\ \A a \in DOMAIN events : file.expected[events[a]].keyword = word
  /\ \A b \in DOMAIN ends : file.predictions[ends[b]].keyword = word
  /\ \A a, b \in DOMAIN events : a < b => events[a] < events[b]
  /\ \A a, b \in DOMAIN ends : a < b =>
       ends[a] # ends[b] /\ file.predictions[ends[a]].end =< file.predictions[ends[b]].end

LEMMA FileTypes ==
  ASSUME NEW file, Clean(file)
  PROVE  /\ \A i \in DOMAIN file.expected : file.expected[i] \in Event /\ i \in Nat
         /\ \A j \in DOMAIN file.predictions : file.predictions[j] \in Prediction /\ j \in Nat
         /\ IsFiniteSet(DOMAIN file.expected) /\ IsFiniteSet(DOMAIN file.predictions)
         /\ DOMAIN file.expected = 1 .. Len(file.expected) /\ Len(file.expected) \in Nat
         /\ DOMAIN file.predictions = 1 .. Len(file.predictions) /\ Len(file.predictions) \in Nat
<1>1. file.expected \in Seq(Event) /\ file.predictions \in Seq(Prediction)
  BY DEF Clean
<1>2. /\ DOMAIN file.expected = 1 .. Len(file.expected) /\ Len(file.expected) \in Nat
      /\ DOMAIN file.predictions = 1 .. Len(file.predictions) /\ Len(file.predictions) \in Nat
  BY <1>1, LenProperties
<1>3. /\ \A i \in DOMAIN file.expected : file.expected[i] \in Event /\ i \in Nat
      /\ \A j \in DOMAIN file.predictions : file.predictions[j] \in Prediction /\ j \in Nat
  BY <1>1, <1>2, ElementOfSeq
<1>4. IsFiniteSet(DOMAIN file.expected) /\ IsFiniteSet(DOMAIN file.predictions)
  <2>1. \A k \in Nat : IsFiniteSet(1 .. k)
    BY FS_Interval
  <2> QED
    BY <1>2, <2>1
<1> QED
  BY <1>2, <1>3, <1>4

Near(file, p) == Distance(file.predictions[p[2]].end, file.expected[p[1]])
All(file) == (DOMAIN file.expected) \X (DOMAIN file.predictions)

\* How near the pairs of a clip are.
LEMMA CostIs ==
  ASSUME NEW file, Clean(file)
  PROVE  /\ IsFiniteSet(All(file))
         /\ \A p \in All(file) : Near(file, p) \in Nat
         /\ \E h \in [SUBSET All(file) -> Int] :
              /\ Adds(All(file), [p \in All(file) |-> Near(file, p)], h)
              /\ \A S \in SUBSET All(file) : Cost(file, S) = h[S]
<1>1. IsFiniteSet(All(file))
  BY FileTypes, FS_Product DEF All
<1>2. ASSUME NEW p \in All(file) PROVE Near(file, p) \in Nat
  <2>1. file.predictions[p[2]].end \in Nat /\ file.expected[p[1]].end \in Nat \cup {Untimed}
    BY <1>2, FileTypes DEF All, Event, Prediction
  <2> QED
    BY <2>1 DEF Near, Distance, Untimed
<1> DEFINE g == [p \in All(file) |-> Near(file, p)]
<1>3. g \in [All(file) -> Int]
  BY <1>2
<1>4. \A p \in All(file) : g[p] = Distance(file.predictions[p[2]].end, file.expected[p[1]])
  BY DEF Near
<1> HIDE DEF g
<1>5. PICK h \in [SUBSET All(file) -> Int] : Totals(All(file), g, h)
  BY <1>1, <1>3, SumExists, Zenon
<1>6. ASSUME NEW S \in SUBSET All(file) PROVE Cost(file, S) = h[S]
  <2>1. [p \in S |-> Distance(file.predictions[p[2]].end, file.expected[p[1]])] = [p \in S |-> g[p]]
    BY <1>4
  <2>2. Cost(file, S) = SumOf([p \in S |-> g[p]])
    BY <2>1 DEF Cost
  <2> QED
    BY <1>5, <2>2 DEF Totals
<1> QED
  BY <1>1, <1>2, <1>5, <1>6 DEF g, Totals

\* Of two pairs that cross, one has the earlier event and the later prediction: put
\* straight they are in time still, and no farther apart.
LEMMA Uncross ==
  ASSUME NEW c \in Event, NEW d \in Event, NEW q \in Nat, NEW r \in Nat, q =< r,
         c.start = Untimed <=> d.start = Untimed, c.start =< d.start, c.end =< d.end,
         c.start = Untimed <=> c.end = Untimed, d.start = Untimed <=> d.end = Untimed,
         InWindow(q, d), InWindow(r, c)
  PROVE  /\ InWindow(q, c) /\ InWindow(r, d)
         /\ Distance(q, c) + Distance(r, d) =< Distance(q, d) + Distance(r, c)
<1>1. /\ c.start \in Int /\ c.end \in Int /\ d.start \in Int /\ d.end \in Int
      /\ Early \in Nat /\ Late \in Nat
  BY EvaluationAssumption DEF Event, Untimed
<1>2. InWindow(q, c) /\ InWindow(r, d)
  BY <1>1 DEF InWindow, Untimed
<1>3. Distance(q, c) + Distance(r, d) =< Distance(q, d) + Distance(r, c)
  BY <1>1 DEF Distance, Untimed
<1> QED
  BY <1>2, <1>3


Possible(file, p) ==
  /\ p \in All(file)
  /\ file.expected[p[1]].keyword = file.predictions[p[2]].keyword
  /\ InWindow(file.predictions[p[2]].end, file.expected[p[1]])
OneToOne(S) == \A p, q \in S : p[1] = q[1] <=> p[2] = q[2]

LEMMA AlignmentsAre ==
  ASSUME NEW file, NEW S
  PROVE  S \in Alignments(file) <=> (\A p \in S : Possible(file, p)) /\ OneToOne(S)
BY DEF Alignments, Possible, OneToOne, All

UpTo(list, i) == {list[a] : a \in 1 .. i}
Within(file, events, ends, i, j) ==
  {S \in Alignments(file) : \A p \in S : p[1] \in UpTo(events, i) /\ p[2] \in UpTo(ends, j)}

\* The table of a word goes from less to more: the last event and the last prediction are
\* in none of the tables before.
LEMMA UpToIs ==
  ASSUME NEW file, NEW word, NEW events, NEW ends, Listed(file, word, events, ends),
         NEW i \in 1 .. Len(events), NEW j \in 1 .. Len(ends)
  PROVE  /\ events[i] \in DOMAIN file.expected /\ ends[j] \in DOMAIN file.predictions
         /\ UpTo(events, i) = UpTo(events, i - 1) \cup {events[i]}
         /\ UpTo(ends, j) = UpTo(ends, j - 1) \cup {ends[j]}
         /\ events[i] \notin UpTo(events, i - 1) /\ ends[j] \notin UpTo(ends, j - 1)
         /\ UpTo(events, i - 1) \subseteq DOMAIN file.expected
         /\ UpTo(ends, j - 1) \subseteq DOMAIN file.predictions
         /\ file.expected[events[i]].keyword = file.predictions[ends[j]].keyword
<1>1. /\ Clean(file)
      /\ events \in Seq(DOMAIN file.expected) /\ ends \in Seq(DOMAIN file.predictions)
  BY DEF Listed
<1>2. /\ DOMAIN events = 1 .. Len(events) /\ Len(events) \in Nat /\ \A a \in 1 .. Len(events) : events[a] \in DOMAIN file.expected
      /\ DOMAIN ends = 1 .. Len(ends) /\ Len(ends) \in Nat /\ \A a \in 1 .. Len(ends) : ends[a] \in DOMAIN file.predictions
  BY <1>1, LenProperties, ElementOfSeq
<1>3. 1 .. i = (1 .. i - 1) \cup {i} /\ 1 .. j = (1 .. j - 1) \cup {j}
  BY <1>2
<1>4. UpTo(events, i) = UpTo(events, i - 1) \cup {events[i]} /\ UpTo(ends, j) = UpTo(ends, j - 1) \cup {ends[j]}
  BY <1>3 DEF UpTo
<1>5. \A a \in 1 .. i - 1 : a \in 1 .. Len(events) /\ a < i /\ events[a] \in Int /\ events[i] \in Int
  BY <1>1, <1>2, FileTypes
<1>6. events[i] \notin UpTo(events, i - 1)
  <2>1. \A a \in 1 .. i - 1 : events[a] < events[i]
    BY <1>2, <1>5 DEF Listed
  <2> QED
    BY <1>5, <2>1 DEF UpTo
<1>7. \A b \in 1 .. j - 1 : b \in 1 .. Len(ends) /\ b < j
  BY <1>2
<1>8. ends[j] \notin UpTo(ends, j - 1)
  <2>1. \A b \in 1 .. j - 1 : ends[b] # ends[j]
    BY <1>2, <1>7 DEF Listed
  <2> QED
    BY <2>1 DEF UpTo
<1>9. UpTo(events, i - 1) \subseteq DOMAIN file.expected /\ UpTo(ends, j - 1) \subseteq DOMAIN file.predictions
  BY <1>2, <1>5, <1>7 DEF UpTo
<1>10. file.expected[events[i]].keyword = file.predictions[ends[j]].keyword
  BY <1>2 DEF Listed
<1> QED
  BY <1>2, <1>4, <1>6, <1>8, <1>9, <1>10

\* An alignment leaves out the last event, or the last prediction, or has both.
LEMMA WithinLess ==
  ASSUME NEW file, NEW word, NEW events, NEW ends, Listed(file, word, events, ends),
         NEW i \in 1 .. Len(events), NEW j \in 1 .. Len(ends)
  PROVE  /\ Within(file, events, ends, i - 1, j) \subseteq Within(file, events, ends, i, j)
         /\ Within(file, events, ends, i, j - 1) \subseteq Within(file, events, ends, i, j)
         /\ \A S \in Within(file, events, ends, i, j) :
              /\ (\A p \in S : p[1] # events[i]) => S \in Within(file, events, ends, i - 1, j)
              /\ (\A p \in S : p[2] # ends[j]) => S \in Within(file, events, ends, i, j - 1)
              /\ \A p \in S : p[1] = events[i] /\ p[2] = ends[j] =>
                   S \ {p} \in Within(file, events, ends, i - 1, j - 1)
<1>1. /\ UpTo(events, i) = UpTo(events, i - 1) \cup {events[i]}
      /\ UpTo(ends, j) = UpTo(ends, j - 1) \cup {ends[j]}
  BY UpToIs
<1>2. /\ Within(file, events, ends, i - 1, j) \subseteq Within(file, events, ends, i, j)
      /\ Within(file, events, ends, i, j - 1) \subseteq Within(file, events, ends, i, j)
  BY <1>1 DEF Within
<1>3. ASSUME NEW S \in Within(file, events, ends, i, j), \A p \in S : p[1] # events[i]
      PROVE  S \in Within(file, events, ends, i - 1, j)
  BY <1>1, <1>3 DEF Within
<1>4. ASSUME NEW S \in Within(file, events, ends, i, j), \A p \in S : p[2] # ends[j]
      PROVE  S \in Within(file, events, ends, i, j - 1)
  BY <1>1, <1>4 DEF Within
<1>5. ASSUME NEW S \in Within(file, events, ends, i, j), NEW p \in S, p[1] = events[i], p[2] = ends[j]
      PROVE  S \ {p} \in Within(file, events, ends, i - 1, j - 1)
  <2>1. OneToOne(S) /\ \A q \in S : Possible(file, q)
    BY AlignmentsAre DEF Within
  <2>2. ASSUME NEW q \in S \ {p} PROVE q[1] # events[i] /\ q[2] # ends[j]
    <3>1. q = <<q[1], q[2]>> /\ p = <<p[1], p[2]>>
      BY <2>1 DEF Possible, All
    <3>2. q[1] # p[1] /\ q[2] # p[2]
      BY <2>1, <3>1 DEF OneToOne
    <3> QED
      BY <1>5, <3>2
  <2>3. S \ {p} \in Alignments(file)
    <3>1. OneToOne(S \ {p}) /\ \A q \in S \ {p} : Possible(file, q)
      BY <2>1 DEF OneToOne
    <3> QED
      BY <3>1, AlignmentsAre
  <2> QED
    BY <1>1, <2>2, <2>3 DEF Within
<1> QED
  BY <1>2, <1>3, <1>4, <1>5

\* The last event and the last prediction can be put together, if they are in time.
LEMMA WithinPair ==
  ASSUME NEW file, NEW word, NEW events, NEW ends, Listed(file, word, events, ends),
         NEW i \in 1 .. Len(events), NEW j \in 1 .. Len(ends),
         InWindow(file.predictions[ends[j]].end, file.expected[events[i]]),
         NEW S \in Within(file, events, ends, i - 1, j - 1)
  PROVE  /\ S \cup {<<events[i], ends[j]>>} \in Within(file, events, ends, i, j)
         /\ <<events[i], ends[j]>> \in All(file) \ S
<1> DEFINE t == <<events[i], ends[j]>>
<1>1. /\ events[i] \in DOMAIN file.expected /\ ends[j] \in DOMAIN file.predictions
      /\ UpTo(events, i) = UpTo(events, i - 1) \cup {events[i]}
      /\ UpTo(ends, j) = UpTo(ends, j - 1) \cup {ends[j]}
      /\ events[i] \notin UpTo(events, i - 1) /\ ends[j] \notin UpTo(ends, j - 1)
      /\ file.expected[events[i]].keyword = file.predictions[ends[j]].keyword
  BY UpToIs
<1>2. t \in All(file) /\ t[1] = events[i] /\ t[2] = ends[j]
  BY <1>1 DEF All
<1>3. Possible(file, t)
  BY <1>1, <1>2 DEF Possible
<1> HIDE DEF t
<1>4. OneToOne(S) /\ (\A q \in S : Possible(file, q))
  BY AlignmentsAre DEF Within
<1>5. \A q \in S : q[1] \in UpTo(events, i - 1) /\ q[2] \in UpTo(ends, j - 1)
  BY DEF Within
<1>6. \A q \in S : q[1] # t[1] /\ q[2] # t[2]
  BY <1>1, <1>2, <1>5
<1>7. OneToOne(S \cup {t})
  BY <1>4, <1>6 DEF OneToOne
<1>8. S \cup {t} \in Alignments(file)
  BY <1>3, <1>4, <1>7, AlignmentsAre
<1>9. S \cup {t} \in Within(file, events, ends, i, j)
  BY <1>1, <1>2, <1>5, <1>8 DEF Within
<1> QED
  BY <1>2, <1>6, <1>9 DEF t


\* More pairs, or as many that are nearer.
Beats(a, b) ==
  \/ Cardinality(a.pairs) > Cardinality(b.pairs)
  \/ Cardinality(a.pairs) = Cardinality(b.pairs) /\ a.cost < b.cost

Entries(file) == [pairs : SUBSET All(file), cost : Int, matched : BOOLEAN]

\* What an entry is chosen from.
Choice(file, i, j, before, noEvent, noEnd, pair, time, r) ==
  /\ pair = Cell(before.pairs \cup {<<i, j>>}, before.cost + Near(file, <<i, j>>), TRUE)
  /\ time = InWindow(file.predictions[j].end, file.expected[i])
  /\ r = BestOf(file, i, j, before, noEvent, noEnd)

\* The best of an entry is one of the three, and none of them beats it.
LEMMA BestOfThree ==
  ASSUME NEW file, Clean(file), NEW i \in DOMAIN file.expected, NEW j \in DOMAIN file.predictions,
         NEW before \in Entries(file), NEW noEvent \in Entries(file), NEW noEnd \in Entries(file),
         NEW pair, NEW time, NEW r, Choice(file, i, j, before, noEvent, noEnd, pair, time, r)
  PROVE  /\ r \in Entries(file)
         /\ \/ r.pairs = noEvent.pairs /\ r.cost = noEvent.cost
            \/ r.pairs = noEnd.pairs /\ r.cost = noEnd.cost
            \/ time /\ r.pairs = pair.pairs /\ r.cost = pair.cost
         /\ ~Beats(noEvent, r) /\ ~Beats(noEnd, r) /\ (time => ~Beats(pair, r))
<1> DEFINE a == [noEnd EXCEPT !.matched = FALSE]
           b == [noEvent EXCEPT !.matched = FALSE]
           skip == IF Better(a, b) THEN a ELSE b
<1>1. \A S \in SUBSET All(file) : Cardinality(S) \in Nat
  <2>1. IsFiniteSet(All(file))
    BY CostIs
  <2> QED
    BY <2>1, FS_Subset, FS_CardinalityType
<1>2. /\ a \in Entries(file) /\ a.pairs = noEnd.pairs /\ a.cost = noEnd.cost
      /\ b \in Entries(file) /\ b.pairs = noEvent.pairs /\ b.cost = noEvent.cost
  BY DEF Entries
<1>3. pair \in Entries(file)
  <2>1. <<i, j>> \in All(file)
    BY DEF All
  <2>n. \A p \in All(file) : Near(file, p) \in Nat
    BY CostIs
  <2>2. Near(file, <<i, j>>) \in Int
    BY <2>1, <2>n
  <2> QED
    BY <2>1, <2>2 DEF Entries, Cell, Choice
<1>4. r = IF time /\ Better(pair, skip) THEN pair ELSE skip
  BY DEF BestOf, Near, Choice
<1> HIDE DEF a, b
<1>5. \A x, y \in Entries(file) : (Better(x, y) => ~Beats(y, x)) /\ (~Better(x, y) => ~Beats(x, y))
  <2> SUFFICES ASSUME NEW x \in Entries(file), NEW y \in Entries(file)
               PROVE  (Better(x, y) => ~Beats(y, x)) /\ (~Better(x, y) => ~Beats(x, y))
    OBVIOUS
  <2>1. Cardinality(x.pairs) \in Nat /\ Cardinality(y.pairs) \in Nat /\ x.cost \in Int /\ y.cost \in Int
    BY <1>1 DEF Entries
  <2> QED
    BY <2>1 DEF Better, Beats
<1>6. \A x, y, z \in Entries(file) : ~Beats(x, y) /\ ~Beats(y, z) => ~Beats(x, z)
  <2> SUFFICES ASSUME NEW x \in Entries(file), NEW y \in Entries(file), NEW z \in Entries(file),
                      ~Beats(x, y), ~Beats(y, z)
               PROVE  ~Beats(x, z)
    OBVIOUS
  <2>1. /\ Cardinality(x.pairs) \in Nat /\ Cardinality(y.pairs) \in Nat /\ Cardinality(z.pairs) \in Nat
        /\ x.cost \in Int /\ y.cost \in Int /\ z.cost \in Int
    BY <1>1 DEF Entries
  <2> QED
    BY <2>1 DEF Beats
<1>7. skip \in Entries(file) /\ ~Beats(a, skip) /\ ~Beats(b, skip)
  <2>1. ~Beats(a, a) /\ ~Beats(b, b)
    <3>1. a.cost \in Int /\ b.cost \in Int /\ Cardinality(a.pairs) \in Nat /\ Cardinality(b.pairs) \in Nat
      BY <1>1, <1>2 DEF Entries
    <3> QED
      BY <3>1 DEF Beats
  <2> QED
    BY <1>2, <1>5, <2>1
<1>8. skip \in {a, b}
  OBVIOUS
<1> HIDE DEF skip
<1>9. r \in Entries(file) /\ ~Beats(skip, r) /\ (time => ~Beats(pair, r))
  <2>1. ~Beats(pair, pair) /\ ~Beats(skip, skip)
    <3> SUFFICES ASSUME NEW z \in Entries(file) PROVE ~Beats(z, z)
      BY <1>3, <1>7
    <3>1. z.cost \in Int /\ Cardinality(z.pairs) \in Nat
      BY <1>1 DEF Entries
    <3> QED
      BY <3>1 DEF Beats
  <2> QED
    BY <1>3, <1>4, <1>5, <1>7, <2>1
<1>10. ~Beats(a, r) /\ ~Beats(b, r)
  BY <1>2, <1>6, <1>7, <1>9
<1>11. ~Beats(noEvent, r) /\ ~Beats(noEnd, r)
  BY <1>2, <1>10 DEF Beats
<1>12. \/ r.pairs = noEvent.pairs /\ r.cost = noEvent.cost
       \/ r.pairs = noEnd.pairs /\ r.cost = noEnd.cost
       \/ time /\ r.pairs = pair.pairs /\ r.cost = pair.cost
  BY <1>2, <1>4, <1>8
<1> QED
  BY <1>9, <1>11, <1>12

Scored(S, h) == Cell(S, h[S], FALSE)
Sums(file, h) ==
  h \in [SUBSET All(file) -> Int] /\ Adds(All(file), [p \in All(file) |-> Near(file, p)], h)

\* The pair of the last event and the last prediction can be put in an alignment that has
\* both otherwise, and is no worse for it.
LEMMA Straightened ==
  ASSUME NEW file, NEW word, NEW events, NEW ends, Listed(file, word, events, ends),
         NEW h, Sums(file, h), Plain(file.expected),
         NEW i \in 1 .. Len(events), NEW j \in 1 .. Len(ends),
         NEW S \in Within(file, events, ends, i, j),
         NEW u \in S, u[1] = events[i], u[2] # ends[j],
         NEW v \in S, v[2] = ends[j], v[1] # events[i]
  PROVE  \E T \in Within(file, events, ends, i, j) :
           <<events[i], ends[j]>> \in T /\ ~Beats(Scored(S, h), Scored(T, h))
<1>1. /\ Clean(file)
      /\ events \in Seq(DOMAIN file.expected) /\ ends \in Seq(DOMAIN file.predictions)
  BY DEF Listed
<1>2. /\ DOMAIN events = 1 .. Len(events) /\ Len(events) \in Nat
      /\ DOMAIN ends = 1 .. Len(ends) /\ Len(ends) \in Nat
  BY <1>1, LenProperties
<1>3. OneToOne(S) /\ \A p \in S : Possible(file, p)
  BY AlignmentsAre DEF Within
<1>4. /\ events[i] \in DOMAIN file.expected /\ ends[j] \in DOMAIN file.predictions
      /\ UpTo(events, i) = UpTo(events, i - 1) \cup {events[i]}
      /\ UpTo(ends, j) = UpTo(ends, j - 1) \cup {ends[j]}
      /\ file.expected[events[i]].keyword = file.predictions[ends[j]].keyword
  BY UpToIs
<1>5. v[1] \in UpTo(events, i - 1) /\ u[2] \in UpTo(ends, j - 1)
  BY <1>4 DEF Within
<1>6. PICK a \in 1 .. i - 1 : v[1] = events[a]
  BY <1>5 DEF UpTo
<1>7. PICK b \in 1 .. j - 1 : u[2] = ends[b]
  BY <1>5 DEF UpTo
<1>8. /\ u \in All(file) /\ v \in All(file)
      /\ u = <<events[i], u[2]>> /\ v = <<v[1], ends[j]>>
      /\ v[1] \in DOMAIN file.expected /\ u[2] \in DOMAIN file.predictions
  BY <1>3 DEF Possible, All
<1> DEFINE c == file.expected[v[1]]
           d == file.expected[events[i]]
           q == file.predictions[u[2]].end
           r == file.predictions[ends[j]].end
           x == <<v[1], u[2]>>
           y == <<events[i], ends[j]>>
           R == S \ {u, v}
           T == (R \cup {x}) \cup {y}
<1>9. c \in Event /\ d \in Event /\ q \in Nat /\ r \in Nat
  BY <1>1, <1>4, <1>8, FileTypes DEF Prediction
<1>10. q =< r
  <2>1. b \in DOMAIN ends /\ j \in DOMAIN ends /\ b < j
    BY <1>2
  <2> QED
    BY <1>7, <2>1 DEF Listed
<1>11. v[1] < events[i] /\ c.keyword = word /\ d.keyword = word /\ file.predictions[u[2]].keyword = word
  <2>1. a \in DOMAIN events /\ i \in DOMAIN events /\ a < i /\ b \in DOMAIN ends
    BY <1>2
  <2> QED
    BY <1>6, <1>7, <2>1 DEF Listed
<1>12. (c.start = Untimed <=> d.start = Untimed) /\ c.end =< d.end
  BY <1>4, <1>8, <1>11 DEF Plain
<1>13. c.start =< d.start
  <2>1. CASE c.start = Untimed
    BY <1>12, <2>1 DEF Untimed
  <2>2. CASE c.start # Untimed
    <3>1. InTimeOrder(file.expected)
      BY <1>1 DEF Clean
    <3> QED
      BY <1>4, <1>8, <1>11, <1>12, <2>2, <3>1 DEF InTimeOrder
  <2> QED
    BY <2>1, <2>2
<1>14. (c.start = Untimed <=> c.end = Untimed) /\ (d.start = Untimed <=> d.end = Untimed)
  BY <1>1, <1>4, <1>8 DEF Clean
<1>15. InWindow(q, d) /\ InWindow(r, c)
  BY <1>3, <1>8 DEF Possible
<1>16. InWindow(q, c) /\ InWindow(r, d) /\ Distance(q, c) + Distance(r, d) =< Distance(q, d) + Distance(r, c)
  <2> HIDE DEF c, d, q, r
  <2> QED
    BY <1>9, <1>10, <1>12, <1>13, <1>14, <1>15, Uncross
<1>17. Possible(file, x) /\ Possible(file, y)
  BY <1>4, <1>8, <1>11, <1>16 DEF Possible, All
<1>18. /\ Near(file, x) = Distance(q, c) /\ Near(file, y) = Distance(r, d)
       /\ Near(file, u) = Distance(q, d) /\ Near(file, v) = Distance(r, c)
  BY <1>8 DEF Near
<1>19. Near(file, x) + Near(file, y) =< Near(file, u) + Near(file, v)
  BY <1>16, <1>18
<1>20. /\ x[1] = v[1] /\ x[2] = u[2] /\ y[1] = u[1] /\ y[2] = v[2] /\ x[1] # y[1] /\ x[2] # y[2]
       /\ u # v /\ x # y
  BY <1>8
<1> HIDE DEF c, d, q, r, x, y
<1>21. \A p \in R : p[1] # v[1] /\ p[1] # u[1] /\ p[2] # v[2] /\ p[2] # u[2]
  <2> SUFFICES ASSUME NEW p \in R PROVE p[1] # v[1] /\ p[1] # u[1] /\ p[2] # v[2] /\ p[2] # u[2]
    OBVIOUS
  <2>1. p \in S /\ p = <<p[1], p[2]>> /\ p # u /\ p # v /\ u = <<u[1], u[2]>> /\ v = <<v[1], v[2]>>
    BY <1>3 DEF Possible, All
  <2> QED
    BY <1>3, <2>1 DEF OneToOne
<1>22. OneToOne(T)
  <2>1. OneToOne(R)
    BY <1>3 DEF OneToOne
  <2> HIDE DEF R
  <2>2. OneToOne(R \cup {x})
    BY <1>20, <1>21, <2>1 DEF OneToOne
  <2>3. \A p \in R \cup {x} : p[1] # y[1] /\ p[2] # y[2]
    BY <1>20, <1>21
  <2> QED
    BY <2>2, <2>3 DEF OneToOne
<1>23. \A p \in T : Possible(file, p)
  BY <1>3, <1>17
<1>24. T \in Within(file, events, ends, i, j)
  <2>1. \A p \in T : p[1] \in UpTo(events, i) /\ p[2] \in UpTo(ends, j)
    <3>1. \A p \in S : p[1] \in UpTo(events, i) /\ p[2] \in UpTo(ends, j)
      BY DEF Within
    <3> QED
      BY <1>20, <3>1
  <2>2. T \in Alignments(file)
    BY <1>22, <1>23, AlignmentsAre, Zenon
  <2> QED
    BY <2>1, <2>2 DEF Within
<1>25. /\ u \in All(file) \ R /\ v \in All(file) \ (R \cup {u}) /\ S = (R \cup {u}) \cup {v}
       /\ x \in All(file) \ R /\ y \in All(file) \ (R \cup {x})
       /\ R \in SUBSET All(file) /\ R \cup {u} \in SUBSET All(file) /\ R \cup {x} \in SUBSET All(file)
  <2>1. x \in All(file) /\ y \in All(file) /\ \A p \in S : p \in All(file)
    BY <1>3, <1>17 DEF Possible
  <2> QED
    BY <1>8, <1>20, <1>21, <2>1
<1>26. IsFiniteSet(R) /\ Cardinality(R) \in Nat
  <2>1. IsFiniteSet(All(file))
    BY <1>1, CostIs
  <2> QED
    BY <1>25, <2>1, FS_Subset, FS_CardinalityType
<1>27. Cardinality(S) = Cardinality(R) + 2 /\ Cardinality(T) = Cardinality(R) + 2
  <2> HIDE DEF R
  <2>1. IsFiniteSet(R \cup {u}) /\ Cardinality(R \cup {u}) = Cardinality(R) + 1
    BY <1>25, <1>26, FS_AddElement
  <2>2. IsFiniteSet(R \cup {x}) /\ Cardinality(R \cup {x}) = Cardinality(R) + 1
    BY <1>25, <1>26, FS_AddElement
  <2>3. Cardinality((R \cup {u}) \cup {v}) = Cardinality(R \cup {u}) + 1
    BY <1>25, <2>1, FS_AddElement
  <2>4. Cardinality((R \cup {x}) \cup {y}) = Cardinality(R \cup {x}) + 1
    BY <1>25, <2>2, FS_AddElement
  <2> QED
    BY <1>25, <1>26, <2>1, <2>2, <2>3, <2>4
<1>28. h[S] = Near(file, v) + (Near(file, u) + h[R]) /\ h[T] = Near(file, y) + (Near(file, x) + h[R])
  <2> HIDE DEF R
  <2>1. /\ \A p \in All(file) : [w \in All(file) |-> Near(file, w)][p] = Near(file, p)
        /\ \A V \in SUBSET All(file) : \A p \in All(file) \ V :
             h[V \cup {p}] = [w \in All(file) |-> Near(file, w)][p] + h[V]
    BY DEF Sums, Adds
  <2>2. \A V \in SUBSET All(file) : \A p \in All(file) \ V : h[V \cup {p}] = Near(file, p) + h[V]
    BY <2>1
  <2>3. h[R \cup {u}] = Near(file, u) + h[R] /\ h[R \cup {x}] = Near(file, x) + h[R]
    BY <1>25, <2>2
  <2>4. h[(R \cup {u}) \cup {v}] = Near(file, v) + h[R \cup {u}] /\ h[(R \cup {x}) \cup {y}] = Near(file, y) + h[R \cup {x}]
    BY <1>25, <2>2
  <2> QED
    BY <1>25, <2>3, <2>4
<1>29. h[T] =< h[S]
  <2>1. h[R] \in Int
    BY <1>25 DEF Sums
  <2>2. Near(file, u) \in Int /\ Near(file, v) \in Int /\ Near(file, x) \in Int /\ Near(file, y) \in Int
    <3>1. \A p \in All(file) : Near(file, p) \in Nat
      BY <1>1, CostIs
    <3> QED
      BY <1>25, <3>1
  <2> QED
    BY <1>19, <1>28, <2>1, <2>2
<1>30. h[T] \in Int /\ h[S] \in Int
  <2>1. S \in SUBSET All(file) /\ T \in SUBSET All(file)
    BY <1>25
  <2> QED
    BY <2>1 DEF Sums
<1>31. y \in T
  OBVIOUS
<1> HIDE DEF T
<1>32. ~Beats(Scored(S, h), Scored(T, h))
  BY <1>26, <1>27, <1>29, <1>30 DEF Beats, Scored, Cell
<1> QED
  BY <1>24, <1>31, <1>32 DEF y


\* What an entry of the table is: an alignment of the events and predictions so far, with
\* its cost, that no other beats.
EntryIs(file, events, ends, h, i, j, c) ==
  /\ c \in Entries(file) /\ c.pairs \in Within(file, events, ends, i, j) /\ c.cost = h[c.pairs]
  /\ Plain(file.expected) =>
       \A S \in Within(file, events, ends, i, j) : ~Beats(Scored(S, h), c)

LEMMA FirstEntry ==
  ASSUME NEW file, Clean(file), NEW events, NEW ends, NEW h, Sums(file, h), NEW i, NEW j, i = 0 \/ j = 0
  PROVE  EntryIs(file, events, ends, h, i, j, Empty)
<1>1. {} \in Within(file, events, ends, i, j)
  <2>1. {} \in Alignments(file)
    BY AlignmentsAre DEF OneToOne
  <2> QED
    BY <2>1 DEF Within
<1>2. Empty \in Entries(file) /\ Empty.pairs = {} /\ Empty.cost = 0 /\ h[{}] = 0
  BY DEF Empty, Cell, Entries, Sums, Adds
<1>3. ASSUME NEW S \in Within(file, events, ends, i, j) PROVE S = {}
  <2>1. 1 .. 0 = {}
    OBVIOUS
  <2> QED
    BY <2>1 DEF Within, UpTo
<1>4. ~Beats(Scored({}, h), Empty)
  <2>1. Scored({}, h) = Empty
    BY <1>2 DEF Scored, Empty
  <2> QED
    BY <1>2, <2>1, FS_EmptySet DEF Beats
<1> QED
  BY <1>1, <1>2, <1>3, <1>4 DEF EntryIs

LEMMA NextEntry ==
  ASSUME NEW file, NEW word, NEW events, NEW ends, Listed(file, word, events, ends),
         NEW h, Sums(file, h), NEW i \in 1 .. Len(events), NEW j \in 1 .. Len(ends),
         NEW before, EntryIs(file, events, ends, h, i - 1, j - 1, before),
         NEW noEvent, EntryIs(file, events, ends, h, i - 1, j, noEvent),
         NEW noEnd, EntryIs(file, events, ends, h, i, j - 1, noEnd)
  PROVE  EntryIs(file, events, ends, h, i, j, BestOf(file, events[i], ends[j], before, noEvent, noEnd))
<1> DEFINE t == <<events[i], ends[j]>>
           W == Within(file, events, ends, i, j)
<1>0. Clean(file)
  BY DEF Listed
<1>1. events[i] \in DOMAIN file.expected /\ ends[j] \in DOMAIN file.predictions
  BY UpToIs
<1>2. before \in Entries(file) /\ noEvent \in Entries(file) /\ noEnd \in Entries(file)
  BY DEF EntryIs
<1>3. PICK pair : pair = Cell(before.pairs \cup {t}, before.cost + Near(file, t), TRUE)
  OBVIOUS
<1>4. PICK time : time = InWindow(file.predictions[ends[j]].end, file.expected[events[i]])
  OBVIOUS
<1>5. PICK r : r = BestOf(file, events[i], ends[j], before, noEvent, noEnd)
  OBVIOUS
<1>c. Choice(file, events[i], ends[j], before, noEvent, noEnd, pair, time, r)
  BY <1>3, <1>4, <1>5 DEF Choice
<1>6. /\ r \in Entries(file)
      /\ \/ r.pairs = noEvent.pairs /\ r.cost = noEvent.cost
         \/ r.pairs = noEnd.pairs /\ r.cost = noEnd.cost
         \/ time /\ r.pairs = pair.pairs /\ r.cost = pair.cost
      /\ ~Beats(noEvent, r) /\ ~Beats(noEnd, r) /\ (time => ~Beats(pair, r))
  BY <1>0, <1>1, <1>2, <1>c, BestOfThree
<1>7. /\ noEvent.pairs \in W /\ noEvent.cost = h[noEvent.pairs]
      /\ noEnd.pairs \in W /\ noEnd.cost = h[noEnd.pairs]
  BY WithinLess DEF EntryIs
<1>8. before.pairs \in Within(file, events, ends, i - 1, j - 1) /\ before.cost = h[before.pairs]
  BY DEF EntryIs
<1>a. \A V \in SUBSET All(file) : \A p \in All(file) \ V : h[V \cup {p}] = Near(file, p) + h[V]
  <2>1. /\ \A p \in All(file) : [w \in All(file) |-> Near(file, w)][p] = Near(file, p)
        /\ \A V \in SUBSET All(file) : \A p \in All(file) \ V :
             h[V \cup {p}] = [w \in All(file) |-> Near(file, w)][p] + h[V]
    BY DEF Sums, Adds
  <2> QED
    BY <2>1
<1>n. \A p \in All(file) : Near(file, p) \in Nat
  BY <1>0, CostIs
<1>f. \A S \in SUBSET All(file) : IsFiniteSet(S) /\ Cardinality(S) \in Nat /\ h[S] \in Int
  <2>1. IsFiniteSet(All(file))
    BY <1>0, CostIs
  <2>2. \A S \in SUBSET All(file) : IsFiniteSet(S) /\ Cardinality(S) \in Nat
    BY <2>1, FS_Subset, FS_CardinalityType
  <2> QED
    BY <2>2 DEF Sums
<1>w. \A k, l : \A S \in Within(file, events, ends, k, l) : S \in SUBSET All(file) /\ S \in Alignments(file)
  <2> SUFFICES ASSUME NEW k, NEW l, NEW S \in Within(file, events, ends, k, l)
               PROVE  S \in SUBSET All(file) /\ S \in Alignments(file)
    OBVIOUS
  <2>1. S \in Alignments(file)
    BY DEF Within
  <2> QED
    BY <2>1, AlignmentsAre DEF Possible
<1>9. ASSUME time PROVE pair.pairs \in W /\ pair.cost = h[pair.pairs]
  <2>1. before.pairs \cup {t} \in W /\ t \in All(file) \ before.pairs
    BY <1>4, <1>8, <1>9, WithinPair, ZenonT(60)
  <2>2. h[before.pairs \cup {t}] = Near(file, t) + h[before.pairs]
    BY <1>2, <1>a, <2>1 DEF Entries
  <2>3. h[before.pairs] \in Int /\ Near(file, t) \in Int
    BY <1>2, <1>f, <1>n, <2>1 DEF Entries
  <2>4. pair.pairs = before.pairs \cup {t} /\ pair.cost = before.cost + Near(file, t)
    BY <1>3 DEF Cell
  <2> QED
    BY <1>8, <2>1, <2>2, <2>3, <2>4
<1>10. r.pairs \in W /\ r.cost = h[r.pairs]
  BY <1>6, <1>7, <1>9
<1>t. \A x, y \in Entries(file) : \A S \in SUBSET All(file) :
        ~Beats(Scored(S, h), x) /\ ~Beats(x, y) => ~Beats(Scored(S, h), y)
  <2> SUFFICES ASSUME NEW x \in Entries(file), NEW y \in Entries(file), NEW S \in SUBSET All(file),
                      ~Beats(Scored(S, h), x), ~Beats(x, y)
               PROVE  ~Beats(Scored(S, h), y)
    OBVIOUS
  <2>1. /\ Cardinality(x.pairs) \in Nat /\ Cardinality(y.pairs) \in Nat /\ x.cost \in Int /\ y.cost \in Int
        /\ Cardinality(S) \in Nat /\ h[S] \in Int
    BY <1>f DEF Entries
  <2> QED
    BY <2>1 DEF Beats, Scored, Cell
<1>p. ASSUME NEW S \in W, t \in S, Plain(file.expected) PROVE ~Beats(Scored(S, h), r)
  <2> DEFINE R == S \ {t}
  <2>1. S \in SUBSET All(file) /\ t \in All(file) /\ R \in SUBSET All(file) /\ t \in All(file) \ R /\ S = R \cup {t}
    BY <1>p, <1>w
  <2>2. R \in Within(file, events, ends, i - 1, j - 1)
    BY <1>p, WithinLess
  <2>3. ~Beats(Scored(R, h), before)
    BY <1>p, <2>2 DEF EntryIs
  <2>4. time
    <3>1. Possible(file, t)
      BY <1>p, <1>w, AlignmentsAre
    <3> QED
      BY <1>4, <3>1 DEF Possible
  <2>5. before.pairs \cup {t} \in W /\ t \in All(file) \ before.pairs
    BY <1>4, <1>8, <2>4, WithinPair, ZenonT(60)
  <2>6. pair.pairs = before.pairs \cup {t} /\ pair.cost = before.cost + Near(file, t)
    BY <1>3 DEF Cell
  <2>7. IsFiniteSet(before.pairs) /\ Cardinality(before.pairs) \in Nat /\ before.cost \in Int
    BY <1>2, <1>f DEF Entries
  <2>8. IsFiniteSet(R) /\ Cardinality(R) \in Nat /\ h[R] \in Int /\ Near(file, t) \in Int
    BY <1>f, <1>n, <2>1
  <2> HIDE DEF t, R
  <2>9. Cardinality(pair.pairs) = Cardinality(before.pairs) + 1
    BY <2>5, <2>6, <2>7, FS_AddElement
  <2>10. Cardinality(S) = Cardinality(R) + 1
    BY <2>1, <2>8, FS_AddElement
  <2>11. h[S] = Near(file, t) + h[R]
    BY <1>a, <2>1
  <2>12. ~Beats(Scored(S, h), pair)
    BY <2>3, <2>6, <2>7, <2>8, <2>9, <2>10, <2>11, SMTT(60) DEF Beats, Scored, Cell
  <2>13. pair \in Entries(file)
    <3>1. before.pairs \cup {t} \in SUBSET All(file)
      BY <1>2, <2>5 DEF Entries
    <3> QED
      BY <1>3, <2>7, <2>8, <3>1 DEF Entries, Cell, t
  <2> QED
    BY <1>6, <1>t, <2>1, <2>4, <2>12, <2>13
<1>11. ASSUME NEW S \in W, Plain(file.expected) PROVE ~Beats(Scored(S, h), r)
  <2>1. CASE \A p \in S : p[1] # events[i]
    <3>1. ~Beats(Scored(S, h), noEvent)
      BY <1>11, <2>1, WithinLess DEF EntryIs
    <3> QED
      BY <1>2, <1>6, <1>t, <1>w, <3>1
  <2>2. CASE \A p \in S : p[2] # ends[j]
    <3>1. ~Beats(Scored(S, h), noEnd)
      BY <1>11, <2>2, WithinLess DEF EntryIs
    <3> QED
      BY <1>2, <1>6, <1>t, <1>w, <3>1
  <2>3. CASE (\E p \in S : p[1] = events[i]) /\ (\E p \in S : p[2] = ends[j])
    <3>1. PICK u \in S : u[1] = events[i]
      BY <2>3
    <3>2. PICK v \in S : v[2] = ends[j]
      BY <2>3
    <3>3. OneToOne(S) /\ u \in All(file) /\ v \in All(file)
      BY <1>w, AlignmentsAre DEF Possible
    <3>4. CASE u[2] = ends[j]
      <4>1. u = t
        BY <3>1, <3>3, <3>4 DEF All
      <4> QED
        BY <1>11, <1>p, <4>1
    <3>5. CASE u[2] # ends[j]
      <4>1. v[1] # events[i]
        BY <3>1, <3>2, <3>3, <3>5 DEF OneToOne
      <4>2. PICK T \in W : t \in T /\ ~Beats(Scored(S, h), Scored(T, h))
        BY <1>11, <3>1, <3>2, <3>5, <4>1, Straightened
      <4>3. ~Beats(Scored(T, h), r)
        BY <1>11, <1>p, <4>2
      <4>4. /\ Cardinality(S) \in Nat /\ h[S] \in Int /\ Cardinality(T) \in Nat /\ h[T] \in Int
            /\ Cardinality(r.pairs) \in Nat /\ r.cost \in Int
        BY <1>6, <1>f, <1>w DEF Entries
      <4> QED
        BY <4>2, <4>3, <4>4, SMTT(60) DEF Beats, Scored, Cell
    <3> QED
      BY <3>4, <3>5
  <2> QED
    BY <2>1, <2>2, <2>3
<1> QED
  BY <1>5, <1>6, <1>10, <1>11 DEF EntryIs


LEMMA TableIs ==
  ASSUME NEW file, NEW word, NEW events, NEW ends, Listed(file, word, events, ends),
         NEW h, Sums(file, h),
         NEW m \in Nat, m = Len(events), NEW n \in Nat, n = Len(ends),
         NEW cell, IsTable(file, events, ends, m, n, cell)
  PROVE  EntryIs(file, events, ends, h, m, n, cell[<<m, n>>])
<1> DEFINE I(i, j) == EntryIs(file, events, ends, h, i, j, cell[<<i, j>>])
           N == {k \in Nat : \A i \in 0 .. m : \A j \in 0 .. n : i + j =< k => I(i, j)}
<1>0. Clean(file)
  BY DEF Listed
<1>1. ASSUME NEW i \in 0 .. m, NEW j \in 0 .. n PROVE cell[<<i, j>>] = Entry(file, events, ends, cell, i, j)
  BY DEF IsTable
<1>2. ASSUME NEW i \in 0 .. m, NEW j \in 0 .. n, i = 0 \/ j = 0 PROVE I(i, j)
  <2>1. cell[<<i, j>>] = Empty
    BY <1>1, <1>2 DEF Entry
  <2> QED
    BY <1>0, <1>2, <2>1, FirstEntry
<1>3. 0 \in N
  BY <1>2
<1>4. ASSUME NEW k \in Nat, k \in N PROVE k + 1 \in N
  <2> HIDE DEF I
  <2>0. SUFFICES ASSUME NEW i \in 0 .. m, NEW j \in 0 .. n, i + j =< k + 1 PROVE I(i, j)
    <3>1. k + 1 \in Nat
      OBVIOUS
    <3> QED
      BY <3>1, Zenon
  <2>1. CASE i = 0 \/ j = 0
    BY <1>2, <2>1
  <2>2. CASE i # 0 /\ j # 0
    <3>1. /\ i - 1 \in 0 .. m /\ j - 1 \in 0 .. n /\ (i - 1) + j =< k /\ i + (j - 1) =< k /\ (i - 1) + (j - 1) =< k
          /\ i \in 1 .. Len(events) /\ j \in 1 .. Len(ends)
      BY <2>0, <2>2
    <3>2. I(i - 1, j - 1) /\ I(i - 1, j) /\ I(i, j - 1)
      BY <1>4, <3>1
    <3>3. cell[<<i, j>>] = BestOf(file, events[i], ends[j], cell[<<i - 1, j - 1>>], cell[<<i - 1, j>>], cell[<<i, j - 1>>])
      BY <1>1, <2>2 DEF Entry
    <3> USE DEF I
    <3> QED
      BY <3>1, <3>2, <3>3, NextEntry
  <2> QED
    BY <2>1, <2>2
<1>5. m + n \in N
  <2>1. \A k \in Nat : k \in N
    <3> HIDE DEF N
    <3> QED
      BY <1>3, <1>4, Inductive
  <2>2. m + n \in Nat
    OBVIOUS
  <2> HIDE DEF N
  <2> QED
    BY <2>1, <2>2
<1> QED
  BY <1>5

LEMMA ListedIs ==
  ASSUME NEW file, Clean(file), NEW word
  PROVE  /\ Listed(file, word, EventsOf(file, word), EndsOf(file, word))
         /\ Len(EventsOf(file, word)) \in Nat /\ Len(EndsOf(file, word)) \in Nat
         /\ Named({word}, file.expected) \subseteq UpTo(EventsOf(file, word), Len(EventsOf(file, word)))
         /\ Named({word}, file.predictions) \subseteq UpTo(EndsOf(file, word), Len(EndsOf(file, word)))
<1> DEFINE A == Named({word}, file.expected)
           B == Named({word}, file.predictions)
           f == [i \in DOMAIN file.expected |-> i]
           g == [j \in DOMAIN file.predictions |-> file.predictions[j].end]
<1>1. PICK k \in Nat : k = Len(file.expected)
  BY FileTypes
<1>2. PICK l \in Nat : l = Len(file.predictions)
  BY FileTypes
<1>3. DOMAIN file.expected = 1 .. k /\ DOMAIN file.predictions = 1 .. l
  BY <1>1, <1>2, FileTypes
<1>4. f \in [1 .. k -> Int] /\ g \in [1 .. l -> Int] /\ A \in SUBSET (1 .. k) /\ B \in SUBSET (1 .. l)
  <2>1. \A j \in 1 .. l : file.predictions[j].end \in Int
    BY <1>3, FileTypes DEF Prediction
  <2> QED
    BY <1>3, <2>1 DEF Named
<1>5. /\ \A i \in A : file.expected[i].keyword = word /\ f[i] = i
      /\ \A j \in B : file.predictions[j].keyword = word /\ g[j] = file.predictions[j].end
  BY <1>3 DEF Named
<1>c. Cardinality(A) \in Nat /\ Cardinality(B) \in Nat
  <2>1. IsFiniteSet(1 .. k) /\ IsFiniteSet(1 .. l)
    BY FS_Interval
  <2> QED
    BY <1>4, <2>1, FS_Subset, FS_CardinalityType
<1> HIDE DEF A, B, f, g
<1>6. PICK s : s = Sorted(A, f)
  OBVIOUS
<1>7. PICK t : t = Sorted(B, g)
  OBVIOUS
<1>8. s = EventsOf(file, word) /\ t = EndsOf(file, word)
  BY <1>6, <1>7 DEF EventsOf, EndsOf, A, B, f, g
<1>9. InOrder(A, f, s) /\ \A x \in A : \E a \in 1 .. Cardinality(A) : s[a] = x
  BY <1>4, <1>6, SortedIs, SMTT(60)
<1>10. InOrder(B, g, t) /\ \A x \in B : \E a \in 1 .. Cardinality(B) : t[a] = x
  BY <1>4, <1>7, SortedIs, SMTT(60)
<1>11. s \in [1 .. Cardinality(A) -> A] /\ t \in [1 .. Cardinality(B) -> B]
  BY <1>9, <1>10 DEF InOrder
<1>12. /\ s \in Seq(DOMAIN file.expected) /\ t \in Seq(DOMAIN file.predictions)
       /\ Len(s) = Cardinality(A) /\ Len(t) = Cardinality(B)
       /\ DOMAIN s = 1 .. Cardinality(A) /\ DOMAIN t = 1 .. Cardinality(B)
  <2>1. s \in [1 .. Cardinality(A) -> DOMAIN file.expected] /\ t \in [1 .. Cardinality(B) -> DOMAIN file.predictions]
    BY <1>3, <1>4, <1>11
  <2>2. s \in Seq(DOMAIN file.expected) /\ t \in Seq(DOMAIN file.predictions)
    BY <1>c, <2>1, SeqDef
  <2> QED
    BY <1>c, <1>11, <2>2, LenProperties
<1>13. \A a, b \in DOMAIN s : a < b => s[a] < s[b]
  <2> SUFFICES ASSUME NEW a \in 1 .. Cardinality(A), NEW b \in 1 .. Cardinality(A), a < b PROVE s[a] < s[b]
    BY <1>12
  <2>1. InTurn(f, s[a], s[b])
    BY <1>9 DEF InOrder
  <2>2. s[a] \in A /\ s[b] \in A /\ f[s[a]] = s[a] /\ f[s[b]] = s[b]
    BY <1>5, <1>11
  <2> QED
    BY <1>4, <2>1, <2>2 DEF InTurn
<1>14. \A a, b \in DOMAIN t : a < b => t[a] # t[b] /\ file.predictions[t[a]].end =< file.predictions[t[b]].end
  <2> SUFFICES ASSUME NEW a \in 1 .. Cardinality(B), NEW b \in 1 .. Cardinality(B), a < b
               PROVE  t[a] # t[b] /\ file.predictions[t[a]].end =< file.predictions[t[b]].end
    BY <1>12
  <2>1. InTurn(g, t[a], t[b])
    BY <1>10 DEF InOrder
  <2>2. /\ t[a] \in B /\ t[b] \in B /\ g[t[a]] = file.predictions[t[a]].end /\ g[t[b]] = file.predictions[t[b]].end
        /\ t[a] \in Int /\ t[b] \in Int /\ g[t[a]] \in Int /\ g[t[b]] \in Int
    <3>1. t[a] \in B /\ t[b] \in B
      BY <1>11
    <3>2. \A x \in B : x \in Int /\ g[x] \in Int
      BY <1>4
    <3> QED
      BY <1>5, <3>1, <3>2
  <2> QED
    BY <2>1, <2>2 DEF InTurn
<1>15. Listed(file, word, s, t)
  BY <1>5, <1>11, <1>12, <1>13, <1>14 DEF Listed
<1>16. A \subseteq UpTo(s, Len(s)) /\ B \subseteq UpTo(t, Len(t))
  BY <1>9, <1>10, <1>12 DEF UpTo
<1> QED
  BY <1>8, <1>12, <1>15, <1>16, <1>c DEF A, B

Only(file, S, named) == {p \in S : file.expected[p[1]].keyword \in named}

LEMMA AlignKeywordIs ==
  ASSUME NEW file, Clean(file), NEW h, Sums(file, h), NEW word
  PROVE  /\ AlignKeyword(file, word) \in Alignments(file)
         /\ Only(file, AlignKeyword(file, word), {word}) = AlignKeyword(file, word)
         /\ Plain(file.expected) => \A S \in Alignments(file) :
              ~Beats(Scored(Only(file, S, {word}), h), Scored(AlignKeyword(file, word), h))
<1>1. PICK events : events = EventsOf(file, word)
  OBVIOUS
<1>2. PICK ends : ends = EndsOf(file, word)
  OBVIOUS
<1>3. Listed(file, word, events, ends) /\ Len(events) \in Nat /\ Len(ends) \in Nat
  BY <1>1, <1>2, ListedIs
<1>4. PICK m \in Nat : m = Len(events)
  BY <1>3
<1>5. PICK n \in Nat : n = Len(ends)
  BY <1>3
<1>6. PICK cell : cell = CHOOSE c : IsTable(file, events, ends, m, n, c)
  OBVIOUS
<1>7. IsTable(file, events, ends, m, n, cell)
  <2>1. \E c : IsTable(file, events, ends, m, n, c)
    BY TableExists
  <2> QED
    BY <1>6, <2>1
<1>8. AlignKeyword(file, word) = cell[<<m, n>>].pairs
  BY <1>1, <1>2, <1>4, <1>5, <1>6 DEF AlignKeyword, IsTable, Entry
<1>9. EntryIs(file, events, ends, h, m, n, cell[<<m, n>>])
  BY <1>3, <1>4, <1>5, <1>7, TableIs
<1>10. PICK K : K = AlignKeyword(file, word)
  OBVIOUS
<1>11. /\ K \in Within(file, events, ends, m, n)
       /\ cell[<<m, n>>] \in Entries(file) /\ cell[<<m, n>>].pairs = K /\ cell[<<m, n>>].cost = h[K]
       /\ Plain(file.expected) => \A S \in Within(file, events, ends, m, n) : ~Beats(Scored(S, h), cell[<<m, n>>])
  BY <1>8, <1>9, <1>10 DEF EntryIs
<1>12. \A S : Beats(Scored(S, h), Scored(K, h)) <=> Beats(Scored(S, h), cell[<<m, n>>])
  BY <1>11 DEF Beats, Scored, Cell
<1>13. \A p \in K : file.expected[p[1]].keyword = word
  <2>1. DOMAIN events = 1 .. Len(events)
    BY <1>3, LenProperties DEF Listed
  <2> QED
    <3> SUFFICES ASSUME NEW p \in K PROVE file.expected[p[1]].keyword = word
      OBVIOUS
    <3>1. p[1] \in UpTo(events, m)
      BY <1>11 DEF Within
    <3>2. PICK a \in 1 .. m : p[1] = events[a]
      BY <3>1 DEF UpTo
    <3>3. a \in DOMAIN events
      BY <1>4, <2>1, <3>2
    <3> QED
      BY <1>3, <3>2, <3>3 DEF Listed
<1>14. ASSUME NEW S \in Alignments(file) PROVE Only(file, S, {word}) \in Within(file, events, ends, m, n)
  <2> DEFINE T == Only(file, S, {word})
  <2>1. OneToOne(S) /\ \A p \in S : Possible(file, p)
    BY AlignmentsAre
  <2>2. OneToOne(T) /\ \A p \in T : Possible(file, p) /\ file.expected[p[1]].keyword = word
    BY <2>1 DEF Only, OneToOne
  <2> HIDE DEF T
  <2>3. T \in Alignments(file)
    BY <2>2, AlignmentsAre
  <2>4. ASSUME NEW p \in T PROVE p[1] \in UpTo(events, m) /\ p[2] \in UpTo(ends, n)
    <3>1. p[1] \in Named({word}, file.expected) /\ p[2] \in Named({word}, file.predictions)
      BY <2>2 DEF Named, Possible, All
    <3> QED
      BY <1>1, <1>2, <1>4, <1>5, <3>1, ListedIs
  <2> QED
    BY <2>3, <2>4 DEF Within, T
<1>15. K \in Alignments(file) /\ Only(file, K, {word}) = K
  BY <1>11, <1>13 DEF Within, Only
<1> QED
  BY <1>10, <1>11, <1>12, <1>14, <1>15


\* A sum over two parts is the sum of both.
IsSum(S, g, h) == IsFiniteSet(S) /\ g \in [S -> Int] /\ h \in [SUBSET S -> Int] /\ Adds(S, g, h)
Apart(S, A, B) == A \in SUBSET S /\ B \in SUBSET S /\ A \cap B = {}

LEMMA AddsUnion ==
  ASSUME NEW S, NEW g, NEW h, IsSum(S, g, h), NEW A, NEW B, Apart(S, A, B)
  PROVE  h[A \cup B] = h[A] + h[B]
<1>0. /\ A \in SUBSET S /\ B \in SUBSET S /\ A \cap B = {}
      /\ IsFiniteSet(S) /\ g \in [S -> Int] /\ h \in [SUBSET S -> Int] /\ Adds(S, g, h)
  BY DEF Apart, IsSum
<1> DEFINE F == {T \in SUBSET B : h[A \cup T] = h[A] + h[T]}
<1>1. IsFiniteSet(B)
  BY <1>0, FS_Subset
<1>2. {} \in F
  <2>1. A \cup {} = A /\ h[{}] = 0 /\ h[A] \in Int
    BY <1>0 DEF Adds
  <2> QED
    BY <2>1
<1>3. ASSUME NEW T \in SUBSET B, NEW x \in B \ T, T \in F PROVE T \cup {x} \in F
  <2>1. /\ T \in SUBSET S /\ A \cup T \in SUBSET S /\ x \in S \ T /\ x \in S \ (A \cup T)
        /\ A \cup (T \cup {x}) = (A \cup T) \cup {x}
    BY <1>0
  <2>2. h[T \cup {x}] = g[x] + h[T] /\ h[(A \cup T) \cup {x}] = g[x] + h[A \cup T]
    BY <1>0, <2>1 DEF Adds
  <2>3. h[A \cup T] = h[A] + h[T] /\ g[x] \in Int /\ h[A] \in Int /\ h[T] \in Int
    BY <1>0, <1>3, <2>1
  <2>4. h[A \cup (T \cup {x})] = h[A] + h[T \cup {x}]
    <3>1. \A a, b, c \in Int : a + (b + c) = b + (a + c)
      OBVIOUS
    <3>2. h[A \cup (T \cup {x})] = g[x] + (h[A] + h[T])
      BY <2>1, <2>2, <2>3
    <3>3. h[A] + h[T \cup {x}] = h[A] + (g[x] + h[T])
      BY <2>2
    <3> QED
      BY <2>3, <3>1, <3>2, <3>3
  <2> QED
    BY <2>4
<1>4. \A T \in SUBSET B : T \in F
  <2> HIDE DEF F
  <2> QED
    BY <1>1, <1>2, <1>3, SetInductive
<1> QED
  BY <1>4

\* The words are aligned apart: an alignment of all of them is as good as those of each.
LEMMA AlignEventsIs ==
  ASSUME NEW file, Clean(file), NEW h, Sums(file, h)
  PROVE  /\ AlignEvents(file) \in Alignments(file)
         /\ Plain(file.expected) => \A S \in Alignments(file) :
              ~Beats(Scored(S, h), Scored(AlignEvents(file), h))
<1> DEFINE M == AlignEvents(file)
           K(w) == AlignKeyword(file, w)
           W == WordsOf(file)
<1>1. \A w : /\ K(w) \in Alignments(file) /\ Only(file, K(w), {w}) = K(w)
             /\ Plain(file.expected) => \A S \in Alignments(file) :
                  ~Beats(Scored(Only(file, S, {w}), h), Scored(K(w), h))
  BY AlignKeywordIs
<1>2. \A p : p \in M <=> \E w \in W : p \in K(w)
  BY DEF AlignEvents
<1> HIDE DEF K, M
<1>3. \A w : \A p \in K(w) : Possible(file, p) /\ file.expected[p[1]].keyword = w /\ file.predictions[p[2]].keyword = w
  BY <1>1, AlignmentsAre DEF Only, Possible
<1>4. M \in Alignments(file)
  <2>1. \A p \in M : Possible(file, p)
    BY <1>2, <1>3
  <2>2. ASSUME NEW p \in M, NEW q \in M PROVE p[1] = q[1] <=> p[2] = q[2]
    <3>1. PICK v \in W : p \in K(v)
      BY <1>2
    <3>2. PICK w \in W : q \in K(w)
      BY <1>2
    <3>3. CASE v = w
      <4>1. OneToOne(K(v))
        BY <1>1, AlignmentsAre
      <4> QED
        BY <3>1, <3>2, <3>3, <4>1 DEF OneToOne
    <3>4. CASE v # w
      BY <1>3, <3>1, <3>2, <3>4
    <3> QED
      BY <3>3, <3>4
  <2> QED
    BY <2>1, <2>2, AlignmentsAre DEF OneToOne
<1>5. \A w \in W : Only(file, M, {w}) = K(w)
  BY <1>2, <1>3 DEF Only
<1>6. IsFiniteSet(W)
  <2> DEFINE A == {file.expected[i].keyword : i \in DOMAIN file.expected}
             B == {file.predictions[j].keyword : j \in DOMAIN file.predictions}
  <2>1. IsFiniteSet(A)
    <3> DEFINE f == [i \in DOMAIN file.expected |-> file.expected[i].keyword]
    <3>1. f \in Surjection(DOMAIN file.expected, A)
      BY DEF Surjection
    <3> QED
      BY <3>1, FileTypes, FS_Surjection
  <2>2. IsFiniteSet(B)
    <3> DEFINE f == [j \in DOMAIN file.predictions |-> file.predictions[j].keyword]
    <3>1. f \in Surjection(DOMAIN file.predictions, B)
      BY DEF Surjection
    <3> QED
      BY <3>1, FileTypes, FS_Surjection
  <2> HIDE DEF A, B
  <2>3. IsFiniteSet(A \cup B)
    BY <2>1, <2>2, FS_Union
  <2> QED
    BY <2>3 DEF WordsOf, A, B
<1>7. ASSUME Plain(file.expected), NEW S \in Alignments(file) PROVE ~Beats(Scored(S, h), Scored(M, h))
  <2> DEFINE F == {V \in SUBSET W : ~Beats(Scored(Only(file, S, V), h), Scored(Only(file, M, V), h))}
             g == [p \in All(file) |-> Near(file, p)]
  <2>0. g \in [All(file) -> Int] /\ IsFiniteSet(All(file)) /\ h \in [SUBSET All(file) -> Int] /\ Adds(All(file), g, h)
    <3>1. IsFiniteSet(All(file)) /\ \A p \in All(file) : Near(file, p) \in Nat
      BY CostIs
    <3>2. h \in [SUBSET All(file) -> Int] /\ Adds(All(file), g, h)
      BY DEF Sums
    <3>3. g \in [All(file) -> Int]
      BY <3>1
    <3> QED
      BY <3>1, <3>2, <3>3
  <2> HIDE DEF g
  <2>1. \A A \in SUBSET All(file) : IsFiniteSet(A) /\ Cardinality(A) \in Nat /\ h[A] \in Int
    BY <2>0, FS_Subset, FS_CardinalityType
  <2>2. \A A \in Alignments(file) : \A V : Only(file, A, V) \in SUBSET All(file) /\ A \in SUBSET All(file)
    BY AlignmentsAre DEF Only, Possible
  <2>3. ASSUME NEW A \in Alignments(file), NEW V, NEW w, w \notin V
        PROVE  /\ Cardinality(Only(file, A, V \cup {w})) = Cardinality(Only(file, A, V)) + Cardinality(Only(file, A, {w}))
               /\ h[Only(file, A, V \cup {w})] = h[Only(file, A, V)] + h[Only(file, A, {w})]
    <3> DEFINE X == Only(file, A, V)
               Y == Only(file, A, {w})
    <3>1. Only(file, A, V \cup {w}) = X \cup Y /\ X \cap Y = {}
      BY <2>3 DEF Only
    <3>2. X \in SUBSET All(file) /\ Y \in SUBSET All(file)
      BY <2>2
    <3> HIDE DEF X, Y
    <3>3. h[X \cup Y] = h[X] + h[Y]
      <4>1. Apart(All(file), X, Y)
        BY <3>1, <3>2 DEF Apart
      <4>2. IsSum(All(file), g, h)
        BY <2>0 DEF IsSum
      <4> QED
        BY <4>1, <4>2, AddsUnion
    <3>4. IsFiniteSet(X) /\ IsFiniteSet(Y) /\ Cardinality(X) \in Nat /\ Cardinality(Y) \in Nat
      BY <2>1, <3>2
    <3>5. Cardinality(X \cup Y) = Cardinality(X) + Cardinality(Y) - Cardinality({})
      BY <3>1, <3>4, FS_Union
    <3>6. Cardinality(X \cup Y) = Cardinality(X) + Cardinality(Y)
      BY <3>4, <3>5, FS_EmptySet
    <3> QED
      BY <3>1, <3>3, <3>6 DEF X, Y
  <2>4. {} \in F
    <3>1. Only(file, S, {}) = {} /\ Only(file, M, {}) = {} /\ {} \in SUBSET All(file)
      BY DEF Only
    <3>2. Cardinality({}) \in Nat /\ h[{}] \in Int
      BY <2>1, <3>1
    <3>3. ~Beats(Scored({}, h), Scored({}, h))
      BY <3>2 DEF Beats, Scored, Cell
    <3> QED
      BY <3>1, <3>3
  <2>5. ASSUME NEW V \in SUBSET W, NEW w \in W \ V, V \in F PROVE V \cup {w} \in F
    <3> DEFINE A == Only(file, S, V)
               B == Only(file, M, V)
               C == Only(file, S, {w})
               D == Only(file, M, {w})
    <3>1. ~Beats(Scored(A, h), Scored(B, h))
      BY <2>5
    <3>2. ~Beats(Scored(C, h), Scored(D, h))
      BY <1>1, <1>5, <1>7
    <3>3. /\ Cardinality(A) \in Nat /\ h[A] \in Int /\ Cardinality(B) \in Nat /\ h[B] \in Int
          /\ Cardinality(C) \in Nat /\ h[C] \in Int /\ Cardinality(D) \in Nat /\ h[D] \in Int
      BY <1>4, <2>1, <2>2
    <3>4. /\ Cardinality(Only(file, S, V \cup {w})) = Cardinality(A) + Cardinality(C)
          /\ h[Only(file, S, V \cup {w})] = h[A] + h[C]
          /\ Cardinality(Only(file, M, V \cup {w})) = Cardinality(B) + Cardinality(D)
          /\ h[Only(file, M, V \cup {w})] = h[B] + h[D]
      BY <1>4, <2>3
    <3> HIDE DEF A, B, C, D
    <3>5. ~Beats(Scored(Only(file, S, V \cup {w}), h), Scored(Only(file, M, V \cup {w}), h))
      <4>1. \A a, b, c, d, ka, kb, kc, kd \in Int :
              ~(a > b \/ (a = b /\ ka < kb)) /\ ~(c > d \/ (c = d /\ kc < kd)) =>
                ~(a + c > b + d \/ (a + c = b + d /\ ka + kc < kb + kd))
        OBVIOUS
      <4>2. \A X, Y : Beats(Scored(X, h), Scored(Y, h)) <=>
              Cardinality(X) > Cardinality(Y) \/ (Cardinality(X) = Cardinality(Y) /\ h[X] < h[Y])
        BY DEF Beats, Scored, Cell
      <4>3. /\ ~(Cardinality(A) > Cardinality(B) \/ (Cardinality(A) = Cardinality(B) /\ h[A] < h[B]))
            /\ ~(Cardinality(C) > Cardinality(D) \/ (Cardinality(C) = Cardinality(D) /\ h[C] < h[D]))
        BY <3>1, <3>2, <4>2
      <4> DEFINE ca == Cardinality(A)
                 cb == Cardinality(B)
                 cc == Cardinality(C)
                 cd == Cardinality(D)
      <4>4. ca \in Int /\ cb \in Int /\ cc \in Int /\ cd \in Int
        BY <3>3
      <4> DEFINE ha == h[A]
                 hb == h[B]
                 hc == h[C]
                 hd == h[D]
      <4>6. ha \in Int /\ hb \in Int /\ hc \in Int /\ hd \in Int
        BY <3>3
      <4>7. ~(ca > cb \/ (ca = cb /\ ha < hb)) /\ ~(cc > cd \/ (cc = cd /\ hc < hd))
        BY <4>3
      <4>5. ~(ca + cc > cb + cd \/ (ca + cc = cb + cd /\ ha + hc < hb + hd))
        <5> HIDE DEF ca, cb, cc, cd, ha, hb, hc, hd
        <5> QED
          BY <4>1, <4>4, <4>6, <4>7
      <4> QED
        BY <3>4, <4>2, <4>5
    <3> QED
      BY <3>5
  <2>6. W \in F
    <3> HIDE DEF F, W
    <3> QED
      BY <1>6, <2>4, <2>5, SetInductive
  <2>7. \A A \in Alignments(file) : Only(file, A, W) = A
    BY AlignmentsAre DEF Only, Possible, All, WordsOf
  <2> QED
    BY <1>4, <2>6, <2>7
<1> QED
  BY <1>4, <1>7 DEF M

-----------------------------------------------------------------------------
(* Evaluation: the report *)

\* What the report of a clip is.
FileIs(f) ==
  /\ Clean(f)
  /\ f.matches \in Alignments(f)
  /\ Plain(f.expected) => \A S \in Alignments(f) :
       ~Better(Cell(S, Cost(f, S), FALSE), Cell(f.matches, Cost(f, f.matches), FALSE))
  /\ f.wrong \subseteq DOMAIN f.predictions \ {p[2] : p \in f.matches}
  /\ f.repeats \subseteq DOMAIN f.predictions \ {p[2] : p \in f.matches}
  /\ f.wrong \cap f.repeats = {}
  /\ f.fp = Cardinality(DOMAIN f.predictions \ {p[2] : p \in f.matches})
  /\ f.fn = Cardinality(DOMAIN f.expected \ {p[1] : p \in f.matches})

LEMMA ScoreIs ==
  ASSUME NEW clip, NEW predicted, Clean([expected |-> clip.expected, predictions |-> predicted])
  PROVE  FileIs(ScoreFile(clip, predicted))
<1>1. PICK file : file = [expected |-> clip.expected, predictions |-> predicted]
  OBVIOUS
<1>2. PICK f : f = ScoreFile(clip, predicted)
  OBVIOUS
<1>3. /\ f.expected = file.expected /\ f.predictions = file.predictions
      /\ file.expected = clip.expected /\ file.predictions = predicted /\ f.matches = AlignEvents(file)
  BY <1>1, <1>2 DEF ScoreFile
<1> DEFINE loose == DOMAIN f.predictions \ {p[2] : p \in f.matches}
<1>4. f.wrong \subseteq loose /\ f.repeats \subseteq loose /\ f.wrong \cap f.repeats = {}
  BY <1>1, <1>2 DEF ScoreFile
<1>5. f.fp = Cardinality(loose) /\ f.fn = Cardinality(DOMAIN f.expected \ {p[1] : p \in f.matches})
  BY <1>1, <1>2 DEF ScoreFile
<1>6. Clean(file) /\ Clean(f)
  BY <1>1, <1>3 DEF Clean
<1>7. PICK h \in [SUBSET All(file) -> Int] :
        /\ Adds(All(file), [p \in All(file) |-> Near(file, p)], h)
        /\ \A S \in SUBSET All(file) : Cost(file, S) = h[S]
  BY <1>6, CostIs
<1>8. Sums(file, h)
  BY <1>7 DEF Sums
<1>9. Alignments(f) = Alignments(file)
  BY <1>3 DEF Alignments
<1>10. \A S : Cost(f, S) = Cost(file, S)
  BY <1>3 DEF Cost
<1>11. f.matches \in Alignments(f)
  BY <1>3, <1>6, <1>8, <1>9, AlignEventsIs
<1>12. ASSUME Plain(f.expected), NEW S \in Alignments(f)
       PROVE  ~Better(Cell(S, Cost(f, S), FALSE), Cell(f.matches, Cost(f, f.matches), FALSE))
  <2>1. ~Beats(Scored(S, h), Scored(f.matches, h))
    BY <1>3, <1>6, <1>8, <1>9, <1>12, AlignEventsIs
  <2>2. S \in SUBSET All(file) /\ f.matches \in SUBSET All(file)
    BY <1>9, <1>11, <1>12, AlignmentsAre DEF Possible
  <2>3. Cost(f, S) = h[S] /\ Cost(f, f.matches) = h[f.matches]
    BY <1>7, <1>10, <2>2
  <2> QED
    BY <2>1, <2>3 DEF Beats, Better, Scored, Cell
<1> QED
  BY <1>2, <1>4, <1>5, <1>6, <1>11, <1>12 DEF FileIs

CountOf(f, w, c) == Counts(f, Named({w}, f.expected), Named({w}, f.predictions))[c]
CountIn(f, c) == Counts(f, DOMAIN f.expected, DOMAIN f.predictions)[c]

LEMMA FileSets ==
  ASSUME NEW f, FileIs(f)
  PROVE  /\ IsFiniteSet(DOMAIN f.expected) /\ IsFiniteSet(DOMAIN f.predictions) /\ IsFiniteSet(f.matches)
         /\ IsFiniteSet(f.wrong) /\ IsFiniteSet(f.repeats)
         /\ f.wrong \subseteq DOMAIN f.predictions /\ f.repeats \subseteq DOMAIN f.predictions
         /\ OneToOne(f.matches) /\ \A p \in f.matches : Possible(f, p)
<1>1. Clean(f) /\ f.matches \in Alignments(f)
  BY DEF FileIs
<1>2. IsFiniteSet(DOMAIN f.expected) /\ IsFiniteSet(DOMAIN f.predictions) /\ IsFiniteSet(All(f))
  BY <1>1, FileTypes, CostIs
<1>3. OneToOne(f.matches) /\ \A p \in f.matches : Possible(f, p)
  BY <1>1, AlignmentsAre
<1>4. f.matches \in SUBSET All(f)
  BY <1>3 DEF Possible
<1>5. f.wrong \in SUBSET DOMAIN f.predictions /\ f.repeats \in SUBSET DOMAIN f.predictions
  BY DEF FileIs
<1>6. IsFiniteSet(f.matches)
  BY <1>2, <1>4, FS_Subset
<1>7. IsFiniteSet(f.wrong) /\ IsFiniteSet(f.repeats)
  BY <1>2, <1>5, FS_Subset
<1> QED
  BY <1>2, <1>3, <1>5, <1>6, <1>7

\* The counts of a clip are those of its words.
LEMMA WordsCountAll ==
  ASSUME NEW f, FileIs(f), NEW named, IsFiniteSet(named), WordsOf(f) \subseteq named, NEW c \in Counted
  PROVE  SumOf([w \in named |-> CountOf(f, w, c)]) = CountIn(f, c)
<1> DEFINE E == DOMAIN f.expected
           P == DOMAIN f.predictions
           ke == [i \in E |-> f.expected[i].keyword]
           kp == [j \in P |-> f.predictions[j].keyword]
           km == [p \in f.matches |-> f.expected[p[1]].keyword]
           kw == [j \in f.wrong |-> f.predictions[j].keyword]
           kr == [j \in f.repeats |-> f.predictions[j].keyword]
<1>1. ke \in [E -> named] /\ kp \in [P -> named]
  BY DEF WordsOf
<1>2. km \in [f.matches -> named]
  BY FileSets DEF WordsOf, Possible, All
<1>3. kw \in [f.wrong -> named] /\ kr \in [f.repeats -> named]
  BY FileSets DEF WordsOf
<1>4. CASE c = "expected"
  <2>0. \A X, Y : Counts(f, X, Y)[c] = Cardinality(X)
    BY <1>4 DEF Counts
  <2>1. ASSUME NEW w \in named PROVE CountOf(f, w, c) = Cardinality({i \in E : ke[i] = w})
    <3>1. {i \in E : ke[i] = w} = Named({w}, f.expected)
      BY DEF Named
    <3> QED
      BY <2>0, <3>1, Zenon DEF CountOf
  <2>2. CountIn(f, c) = Cardinality(E)
    <3>1. E = E
      BY FileSets DEF Possible, All
    <3> QED
      BY <2>0, <3>1, Zenon DEF CountIn
  <2>3. IsFiniteSet(E)
    BY FileSets
  <2> HIDE DEF E, P, ke, kp, km, kw, kr
  <2>4. SumOf([w \in named |-> Cardinality({i \in E : ke[i] = w})]) = Cardinality(E)
    BY <1>1, <1>2, <1>3, <2>3, SumParts
  <2> QED
    BY <2>1, <2>2, <2>4
<1>5. CASE c = "predictions"
  <2>0. \A X, Y : Counts(f, X, Y)[c] = Cardinality(Y)
    BY <1>5 DEF Counts
  <2>1. ASSUME NEW w \in named PROVE CountOf(f, w, c) = Cardinality({i \in P : kp[i] = w})
    <3>1. {i \in P : kp[i] = w} = Named({w}, f.predictions)
      BY DEF Named
    <3> QED
      BY <2>0, <3>1, Zenon DEF CountOf
  <2>2. CountIn(f, c) = Cardinality(P)
    <3>1. P = P
      BY FileSets DEF Possible, All
    <3> QED
      BY <2>0, <3>1, Zenon DEF CountIn
  <2>3. IsFiniteSet(P)
    BY FileSets
  <2> HIDE DEF E, P, ke, kp, km, kw, kr
  <2>4. SumOf([w \in named |-> Cardinality({i \in P : kp[i] = w})]) = Cardinality(P)
    BY <1>1, <1>2, <1>3, <2>3, SumParts
  <2> QED
    BY <2>1, <2>2, <2>4
<1>6. CASE c = "tp"
  <2>0. \A X, Y : Counts(f, X, Y)[c] = Cardinality({p \in f.matches : p[1] \in X})
    BY <1>6 DEF Counts
  <2>1. ASSUME NEW w \in named PROVE CountOf(f, w, c) = Cardinality({i \in f.matches : km[i] = w})
    <3>1. {i \in f.matches : km[i] = w} = {p \in f.matches : p[1] \in Named({w}, f.expected)}
      BY FileSets DEF Named, Possible, All
    <3> QED
      BY <2>0, <3>1, Zenon DEF CountOf
  <2>2. CountIn(f, c) = Cardinality(f.matches)
    <3>1. {p \in f.matches : p[1] \in E} = f.matches
      BY FileSets DEF Possible, All
    <3> QED
      BY <2>0, <3>1, Zenon DEF CountIn
  <2>3. IsFiniteSet(f.matches)
    BY FileSets
  <2> HIDE DEF E, P, ke, kp, km, kw, kr
  <2>4. SumOf([w \in named |-> Cardinality({i \in f.matches : km[i] = w})]) = Cardinality(f.matches)
    BY <1>1, <1>2, <1>3, <2>3, SumParts
  <2> QED
    BY <2>1, <2>2, <2>4
<1>7. CASE c = "wrong"
  <2>0. \A X, Y : Counts(f, X, Y)[c] = Cardinality(f.wrong \cap Y)
    BY <1>7 DEF Counts
  <2>1. ASSUME NEW w \in named PROVE CountOf(f, w, c) = Cardinality({i \in f.wrong : kw[i] = w})
    <3>1. {i \in f.wrong : kw[i] = w} = f.wrong \cap Named({w}, f.predictions)
      BY FileSets DEF Named
    <3> QED
      BY <2>0, <3>1, Zenon DEF CountOf
  <2>2. CountIn(f, c) = Cardinality(f.wrong)
    <3>1. f.wrong \cap P = f.wrong
      BY FileSets DEF Possible, All
    <3> QED
      BY <2>0, <3>1, Zenon DEF CountIn
  <2>3. IsFiniteSet(f.wrong)
    BY FileSets
  <2> HIDE DEF E, P, ke, kp, km, kw, kr
  <2>4. SumOf([w \in named |-> Cardinality({i \in f.wrong : kw[i] = w})]) = Cardinality(f.wrong)
    BY <1>1, <1>2, <1>3, <2>3, SumParts
  <2> QED
    BY <2>1, <2>2, <2>4
<1>8. CASE c = "repeats"
  <2>0. \A X, Y : Counts(f, X, Y)[c] = Cardinality(f.repeats \cap Y)
    BY <1>8 DEF Counts
  <2>1. ASSUME NEW w \in named PROVE CountOf(f, w, c) = Cardinality({i \in f.repeats : kr[i] = w})
    <3>1. {i \in f.repeats : kr[i] = w} = f.repeats \cap Named({w}, f.predictions)
      BY FileSets DEF Named
    <3> QED
      BY <2>0, <3>1, Zenon DEF CountOf
  <2>2. CountIn(f, c) = Cardinality(f.repeats)
    <3>1. f.repeats \cap P = f.repeats
      BY FileSets DEF Possible, All
    <3> QED
      BY <2>0, <3>1, Zenon DEF CountIn
  <2>3. IsFiniteSet(f.repeats)
    BY FileSets
  <2> HIDE DEF E, P, ke, kp, km, kw, kr
  <2>4. SumOf([w \in named |-> Cardinality({i \in f.repeats : kr[i] = w})]) = Cardinality(f.repeats)
    BY <1>1, <1>2, <1>3, <2>3, SumParts
  <2> QED
    BY <2>1, <2>2, <2>4
<1>9. CASE c = "activations"
  <2>0. \A X, Y : Counts(f, X, Y)[c] = IF f.expected = <<>> THEN Cardinality(Y) ELSE 0
    BY <1>9 DEF Counts
  <2>1. CASE f.expected = <<>>
    <3>0. \A X, Y : Counts(f, X, Y)[c] = Cardinality(Y)
      BY <2>0, <2>1
    <3>1. ASSUME NEW w \in named PROVE CountOf(f, w, c) = Cardinality({i \in P : kp[i] = w})
      <4>1. {i \in P : kp[i] = w} = Named({w}, f.predictions)
        BY DEF Named
      <4> QED
        BY <3>0, <4>1, Zenon DEF CountOf
    <3>2. CountIn(f, c) = Cardinality(P)
      BY <3>0, Zenon DEF CountIn
    <3>3. IsFiniteSet(P)
      BY FileSets
    <3> HIDE DEF E, P, ke, kp, km, kw, kr
    <3>4. SumOf([w \in named |-> Cardinality({i \in P : kp[i] = w})]) = Cardinality(P)
      BY <1>1, <3>3, SumParts
    <3> QED
      BY <3>1, <3>2, <3>4
  <2>2. CASE f.expected # <<>>
    <3>0. \A X, Y : Counts(f, X, Y)[c] = 0
      BY <2>0, <2>2
    <3> DEFINE z == [i \in {} |-> i]
    <3>1. z \in [{} -> named] /\ IsFiniteSet({}) /\ Cardinality({}) = 0
      BY FS_EmptySet
    <3> HIDE DEF z
    <3>2. SumOf([w \in named |-> Cardinality({i \in {} : z[i] = w})]) = 0
      BY <3>1, SumParts
    <3>3. \A w \in named : CountOf(f, w, c) = Cardinality({i \in {} : z[i] = w})
      <4>1. \A w \in named : {i \in {} : z[i] = w} = {}
        OBVIOUS
      <4>2. \A w \in named : CountOf(f, w, c) = 0
        BY <3>0, Zenon DEF CountOf
      <4> QED
        BY <3>1, <4>1, <4>2
    <3>4. CountIn(f, c) = 0
      BY <3>0, Zenon DEF CountIn
    <3> QED
      BY <3>2, <3>3, <3>4
  <2> QED
    BY <2>1, <2>2
<1> QED
  BY <1>4, <1>5, <1>6, <1>7, <1>8, <1>9 DEF Counted


LEMMA OneToOneCount ==
  ASSUME NEW M, IsFiniteSet(M), OneToOne(M), \A p \in M : p = <<p[1], p[2]>>
  PROVE  /\ IsFiniteSet({p[1] : p \in M}) /\ Cardinality({p[1] : p \in M}) = Cardinality(M)
         /\ IsFiniteSet({p[2] : p \in M}) /\ Cardinality({p[2] : p \in M}) = Cardinality(M)
<1> DEFINE A == {p[1] : p \in M}
           B == {p[2] : p \in M}
           f == [p \in M |-> p[1]]
           g == [p \in M |-> p[2]]
<1>1. \A p, q \in M : (p[1] = q[1] => p = q) /\ (p[2] = q[2] => p = q)
  <2> SUFFICES ASSUME NEW p \in M, NEW q \in M PROVE (p[1] = q[1] => p = q) /\ (p[2] = q[2] => p = q)
    OBVIOUS
  <2>1. p = <<p[1], p[2]>> /\ q = <<q[1], q[2]>> /\ (p[1] = q[1] <=> p[2] = q[2])
    BY DEF OneToOne
  <2> QED
    BY <2>1
<1>2. f \in Surjection(M, A) /\ g \in Surjection(M, B)
  BY DEF Surjection
<1>3. f \in Injection(M, A) /\ g \in Injection(M, B)
  BY <1>1 DEF Injection, IsInjective
<1> HIDE DEF A, B, f, g
<1>4. IsFiniteSet(A) /\ Cardinality(A) = Cardinality(M)
  BY <1>2, <1>3, FS_Surjection
<1>5. IsFiniteSet(B) /\ Cardinality(B) = Cardinality(M)
  BY <1>2, <1>3, FS_Surjection
<1> QED
  BY <1>4, <1>5 DEF A, B

LEMMA ApartCount ==
  ASSUME NEW A, NEW B, IsFiniteSet(A), IsFiniteSet(B), A \cap B = {}
  PROVE  IsFiniteSet(A \cup B) /\ Cardinality(A \cup B) = Cardinality(A) + Cardinality(B)
<1>1. IsFiniteSet(A \cup B) /\ Cardinality(A \cup B) = Cardinality(A) + Cardinality(B) - Cardinality(A \cap B)
  BY FS_Union
<1>2. PICK a \in Nat : a = Cardinality(A)
  BY FS_CardinalityType
<1>3. PICK b \in Nat : b = Cardinality(B)
  BY FS_CardinalityType
<1>4. Cardinality(A \cap B) = 0
  BY FS_EmptySet
<1>5. Cardinality(A \cup B) = a + b - 0
  BY <1>1, <1>2, <1>3, <1>4
<1> QED
  BY <1>1, <1>2, <1>3, <1>5

\* In a clip: what is not matched is left over, and the false ones of a word are among those
\* of its predictions that are left over.
LEMMA FileCounts ==
  ASSUME NEW f, FileIs(f)
  PROVE  /\ \A c \in Counted : CountIn(f, c) \in Nat /\ \A w : CountOf(f, w, c) \in Nat
         /\ f.fp \in Nat /\ CountIn(f, "predictions") = f.fp + CountIn(f, "tp")
         /\ f.fn \in Nat /\ CountIn(f, "expected") = f.fn + CountIn(f, "tp")
         /\ \A w : /\ CountOf(f, w, "tp") =< CountOf(f, w, "expected")
                   /\ (CountOf(f, w, "wrong") + CountOf(f, w, "repeats")) + CountOf(f, w, "tp")
                        =< CountOf(f, w, "predictions")
<1> DEFINE E == DOMAIN f.expected
           P == DOMAIN f.predictions
           M == f.matches
           L1 == {p[1] : p \in M}
           L2 == {p[2] : p \in M}
<1>1. /\ IsFiniteSet(E) /\ IsFiniteSet(P) /\ IsFiniteSet(M) /\ OneToOne(M)
      /\ IsFiniteSet(f.wrong) /\ IsFiniteSet(f.repeats)
      /\ f.wrong \subseteq P /\ f.repeats \subseteq P
  BY FileSets
<1>2. \A p \in M : p = <<p[1], p[2]>> /\ p[1] \in E /\ p[2] \in P /\ f.expected[p[1]].keyword = f.predictions[p[2]].keyword
  BY FileSets DEF Possible, All
<1>3. \A S, T : IsFiniteSet(S) /\ T \subseteq S => IsFiniteSet(T) /\ Cardinality(T) \in Nat /\ Cardinality(T) =< Cardinality(S)
  BY FS_Subset, FS_CardinalityType
<1>4. ASSUME NEW X \in SUBSET E, NEW Y \in SUBSET P, NEW c \in Counted PROVE Counts(f, X, Y)[c] \in Nat
  <2>1. /\ Cardinality(X) \in Nat /\ Cardinality(Y) \in Nat /\ Cardinality({p \in f.matches : p[1] \in X}) \in Nat
        /\ Cardinality(f.wrong \cap Y) \in Nat /\ Cardinality(f.repeats \cap Y) \in Nat
    <3>1. {p \in f.matches : p[1] \in X} \subseteq M /\ f.wrong \cap Y \subseteq P /\ f.repeats \cap Y \subseteq P
      BY <1>1
    <3> HIDE DEF E, P
    <3> QED
      BY <1>1, <1>3, <3>1
  <2>2. CASE c = "expected"
    BY <2>1, <2>2 DEF Counts
  <2>3. CASE c = "predictions"
    BY <2>1, <2>3 DEF Counts
  <2>4. CASE c = "tp"
    BY <2>1, <2>4 DEF Counts
  <2>5. CASE c = "activations"
    BY <2>1, <2>5 DEF Counts
  <2>6. CASE c = "wrong"
    BY <2>1, <2>6 DEF Counts
  <2>7. CASE c = "repeats"
    BY <2>1, <2>7 DEF Counts
  <2> QED
    BY <2>2, <2>3, <2>4, <2>5, <2>6, <2>7 DEF Counted
<1>5. \A c \in Counted : CountIn(f, c) \in Nat /\ \A w : CountOf(f, w, c) \in Nat
  <2>1. \A w : Named({w}, f.expected) \in SUBSET E /\ Named({w}, f.predictions) \in SUBSET P
    BY DEF Named
  <2>2. E \in SUBSET E /\ P \in SUBSET P
    OBVIOUS
  <2> QED
    BY <1>4, <2>1, <2>2 DEF CountIn, CountOf
<1>6. IsFiniteSet(L1) /\ Cardinality(L1) = Cardinality(M) /\ IsFiniteSet(L2) /\ Cardinality(L2) = Cardinality(M)
  BY <1>1, <1>2, OneToOneCount
<1>7. L1 \subseteq E /\ L2 \subseteq P /\ E \cap L1 = L1 /\ P \cap L2 = L2
  BY <1>2
<1>8. CountIn(f, "tp") = Cardinality(M) /\ CountIn(f, "predictions") = Cardinality(P) /\ CountIn(f, "expected") = Cardinality(E)
  <2>1. {p \in f.matches : p[1] \in E} = M
    BY <1>2
  <2> QED
    BY <2>1 DEF CountIn, Counts
<1>9. f.fp = Cardinality(P \ L2) /\ f.fn = Cardinality(E \ L1)
  BY DEF FileIs
<1>10. f.fp = Cardinality(P) - Cardinality(M) /\ f.fn = Cardinality(E) - Cardinality(M) /\ f.fp \in Nat /\ f.fn \in Nat
  <2> HIDE DEF E, P, L1, L2, M
  <2>1. Cardinality(P \ L2) = Cardinality(P) - Cardinality(P \cap L2)
    BY <1>1, FS_Difference
  <2>2. Cardinality(E \ L1) = Cardinality(E) - Cardinality(E \cap L1)
    BY <1>1, FS_Difference
  <2>3. Cardinality(P \ L2) \in Nat /\ Cardinality(E \ L1) \in Nat
    BY <1>1, <1>3
  <2> QED
    BY <1>6, <1>7, <1>9, <2>1, <2>2, <2>3
<1>11. Cardinality(P) \in Nat /\ Cardinality(E) \in Nat /\ Cardinality(M) \in Nat
  BY <1>1, FS_CardinalityType
<1>12. CountIn(f, "predictions") = f.fp + CountIn(f, "tp") /\ CountIn(f, "expected") = f.fn + CountIn(f, "tp")
  BY <1>8, <1>10, <1>11
<1>13. ASSUME NEW w
       PROVE  /\ CountOf(f, w, "tp") =< CountOf(f, w, "expected")
              /\ (CountOf(f, w, "wrong") + CountOf(f, w, "repeats")) + CountOf(f, w, "tp")
                   =< CountOf(f, w, "predictions")
  <2> DEFINE Ew == Named({w}, f.expected)
             Pw == Named({w}, f.predictions)
             Mw == {p \in f.matches : p[1] \in Ew}
             A == {p[1] : p \in Mw}
             B == {p[2] : p \in Mw}
             C == f.wrong \cap Pw
             D == f.repeats \cap Pw
  <2>1. /\ CountOf(f, w, "tp") = Cardinality(Mw) /\ CountOf(f, w, "expected") = Cardinality(Ew)
        /\ CountOf(f, w, "predictions") = Cardinality(Pw)
        /\ CountOf(f, w, "wrong") = Cardinality(C) /\ CountOf(f, w, "repeats") = Cardinality(D)
    BY DEF CountOf, Counts
  <2>2. Ew \subseteq E /\ Pw \subseteq P /\ Mw \subseteq M /\ A \subseteq Ew /\ B \subseteq Pw
    BY <1>2 DEF Named
  <2>3. IsFiniteSet(Ew) /\ IsFiniteSet(Pw) /\ IsFiniteSet(Mw)
    <3> HIDE DEF E, P, M, Ew, Pw, Mw
    <3> QED
      BY <1>1, <1>3, <2>2
  <2>4. OneToOne(Mw) /\ \A p \in Mw : p = <<p[1], p[2]>>
    BY <1>1, <1>2 DEF OneToOne
  <2>5. IsFiniteSet(A) /\ Cardinality(A) = Cardinality(Mw) /\ IsFiniteSet(B) /\ Cardinality(B) = Cardinality(Mw)
    <3> HIDE DEF Mw
    <3> QED
      BY <2>3, <2>4, OneToOneCount
  <2>6. C \cap D = {} /\ C \subseteq Pw /\ D \subseteq Pw /\ B \cap (C \cup D) = {}
    BY DEF FileIs
  <2> HIDE DEF Ew, Pw, Mw, A, B, C, D
  <2>7. Cardinality(A) =< Cardinality(Ew)
    BY <1>3, <2>2, <2>3
  <2>8. IsFiniteSet(C) /\ IsFiniteSet(D) /\ Cardinality(C) \in Nat /\ Cardinality(D) \in Nat /\ Cardinality(B) \in Nat
    BY <1>3, <2>2, <2>3, <2>6
  <2>9. IsFiniteSet(C \cup D) /\ Cardinality(C \cup D) = Cardinality(C) + Cardinality(D)
    BY <2>6, <2>8, ApartCount
  <2>10. Cardinality((C \cup D) \cup B) = (Cardinality(C) + Cardinality(D)) + Cardinality(B)
    <3>1. (C \cup D) \cap B = {}
      BY <2>6
    <3>2. Cardinality((C \cup D) \cup B) = Cardinality(C \cup D) + Cardinality(B)
      BY <2>5, <2>9, <3>1, ApartCount
    <3> QED
      BY <2>9, <3>2
  <2>11. Cardinality((C \cup D) \cup B) =< Cardinality(Pw)
    <3>1. (C \cup D) \cup B \subseteq Pw
      BY <2>2, <2>6
    <3> QED
      BY <1>3, <2>3, <3>1
  <2> QED
    BY <2>1, <2>5, <2>7, <2>10, <2>11
<1> QED
  BY <1>5, <1>10, <1>12, <1>13


Words(files) == EnabledWords \cup UNION {WordsOf(files[n]) : n \in DOMAIN files}

LEMMA WordsFinite ==
  ASSUME NEW files, IsFiniteSet(DOMAIN files), \A n \in DOMAIN files : FileIs(files[n])
  PROVE  IsFiniteSet(Words(files))
<1>1. ASSUME NEW file, FileIs(file) PROVE IsFiniteSet(WordsOf(file))
  <2> DEFINE A == {file.expected[i].keyword : i \in DOMAIN file.expected}
             B == {file.predictions[j].keyword : j \in DOMAIN file.predictions}
  <2>1. IsFiniteSet(A)
    <3> DEFINE f == [i \in DOMAIN file.expected |-> file.expected[i].keyword]
    <3>1. f \in Surjection(DOMAIN file.expected, A)
      BY DEF Surjection
    <3> QED
      BY <1>1, <3>1, FileSets, FS_Surjection
  <2>2. IsFiniteSet(B)
    <3> DEFINE f == [j \in DOMAIN file.predictions |-> file.predictions[j].keyword]
    <3>1. f \in Surjection(DOMAIN file.predictions, B)
      BY DEF Surjection
    <3> QED
      BY <1>1, <3>1, FileSets, FS_Surjection
  <2> HIDE DEF A, B
  <2>3. IsFiniteSet(A \cup B)
    BY <2>1, <2>2, FS_Union
  <2> QED
    BY <2>3 DEF WordsOf, A, B
<1> DEFINE G == {WordsOf(files[n]) : n \in DOMAIN files}
<1>2. IsFiniteSet(G)
  <2> DEFINE f == [n \in DOMAIN files |-> WordsOf(files[n])]
  <2>1. f \in Surjection(DOMAIN files, G)
    BY DEF Surjection
  <2> QED
    BY <2>1, FS_Surjection
<1>3. \A T \in G : IsFiniteSet(T)
  BY <1>1
<1> HIDE DEF G
<1>4. IsFiniteSet(UNION G)
  BY <1>2, <1>3, FS_UNION
<1>5. IsFiniteSet(EnabledWords \cup UNION G)
  BY <1>4, EvaluationAssumption, FS_Union
<1> QED
  BY <1>5 DEF Words, G

TotalOf(files, c) == SumOf([n \in DOMAIN files |-> CountIn(files[n], c)])
TotalFor(files, w, c) == SumOf([n \in DOMAIN files |-> CountOf(files[n], w, c)])

\* The rows of the words give the counts of the total.
LEMMA RowsGiveTotal ==
  ASSUME NEW files, IsFiniteSet(DOMAIN files), \A n \in DOMAIN files : FileIs(files[n]), NEW c \in Counted
  PROVE  /\ SumOf([w \in Words(files) |-> TotalFor(files, w, c)]) = TotalOf(files, c)
         /\ TotalOf(files, c) \in Int /\ \A w : TotalFor(files, w, c) \in Int
<1> DEFINE D == DOMAIN files
           W == Words(files)
           g == [n \in D |-> [w \in W |-> CountOf(files[n], w, c)]]
<1>0. IsFiniteSet(W)
  BY WordsFinite
<1>1. \A n \in D : CountIn(files[n], c) \in Nat /\ \A w : CountOf(files[n], w, c) \in Nat
  BY FileCounts
<1>2. g \in [D -> [W -> Int]]
  BY <1>1
<1>3. \A n \in D : SumOf([w \in W |-> CountOf(files[n], w, c)]) = CountIn(files[n], c)
  <2> SUFFICES ASSUME NEW n \in D PROVE SumOf([w \in W |-> CountOf(files[n], w, c)]) = CountIn(files[n], c)
    OBVIOUS
  <2>1. WordsOf(files[n]) \subseteq W
    BY DEF Words
  <2> HIDE DEF W
  <2> QED
    BY <1>0, <2>1, WordsCountAll
<1>4. \A n \in D : g[n] = [w \in W |-> CountOf(files[n], w, c)]
  OBVIOUS
<1> HIDE DEF W, g
<1>5. SumOf([n \in D |-> SumOf(g[n])]) = SumOf([w \in W |-> SumOf([n \in D |-> g[n][w]])])
  BY <1>0, <1>2, SumSwap
<1>6. [n \in D |-> SumOf(g[n])] = [n \in D |-> CountIn(files[n], c)]
  BY <1>3, <1>4
<1>7. \A w \in W : [n \in D |-> g[n][w]] = [n \in D |-> CountOf(files[n], w, c)]
  BY <1>4
<1>8. [w \in W |-> SumOf([n \in D |-> g[n][w]])] = [w \in W |-> TotalFor(files, w, c)]
  BY <1>7 DEF TotalFor
<1>9. TotalOf(files, c) \in Int
  <2>1. [n \in D |-> CountIn(files[n], c)] \in [D -> Int]
    BY <1>1
  <2> QED
    BY <2>1, SumWhole DEF TotalOf
<1>10. ASSUME NEW w PROVE TotalFor(files, w, c) \in Int
  <2>1. [n \in D |-> CountOf(files[n], w, c)] \in [D -> Int]
    BY <1>1
  <2> QED
    BY <2>1, SumWhole DEF TotalFor
<1> QED
  BY <1>5, <1>6, <1>8, <1>9, <1>10 DEF TotalOf, W

LEMMA MetricsAre ==
  ASSUME NEW files, NEW m, m = BuildMetrics(files)
  PROVE  /\ DOMAIN m.perKeyword = Words(files)
         /\ m.summary.fp = SumOf([n \in DOMAIN files |-> files[n].fp])
         /\ m.summary.fn = SumOf([n \in DOMAIN files |-> files[n].fn])
         /\ \A c \in Counted : m.summary.counts[c] = TotalOf(files, c)
         /\ \A w \in Words(files) :
              /\ \A c \in Counted : m.perKeyword[w].counts[c] = TotalFor(files, w, c)
              /\ m.perKeyword[w].fp = TotalFor(files, w, "predictions") - TotalFor(files, w, "tp")
              /\ m.perKeyword[w].fn = TotalFor(files, w, "expected") - TotalFor(files, w, "tp")
<1>1. \A c \in Counted : CountAll(files)[c] = TotalOf(files, c)
  BY DEF CountAll, TotalOf, CountIn
<1>2. \A w : \A c \in Counted : CountWord(files, w)[c] = TotalFor(files, w, c)
  BY DEF CountWord, TotalFor, CountOf
<1>3. "predictions" \in Counted /\ "tp" \in Counted /\ "expected" \in Counted
  BY DEF Counted
<1>4. /\ DOMAIN m.perKeyword = Words(files)
      /\ m.summary = [counts |-> CountAll(files), fp |-> SumOf([n \in DOMAIN files |-> files[n].fp]),
                      fn |-> SumOf([n \in DOMAIN files |-> files[n].fn])]
  BY DEF BuildMetrics, Words
<1>5. ASSUME NEW w \in Words(files)
      PROVE  m.perKeyword[w] = [counts |-> CountWord(files, w),
               fp |-> CountWord(files, w)["predictions"] - CountWord(files, w)["tp"],
               fn |-> CountWord(files, w)["expected"] - CountWord(files, w)["tp"]]
  BY DEF BuildMetrics, Words
<1>6. /\ m.summary.fp = SumOf([n \in DOMAIN files |-> files[n].fp])
      /\ m.summary.fn = SumOf([n \in DOMAIN files |-> files[n].fn])
      /\ m.summary.counts = CountAll(files)
  BY <1>4
<1>7. \A c \in Counted : m.summary.counts[c] = TotalOf(files, c)
  BY <1>1, <1>6
<1>8. ASSUME NEW w \in Words(files)
      PROVE  /\ \A c \in Counted : m.perKeyword[w].counts[c] = TotalFor(files, w, c)
             /\ m.perKeyword[w].fp = TotalFor(files, w, "predictions") - TotalFor(files, w, "tp")
             /\ m.perKeyword[w].fn = TotalFor(files, w, "expected") - TotalFor(files, w, "tp")
  <2>1. /\ CountWord(files, w)["predictions"] = TotalFor(files, w, "predictions")
        /\ CountWord(files, w)["tp"] = TotalFor(files, w, "tp")
        /\ CountWord(files, w)["expected"] = TotalFor(files, w, "expected")
    BY <1>2, <1>3
  <2>2. /\ m.perKeyword[w].counts = CountWord(files, w)
        /\ m.perKeyword[w].fp = CountWord(files, w)["predictions"] - CountWord(files, w)["tp"]
        /\ m.perKeyword[w].fn = CountWord(files, w)["expected"] - CountWord(files, w)["tp"]
    <3>1. PICK p : p = CountWord(files, w)["predictions"] - CountWord(files, w)["tp"]
      OBVIOUS
    <3>2. PICK n : n = CountWord(files, w)["expected"] - CountWord(files, w)["tp"]
      OBVIOUS
    <3>3. m.perKeyword[w] = [counts |-> CountWord(files, w), fp |-> p, fn |-> n]
      BY <1>5, <3>1, <3>2, Zenon
    <3>4. m.perKeyword[w].counts = CountWord(files, w) /\ m.perKeyword[w].fp = p /\ m.perKeyword[w].fn = n
      BY <3>3
    <3> QED
      BY <3>1, <3>2, <3>4
  <2> QED
    BY <1>2, <2>1, <2>2
<1>9. DOMAIN m.perKeyword = Words(files)
  BY <1>4
<1> QED
  BY <1>6, <1>7, <1>8, <1>9


\* What ReportAddsUp says of a report.
AddsUp(m) ==
  /\ SumOf([w \in DOMAIN m.perKeyword |-> m.perKeyword[w].fp]) = m.summary.fp
  /\ SumOf([w \in DOMAIN m.perKeyword |-> m.perKeyword[w].fn]) = m.summary.fn
  /\ \A c \in Counted :
       SumOf([w \in DOMAIN m.perKeyword |-> m.perKeyword[w].counts[c]]) = m.summary.counts[c]
  /\ \A w \in DOMAIN m.perKeyword :
       /\ m.perKeyword[w].counts["wrong"] + m.perKeyword[w].counts["repeats"] =< m.perKeyword[w].fp
       /\ m.perKeyword[w].fn >= 0

\* The false ones of a row are at least those that are wrong or repeat, and none is missed
\* that was not expected.
LEMMA RowsAreSound ==
  ASSUME NEW files, IsFiniteSet(DOMAIN files), \A n \in DOMAIN files : FileIs(files[n]), NEW w
  PROVE  /\ TotalFor(files, w, "wrong") + TotalFor(files, w, "repeats")
              =< TotalFor(files, w, "predictions") - TotalFor(files, w, "tp")
         /\ TotalFor(files, w, "expected") - TotalFor(files, w, "tp") >= 0
<1> DEFINE D == DOMAIN files
           a == [n \in D |-> CountOf(files[n], w, "wrong")]
           b == [n \in D |-> CountOf(files[n], w, "repeats")]
           t == [n \in D |-> CountOf(files[n], w, "tp")]
           p == [n \in D |-> CountOf(files[n], w, "predictions")]
           e == [n \in D |-> CountOf(files[n], w, "expected")]
           ab == [n \in D |-> a[n] + b[n]]
           abt == [n \in D |-> ab[n] + t[n]]
<1>1. \A n \in D : /\ CountOf(files[n], w, "wrong") \in Nat /\ CountOf(files[n], w, "repeats") \in Nat
                   /\ CountOf(files[n], w, "tp") \in Nat /\ CountOf(files[n], w, "predictions") \in Nat
                   /\ CountOf(files[n], w, "expected") \in Nat
  BY FileCounts DEF Counted
<1>2. \A n \in D : /\ CountOf(files[n], w, "tp") =< CountOf(files[n], w, "expected")
                   /\ (CountOf(files[n], w, "wrong") + CountOf(files[n], w, "repeats")) + CountOf(files[n], w, "tp")
                        =< CountOf(files[n], w, "predictions")
  BY FileCounts
<1>3. a \in [D -> Int] /\ b \in [D -> Int] /\ t \in [D -> Int] /\ p \in [D -> Int] /\ e \in [D -> Int]
  BY <1>1
<1>4. \A n \in D : t[n] =< e[n] /\ (a[n] + b[n]) + t[n] =< p[n]
  BY <1>2
<1>5. /\ TotalFor(files, w, "wrong") = SumOf(a) /\ TotalFor(files, w, "repeats") = SumOf(b)
      /\ TotalFor(files, w, "tp") = SumOf(t) /\ TotalFor(files, w, "predictions") = SumOf(p)
      /\ TotalFor(files, w, "expected") = SumOf(e)
  BY DEF TotalFor
<1> HIDE DEF a, b, t, p, e
<1>6. ab \in [D -> Int] /\ abt \in [D -> Int]
  BY <1>3
<1>7. IsPlus(D, ab, a, b) /\ IsPlus(D, abt, ab, t)
  BY <1>3, <1>6 DEF IsPlus
<1>8. \A n \in D : abt[n] =< p[n]
  BY <1>4
<1> HIDE DEF ab, abt
<1>9. SumOf(ab) = SumOf(a) + SumOf(b) /\ SumOf(abt) = SumOf(ab) + SumOf(t)
  BY <1>7, SumPlus
<1>10. SumOf(abt) =< SumOf(p)
  BY <1>3, <1>6, <1>8, SumNotMore
<1>11. SumOf(t) =< SumOf(e)
  BY <1>3, <1>4, SumNotMore
<1>12. SumOf(a) \in Int /\ SumOf(b) \in Int /\ SumOf(t) \in Int /\ SumOf(p) \in Int /\ SumOf(e) \in Int
  BY <1>3, SumWhole
<1> QED
  BY <1>5, <1>9, <1>10, <1>11, <1>12

\* What each clip left over is what the counts of the total leave over.
LEMMA LeftOver ==
  ASSUME NEW files, IsFiniteSet(DOMAIN files), \A n \in DOMAIN files : FileIs(files[n])
  PROVE  /\ SumOf([n \in DOMAIN files |-> files[n].fp]) \in Int
         /\ TotalOf(files, "predictions") = SumOf([n \in DOMAIN files |-> files[n].fp]) + TotalOf(files, "tp")
         /\ SumOf([n \in DOMAIN files |-> files[n].fn]) \in Int
         /\ TotalOf(files, "expected") = SumOf([n \in DOMAIN files |-> files[n].fn]) + TotalOf(files, "tp")
<1> DEFINE D == DOMAIN files
           fp == [n \in D |-> files[n].fp]
           fn == [n \in D |-> files[n].fn]
           t == [n \in D |-> CountIn(files[n], "tp")]
           p == [n \in D |-> CountIn(files[n], "predictions")]
           e == [n \in D |-> CountIn(files[n], "expected")]
<1>1. \A n \in D : /\ CountIn(files[n], "tp") \in Nat /\ CountIn(files[n], "predictions") \in Nat
                   /\ CountIn(files[n], "expected") \in Nat
  BY FileCounts DEF Counted
<1>2. \A n \in D : /\ files[n].fp \in Nat /\ CountIn(files[n], "predictions") = files[n].fp + CountIn(files[n], "tp")
                   /\ files[n].fn \in Nat /\ CountIn(files[n], "expected") = files[n].fn + CountIn(files[n], "tp")
  BY FileCounts
<1>3. fp \in [D -> Int] /\ fn \in [D -> Int] /\ t \in [D -> Int] /\ p \in [D -> Int] /\ e \in [D -> Int]
  BY <1>1, <1>2
<1>4. IsPlus(D, p, fp, t) /\ IsPlus(D, e, fn, t)
  BY <1>2, <1>3 DEF IsPlus
<1>5. /\ TotalOf(files, "tp") = SumOf(t) /\ TotalOf(files, "predictions") = SumOf(p)
      /\ TotalOf(files, "expected") = SumOf(e)
  BY DEF TotalOf
<1> HIDE DEF fp, fn, t, p, e
<1>6. SumOf(p) = SumOf(fp) + SumOf(t) /\ SumOf(e) = SumOf(fn) + SumOf(t)
  BY <1>4, SumPlus
<1>7. SumOf(fp) \in Int /\ SumOf(fn) \in Int
  BY <1>3, SumWhole
<1> QED
  BY <1>5, <1>6, <1>7 DEF fp, fn

LEMMA RowsLeftOver ==
  ASSUME NEW files, IsFiniteSet(DOMAIN files), \A n \in DOMAIN files : FileIs(files[n]), NEW c \in Counted,
         NEW s, s = SumOf([w \in Words(files) |-> TotalFor(files, w, c) - TotalFor(files, w, "tp")])
  PROVE  s \in Int /\ TotalOf(files, c) = s + TotalOf(files, "tp")
<1> DEFINE W == Words(files)
           p == [w \in W |-> TotalFor(files, w, c)]
           t == [w \in W |-> TotalFor(files, w, "tp")]
           d == [w \in W |-> TotalFor(files, w, c) - TotalFor(files, w, "tp")]
<1>0. IsFiniteSet(W) /\ "tp" \in Counted
  BY WordsFinite DEF Counted
<1>1. \A w : TotalFor(files, w, c) \in Int /\ TotalFor(files, w, "tp") \in Int
  BY <1>0, RowsGiveTotal
<1>2. p \in [W -> Int] /\ t \in [W -> Int] /\ d \in [W -> Int]
  BY <1>1
<1>3. IsPlus(W, p, d, t)
  BY <1>1, <1>2 DEF IsPlus
<1>4. SumOf(p) = TotalOf(files, c) /\ SumOf(t) = TotalOf(files, "tp")
  BY <1>0, RowsGiveTotal
<1>5. s = SumOf(d)
  OBVIOUS
<1> HIDE DEF W, p, t, d
<1>6. SumOf(p) = SumOf(d) + SumOf(t)
  BY <1>0, <1>3, SumPlus
<1>7. SumOf(d) \in Int
  BY <1>0, <1>2, SumWhole, Zenon
<1> QED
  BY <1>4, <1>5, <1>6, <1>7

LEMMA MetricsAddUp ==
  ASSUME NEW files, IsFiniteSet(DOMAIN files), \A n \in DOMAIN files : FileIs(files[n])
  PROVE  AddsUp(BuildMetrics(files))
<1>1. PICK m : m = BuildMetrics(files)
  OBVIOUS
<1> DEFINE W == Words(files)
<1>2. /\ DOMAIN m.perKeyword = W
      /\ m.summary.fp = SumOf([n \in DOMAIN files |-> files[n].fp])
      /\ m.summary.fn = SumOf([n \in DOMAIN files |-> files[n].fn])
      /\ \A c \in Counted : m.summary.counts[c] = TotalOf(files, c)
      /\ \A w \in W :
           /\ \A c \in Counted : m.perKeyword[w].counts[c] = TotalFor(files, w, c)
           /\ m.perKeyword[w].fp = TotalFor(files, w, "predictions") - TotalFor(files, w, "tp")
           /\ m.perKeyword[w].fn = TotalFor(files, w, "expected") - TotalFor(files, w, "tp")
  BY <1>1, MetricsAre
<1>c. /\ "predictions" \in Counted /\ "tp" \in Counted /\ "expected" \in Counted
      /\ "wrong" \in Counted /\ "repeats" \in Counted
  BY DEF Counted
<1>3. ASSUME NEW c \in Counted
      PROVE  SumOf([w \in DOMAIN m.perKeyword |-> m.perKeyword[w].counts[c]]) = m.summary.counts[c]
  <2>1. [w \in DOMAIN m.perKeyword |-> m.perKeyword[w].counts[c]] = [w \in W |-> TotalFor(files, w, c)]
    BY <1>2
  <2> QED
    BY <1>2, <2>1, RowsGiveTotal
<1>t. TotalOf(files, "tp") \in Int
  BY <1>c, RowsGiveTotal
<1>4. SumOf([w \in DOMAIN m.perKeyword |-> m.perKeyword[w].fp]) = m.summary.fp
  <2>1. PICK s : s = SumOf([w \in W |-> TotalFor(files, w, "predictions") - TotalFor(files, w, "tp")])
    OBVIOUS
  <2>2. s \in Int /\ TotalOf(files, "predictions") = s + TotalOf(files, "tp")
    BY <1>c, <2>1, RowsLeftOver
  <2>3. /\ m.summary.fp \in Int
        /\ TotalOf(files, "predictions") = m.summary.fp + TotalOf(files, "tp")
    BY <1>2, LeftOver
  <2>4. [w \in DOMAIN m.perKeyword |-> m.perKeyword[w].fp]
          = [w \in W |-> TotalFor(files, w, "predictions") - TotalFor(files, w, "tp")]
    BY <1>2
  <2>5. s = m.summary.fp
    <3>1. \A a, b, t \in Int : a + t = b + t => a = b
      OBVIOUS
    <3>2. s + TotalOf(files, "tp") = m.summary.fp + TotalOf(files, "tp")
      BY <2>2, <2>3
    <3> QED
      BY <1>t, <2>2, <2>3, <3>1, <3>2, Zenon
  <2> QED
    BY <2>1, <2>4, <2>5
<1>5. SumOf([w \in DOMAIN m.perKeyword |-> m.perKeyword[w].fn]) = m.summary.fn
  <2>1. PICK s : s = SumOf([w \in W |-> TotalFor(files, w, "expected") - TotalFor(files, w, "tp")])
    OBVIOUS
  <2>2. s \in Int /\ TotalOf(files, "expected") = s + TotalOf(files, "tp")
    BY <1>c, <2>1, RowsLeftOver
  <2>3. /\ m.summary.fn \in Int
        /\ TotalOf(files, "expected") = m.summary.fn + TotalOf(files, "tp")
    BY <1>2, LeftOver
  <2>4. [w \in DOMAIN m.perKeyword |-> m.perKeyword[w].fn]
          = [w \in W |-> TotalFor(files, w, "expected") - TotalFor(files, w, "tp")]
    BY <1>2
  <2>5. s = m.summary.fn
    <3>1. \A a, b, t \in Int : a + t = b + t => a = b
      OBVIOUS
    <3>2. s + TotalOf(files, "tp") = m.summary.fn + TotalOf(files, "tp")
      BY <2>2, <2>3
    <3> QED
      BY <1>t, <2>2, <2>3, <3>1, <3>2, Zenon
  <2> QED
    BY <2>1, <2>4, <2>5
<1>6. ASSUME NEW w \in DOMAIN m.perKeyword
      PROVE  /\ m.perKeyword[w].counts["wrong"] + m.perKeyword[w].counts["repeats"] =< m.perKeyword[w].fp
             /\ m.perKeyword[w].fn >= 0
  <2>1. /\ m.perKeyword[w].counts["wrong"] = TotalFor(files, w, "wrong")
        /\ m.perKeyword[w].counts["repeats"] = TotalFor(files, w, "repeats")
        /\ m.perKeyword[w].fp = TotalFor(files, w, "predictions") - TotalFor(files, w, "tp")
        /\ m.perKeyword[w].fn = TotalFor(files, w, "expected") - TotalFor(files, w, "tp")
    BY <1>2, <1>c
  <2> QED
    BY <2>1, RowsAreSound
<1> QED
  BY <1>1, <1>3, <1>4, <1>5, <1>6 DEF AddsUp


\* What has been scored is of a clip of a valid manifest; what is reported is of that.
FileReports ==
  UNION {UNION {{ScoreFile(m[k], h) : k \in DOMAIN m} : m \in {x \in Manifest : Valid(x)}} : h \in Heard}
EvaluationInv ==
  /\ manifest \in Manifest
  /\ stage \in {"clips", "reported"} => Valid(manifest)
  /\ scores \in Seq(FileReports)
  /\ stage = "reported" => metrics = BuildMetrics(scores)

LEMMA FileReportsAre ==
  ASSUME NEW f \in FileReports
  PROVE  FileIs(f)
<1>1. PICK h \in Heard : f \in UNION {{ScoreFile(m[k], h) : k \in DOMAIN m} : m \in {x \in Manifest : Valid(x)}}
  BY DEF FileReports
<1>2. PICK m \in Manifest : Valid(m) /\ f \in {ScoreFile(m[k], h) : k \in DOMAIN m}
  BY <1>1
<1>3. PICK k \in DOMAIN m : f = ScoreFile(m[k], h)
  BY <1>2
<1>4. m \in Seq([id : Nat, length : Nat, expected : Seq(Event)]) /\ h \in Seq(Prediction)
  BY EvaluationAssumption
<1>5. m[k] \in [id : Nat, length : Nat, expected : Seq(Event)]
  BY <1>4, LenProperties, ElementOfSeq
<1>6. m[k].expected \in Seq(Event) /\ InTimeOrder(m[k].expected)
  BY <1>2, <1>5 DEF Valid
<1>7. \A i \in DOMAIN m[k].expected :
        m[k].expected[i].start = Untimed <=> m[k].expected[i].end = Untimed
  BY <1>2 DEF Valid, ValidEvent
<1>8. Clean([expected |-> m[k].expected, predictions |-> h])
  BY <1>4, <1>6, <1>7 DEF Clean
<1> QED
  BY <1>3, <1>8, ScoreIs

LEMMA EvaluationHolds == EvaluationSpec => []EvaluationInv
<1>1. EvaluationInit => EvaluationInv
  BY DEF EvaluationInit, EvaluationInv
<1>2. EvaluationInv /\ [EvaluationStep]_evaluationVars => EvaluationInv'
  <2> SUFFICES ASSUME EvaluationInv, [EvaluationStep]_evaluationVars PROVE EvaluationInv'
    OBVIOUS
  <2>1. CASE LoadManifest
    BY <2>1 DEF LoadManifest, EvaluationInv
  <2>2. CASE Breaks
    BY <2>2 DEF Breaks, EvaluationInv
  <2>3. CASE Evaluate
    <3>1. PICK predicted \in Heard : scores' = Append(scores, ScoreFile(manifest[Len(scores) + 1], predicted))
      BY <2>3 DEF Evaluate
    <3>2. /\ stage = "clips" /\ stage' = stage /\ manifest' = manifest /\ Valid(manifest)
          /\ manifest \in Manifest /\ scores \in Seq(FileReports) /\ Len(scores) < Len(manifest)
      BY <2>3 DEF Evaluate, EvaluationInv
    <3>3. manifest \in Seq([id : Nat, length : Nat, expected : Seq(Event)])
      BY <3>2, EvaluationAssumption
    <3>4. Len(scores) + 1 \in DOMAIN manifest
      BY <3>2, <3>3, LenProperties
    <3>5. ScoreFile(manifest[Len(scores) + 1], predicted) \in FileReports
      BY <3>2, <3>4 DEF FileReports
    <3>6. scores' \in Seq(FileReports)
      BY <3>1, <3>2, <3>5, AppendProperties
    <3> QED
      BY <3>2, <3>6 DEF EvaluationInv
  <2>4. CASE Report
    BY <2>4 DEF Report, EvaluationInv
  <2>5. CASE UNCHANGED evaluationVars
    BY <2>5 DEF EvaluationInv, evaluationVars
  <2> QED
    BY <2>1, <2>2, <2>3, <2>4, <2>5 DEF EvaluationStep
<1> QED
  BY <1>1, <1>2, PTL DEF EvaluationSpec

\* What is reported is true of the clips, for any manifest, anything heard, any words and
\* any windows.
THEOREM ReportIsTrue == EvaluationSpec => []ReportTrue
<1>1. EvaluationInv => ReportTrue
  <2> SUFFICES ASSUME EvaluationInv PROVE ReportTrue
    OBVIOUS
  <2>1. scores \in Seq(FileReports) /\ DOMAIN scores = 1 .. Len(scores) /\ Len(scores) \in Nat
    BY LenProperties DEF EvaluationInv
  <2>2. IsFiniteSet(DOMAIN scores)
    BY <2>1, FS_Interval
  <2>3. \A n \in DOMAIN scores : FileIs(scores[n])
    BY <2>1, ElementOfSeq, FileReportsAre
  <2>4. AlignmentBest
    BY <2>3 DEF AlignmentBest, FileIs
  <2>5. ReportAddsUp
    <3>1. ASSUME stage = "reported" PROVE metrics = BuildMetrics(scores) /\ AddsUp(metrics)
      BY <2>2, <2>3, <3>1, MetricsAddUp DEF EvaluationInv
    <3> QED
      BY <3>1 DEF ReportAddsUp, AddsUp
  <2> QED
    BY <2>4, <2>5 DEF ReportTrue
<1> QED
  BY <1>1, EvaluationHolds, PTL
=============================================================================
