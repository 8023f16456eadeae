---------------------------- MODULE CaptureLease ----------------------------
(***************************************************************************)
(* What the daemon promises to the programs that play sound next to it:    *)
(* while a program owns an acknowledged pause, the microphone is closed,   *)
(* and nobody but the owner takes that pause away.  The manual pause of    *)
(* `omawake pause` and the owned pauses are independent, and the           *)
(* microphone opens only when neither kind is in force.                    *)
(*                                                                         *)
(* This is the contract of docs/PLAYBACK-OWNERSHIP.md; Daemon implements   *)
(* it.                                                                     *)
(***************************************************************************)
CONSTANT Owner      \* the programs that may hold a pause

VARIABLES
  mic,              \* the microphone is open
  manual,           \* the manual pause is in force
  owners            \* programs holding an acknowledged pause

leaseVars == <<mic, manual, owners>>

Init ==
  /\ mic = FALSE
  /\ manual = FALSE
  /\ owners = {}

\* The microphone opens only when no pause of either kind is in force.
OpenMic ==
  /\ ~mic /\ ~manual /\ owners = {}
  /\ mic' = TRUE
  /\ UNCHANGED <<manual, owners>>

CloseMic ==
  /\ mic' = FALSE
  /\ UNCHANGED <<manual, owners>>

\* Pauses are granted, to several programs at once perhaps, on a closed microphone.
Grant ==
  /\ ~mic
  /\ owners' \in SUBSET Owner
  /\ owners \subseteq owners'
  /\ UNCHANGED <<mic, manual>>

\* An owner leaves: it closed its connection, or broke its protocol.
Leave ==
  /\ owners' \in SUBSET owners
  /\ UNCHANGED <<mic, manual>>

\* The manual switch is independent of the owners.
Switch ==
  /\ manual' \in BOOLEAN
  /\ UNCHANGED <<mic, owners>>

\* The daemon stops: every pause ends with it, and so does the capture.
Stop ==
  /\ mic' = FALSE
  /\ manual' = FALSE
  /\ owners' = {}

Next == OpenMic \/ CloseMic \/ Grant \/ Leave \/ Switch \/ Stop

Spec == Init /\ [][Next]_leaseVars
=============================================================================
