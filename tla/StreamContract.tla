--------------------------- MODULE StreamContract ---------------------------
(***************************************************************************)
(* What every engine promises of a stream, wherever the recognition runs:  *)
(* the verdicts delivered so far rest on the first pieces of its audio,    *)
(* each once and in order; a finished stream has been judged to the end,   *)
(* unless a remote recogniser ended before it; after an error nothing more *)
(* is delivered.                                                           *)
(*                                                                         *)
(* A piece is a frame for the engines that judge frame by frame and an     *)
(* utterance or a final segment for the remote ones.                       *)
(***************************************************************************)
EXTENDS Integers, Sequences

CONSTANT Stream

VARIABLES
  phase,   \* "new", "open", "finished", "failed" or "closed"
  given,   \* the pieces of its audio the caller has handed over
  judged,  \* the pieces its verdicts rest on, as the recogniser saw them
  cutShort \* a remote recogniser ended its session of its own accord

vars == <<phase, given, judged, cutShort>>

UpTo(n) == [i \in 1 .. n |-> i]

Init ==
  /\ phase = [s \in Stream |-> "new"]
  /\ given = [s \in Stream |-> 0]
  /\ judged = [s \in Stream |-> <<>>]
  /\ cutShort = FALSE

Give(s) ==
  /\ phase[s] \in {"new", "open"}
  /\ phase' = [phase EXCEPT ![s] = "open"]
  /\ \E n \in given[s] .. given[s] + 2 : given' = [given EXCEPT ![s] = n]
  /\ UNCHANGED <<judged, cutShort>>

Judge(s) ==
  /\ phase[s] = "open"
  /\ \E n \in Len(judged[s]) .. given[s] : judged' = [judged EXCEPT ![s] = UpTo(n)]
  /\ UNCHANGED <<phase, given, cutShort>>

Finish(s) ==
  /\ phase[s] = "open"
  /\ \E n \in Len(judged[s]) .. given[s] :
       /\ n = given[s] \/ cutShort
       /\ judged' = [judged EXCEPT ![s] = UpTo(n)]
  /\ phase' = [phase EXCEPT ![s] = "finished"]
  /\ UNCHANGED <<given, cutShort>>

Fail(s) ==
  /\ phase[s] = "open"
  /\ phase' = [phase EXCEPT ![s] = "failed"]
  /\ UNCHANGED <<given, judged, cutShort>>

Close(s) ==
  /\ phase' = [phase EXCEPT ![s] = "closed"]
  /\ given' = [given EXCEPT ![s] = 0] /\ judged' = [judged EXCEPT ![s] = <<>>]
  /\ UNCHANGED cutShort

Cut ==
  /\ cutShort' = TRUE
  /\ UNCHANGED <<phase, given, judged>>

Next == Cut \/ \E s \in Stream : Give(s) \/ Judge(s) \/ Finish(s) \/ Fail(s) \/ Close(s)

Spec == Init /\ [][Next]_vars
=============================================================================
