---------------------------- MODULE MCParts ---------------------------------
(***************************************************************************)
(* Parts that share no state, each for itself.  One thread alone drives the*)
(* buffer that cuts utterances, the evaluation of a detector, the commands *)
(* that edit the backend or the wake words, the setup in tabs and that of  *)
(* the service; in the part "edit" several commands and daemons meet.      *)
(***************************************************************************)
EXTENDS GuidedSetup, WordEdits, ServiceInstall, ConfigEdit, ActivityBuffer, Evaluation

VARIABLE part

-----------------------------------------------------------------------------
\* Clips with one event, with two that lie apart, within each other, or have no time,
\* with none, and with one that is longer than the clip; and what can be heard in them.
At(word, start, end) == [keyword |-> word, start |-> start, end |-> end]
Clip(id, events) == [id |-> id, length |-> 6, expected |-> events]
Clips == {<<At("a", 1, 2)>>, <<At("a", 1, 2), At("a", 3, 4)>>,
          <<At("a", 1, 4), At("a", 2, 3)>>, <<At("a", -1, -1)>>,
          <<At("a", 1, 2), At("b", 2, 3)>>, <<At("a", -1, -1), At("a", 2, 2)>>,
          <<>>, <<At("a", 5, 7)>>}
Manifests == {<<Clip(1, c)>> : c \in Clips}
               \cup {<<Clip(1, <<At("a", 1, 2)>>), Clip(2, <<>>)>>}
Hear == [keyword : {"a"}, end : 1 .. 4] \cup {[keyword |-> "b", end |-> 2], [keyword |-> "c", end |-> 3]}
Hearings == UNION {[1 .. n -> Hear] : n \in 0 .. 3}

\* Two models of audio.cpp, one of each other backend.
Catalog == <<"moonshine", "openvino-whisper", "whisper", "parakeet">>
Cataloged == {Catalog[i] : i \in DOMAIN Catalog}
Backends == [m \in Cataloged |->
  CASE m = "openvino-whisper" -> "openvino-genai" [] m = "whisper" -> "whispercpp" [] OTHER -> "audiocpp"]
Families == [m \in Cataloged |-> m]
Defaulted == [k \in {"audiocpp", "whispercpp", "openvino-genai"} |->
  CASE k = "openvino-genai" -> "openvino-whisper" [] k = "whispercpp" -> "whisper" [] OTHER -> "moonshine"]
Inventory == <<"default", "usb">>
\* bound: the screens and commands of the guided setup that save
MaxGuided == 2

vars == <<part, bufferVars, evaluationVars, guidedVars, wordVars, serviceVars, editVars>>

-----------------------------------------------------------------------------
\* The parts that are left alone rest in one of their states.
Init ==
  /\ part \in {"buffer", "evaluation", "backend", "guided", "words", "service", "edit"}
  /\ BufferInit /\ (part # "buffer" => engine = "audiocpp")
  /\ EvaluationInit /\ (part # "evaluation" => manifest = <<Clip(1, <<>>)>>)
  /\ GuidedInit
  /\ WordInit /\ (part # "words" => words = [i \in {"one"} |-> NewWord("x")])
  /\ ServiceInit
  /\ part # "service" =>
       unit = "old" /\ package = NoUnit /\ active = NoUnit /\ ~override /\ ~enabled /\ ~direct /\ conf = "whole"
  /\ EditInit /\ (part # "edit" => holder = Nobody)

Next ==
  /\ \/ part = "buffer" /\ BufferStep
        /\ UNCHANGED <<evaluationVars, guidedVars, wordVars, serviceVars, editVars>>
     \/ part = "evaluation" /\ EvaluationStep
        /\ UNCHANGED <<bufferVars, guidedVars, wordVars, serviceVars, editVars>>
     \/ part = "backend" /\ BackendStep /\ UNCHANGED <<screenVars, microphone>>
        /\ UNCHANGED <<bufferVars, evaluationVars, wordVars, serviceVars, editVars>>
     \/ part = "guided" /\ saves < MaxGuided /\ GuidedStep
        /\ UNCHANGED <<bufferVars, evaluationVars, wordVars, serviceVars, editVars>>
     \/ part = "words" /\ WordStep
        /\ UNCHANGED <<bufferVars, evaluationVars, guidedVars, serviceVars, editVars>>
     \/ part = "service" /\ ServiceStep
        /\ UNCHANGED <<bufferVars, evaluationVars, guidedVars, wordVars, editVars>>
     \/ part = "edit" /\ EditNext
        /\ UNCHANGED <<bufferVars, evaluationVars, guidedVars, wordVars, serviceVars>>
  /\ UNCHANGED part

Spec == Init /\ [][Next]_vars

-----------------------------------------------------------------------------
\* The properties are those of the modules that are extended: what an utterance holds
\* (UtteranceExact), what an evaluation reports (ReportTrue), what a setup saves
\* (ReviewedIsSaved), what the commands about one word keep of the others (WordsKept),
\* what a service setup that fails leaves (ServiceUndone), and of the edits of one file,
\* who can tear it and what one that succeeds or fails has left (WholeUnderReservation,
\* SavedIsRunning, FailedIsUndone).
=============================================================================
