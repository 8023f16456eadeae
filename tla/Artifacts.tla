----------------------------- MODULE Artifacts -----------------------------
(***************************************************************************)
(* What the commands of Omawake leave on the disk: a setup, the history of *)
(* detections, an enrollment.  They share no file but the configuration, of*)
(* which each scene has its own; Init chooses the scene.                   *)
(***************************************************************************)
EXTENDS Setup, Training, TLC

VARIABLE scene

vars == <<setupVars, enrollmentVars, scene>>

Init ==
  /\ scene \in {"setup", "history", "assistance", "recorded", "edited"}
  /\ SetupInit /\ TrainingInit
  /\ scene # "setup" => config = "none" /\ service = "down" /\ target = "none" /\ ~object
  /\ scene # "assistance" => release = {}
  /\ newest = (IF scene \in {"setup", "assistance"} THEN 0 ELSE MaxEvents)
  /\ scene \in {"recorded", "edited"} => reviewed \subseteq {1}

\* Bounds: beside the last enrollment command, where it looks at a full history, room is
\* made for one more detection and the oldest is labelled; the command before it is an
\* onboarding.  Edits and removals by the user, and Omaspeak, have a scene each, the
\* first without the history.
Looking ==
  \/ job.pc = "choose" /\ job.mode = "file"
  \/ job.pc \in {"history", "merge", "assist", "import"} /\ (job.feedback \/ job.mode \in Guided)
Beside ==
  /\ command = MaxCommands /\ Looking /\ ~clearing' /\ marking'.id \in {0, 1}
  /\ newest' = newest /\ Cardinality({r \in Recorder : rec'[r].pc # "idle"}) <= 1

Next ==
  \/ scene = "setup" /\ SetupNext /\ UNCHANGED <<enrollmentVars, scene>>
  \/ /\ scene \in {"history", "recorded"}
     /\ (\E r \in Recorder : Record(r)) \/ Commands
     /\ scene = "recorded" => Beside
     /\ UNCHANGED <<assistanceVars, trainingVars, setupVars, scene>>
  \/ /\ scene \in {"assistance", "recorded", "edited"} /\ CommandStep
     /\ scene # "assistance" => ~job'.aided
     /\ scene = "recorded" => job'.mode \in (IF command' = 1 THEN {"fresh"} ELSE Mode \ {"spellings"})
     /\ scene = "edited" => ~job'.feedback
     /\ UNCHANGED <<setupVars, scene>>
  \/ scene = "edited" /\ UserStep /\ UNCHANGED <<setupVars, scene>>

Spec == Init /\ [][Next]_vars

\* The processes, and the voices, are alike.
Symmetry == Permutations(Installer) \cup Permutations(Recorder) \cup Permutations(Voice)
=============================================================================
