------------------------------ MODULE Training ------------------------------
(***************************************************************************)
(* Enrollment: guided onboarding (fresh or from a saved session), `train`  *)
(* from a dataset file or the newest saved session, and onboarding by      *)
(* spellings, one command after another, each of which may be killed.  In  *)
(* the meantime the user edits the configuration and removes recordings,   *)
(* and the daemon records, and the user labels, detections.                *)
(***************************************************************************)
EXTENDS History, Assistance, Sequences

CONSTANTS
  MaxCommands,   \* bound: the enrollment commands
  MaxChanges     \* bound: the edits of the configuration

Mode == {"fresh", "resume", "reuse", "file", "spellings"}
Guided == {"fresh", "resume"}

VARIABLES
  command,    \* the last command begun
  job,        \* what it is doing
  conf,       \* the configuration: its edits, and the dataset of the active head
  heads,      \* the head files, by the dataset they were trained on
  sessions,   \* the retained sessions, in their order
  copies,     \* the commands whose private copies are in the cache
  reported,   \* the sessions whose manifest the user was told of
  killed      \* the commands that were killed and left theirs

trainingVars == <<command, job, conf, heads, sessions, copies, reported, killed>>
enrollmentVars == <<historyVars, assistanceVars, trainingVars>>

\* A clip is known by its samples: a split of a command's recordings, a detection,
\* the synthetic clips of a command.
Recorded(split, n) == <<split, n>>
Dataset(n) == [training    |-> {Recorded("training", n)},
               calibration |-> {Recorded("calibration", n)},
               validation  |-> {Recorded("validation", n)}]
NoDataset == [training |-> {}, calibration |-> {}, validation |-> {}]
Part == [state |-> "part", data |-> NoDataset]
Gone == [state |-> "gone", data |-> NoDataset]
Held(d) == d.calibration \cup d.validation
Disjoint(d) == d.training \cap Held(d) = {} /\ d.calibration \cap d.validation = {}

NoJob == [pc |-> "idle", mode |-> "fresh", keep |-> FALSE, feedback |-> FALSE, aided |-> FALSE,
          data |-> NoDataset, from |-> 0, merged |-> {}, base |-> 0, seen |-> 0, kept |-> 0]

TrainingInit ==
  /\ HistoryInit /\ AssistanceInit
  /\ command = 0 /\ job = NoJob
  /\ conf = [edits |-> 0, head |-> NoDataset]
  /\ heads = [whole |-> {}, torn |-> {}]
  /\ sessions = <<>> /\ copies = {} /\ reported = {} /\ killed = {}

To(from, to) == job.pc = from /\ job' = [job EXCEPT !.pc = to]
Labelled == {i \in Events : i \in reviewed}
\* The manifest of a session of spellings is none of a dataset: Dataset::load skips it.
Loadable(states) == {s \in DOMAIN sessions : sessions[s].state \in states /\ sessions[s].data # NoDataset}
Newest == {s \in Loadable({"whole"}) : \A t \in Loadable({"whole"}) : t <= s}

-----------------------------------------------------------------------------
\* The configuration is loaded, then its bytes are kept for the comparison.
BeginCommand ==
  /\ job.pc = "idle" /\ command < MaxCommands
  /\ command' = command + 1
  /\ \E m \in Mode, keep, feedback, aided \in BOOLEAN :
       /\ feedback => m \in {"reuse", "file"}
       /\ aided => m \in Guided
       /\ job' = [NoJob EXCEPT !.pc = "loaded", !.mode = m, !.keep = keep,
                     !.feedback = feedback, !.aided = aided, !.base = conf.edits]
  /\ UNCHANGED <<historyVars, assistanceVars, conf, heads, sessions, copies, reported, killed>>

Snapshot ==
  /\ job.pc = "loaded"
  /\ job' = [job EXCEPT !.pc = IF job.aided THEN "prepare" ELSE "choose", !.seen = conf.edits]
  /\ UNCHANGED <<historyVars, assistanceVars, command, conf, heads, sessions, copies, reported, killed>>

\* Assistance is prepared before anything is recorded.
BeginAid ==
  /\ job.pc = "prepare" /\ AidTo("off", "prepare")
  /\ UNCHANGED <<historyVars, release, left, voice, text, heard, played, clips, trainingVars>>

Aid ==
  /\ job.pc \in {"prepare", "augment"} /\ AssistanceStep
  /\ UNCHANGED <<historyVars, trainingVars>>

Aided ==
  /\ job.pc = "prepare" /\ aid \in {"ready", "human only", "cancelled"}
  /\ job' = [job EXCEPT !.pc = IF aid = "cancelled" THEN "fail" ELSE "choose",
                        !.aided = aid = "ready"]
  /\ aid' = "off" /\ UNCHANGED <<release, left, voice, text, heard, played, clips>>
  /\ UNCHANGED <<historyVars, command, conf, heads, sessions, copies, reported, killed>>

\* A session to go on with: its evaluation is replaced.
Resumed ==
  {[data |-> [Dataset(command) EXCEPT !.training = old \cup sessions[s].data.training], from |-> s] :
     s \in Loadable({"whole", "lacking"}),
     old \in {{}, {Recorded("training", command)}}}

\* A file of the user's, which may name a clip of the history.
FromFile ==
  {[data |-> [Dataset(command) EXCEPT !.validation = @ \cup clip], from |-> 0] :
     clip \in {{}} \cup {{<<"event", i>>} : i \in Events}}

\* The recordings of a new enrollment, divided by their order, or the newest whole session.
Chosen ==
  CASE job.mode \in {"fresh", "spellings"} -> {[data |-> Dataset(command), from |-> 0]}
    [] job.mode = "resume" -> Resumed
    [] job.mode = "reuse" -> {[data |-> sessions[s].data, from |-> s] : s \in Newest}
    [] OTHER -> FromFile

Collect ==
  /\ job.pc = "choose"
  /\ \E c \in Chosen :
       job' = [job EXCEPT !.pc = IF job.mode = "spellings" THEN "confirm"
                                 ELSE IF job.mode \in Guided THEN "history" ELSE "merge",
                          !.data = c.data, !.from = c.from]
  /\ copies' = copies \cup (IF job.mode \in {"reuse", "file"} THEN {} ELSE {command})
  /\ UNCHANGED <<historyVars, assistanceVars, command, conf, heads, sessions, reported, killed>>

\* The labelled detections are counted before anything is kept; to use them is to keep.
AskForHistory ==
  /\ job.pc = "history" /\ Readable
  /\ \E use \in BOOLEAN, keep \in {TRUE, job.keep} :
       /\ use => Labelled # {} /\ keep
       /\ job' = [job EXCEPT !.pc = "merge", !.feedback = use, !.keep = keep]
  /\ UNCHANGED <<historyVars, assistanceVars, command, conf, heads, sessions, copies, reported, killed>>

\* Recordings may have been removed.
Present == job.from # 0 => sessions[job.from].state = "whole"

\* merge_feedback reads every clip.
Merge ==
  /\ job.pc = "merge"
  /\ LET found == {<<"event", i>> : i \in Labelled}
         mergeable == Readable /\ Present /\ found \cap Held(job.data) = {} IN
     job' = IF ~job.feedback THEN [job EXCEPT !.pc = "assist"]
            ELSE IF mergeable
              THEN [job EXCEPT !.pc = "assist", !.data.training = @ \cup found, !.merged = Labelled]
            ELSE [job EXCEPT !.pc = IF job.mode \in Guided THEN "rescue" ELSE "fail"]
  /\ UNCHANGED <<historyVars, assistanceVars, command, conf, heads, sessions, copies, reported, killed>>

\* The clips are read again: detections may have been evicted.
Importable == Present /\ \A i \in job.merged : "audio" \in has[i]

\* retain makes a directory, fills it and writes its manifest; a failure removes it.
Retaining(from, to) ==
  /\ To(from, to)
  /\ Importable
  /\ sessions' = Append(sessions, Part)
  /\ UNCHANGED <<historyVars, assistanceVars, command, conf, heads, copies, reported, killed>>

Retained(from, to) ==
  /\ job.pc = from
  /\ job' = [job EXCEPT !.pc = to, !.kept = IF job.mode = "spellings" THEN Len(sessions) ELSE 0]
  /\ sessions' = [sessions EXCEPT ![Len(sessions)] =
       [state |-> "whole", data |-> IF job.mode = "spellings" THEN NoDataset ELSE job.data]]
  /\ reported' = reported \cup {Len(sessions)}
  /\ UNCHANGED <<historyVars, assistanceVars, command, conf, heads, copies, killed>>

NotRetained(from) ==
  /\ To(from, "fail")
  /\ sessions' = [sessions EXCEPT ![Len(sessions)] = Gone]
  /\ UNCHANGED <<historyVars, assistanceVars, command, conf, heads, copies, reported, killed>>

\* The history was of no use: "kept your human dataset".
Rescue ==
  \/ job.keep /\ Retaining("rescue", "rescuing")
  \/ Retained("rescuing", "fail")
  \/ NotRetained("rescuing")

\* Omaspeak is wanted: a checkpoint first, if recordings are kept.
Checkpoint ==
  \/ job.keep /\ job.aided /\ Retaining("assist", "checkpoint")
  \/ Retained("checkpoint", "augment")
  \/ NotRetained("checkpoint")

Unaided ==
  /\ ~job.aided /\ To("assist", "import")
  /\ UNCHANGED <<historyVars, assistanceVars, command, conf, heads, sessions, copies, reported, killed>>

BeginAugment ==
  /\ \/ ~job.keep /\ job.aided /\ To("assist", "augment") /\ AidTo("off", "augment")
     \/ job.pc = "augment" /\ AidTo("off", "augment") /\ UNCHANGED job
  /\ UNCHANGED <<historyVars, release, left, voice, text, heard, played, clips>>
  /\ UNCHANGED <<command, conf, heads, sessions, copies, reported, killed>>

EndAid ==
  /\ aid' = "off" /\ UNCHANGED release
  /\ left' = {} /\ voice' = NoVoice /\ text' = 0 /\ heard' = FALSE
  /\ played' = {} /\ clips' = {}

Augment ==
  /\ aid = "augmented" /\ EndAid
  /\ job.pc = "augment"
  /\ job' = [job EXCEPT !.pc = "import", !.data.training = @ \cup {<<"made", command>>}]
  /\ UNCHANGED <<historyVars, command, conf, heads, sessions, copies, reported, killed>>

\* "Continue with the original human dataset?"
Unaugmented ==
  /\ aid = "failed" /\ EndAid
  /\ To("augment", "import") \/ To("augment", "fail")
  /\ UNCHANGED <<historyVars, command, conf, heads, sessions, copies, reported, killed>>

-----------------------------------------------------------------------------
(* run_reviewed *)

Import ==
  /\ job.pc = "import" /\ Importable
  /\ job' = [job EXCEPT !.pc = "keep", !.from = 0, !.merged = {}, !.feedback = FALSE]
  /\ copies' = copies \cup {command}
  /\ UNCHANGED <<historyVars, assistanceVars, command, conf, heads, sessions, reported, killed>>

Keep ==
  \/ /\ job.keep /\ job.pc = "keep"
     /\ job' = [job EXCEPT !.pc = "keeping"]
     /\ sessions' = Append(sessions, Part)
     /\ UNCHANGED <<historyVars, assistanceVars, command, conf, heads, copies, reported, killed>>
  \/ Retained("keeping", "train")
  \/ NotRetained("keeping")

KeepNothing ==
  /\ ~job.keep /\ To("keep", "train")
  /\ UNCHANGED <<historyVars, assistanceVars, command, conf, heads, sessions, copies, reported, killed>>

\* Head::train and validate_held_out compare the fingerprints of all splits.
Train ==
  /\ To("train", "review")
  /\ Disjoint(job.data)
  /\ UNCHANGED <<historyVars, assistanceVars, command, conf, heads, sessions, copies, reported, killed>>

\* The user applies, nothing has cancelled the command, and the configuration is
\* the one that was loaded.
CheckConfig ==
  /\ job.pc \in {"review", "confirm"} /\ conf.edits = job.seen
  /\ job' = [job EXCEPT !.pc = IF job.pc = "review" THEN "install"
                               ELSE IF job.keep THEN "retain" ELSE "save"]
  /\ UNCHANGED <<historyVars, assistanceVars, command, conf, heads, sessions, copies, reported, killed>>

\* A slip: a head that is there is not read again.
InstallAnyHead ==
  /\ \/ /\ job.data \in heads.whole \cup heads.torn /\ To("install", "save") /\ UNCHANGED heads
     \/ /\ job.data \notin heads.whole \cup heads.torn
        /\ To("install", "write") /\ heads' = [heads EXCEPT !.torn = @ \cup {job.data}]
  /\ UNCHANGED <<historyVars, assistanceVars, command, conf, sessions, copies, reported, killed>>

\* "Existing content must match exactly; a interrupted write is an error"
InstallHead ==
  /\ \/ /\ job.data \in heads.whole /\ To("install", "save") /\ UNCHANGED heads
     \/ /\ job.data \in heads.torn /\ To("install", "fail") /\ UNCHANGED heads
     \/ /\ job.data \notin heads.whole \cup heads.torn
        /\ To("install", "write") /\ heads' = [heads EXCEPT !.torn = @ \cup {job.data}]
  /\ UNCHANGED <<historyVars, assistanceVars, command, conf, sessions, copies, reported, killed>>

WriteHead ==
  /\ \/ /\ To("write", "save")
        /\ heads' = [whole |-> heads.whole \cup {job.data}, torn |-> heads.torn \ {job.data}]
     \/ /\ To("write", "fail")
        /\ heads' = [heads EXCEPT !.torn = @ \ {job.data}]
  /\ UNCHANGED <<historyVars, assistanceVars, command, conf, sessions, copies, reported, killed>>

RetainSpellings ==
  \/ Retaining("retain", "retaining")
  \/ Retained("retaining", "save")
  \/ NotRetained("retaining")

\* save_and_reload_active, or its rollback; a session of spellings goes with it.
Save ==
  /\ job.pc = "save"
  /\ \/ /\ job' = [job EXCEPT !.pc = "end"]
        /\ conf' = [edits |-> job.base,
                    head |-> IF job.mode = "spellings" THEN NoDataset ELSE job.data]
        /\ UNCHANGED <<sessions, reported>>
     \/ /\ job' = [job EXCEPT !.pc = "fail"]
        /\ UNCHANGED conf
        /\ IF job.mode = "spellings" /\ job.kept # 0
             THEN /\ sessions' = [sessions EXCEPT ![job.kept] = Gone]
                  /\ reported' = reported \ {job.kept}
             ELSE UNCHANGED <<sessions, reported>>
  /\ UNCHANGED <<historyVars, assistanceVars, command, heads, copies, killed>>

\* An error of any step, a refused confirmation or a signal that is seen.
Fail ==
  /\ job.pc \in {"choose", "history", "merge", "rescue", "assist", "import", "train", "review", "confirm", "retain"}
  /\ job' = [job EXCEPT !.pc = "fail"]
  /\ UNCHANGED <<historyVars, assistanceVars, command, conf, heads, sessions, copies, reported, killed>>

\* A slip: a training that fails takes its retained session with it.
EndByUndoing ==
  /\ job.pc \in {"end", "fail"}
  /\ job' = NoJob /\ copies' = copies \ {command}
  /\ sessions' = IF job.pc = "end" \/ sessions = <<>> THEN sessions
                 ELSE [sessions EXCEPT ![Len(sessions)] = Gone]
  /\ UNCHANGED <<historyVars, assistanceVars, command, conf, heads, reported, killed>>

\* The sample sets are dropped.
EndCommand ==
  /\ job.pc \in {"end", "fail"}
  /\ job' = NoJob /\ copies' = copies \ {command}
  /\ UNCHANGED <<historyVars, assistanceVars, command, conf, heads, sessions, reported, killed>>

KillCommand ==
  /\ job.pc # "idle"
  /\ job' = NoJob /\ killed' = killed \cup (copies \cap {command})
  /\ EndAid
  /\ UNCHANGED <<historyVars, command, conf, heads, sessions, copies, reported>>

-----------------------------------------------------------------------------
EditConf ==
  /\ conf.edits < MaxChanges
  /\ conf' = [conf EXCEPT !.edits = @ + 1]
  /\ UNCHANGED <<historyVars, assistanceVars, command, job, heads, sessions, copies, reported, killed>>

\* remove_recordings takes one file after the other.
RemoveRecordings ==
  /\ \E s \in DOMAIN sessions :
       /\ sessions[s].state # "gone" /\ (job.pc \in {"rescuing", "checkpoint", "keeping", "retaining"} => s # Len(sessions))
       /\ sessions' = [sessions EXCEPT ![s] = IF @.state = "whole" THEN [@ EXCEPT !.state = "lacking"] ELSE Gone]
       /\ reported' = reported \ {s}
  /\ UNCHANGED <<historyVars, assistanceVars, command, job, conf, heads, copies, killed>>

CommandStep ==
  \/ BeginCommand \/ Snapshot \/ Collect \/ AskForHistory \/ Merge \/ Rescue
  \/ Checkpoint \/ Unaided \/ BeginAid \/ Aid \/ Aided \/ BeginAugment \/ Augment \/ Unaugmented
  \/ Import \/ Keep \/ KeepNothing \/ Train \/ CheckConfig \/ InstallHead \/ WriteHead
  \/ RetainSpellings \/ Save \/ Fail \/ EndCommand \/ KillCommand

UserStep == EditConf \/ RemoveRecordings

\* Enrollment beside the history.
EnrollmentNext ==
  \/ ((\E r \in Recorder : Record(r)) \/ Commands) /\ UNCHANGED <<assistanceVars, trainingVars>>
  \/ CommandStep \/ UserStep

EnrollmentSpec == TrainingInit /\ [][EnrollmentNext]_enrollmentVars

-----------------------------------------------------------------------------
\* The active head is a file that was written to its end, and its calibration and
\* its held-out clips are none of those it was trained on: through labels and
\* evictions, resumed and reused sessions, failures, kills and a repeated training
\* (Head::train, validate_held_out, artifact::install).
HeadSound ==
  conf.head # NoDataset => conf.head \in heads.whole /\ Disjoint(conf.head)

\* What the user was told is kept stays whole until the user removes it, whatever
\* becomes of the training; and a command that was not killed leaves no private
\* copy of a recording behind (SampleSet::retain and drop).
RecordingsKept ==
  /\ \A s \in reported : sessions[s].state = "whole"
  /\ job.pc = "idle" => copies \subseteq killed
=============================================================================
