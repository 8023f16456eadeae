# Omawake: a verification project

Omawake is a local wake-word daemon written in Rust (`src/src`).  It keeps the
microphone open, hands the audio to an inference engine in a worker process, and
starts a user's command when a phrase is heard.  A small control protocol on a
Unix socket pauses, resumes, inspects and stops it; other programs on the machine
hold a *pause* while they play sound.  Around the daemon is a set of commands that
install models and the service, edit the configuration, record a user's voice and
train a detector for it.

This directory holds TLA+ models of the parts of that program whose correctness
depends on order, concurrency, failure or limits, the TLC runs that check them on
small instances, and TLAPS proofs of what matters most for every instance.
`PROJECT.json` maps every definition to the lines it models, lists the runs, the
mutants that show each property can fail, the hazards the properties are for, and
the theorems.

## Inventory

| Part | Code | State it keeps | What is hard | Modelled by |
| --- | --- | --- | --- | --- |
| Daemon core | `app.rs` `run_daemon_state_machine`, `collect_armed_detections`, `retry_audio_cycle` | `paused`, `shutdown`, the `Capture` value, detections of the cycle | commands, signals, capture failures and detections meet in one thread that looks at each only at certain points | `Daemon` |
| Control protocol, pause ownership | `app/pause_ownership.rs`, `protocol.rs` | the manual pause, the holds and which of them were acknowledged | a hold is acknowledged by another poll than the one that read it; clients vanish in between | `Daemon`, `CaptureLease` |
| Socket, single instance | `daemon_instance.rs`, `app.rs` `bind_socket`, `connect_control_socket` | abstract names bound by the process, the path of the socket | several daemons and clients act on one path without a lock | `SocketLifecycle` |
| Engine routing | `engine/routing.rs` | one thread per engine group, two channels of one slot each, `active`, `failed` | answers that come after the deadline, threads that end, streams dropped half-way | `Routing` |
| Native workers | `engine/{audiocpp,openvino_genai,whisper}/mod.rs`, `engine/embedding_worker.rs`, `native_worker.rs` | the child process, its pipes, the active stream, the worker's recording | time limits kill the worker, a start is tried twice, answers of cancelled or replaced requests | `WorkerLink`, `AudioCppWorker`, `OpenVinoWorker`, `WhisperWorker`, `TrainedWorker` |
| Cloud transcription | `cloud.rs`, `cloud/realtime.rs` | two threads, bounded channels, a helper process, the segments of an utterance | joins of threads that may block, reordered and repeated segments, a provider that ends the session | `CloudQueue`, `CloudRealtime` |
| Activity buffers | `engine/*/ring.rs` | the idle frames, the running utterance, the cursor | pre-roll and post-roll across utterances, truncation at the limit | `ActivityBuffer` |
| Audio capture | `audio.rs`, `audio/*.rs` | the bounded queue, the reader and watcher threads, the recorder and its mutex | a full queue drops samples *and* errors; joins against blocked reads | `Capture`, `Detection` |
| Detector, actions, phrases | `engine.rs`, `phrase.rs`, `app.rs` | the compiled matcher, the action children and their reaper | overlapping phrases; zombies; the microphone must be closed while an action runs | `Detection`, `PhraseMatcher` |
| Config transaction | `app.rs` `save_and_reload_active`, `config.rs` | the file, the service, the reservation of the instance | editors, services and daemons started by hand act on one file; a failed restart is rolled back | `ConfigEdit` |
| Wake words and profiles | `app.rs` `word ...`, `app/training.rs`, `enrollment/mod.rs`, `config.rs` | the words, the named engine profiles, the default backend | a command about one word, or the default, must not change another word's recogniser | `WordEdits` |
| Backend choice, setup in tabs | `backend.rs`, `catalog.rs`, `app.rs`, `setup/tabbed.rs`, `cloud_cli.rs` | runtime, device, number, library, model; the picks of each page | each limits the others; keys go back and forth between pages | `BackendChoice`, `GuidedSetup` |
| Service setup | `setup/systemd.rs` | the unit, its enablement, the running service | every command may fail with or without effect, and is undone | `ServiceInstall` |
| Setup, models, caches | `setup/{mod,model,cache,install_guard,menu}.rs` | the lock, the download, the staging copy, the published model, the compiled cache, config, launcher | processes that are killed at any step, exchanges by two renames, a rollback in parts | `ModelInstall`, `CachePreparation`, `Setup` |
| Enrollment and history | `enrollment/*.rs`, `app/{onboarding,training,assisted,feedback}.rs` | recordings, retained sessions, heads, the bounded store of events | no lock on the history; long dialogues over files that change; kills | `History`, `Assistance`, `Training` |
| Evaluation | `evaluation.rs` | the scores and counts of a run | ties and repeats in an alignment; subtracting counts | `Evaluation` |
| Trained words | `engine/{trained,embedding}.rs` | the worker, the windows, the debounce | an exclusive stream that is dropped; numerical scores | `TrainedWorker`; the scores are not modelled |
| Catalog, hardware, runtime inventory, paths, menus | `catalog.rs`, `hardware.rs`, `runtime_inventory.rs`, `paths.rs`, `setup/wizard.rs`, ... | none that outlives a call | tables, probes of the machine, terminal I/O | in part by `BackendChoice`; else not modelled |

How they interact: the daemon core is one thread.  It polls the control socket
(pause ownership), receives audio from the capture's queue with a time limit of
50 ms, and calls the detector's session, which is either one engine or the routed
backend; each engine talks to a child process.  Clients, signals, the capture's
threads, the engines' threads and the supervisor (systemd) act at any time.  The
commands share files with the daemon and with each other: the configuration, the
installed models, the history of detections.

## The modules

Each module is one component.  Those that meet are composed: `Engines` runs each
engine under one caller; `Detection` extends the capture and the matcher with the
loop that uses them; `Setup` extends the installer and the cache; `Training`
extends the history and the assistance; `Artifacts` chooses among the commands
that leave files; `GuidedSetup` extends `BackendChoice`; `MCParts` brings
together the parts that share nothing with others.  The proofs are in a module for
each group of components that are proved alike (below).

In modules with processes that may be killed a kill is an action between any two
steps.  A time limit is a choice at every wait whose end is not there yet.  A
definition whose comment begins with "Slip" is a plausible bug and is used by the
mutants only.

### `CaptureLease` and `Daemon`

`CaptureLease` is the contract of `docs/PLAYBACK-OWNERSHIP.md`: three variables
(the microphone, the manual pause, the owners of acknowledged pauses) and the six
things that may happen to them.  `Daemon` is the program: `pc` is the place of the
daemon's only thread, and every control point of `run_daemon_state_machine`, the
armed cycle, the retry and `OwnedControl::poll` is an action.

| Code | Model |
| --- | --- |
| `OwnedControl.manual`, `.holds`, `Hold.acknowledged` | `manual`, `holds`, `acked` |
| `paused`, `shutdown`, the signal's flag | `paused`, `shutdown`, `signalled` |
| the `state` argument of `poll` | `mode` |
| the `Capture` value, detections to return | `mic`, `triggered` |
| the listener's queue, the client's end, its request, later bytes, what it was told | `backlog`, `open`, `req`, `extra`, `answers` |
| one turn of the loop in `poll` | `Serve` and `RefuseHold`, `GrantHold`, `QueueHold`, `HandlePause`, `HandleResume`, `HandleStatus`, `HandleShutdown`, `HandleInvalid` |
| `recv(MSG_PEEK)` | `Connected` |

A poll is not atomic: it serves one request per step, and clients connect,
disconnect and send stray bytes between any two steps.  What one block of audio
yields is a choice (`Receive`): nothing, a detection, a capture failure, a
detector failure.  A connection is a model value that may be used again once both
ends are closed.  A restarted daemon starts from `Init`'s values.

Properties: `NoOpenMicUnderHold` (a program that was told it owns a pause never
plays into an open microphone), `NoActionWhilePaused`, `AtMostOneAnswer`,
`HoldStays` (nobody but its owner takes a hold away), `StatusTruthful`,
`ImplementsLease` (`Daemon` implements `CaptureLease`, an owner being a client that
was told "paused" and is still connected), and under fairness `HoldAcknowledged`,
`RequestServed`, `SignalStops`, `AbandonedPauseEnds`.  `TypeOK`, `HoldsBounded` and
the inductive invariant `ControlInv` are proved and not checked again by a run.

### `SocketLifecycle`

Daemons reserve the identities of their configuration (the spelling of its path
and what a link resolves to) as abstract socket names, in order; look at the path
of the control socket, probe it, replace a stale one, bind, look again, serve,
and remove the socket on the way out.  Clients remove a socket that refused them.
Every system call on the path is a step of its own.  Two windows exist only inside
the kernel's interface: between `bind(2)` and `listen(2)`, and between comparing
inodes and unlinking.  `gaps` says which of them a behaviour has, so the
properties say what they depend on: `OneDaemonPerConfig` and `NotAllRefused` are
right with both windows, `Reachable` only without them, and `OnlyStaleRemoved` is
refuted with them (run `socket_stale`).  A daemon's name stands for the inode it
creates; the reuse of inode numbers is not modelled.

### `Routing`

One owner thread per engine group with its command and response channels, and the
caller that sends a command to all and collects all answers within one deadline.
Time is a choice: at every wait the deadline may have passed.  An answer carries
the number of its exchange, which the code does not have: `AnswersAligned` says
that it does not need it, because the first failure is latched and every
successful exchange has drained every channel.  `SessionsInStep` relates the flags
of the caller to the sessions of the owners and to the one slot of their channels;
`OwnersExit` and `CallReturns` are the absence of a deadlock between full channels
and dropped ends.

### `Engines`: `StreamContract`, `WorkerLink` and the six engines

`StreamContract` is what the detector may expect of any engine's stream: verdicts
rest on the first pieces of the audio, each once and in order; a finished stream
was judged to its end, unless a remote recogniser ended its session; after an
error nothing comes.  `Engines` runs one of six engines under one caller, chosen in
`Init`, and `KeepsContract` is the refinement.

`WorkerLink` is what the four native engines share: the client with its `active_id`
and the process it holds, the two pipes of every process it ever launched, and the
loop of a worker.  `AudioCppWorker`, `OpenVinoWorker`, `WhisperWorker` and
`TrainedWorker` say how each drives them: which failure is tried again, whether a
cancelled stream is told to the worker, who waits for an exit, whether a failed
worker is launched again.  A worker may crash or stop answering at any step, its
spawn may fail, its answer may come late, be an error, or belong to a request that
was given up.  `CloudQueue` is the engine that sends whole utterances, with the
thread that owns the pipes; `CloudRealtime` the one with a session, two threads, and
a provider that repeats segments and ends when it likes.

`FailsForAReason` says that a stream fails only through a fault outside the program
in that very call or because another stream is being served: no stream is refused
because of one that is over.  `CallReturns` and `WorkersEnd` are the liveness of the
calls and the end of the processes.  An answer is written whole; a worker that stops
in the middle of one is a hazard without a property.

### `Detection`: `Capture` and `PhraseMatcher`

`Capture` is one open microphone.  For CPAL it is a stream whose callbacks fill a
bounded queue; for PipeWire a `pw-record` process, a thread that reads from it, and a
watcher that looks for its end and for silence of 3 s, raises an error and kills it.
An event that finds the queue full is lost, be it samples or an error: this is why
the watcher must also kill (`LossNoticed`, only for PipeWire: CPAL's lost error has
no such remedy, although `docs/AUDIO-DEVICES.md` says of any capture failure that the
daemon reports it and retries).  `Detection` is the thread that opens, reads and
drops it: the daemon, `listen`, or a recording of audio.  `MicReleased` and
`DropReturns` are the two halves of a drop: nothing is left, and it ends.

`PhraseMatcher` holds `compile` and `matches` as a fold over sorted candidates, and
`IsMatching` as what they owe, which knows neither the fold nor its order: each word once,
no token to two, and a phrase that is there goes without its word only to one that shares a
token with it, and takes no fewer where both begin together.  `RightWords` compares the two.
A token is a sequence of characters, for words that are divided differently.  The comment on
`matches` promises more (`MoreTokensWin`), which the code does not keep: see Findings.
`ActionsReaped` is about the thread that collects the ended actions.

### `Artifacts`: `ModelInstall`, `CachePreparation`, `Setup`, `History`, `Assistance`, `Training`

`ModelInstall` is `install_with_fetch` by several processes: the lock file that is
never unlinked, the download cached under its checksum, the staging copy, the two
renames with their undoing.  `InstalledStays`: once an installer has reported
success the model is whole for good; unless an installer fails to read a model that is
there, and replaces it (`misread`).  The comment in `setup/model.rs` calls the
exchange atomic; a kill between the two renames leaves no model until the next
setup, which the model reaches and no property denies.  `CachePreparation` is the
compilation by a child process with its response file and time limit.  `Setup` is
the command around both, which also saves the configuration, writes the launcher
and restarts the service, and undoes all of it when a part fails.  It asks whether the
service is active, reserves the instance if not, and takes its snapshots in three steps,
so a service may start, and another setup come, between them.  `SetupUndone` is for a
setup beside which no other ran (two setups of a running service are kept apart by
nothing).

`History` is the store of detections: two recorders without a lock, evictions by
lists that may be stale, labels renamed into directories that are being removed,
`clear`.  `HistoryBounded` states the bound the code gives, one more clip for each
further recorder.  A half-removed event makes `list` fail for all, and with it every
further record; that is reached and stated by no document.  `Assistance` is the
import of synthetic clips, with the review by ear (`HeardApproved`).  `Training` is
one enrollment command after the other, fresh, resumed, from a file, from the newest
session or by spellings, each through retention, merge, import, training,
installation of the head and save, with kills at every step: `HeadSound` (the active
head is a whole file, held to clips it was not trained on), `RecordingsKept` (what the
user was told is kept stays, and nothing private remains of a command that was not
killed).  The fit and its scores are numbers and are left out.

`Artifacts` chooses a scene in `Init`; each scene has the configuration to itself.

### `MCParts`: `ActivityBuffer`, `Evaluation`, `BackendChoice`, `GuidedSetup`, `WordEdits`, `ServiceInstall`, `ConfigEdit`

Parts that share no state with others share a run; each behaviour has one of them.

`ActivityBuffer`: the buffers between the voice activity detector and the verifier.  A
behaviour has one of three engines: audio.cpp and OpenVINO cut by the detector's
events (`Push`), whisper by its probabilities (`HearFrame`); the first may close an
utterance with the frame that opened it, the second leaves that to the next frame.
A sample is its own position, so `UtteranceExact` compares what an utterance contains
with the interval it reports, and with the frame that completed the one before.  A
truncated utterance of whisper reports an end behind its samples; the property says
so.  A cancelled stream is one after which `StartStream` follows.

`Evaluation`: the check of a manifest, the alignment of predictions with expected
events by a table, and the counts.  `ReportTrue` compares the table with all
alignments there are (`Alignments`, which knows nothing of a table), and the rows of
the words with the total.  The table itself is one function of pairs of lengths, its
entries `BestOf` three others.  For clips in which events lie within each other, or with
and without times are mixed, the table, which goes forward only, can miss a pairing
that crosses; there only that the alignment is one is claimed (`Plain`).

`BackendChoice`: `config set`, `cloud configure` and the setups of a runtime and a model
edit the two tables of the backend.  `SetupCoherent`, a part of
`ReviewedIsSaved`, says that what a setup leaves fits
together, whatever was there.  What it does not say: `cloud configure` leaves the
library where it was, and `setup runtime --runtime cuda` without a device fails from a
cloud configuration, whose device is remote.  `GuidedSetup` is the setup in tabs over
it: the picks of each page, what changes when one goes back, the recommendation.
`ReviewedIsSaved`: what is saved is what the last page showed.

`WordEdits`: words, aliases, thresholds, the named profiles, the activation and pruning of
trained heads, and edits by hand between commands.  `WordsKept`: a command about one
word, or the default backend, leaves every other word on its encoder, device and head;
no enabled word is left without a detector group or with two; only a profile nobody
uses is pruned.  Exempt are a word that the user edits by hand, and one that was
onboarded onto a managed profile the user had altered: a training writes that profile
anew (`app/training.rs:283`) and with it changes the encoder of whoever else uses it.

`ServiceInstall`: the installation, removal, start and stop of the unit, where each call of
systemd may fail with or without having had its effect, and where a service that has been
started may stop by itself at any step after (`Dies`).  `ServiceUndone` is the
rollback; it excepts the enablement when the first question about it failed, which the
code takes for a no, and does not ask a service to run that stopped by itself.

`ConfigEdit`: commands that edit the configuration, the unit, and a daemon that a user
launches.  An edit loads the file, asks whether the unit is active, and then
either relies on the restart of the unit (*managed*) or takes the daemon's
reservation.  The write is three steps, since all edits share `toml.tmp`: the
truncation, the write into whatever inode was opened, the rename of whatever has
the name.  A configuration is the set of edits in it, so a lost or undone edit is
visible.  systemd is external: a unit of `Type=simple` is active from its fork,
one that failed waits and is started again until it has failed for good.

`WholeUnderReservation` (a torn file is always the work of an edit without
reservation), `SavedIsRunning` (success means that the unit does not run a file
without the edit) and `FailedIsUndone` hold with a second daemon, failing writes and
restarts and commands that are killed; the last two say nothing once a second edit
has begun, which may lose or undo the first: a managed edit has no lock.

## The runs

| Run | Instance | Why it is enough |
| --- | --- | --- |
| `daemon_safety` | 3 connections, 2 holds, 2 requests per poll | one more client than holds, so the limit is met with one waiting; a poll can end by its budget with a request left behind; the theorems lift the bounds |
| `daemon_live` | 2 connections, 1 hold, 1 request per poll | the smallest instance in which somebody has to wait for the budget and for the limit |
| `daemon_stray_bytes` | 1 connection; expected to fail | see Findings |
| `routing` | 3 owners, 2 streams, 4 exchanges | an owner before and one behind the one that fails; a stream that is dropped half-way and another that starts after it; the theorems lift the number of owners |
| `socket_lifecycle` | 3 daemons (two of one configuration through a link), 1 client | two daemons that compete for a stale path while a third is refused; the theorems lift the numbers |
| `socket_stale` | the same; expected to fail | see Findings |
| `engines` | 2 streams of 2 frames, 2 launches, channels of one slot, 2 provider messages under way | the second stream meets what the first left; the second process what was meant for the first; every channel is full at times; the theorems lift the numbers, but for the liveness |
| `detection` | a queue of one event, 2 detections per `listen`, 2 actions, 4 configurations of wake words, 5 transcripts | an error finds the queue full; a detection while an action runs; two children end together; words that contain, overlap and divide one another; the theorems lift all of these but for the liveness |
| `artifacts` | 2 setups, 2 recorders, a history of 2 of 4 events, 2 enrollment commands, 1 edit of the configuration, 2 voices with 1 edited pronunciation, 2 attempts at a cache | the second command meets what the first left, killed or not; both recorders have a stale list; symmetry of processes and of voices, which no definition orders; the theorems lift the numbers |
| `phrase_precedence` | 2 phrases, 1 transcript in which they overlap; expected to fail | see Findings |
| `parts` | buffers with frames of 2 samples, pre-roll 4, post-roll 3, at most 13 samples, 12 frames; clips of 2 events and 3 predictions; 5 saves of the backend; 2 screens, 1 way back; 2 wake words, 4 edits; 2 service commands with 2 faults each; 2 edits, one of which does not start, beside a unit and a direct daemon | an odd post-roll and limit, so both fall inside a frame, and several utterances; ties and repeats; a save by hand, by a cloud and by a setup in any order; a fault in the command and one in its undoing; the second edit overtakes the first at any step of the write, its rollback included; the theorems lift the numbers |
| `config_edit_startup` | 1 edit that does not start; expected to fail | see Findings |

Scenes of `artifacts`.  What shares no file is not interleaved: Init chooses a setup,
the history by itself, an enrollment with Omaspeak, one beside the history
(`recorded`), or one with a user who edits the configuration and removes recordings
(`edited`).  In `recorded` the first command is an onboarding, and the recorders and
labels move beside the second, in the steps that look at the history; the history is
full from the start, there is room made for one more event, and only the oldest is
labelled.  A first setup finds neither a configuration nor a launcher.  The same holds
for `parts`.

Fairness.  `Daemon!FairSpec` assumes weak fairness of the daemon thread as a
whole: all its waits have a time limit (50 ms for audio, 500 ms per read and
write, the cooldown), so a turn always ends.  Nothing is assumed of clients,
signals or the supervisor.  `Routing!FairSpec` assumes it of the caller once a
call has begun and of each owner's thread once its model is loaded: its native
calls are bounded by the engine's own limits, or end the thread.  A load may take
for ever.  In `Engines` the program's own threads are weakly fair, the steps at which
they run into a time limit among them, as the code's waits have limits; workers and
providers are not, except that a killed process dies and one that waits for input sees
its end.  In `Detection` likewise the threads and the exit of a killed recorder; a
device may stay silent for ever.

`CHECK_DEADLOCK FALSE` is said where the system really stops: daemons that have
returned, a detector that was dropped, a user that has ended, commands that are over.

## Proofs

`DaemonProofs` proves, for every finite set of connections and all positive
limits:

- `TypeCorrect`, `ControlHolds`: `TypeOK` and `ControlInv` are invariants.
  `ControlInv` is the inductive invariant.  `NoOpenMicUnderHold` alone is not
  inductive: that `acked # {}` implies `paused`, that a live capture is tied to
  the places of the thread where `paused` is false, and that a pause on its way
  cannot be overtaken by a resume are all needed, and are the conjuncts `MicAt`,
  `ModeAt`, `OnTheWay` and `PausesApplied`.
- `NoOpenMic` and `NoAction` follow from it without further induction.
- `OneAnswer` needs its own invariant `Unanswered`: whoever is still to be
  answered has no answer.
- `HoldsLimited`: the limit is compared with `==`, so the proof shows that the
  number of holds grows by one at a time from below the limit.
- `HoldsStay`, the action property.
- `StatusIsTruthful`, the other one: the state argument of a poll is still true at each answer,
  because a poll that takes in a pause ends with it (`PausesApplied`, with `MicAt` and `ModeAt`).
- `Refinement`: `Spec => ImplementsLease`, by mapping every action to a step of
  `CaptureLease` or a stutter.

`CommandProofs` proves first the properties of `ConfigEdit` for any set of
editors, with or without a bad edit: `TornOnlyByManaged`, `SavedAlone`,
`SavedRuns`, `FailedRestores`.  The invariant has four parts.  `Holding` ties the
reservation to the places between which it is held.  `Whole` says that, as long as
no edit relies on the unit, the one that fills the temporary file is alone with
it; it is a disjunction because the first managed edit ends that guarantee for
good.  `Single` follows the inodes, the text and the unit through all places of an
edit that is alone, the rollback included.  `AloneBefore` is what makes it
inductive: nobody returns to `idle`, so an edit that is alone has always been.

`RoutingProofs` proves `SessionsInStep` (`GroupsInStep`) and `AnswersAligned`
(`OwnAnswersOnly`) for any number of groups up to the code's eight, any streams and
exchanges.  The invariant says where each owner can be at each point of an exchange: `Resting`
before it is sent the command and after its answer is taken, `Underway` in between,
where the command, its work and its answer are in exactly one of three places.  What an
owner does keeps what is said of it whatever the caller does (`OwnerStep`), so the
five steps of an owner are proved once and not for each place of the caller.

`SocketLifecycleProofs` proves `OneDaemonPerConfig` (`OneDaemon`), `Reachable`
(`ServedIsReachable`) and `NotAllRefused` (`SomeoneStays`) for any daemons, clients and
identities.  The first rests on `Reserved` alone.  The second needs that nobody has seen a
socket before it was bound (`Unmet`), and, without the two windows, that whoever is about
to remove a socket has seen one that is no longer served (`NoWindow`).  The third: a daemon
that was refused failed at an identity above all that it held (`Climbs`), because each
takes its own in order (`Ordered`); whoever had that identity was not refused, or failed
further up still.  Of all the refused one failed highest, so somebody stays.

`ArtifactProofs` proves of the installers `InstalledStays` (`InstalledModelStays`) for any
number of them: who is inside has the lock (`Locked`), who goes on to download has seen that
the model is missing (`Seen`), nobody has reported success meanwhile (`Alone`), and only a
verified copy is renamed (`Copied`).  `SetupKeepsModel` carries it over to whole setups, by
showing that each of their steps is one of an installer or leaves its files alone.
`FailedSetupUndone` is `SetupUndone`.  What two setups do to one launcher is kept apart by
nothing, so the invariant `SetupInv` speaks of a setup beside which no other ran
(`Undisturbed`): how far it has come says what it has changed, and how far its undoing has
come says what of that is back; that needs what it noted of the files (`Noted`), that
nothing is staged before it begins (`Unstaged`), and that no child compiles for it later
(`Childless`).

It proves `HistoryBounded` (`ClipsBounded`) for any number of recorders and
detections and any limit.  Several recorders can prune at once, each by the list it has
read, so what counts is not what is there but what will be: for every set of recorders
that may still get to the end, the events their victims spare and their own number
together stay at most `MaxEvents` plus the recorders less one (`Room`).  Reading the list
keeps it because the victims are then the oldest of what is there; that there is an
oldest is proved from the well-founded order of finite sets.  Of `Training` it proves, for
any voices, commands and edits, `HeardApproved` (`ApprovedWasHeard`), `HeadSound`
(`ActiveHeadSound`) and `RecordingsKept` (`KeptStays`).  `HeadReady` says that what goes on
to be installed was judged by clips held out of it, and that what is saved is a whole file;
`LastIsPart` that a session under way is the last one and that nobody was told of it;
`OwnCopies` that no command leaves private copies to the next one unless it was killed;
`HeardIsReviewed` that from the review on what counts as heard is the pronunciation under
review.

The rest of `CommandProofs` is about the commands a single thread runs.

- `FailedInstallUndone`: `ServiceUndone`, for any number of commands and of faults in each,
  and a service that stops by itself whenever it likes.  The invariant follows the command in both directions: what it has noted is what it found
  (`Noted`), what the installation has reached (`Built`), and what is back after each step
  of its undoing (`Restored`).
- `SavedWasReviewed`: `ReviewedIsSaved`, for every catalog in which the default model of a
  backend is one of that backend (`CatalogAssumption`; `catalog::default_model` makes sure).
  The invariant: a pick is the index of an enabled row of the page *as the picks before it
  make it* (`OnPages`), so a pick on an earlier page has to take back the later ones; what
  the review shows is drawn from the picks that are there (`Agrees`).
- `OthersKept`: `WordsKept`, for any words and number of commands.  `WordInv` holds the types,
  that every reference names an engine, and that an active head is run on the very profile
  the training of its word has made, and made for its encoder (`HeadKept`), unless the word
  was edited by hand.

`DetectionProofs` proves all safety of the capture and of what is done with its audio.

- `MicIsReleased`, `NoZombieRecorder`, `EveryChildReapable`, for any queue and any number of
  actions.  `Held` says what is there of a capture at each place of its owner; `Mutex`, that
  owner and watcher do not both wait for the recorder.
- `MatchesAreRight`: for every configuration that compiles and every transcript, `Matches`
  has what `IsMatching` asks.  `TranscriptAssumption` says that no token is empty, which is
  what the splitting at white space yields.  The proof is an induction on how much of the
  sorted candidates is left: the foremost one is found for good, since what overlaps it is
  left out for it, and what is left lies behind it (`OneMore`); the order of the candidates
  appears in the proof alone.  `WordsAreRight` is
  `RightWords`, what the daemon acts on.
- `UtterancesAreExact`: `UtteranceExact`, for every size that `SizesFit` admits (an utterance
  has room for the pre-roll and two frames, as the constants of the three workers have) and
  wherever the detector dates its events.  `BufferInv` adds that the idle frames are the last
  ones and were not handed out (`IdleExact`), and that what is being recorded reaches without
  a gap to the end of the last frame and has no end while there is speech (`Underway`).  That
  the idle frames in one piece are the samples between the first and the last is proved by
  induction on their number (`Flattened`).

`WorkerProofs` and `EngineProofs` prove the safety of `Engines` for any number of streams,
of launches and of frames, and for channels of any length: `KeepsContract`
(`EnginesKeepContract`), the refinement of `StreamContract` by all six engines, and
`FailsForAReason` (`FailuresHaveReasons`).  That a remote engine has a stream at all
(`StreamsAssumption`) is the only thing asked of the numbers beyond their type.  Each engine
has an inductive invariant, and each step, besides keeping it, does to the streams what the
contract allows and fails only one that has a reason (`Promise`, `Stands`): both theorems are
read off that.

- The four native engines share one, `LinkInv`, since what differs between them is the order
  of their attempts.  The frames that are judged are those that were given and are not still
  to be submitted (`Exact`); the worker whose pipes the client holds has what the client
  believes it has, one request or one reply at most and both of the stream the client asked
  for (`Held`, `Pipes`, `Recording`); the client's active stream is one its caller has
  neither finished nor dropped (`ActiveIsUsed`, `ActiveHeld`), and the trained-word engine,
  whose messages name no stream, has one at a time, the one its process serves (`OneActive`);
  a start that fails at its second attempt fails by a fault of this very call (`Retries`),
  where the first may have met a process that had died before.  The steps the engines share
  are proved once, by `WorkerLink`'s names, and carried over to each engine's instance of it
  (`AudioCppShares` and the like).
- `QueueInv`, of the utterances: results, the one the thread works on and the requests
  behind it are consecutive from what is judged on, so none is lost, repeated or overtaken
  (`QueueOrder`); whatever has gone and every result that is no text comes from a fault
  (`QueueFaults`).
- `SessionInv`, of the session: the frames given are with the provider, in the pipe or in the
  channel, in order and with the end of the audio last (`Inputs`); the provider's messages
  finish segments in the order of their numbers, though it may repeat them (`Wires`); the
  segments from the last one judged on are in the channel, in the pipe and under assembly,
  without a gap, and what says that all is done comes after all of them (`Outputs`, over
  `Chain`, a sequence of runs of segments each of which begins where the one before ends);
  and a thread or helper that has gone had a fault or was done (`SessionFaults`).  All of it is
  said only of a stream that is worked on: one that has failed or is closed is torn down
  whatever is in its channels.

The last part of `DetectionProofs` proves `ReportTrue` (`ReportIsTrue`) for any manifest
that is valid, anything heard, any enabled words and any windows.  `EvaluationInv` says
little: each score is that of a clip and a prediction.  The argument is about data.

- `SumOf`, a fold, exists for every finite set, and does not depend on the order in which
  the set is gone through (`FoldExists`, `FoldSame`, `SumPlus`).
- An entry of the table of a word is an alignment of the first events and predictions of
  the word, and no alignment of these beats it (`EntryIs`), by induction on the sum of the
  two lengths (`TableIs`).  The step (`NextEntry`) takes any alignment: it has the last
  event with the last prediction, lacks one of the two, or has both with others.  Then the
  two pairs cross, and exchanging their ends gives an alignment as large and no farther;
  that needs windows that end in the order in which they begin, the hypothesis `Plain`.
- The words are aligned apart, so what is best for each is best for all.
- The rows add up, since what each word counts in each clip can be summed by words or by
  clips.

Induction over data.  The induction theorems of the library cannot be used, because they
take an operator; but a set of numbers that has 0 and with each number the next has all of
them (`Inductive`, from the well-founded order of the numbers, `WFMin`), and the set may be
that of the lengths for which a recursive function does what it should.  A recursive function
also has to be shown to exist before its equation may be used (`TextExists`,
`AcceptedExists`, `PiecesExist`).

What stays with TLC.  The liveness properties, which the proof system does not reach
under fairness.

## Findings

- `daemon_stray_bytes` (`ExtraBytesRelease`).  `read_request` reads through a `BufReader` that it drops
  after the first line.  Bytes that arrive together with a hold request are lost
  in it, so the later `recv(MSG_PEEK)` does not see them and the hold is not
  released, which `docs/PLAYBACK-OWNERSHIP.md` says extra bytes do.
- `socket_stale` (`OnlyStaleRemoved`).  A client that is refused by a daemon between `bind(2)` and
  `listen(2)` removes the path of the daemon that then listens; it cannot be
  reached until it is restarted.
- `config_edit_startup` (`FailedStartRestores`).  The edit asks systemd once, right after `try-restart`,
  whether the unit is active.  It is, from its fork; a detector that then fails to
  load ends the daemon after the command has reported success, and the prior
  configuration is not restored, as the README says it is.

- `phrase_precedence` (`LongerPhraseWins`).  The comment on `matches` (`phrase.rs:128`) says that of
  overlapping phrases the one with more tokens wins and the order of the configuration
  breaks a tie.  The code takes the one that starts first, whatever their lengths, and of
  two with one start the one with more letters: "x y" wins over "y y y" in "x y y y".

Behaviours that are in the models without a property, because no document rules them
out or because the property says what the code does:

- A daemon reads its configuration before it reserves it (`app.rs:691`), so it can come
  up with the file before an edit that held the reservation in between; a manual pause
  that is taken between the check of an edit and its restart is lost (`app.rs:2946`).
- Where the words of a comment or a document and the code part: the lost error of a CPAL
  stream, the "atomic" installation (both above); the clips of a `train` are retained (`app/training.rs:156`) before the
  review, although the comment at line 88 says "Review the validated candidate before any
  artifact, recording, or config is saved".
- A training writes a managed profile anew that the user has altered
  (`app/training.rs:283`), so the other words of that profile change their encoder with it.
- A threshold is saved before the heads are loaded with it.  After a service setup that
  failed, a broken configuration is put back under a service that was restarted.

## Not modelled

- The native libraries, the fit and scores of a trained head, the resampler and the
  mixing of samples: numerical, without order or failure of their own beyond the error
  that is modelled where they are called.
- The tables of the catalog, the probes of hardware and runtimes, paths, release
  manifests: look-ups and I/O whose result is a choice in the models.
- What the terminal shows, the wizard, and the dialogues that record an onboarding clip
  by clip: a dataset is complete when `Training` meets it.
- The bytes of a pipe and of a request: a message is read and written whole.  Two hazards
  (a client that sends byte by byte, a worker that stops in the middle of an answer)
  need a clock for each byte and are listed without a property.
- The HTTP request and the credentials of the cloud commands.
- What a loss of power does to files that were renamed but not synced.

## Plan

1. The recording dialogues of the onboarding, over `Training`'s datasets.
2. `CaptureLease` composed with `Detection`'s capture, so that the lease's microphone is
   the recorder's.
