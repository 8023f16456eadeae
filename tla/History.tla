------------------------------- MODULE History -------------------------------
(***************************************************************************)
(* The detections of one word that are kept as clips for later training    *)
(* (enrollment/history.rs): recorded by the daemon, or by `listen` beside  *)
(* it, bounded by the eviction of the oldest, labelled and cleared by      *)
(* commands.  There is no lock: an event is a directory that is renamed    *)
(* into its place, a label a file that is renamed over event.json, and a   *)
(* removal takes one file after the other.                                 *)
(***************************************************************************)
EXTENDS FiniteSets, Naturals

CONSTANTS
  Recorder,    \* the daemon, `listen`
  MaxEvents,   \* HistoryConfig.max_events
  MaxIds       \* bound: the events ever recorded

\* HistoryConfig::validate; somebody records.
HistoryAssumption ==
  /\ IsFiniteSet(Recorder) /\ Recorder # {}
  /\ MaxEvents \in Nat \ {0} /\ MaxIds \in Nat

ASSUME HistoryAssumption

EventId == 1 .. MaxIds

VARIABLES
  has,       \* what the directory of each event holds
  reviewed,  \* the events whose event.json has a label
  hidden,    \* the staging directories
  newest,    \* the last id given
  rec,       \* what each recorder is doing
  marking,   \* the command that labels an event
  clearing   \* the command that clears the history

historyVars == <<has, reviewed, hidden, newest, rec, marking, clearing>>

Whole == {"directory", "audio", "meta"}
Idle == [pc |-> "idle", victims |-> {}, id |-> 0]
Unmarked == [pc |-> "idle", id |-> 0]

\* The daemon has recorded before; some of it is reviewed.
HistoryInit ==
  /\ newest \in 0 .. MaxEvents
  /\ has = [i \in EventId |-> IF i <= newest THEN Whole ELSE {}] /\ reviewed \in SUBSET (1 .. newest)
  /\ hidden = {}
  /\ rec = [r \in Recorder |-> Idle] /\ marking = Unmarked /\ clearing = FALSE

Events == {i \in EventId : has[i] # {}}

\* list fails altogether on a directory without its audio or its metadata.
Readable == \A i \in Events : Whole \subseteq has[i]

Oldest(n, S) == {i \in S : Cardinality({j \in S : j < i}) < n}

-----------------------------------------------------------------------------
(* record *)

\* A slip: room is made for none but the new event's predecessors.
Surplus(n) == IF n > MaxEvents THEN n - MaxEvents ELSE 0

\* "Evict before adding so disk usage stays bounded"
Excess(n) == IF n > MaxEvents - 1 THEN n - (MaxEvents - 1) ELSE 0

\* A detection is to be recorded; the list is read once.
List(r) ==
  /\ rec[r].pc = "idle" /\ newest < MaxIds
  /\ Readable
  /\ rec' = [rec EXCEPT ![r] =
       [pc |-> "evict", victims |-> Oldest(Excess(Cardinality(Events)), Events), id |-> 0]]
  /\ UNCHANGED <<has, reviewed, hidden, newest, marking, clearing>>

\* The victims are removed from the oldest on.
Victim(r) == CHOOSE i \in rec[r].victims : \A j \in rec[r].victims : i <= j
Evicting(r) == rec[r].pc = "evict" /\ rec[r].victims # {}

EvictFile(r) ==
  /\ Evicting(r)
  /\ \E f \in has[Victim(r)] \ {"directory"} : has' = [has EXCEPT ![Victim(r)] = @ \ {f}]
  /\ UNCHANGED <<reviewed, hidden, newest, rec, marking, clearing>>

EvictDirectory(r) ==
  /\ Evicting(r)
  /\ has[Victim(r)] = {"directory"}
  /\ has' = [has EXCEPT ![Victim(r)] = {}]
  /\ rec' = [rec EXCEPT ![r].victims = @ \ {Victim(r)}]
  /\ UNCHANGED <<reviewed, hidden, newest, marking, clearing>>

\* Another one has removed it, or a label has just been written into it: nothing is recorded.
EvictFails(r) ==
  /\ Evicting(r)
  /\ has[Victim(r)] \in {{}, {"directory", "temporary"}}
  /\ rec' = [rec EXCEPT ![r] = Idle]
  /\ UNCHANGED <<has, reviewed, hidden, newest, marking, clearing>>

Stage(r) ==
  /\ rec[r].pc = "evict" /\ rec[r].victims = {} /\ newest < MaxIds
  /\ newest' = newest + 1 /\ hidden' = hidden \cup {newest'}
  /\ rec' = [rec EXCEPT ![r] = [pc |-> "staged", victims |-> {}, id |-> newest']]
  /\ UNCHANGED <<has, reviewed, marking, clearing>>

\* The clip and its metadata are written, and the directory is renamed.
Publish(r) ==
  /\ rec[r].pc = "staged" /\ rec[r].id \in hidden
  /\ has' = [has EXCEPT ![rec[r].id] = Whole]
  /\ hidden' = hidden \ {rec[r].id}
  /\ rec' = [rec EXCEPT ![r] = Idle]
  /\ UNCHANGED <<reviewed, newest, marking, clearing>>

\* A write or the rename fails; the staging directory is removed.
RecordFails(r) ==
  /\ rec[r].pc \in {"evict", "staged"} /\ rec[r].victims = {}
  /\ hidden' = hidden \ {rec[r].id}
  /\ rec' = [rec EXCEPT ![r] = Idle]
  /\ UNCHANGED <<has, reviewed, newest, marking, clearing>>

\* The recorder's process is killed and launched again.
KillRecorder(r) ==
  /\ rec[r].pc # "idle"
  /\ rec' = [rec EXCEPT ![r] = Idle]
  /\ UNCHANGED <<has, reviewed, hidden, newest, marking, clearing>>

-----------------------------------------------------------------------------
(* label and clear *)

MarkBegin ==
  /\ marking.pc = "idle"
  /\ \E i \in Events \ reviewed :
       /\ Whole \subseteq has[i]
       /\ marking' = [pc |-> "write", id |-> i]
  /\ UNCHANGED <<has, reviewed, hidden, newest, rec, clearing>>

MarkWrite ==
  /\ marking.pc = "write" /\ has[marking.id] # {}
  /\ has' = [has EXCEPT ![marking.id] = @ \cup {"temporary"}]
  /\ marking' = [marking EXCEPT !.pc = "rename"]
  /\ UNCHANGED <<reviewed, hidden, newest, rec, clearing>>

\* The new event.json takes the place of the old one, even of one just evicted.
MarkRename ==
  /\ marking.pc = "rename" /\ "temporary" \in has[marking.id]
  /\ has' = [has EXCEPT ![marking.id] = (@ \ {"temporary"}) \cup {"meta"}]
  /\ reviewed' = reviewed \cup {marking.id}
  /\ marking' = Unmarked
  /\ UNCHANGED <<hidden, newest, rec, clearing>>

\* The event is gone, or the command is killed and leaves its temporary file.
MarkFails ==
  /\ \/ marking.pc = "write" /\ has[marking.id] = {}
     \/ marking.pc = "rename"
  /\ marking' = Unmarked
  /\ UNCHANGED <<has, reviewed, hidden, newest, rec, clearing>>

ClearBegin ==
  /\ ~clearing /\ (Events # {} \/ hidden # {})
  /\ clearing' = TRUE
  /\ UNCHANGED <<has, reviewed, hidden, newest, rec, marking>>

\* One file after the other, hidden directories too; what appears meanwhile ends it.
ClearOne ==
  /\ clearing
  /\ \/ /\ \E i \in Events, f \in Whole \cup {"temporary"} :
             /\ f \in has[i] /\ (f = "directory" => has[i] = {f})
             /\ has' = [has EXCEPT ![i] = @ \ {f}]
        /\ UNCHANGED hidden
     \/ \E i \in hidden : hidden' = hidden \ {i} /\ UNCHANGED has
  /\ UNCHANGED <<reviewed, newest, rec, marking, clearing>>

ClearEnd ==
  /\ clearing
  /\ clearing' = FALSE
  /\ UNCHANGED <<has, reviewed, hidden, newest, rec, marking>>

Record(r) ==
  \/ List(r) \/ EvictFile(r) \/ EvictDirectory(r) \/ EvictFails(r)
  \/ Stage(r) \/ Publish(r) \/ RecordFails(r) \/ KillRecorder(r)

Commands ==
  MarkBegin \/ MarkWrite \/ MarkRename \/ MarkFails \/ ClearBegin \/ ClearOne \/ ClearEnd

\* The history by itself; the other commands only read it.
HistorySpec == HistoryInit /\ [][(\E r \in Recorder : Record(r)) \/ Commands]_historyVars

-----------------------------------------------------------------------------
\* Labelled or not, recorded by one process or by several that know nothing of
\* each other, evicted by halves, labelled or cleared on the way: the clips stay
\* within the limit, but for one of each further recorder whose list was read too
\* early (the eviction in record).
HistoryBounded ==
  Cardinality({i \in EventId : "audio" \in has[i]}) <= MaxEvents + Cardinality(Recorder) - 1
=============================================================================
