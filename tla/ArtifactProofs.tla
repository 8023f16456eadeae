--------------------------- MODULE ArtifactProofs ---------------------------
(***************************************************************************)
(* What holds of the files the program keeps: of the history of            *)
(* detections, for any number of recorders, any limit and any number of    *)
(* detections; of what enrollment leaves, for any number of commands,      *)
(* edits, detections and voices, and wherever a command is killed; and of  *)
(* the installations of one profile and the setups they are a part of, for *)
(* any number of processes and of cache attempts.                          *)
(***************************************************************************)
EXTENDS Setup, Training, FiniteSetTheorems, TLAPS

-----------------------------------------------------------------------------
(* The history *)

Recording == [pc : {"idle", "evict", "staged"}, victims : SUBSET EventId, id : Nat]

\* What is in a directory is in it, and who has staged has evicted.
Shape ==
  /\ has \in [EventId -> SUBSET (Whole \cup {"temporary"})]
  /\ \A i \in EventId : has[i] # {} => "directory" \in has[i]
  /\ rec \in [Recorder -> Recording]
  /\ \A r \in Recorder : rec[r].pc = "staged" => rec[r].victims = {}
  /\ newest \in Nat
  /\ marking \in [pc : {"idle", "write", "rename"}, id : Nat]
  /\ marking.pc # "idle" => marking.id \in EventId

Working == {r \in Recorder : rec[r].pc # "idle"}

\* What is left when each of the recorders has evicted its victims.
Spared(S) == {i \in Events : \A r \in S : i \notin rec[r].victims}

\* Whichever of the recorders under way get to the end, there is room for their events.
Room ==
  \A S \in SUBSET Working :
    Cardinality(Spared(S)) + Cardinality(S) <= MaxEvents + Cardinality(Recorder) - 1

HistoryInv == Shape /\ Room

-----------------------------------------------------------------------------
(* Finite sets *)

LEMMA EventsFinite ==
  /\ IsFiniteSet(EventId) /\ IsFiniteSet(Events)
  /\ \A S : IsFiniteSet(Spared(S)) /\ Cardinality(Spared(S)) \in Nat
<1>1. IsFiniteSet(EventId)
  BY HistoryAssumption, FS_Interval DEF HistoryAssumption, EventId
<1>2. IsFiniteSet(Events)
  BY <1>1, FS_Subset DEF Events
<1>3. \A S : Spared(S) \in SUBSET Events
  BY DEF Spared
<1> QED
  BY <1>1, <1>2, <1>3, FS_Subset, FS_CardinalityType

\* The recorders, and any of them, are finitely many.
LEMMA Recorders ==
  /\ Cardinality(Recorder) \in Nat \ {0}
  /\ \A S \in SUBSET Recorder :
       /\ IsFiniteSet(S) /\ Cardinality(S) \in Nat /\ Cardinality(S) <= Cardinality(Recorder)
       /\ \A r \in Recorder \ S : /\ Cardinality(S \cup {r}) = Cardinality(S) + 1
                                  /\ Cardinality(S) < Cardinality(Recorder)
<1> USE HistoryAssumption DEF HistoryAssumption
<1>1. Cardinality(Recorder) \in Nat \ {0}
  BY FS_CardinalityType, FS_EmptySet
<1>2. \A S \in SUBSET Recorder :
        IsFiniteSet(S) /\ Cardinality(S) \in Nat /\ Cardinality(S) <= Cardinality(Recorder)
  BY FS_Subset, FS_CardinalityType
<1>3. ASSUME NEW S \in SUBSET Recorder, NEW r \in Recorder \ S
      PROVE  Cardinality(S \cup {r}) = Cardinality(S) + 1 /\ Cardinality(S) < Cardinality(Recorder)
  <2>1. Cardinality(S \cup {r}) = Cardinality(S) + 1
    BY <1>2, FS_AddElement
  <2>2. Cardinality(S \cup {r}) <= Cardinality(Recorder)
    <3>1. S \cup {r} \in SUBSET Recorder
      OBVIOUS
    <3> QED
      BY <3>1, <1>2
  <2> QED
    BY <1>1, <1>2, <2>1, <2>2
<1> QED
  BY <1>1, <1>2, <1>3

\* A nonempty set of numbers of a finite set of them has a least.
LEMMA Least ==
  ASSUME NEW E, IsFiniteSet(E), E \subseteq Nat, NEW D \in SUBSET E, D # {}
  PROVE  \E m \in D : \A i \in D : m <= i
<1> DEFINE Below(i) == {j \in E : j < i}
           T == {Below(i) : i \in D}
<1>1. IsWellFoundedOn(StrictSubsetOrdering(E), FiniteSubsetsOf(E))
  BY FS_StrictSubsetOrderingWellFounded
<1>b. \A i \in D : Below(i) \in SUBSET E /\ IsFiniteSet(Below(i))
  <2>1. \A i \in D : Below(i) \in SUBSET E
    OBVIOUS
  <2> QED
    BY <2>1, FS_Subset
<1>2. T \subseteq FiniteSubsetsOf(E) /\ T # {}
  <2> HIDE DEF Below
  <2> QED
    BY <1>b DEF FiniteSubsetsOf
<1>3. \E x \in T : \A y \in T : ~ (<<y, x>> \in StrictSubsetOrdering(E))
  BY <1>1, <1>2, WFMin
<1>4. PICK m \in D : \A i \in D : ~ (<<Below(i), Below(m)>> \in StrictSubsetOrdering(E))
  BY <1>3
<1>5. ASSUME NEW i \in D, i < m PROVE FALSE
  <2>1. i \in Below(m) /\ i \notin Below(i)
    BY <1>5
  <2>2. Below(i) \subseteq Below(m)
    <3>1. ASSUME NEW j \in E, j < i PROVE j < m
      <4>1. j \in Nat /\ i \in Nat /\ m \in Nat
        OBVIOUS
      <4> QED
        BY <1>5, <3>1, <4>1
    <3> QED
      BY <3>1
  <2> QED
    <3> HIDE DEF Below
    <3> QED
      BY <1>4, <1>5, <1>b, <2>1, <2>2 DEF StrictSubsetOrdering
<1> QED
  BY <1>5

\* What the list of a recorder leaves is within the limit and below it by one.
LEMMA RoomIsMade ==
  LET n == Cardinality(Events) IN
  Cardinality(Events \ Oldest(Excess(n), Events)) <= MaxEvents - 1
<1> DEFINE n == Cardinality(Events)
           k == Excess(n)
           Rest == Events \ Oldest(k, Events)
<1> USE HistoryAssumption DEF HistoryAssumption
<1>1. n \in Nat /\ k \in Nat /\ n - k <= MaxEvents - 1 /\ Events \subseteq Nat
  <2>1. n \in Nat
    BY EventsFinite, FS_CardinalityType
  <2> QED
    BY <2>1 DEF Excess, Events, EventId
<1>2. CASE Rest = {}
  BY <1>2, <1>1, FS_EmptySet
<1>3. CASE Rest # {}
  <2>1. PICK m \in Rest : \A i \in Rest : m <= i
    BY <1>1, <1>3, EventsFinite, Least
  <2> DEFINE B == {j \in Events : j < m}
  <2>2. IsFiniteSet(B) /\ Cardinality(B) \in Nat /\ Cardinality(B) >= k
    <3>1. IsFiniteSet(B) /\ Cardinality(B) \in Nat
      BY EventsFinite, FS_Subset, FS_CardinalityType
    <3>2. \A N : m \in Oldest(N, Events) <=> m \in Events /\ Cardinality(B) < N
      BY DEF Oldest
    <3>3. ~ (Cardinality(B) < k)
      BY <2>1, <3>2
    <3> QED
      BY <3>1, <3>3, <1>1
  <2>3. Rest \subseteq Events \ B
    <3>1. ASSUME NEW i \in Rest PROVE i \in Events /\ ~ (i < m)
      <4>1. m <= i /\ i \in Nat /\ m \in Nat
        BY <1>1, <2>1
      <4> QED
        BY <4>1
    <3> QED
      BY <3>1
  <2>4. Cardinality(Events \ B) = n - Cardinality(B) /\ IsFiniteSet(Events \ B)
    <3>1. Events \cap B = B
      OBVIOUS
    <3> QED
      BY <3>1, EventsFinite, FS_Difference
  <2>5. Cardinality(Rest) <= Cardinality(Events \ B) /\ Cardinality(Rest) \in Nat
    BY <2>3, <2>4, FS_Subset, FS_CardinalityType
  <2> QED
    BY <1>1, <2>2, <2>4, <2>5
<1> QED
  BY <1>2, <1>3

-----------------------------------------------------------------------------
(* The invariant *)

LEMMA HistoryInitially == ASSUME HistoryInit PROVE HistoryInv
<1> USE HistoryAssumption DEF HistoryAssumption
<1>1. Shape
  BY DEF HistoryInit, Shape, Whole, Idle, Unmarked, Recording
<1>2. Events \in SUBSET (1 .. newest) /\ newest \in 0 .. MaxEvents
  BY DEF HistoryInit, Events, EventId
<1>3. Cardinality(Events) <= MaxEvents /\ Cardinality(Events) \in Nat
  <2>1. IsFiniteSet(1 .. newest) /\ Cardinality(1 .. newest) = newest
    BY <1>2, FS_Interval
  <2>2. Cardinality(Events) <= newest
    BY <1>2, <2>1, FS_Subset
  <2> QED
    BY <1>2, <2>2, EventsFinite, FS_CardinalityType
<1>4. Working = {}
  BY DEF HistoryInit, Working, Idle
<1>5. Spared({}) = Events /\ Cardinality({}) = 0
  BY FS_EmptySet DEF Spared
<1>6. Room
  <2>1. \A S \in SUBSET Working : Cardinality(Spared(S)) = Cardinality(Events) /\ Cardinality(S) = 0
    BY <1>4, <1>5
  <2> QED
    BY <1>3, <2>1, Recorders DEF Room
<1> QED
  BY <1>1, <1>6 DEF HistoryInv

LEMMA ShapeStays ==
  ASSUME Shape, [(\E r \in Recorder : Record(r)) \/ Commands]_historyVars
  PROVE  Shape'
<1> USE HistoryAssumption DEF HistoryAssumption, Shape, Recording, Idle, Unmarked, Whole, EventId
<1>1. CASE UNCHANGED historyVars
  BY <1>1 DEF historyVars
<1>2. ASSUME NEW r \in Recorder, List(r) PROVE Shape'
  BY <1>2 DEF List, Oldest, Events
<1>3. ASSUME NEW r \in Recorder, EvictFile(r) PROVE Shape'
  <2>1. PICK f \in Whole \cup {"temporary"} : f # "directory" /\ has' = [has EXCEPT ![Victim(r)] = @ \ {f}]
    BY <1>3 DEF EvictFile
  <2> HIDE DEF Whole, Recording
  <2> QED
    BY <1>3, <2>1 DEF EvictFile
<1>4. ASSUME NEW r \in Recorder, EvictDirectory(r) PROVE Shape'
  <2> DEFINE v == Victim(r)
  <2> HIDE DEF v
  <2>1. has' = [has EXCEPT ![v] = {}] /\ UNCHANGED <<newest, marking>>
    BY <1>4 DEF EvictDirectory, v
  <2>2. rec' = [rec EXCEPT ![r].victims = @ \ {v}] /\ rec[r].pc = "evict"
    BY <1>4 DEF EvictDirectory, Evicting, v
  <2>3. rec' = [rec EXCEPT ![r] = [pc |-> "evict", victims |-> rec[r].victims \ {v}, id |-> rec[r].id]]
    <3>1. rec[r] = [pc |-> rec[r].pc, victims |-> rec[r].victims, id |-> rec[r].id]
      OBVIOUS
    <3>2. \A X : [rec[r] EXCEPT !.victims = X] = [pc |-> rec[r].pc, victims |-> X, id |-> rec[r].id]
      BY <3>1
    <3> QED
      BY <2>2, <3>2
  <2> QED
    BY <2>1, <2>3
<1>5. ASSUME NEW r \in Recorder, EvictFails(r) \/ RecordFails(r) \/ KillRecorder(r) PROVE Shape'
  <2>1. rec' = [rec EXCEPT ![r] = Idle] /\ UNCHANGED <<has, newest, marking>>
    BY <1>5 DEF EvictFails, RecordFails, KillRecorder
  <2> QED
    BY <2>1
<1>6. ASSUME NEW r \in Recorder, Stage(r) PROVE Shape'
  BY <1>6 DEF Stage
<1>7. ASSUME NEW r \in Recorder, Publish(r) PROVE Shape'
  BY <1>7 DEF Publish
<1>8. CASE MarkBegin
  BY <1>8 DEF MarkBegin, Events
<1>9. CASE MarkWrite
  BY <1>9 DEF MarkWrite
<1>10. CASE MarkRename
  BY <1>10 DEF MarkRename
<1>11. CASE MarkFails
  BY <1>11 DEF MarkFails
<1>12. CASE ClearBegin \/ ClearEnd
  BY <1>12 DEF ClearBegin, ClearEnd
<1>13. CASE ClearOne
  <2>1. CASE UNCHANGED has
    BY <1>13, <2>1 DEF ClearOne
  <2>2. ASSUME NEW i \in EventId, NEW f, f = "directory" => has[i] = {f},
               has' = [has EXCEPT ![i] = @ \ {f}]
        PROVE  Shape'
    BY <1>13, <2>2 DEF ClearOne
  <2> QED
    BY <1>13, <2>1, <2>2 DEF ClearOne, Events
<1> QED
  BY <1>1, <1>2, <1>3, <1>4, <1>5, <1>6, <1>7, <1>8, <1>9, <1>10, <1>11, <1>12, <1>13
  DEF Record, Commands

\* No event comes and nobody begins or evicts.
LEMMA NothingComes ==
  ASSUME Shape, Room, Events' \subseteq Events, NEW Q \in SUBSET Recorder,
         Working' = Working \ Q, \A q \in Recorder \ Q : rec'[q].victims = rec[q].victims
  PROVE  Room'
<1>1. ASSUME NEW S \in SUBSET Working'
      PROVE  Cardinality(Spared(S)') + Cardinality(S) <= MaxEvents + Cardinality(Recorder) - 1
  <2>1. S \in SUBSET Working /\ S \in SUBSET Recorder
    BY <1>1 DEF Working
  <2>2. Spared(S)' \subseteq Spared(S)
    BY <1>1, <2>1 DEF Spared, Working
  <2>3. Cardinality(Spared(S)') <= Cardinality(Spared(S)) /\ Cardinality(Spared(S)') \in Nat
    BY <2>2, EventsFinite, FS_Subset, FS_CardinalityType
  <2> QED
    BY <2>1, <2>3, EventsFinite, Recorders, HistoryAssumption DEF Room, HistoryAssumption
<1> QED
  BY <1>1 DEF Room, Spared

\* A recorder lists: whoever else may finish first, what it spares leaves room for one.
LEMMA RoomForOne ==
  ASSUME Shape, Room, NEW r \in Recorder, List(r)
  PROVE  Room'
<1> USE HistoryAssumption DEF HistoryAssumption
<1> DEFINE V == Oldest(Excess(Cardinality(Events)), Events)
<1>1. /\ Events' = Events /\ Working' = Working \cup {r} /\ r \notin Working
      /\ rec'[r].victims = V /\ \A q \in Recorder \ {r} : rec'[q] = rec[q]
  <2> HIDE DEF V
  <2>1. rec' = [rec EXCEPT ![r] = [pc |-> "evict", victims |-> V, id |-> 0]]
    BY DEF List, V
  <2> QED
    BY <2>1 DEF List, Events, Working, Shape
<1>2. ASSUME NEW S \in SUBSET Working'
      PROVE  Cardinality(Spared(S)') + Cardinality(S) <= MaxEvents + Cardinality(Recorder) - 1
  <2>1. S \in SUBSET Recorder
    BY <1>2 DEF Working
  <2>2. CASE r \notin S
    <3>1. S \in SUBSET Working /\ Spared(S)' = Spared(S)
      BY <1>1, <1>2, <2>1, <2>2 DEF Spared
    <3> QED
      BY <3>1 DEF Room
  <2>3. CASE r \in S
    <3>1. Spared(S)' \in SUBSET (Events \ V)
      BY <1>1, <2>3 DEF Spared
    <3>2. Cardinality(Events \ V) <= MaxEvents - 1
      BY RoomIsMade
    <3>3. IsFiniteSet(Events \ V) /\ Cardinality(Events \ V) \in Nat
      BY EventsFinite, FS_Difference, FS_CardinalityType
    <3>4. Cardinality(Spared(S)') <= Cardinality(Events \ V) /\ Cardinality(Spared(S)') \in Nat
      BY <3>1, <3>3, FS_Subset, FS_CardinalityType
    <3> QED
      BY <2>1, <3>2, <3>3, <3>4, Recorders
  <2> QED
    BY <2>2, <2>3
<1> QED
  BY <1>2 DEF Room, Spared

\* A victim goes: what its recorder spares is what it spared before.
LEMMA RoomKeptByEviction ==
  ASSUME Shape, Room, NEW r \in Recorder, EvictDirectory(r)
  PROVE  Room'
<1> USE HistoryAssumption DEF HistoryAssumption
<1> DEFINE v == Victim(r)
<1>1. /\ Events' = Events \ {v} /\ Working' = Working /\ r \in Working
      /\ rec'[r].victims = rec[r].victims \ {v} /\ \A q \in Recorder \ {r} : rec'[q] = rec[q]
  <2> HIDE DEF v
  <2>1. has' = [has EXCEPT ![v] = {}]
    BY DEF EvictDirectory, v
  <2>2. rec' = [rec EXCEPT ![r].victims = @ \ {v}] /\ rec[r].pc = "evict"
    BY DEF EvictDirectory, Evicting, v
  <2>3. Events' = Events \ {v}
    BY <2>1 DEF Events, Shape
  <2>4. rec'[r].victims = rec[r].victims \ {v} /\ rec'[r].pc = "evict"
        /\ \A q \in Recorder \ {r} : rec'[q] = rec[q]
    BY <2>2 DEF Shape, Recording
  <2> QED
    BY <2>2, <2>3, <2>4 DEF Working
<1>2. ASSUME NEW S \in SUBSET Working'
      PROVE  Cardinality(Spared(S)') + Cardinality(S) <= MaxEvents + Cardinality(Recorder) - 1
  <2>1. S \in SUBSET Working /\ S \in SUBSET Recorder
    BY <1>1, <1>2 DEF Working
  <2>2. Spared(S)' \in SUBSET Spared(S)
    <3> HIDE DEF v
    <3> QED
      BY <1>1, <2>1 DEF Spared
  <2> QED
    BY <2>1, <2>2, EventsFinite, FS_Subset, FS_CardinalityType, Recorders DEF Room
<1> QED
  BY <1>2 DEF Room, Spared

LEMMA RoomForTheEvent ==
  ASSUME Shape, Room, NEW r \in Recorder, Publish(r)
  PROVE  Room'
<1> USE HistoryAssumption DEF HistoryAssumption
<1> DEFINE i == rec[r].id
<1>1. /\ Events' \subseteq Events \cup {i} /\ Working' = Working \ {r} /\ r \in Working
      /\ rec[r].victims = {} /\ \A q \in Recorder \ {r} : rec'[q] = rec[q]
  BY DEF Publish, Events, Working, Shape, Idle
<1>2. ASSUME NEW S \in SUBSET Working'
      PROVE  Cardinality(Spared(S)') + Cardinality(S) <= MaxEvents + Cardinality(Recorder) - 1
  <2>1. S \in SUBSET Recorder /\ r \in Recorder \ S /\ S \cup {r} \in SUBSET Working
    BY <1>1, <1>2 DEF Working
  <2>2. Spared(S)' \in SUBSET (Spared(S \cup {r}) \cup {i})
    <3> HIDE DEF i
    <3> QED
      BY <1>1, <2>1 DEF Spared
  <2>3. Cardinality(Spared(S)') <= Cardinality(Spared(S \cup {r})) + 1 /\ Cardinality(Spared(S)') \in Nat
    <3> DEFINE A == Spared(S \cup {r})
    <3>1. IsFiniteSet(A) /\ Cardinality(A) \in Nat
      BY EventsFinite
    <3> HIDE DEF A, i
    <3>2. IsFiniteSet(A \cup {i}) /\ Cardinality(A \cup {i}) \in Nat
      BY <3>1, FS_AddElement, FS_CardinalityType
    <3>3. Cardinality(A \cup {i}) = IF i \in A THEN Cardinality(A) ELSE Cardinality(A) + 1
      BY <3>1, FS_AddElement
    <3>4. Cardinality(A \cup {i}) <= Cardinality(A) + 1
      BY <3>1, <3>3
    <3>5. Spared(S)' \in SUBSET (A \cup {i})
      BY <2>2 DEF A
    <3>6. Cardinality(Spared(S)') <= Cardinality(A \cup {i}) /\ Cardinality(Spared(S)') \in Nat
      BY <3>5, <3>2, FS_Subset, FS_CardinalityType
    <3> QED
      BY <3>1, <3>4, <3>6, <3>2 DEF A
  <2>4. Cardinality(Spared(S \cup {r})) + Cardinality(S \cup {r}) <= MaxEvents + Cardinality(Recorder) - 1
    BY <2>1 DEF Room
  <2> QED
    BY <2>1, <2>3, <2>4, EventsFinite, Recorders
<1> QED
  BY <1>2 DEF Room, Spared

LEMMA RoomStays ==
  ASSUME Shape, Room, [(\E r \in Recorder : Record(r)) \/ Commands]_historyVars
  PROVE  Room'
<1>1. ASSUME Events' \subseteq Events, UNCHANGED rec PROVE Room'
  <2> DEFINE Q == {}
  <2>1. Q \in SUBSET Recorder /\ Working' = Working \ Q
        /\ \A q \in Recorder \ Q : rec'[q].victims = rec[q].victims
    BY <1>1 DEF Working
  <2> HIDE DEF Q
  <2> QED
    BY <1>1, <2>1, NothingComes
<1>2. ASSUME NEW r \in Recorder, rec' = [rec EXCEPT ![r] = Idle], UNCHANGED has PROVE Room'
  <2>1. /\ Working' = Working \ {r} /\ Events' = Events
        /\ \A q \in Recorder \ {r} : rec'[q].victims = rec[q].victims
    BY <1>2 DEF Working, Events, Shape, Idle
  <2> QED
    BY <2>1, NothingComes
<1>3. ASSUME NEW r \in Recorder, Stage(r) PROVE Room'
  <2> DEFINE Q == {}
  <2>1. /\ Q \in SUBSET Recorder /\ Working' = Working \ Q /\ Events' = Events
        /\ \A q \in Recorder \ Q : rec'[q].victims = rec[q].victims
    BY <1>3 DEF Stage, Working, Events, Shape
  <2> HIDE DEF Q
  <2> QED
    BY <2>1, NothingComes
<1>4. ASSUME NEW i, NEW X, has' = [has EXCEPT ![i] = X], X # {} => has[i] # {}, UNCHANGED rec
      PROVE  Room'
  <2>1. Events' \subseteq Events
    BY <1>4 DEF Events, Shape
  <2> QED
    BY <1>1, <1>4, <2>1
<1>5. CASE UNCHANGED <<has, rec>>
  BY <1>1, <1>5 DEF Events
<1>6. ASSUME NEW r \in Recorder, EvictFile(r) PROVE Room'
  <2>1. PICK f : has' = [has EXCEPT ![Victim(r)] = has[Victim(r)] \ {f}] /\ UNCHANGED rec
    BY <1>6 DEF EvictFile
  <2> QED
    BY <1>4, <2>1
<1>7. CASE MarkWrite \/ MarkRename
  <2>1. PICK X : has' = [has EXCEPT ![marking.id] = X] /\ has[marking.id] # {} /\ UNCHANGED rec
    BY <1>7 DEF MarkWrite, MarkRename
  <2> QED
    BY <1>4, <2>1
<1>8. CASE ClearOne
  <2>1. ASSUME NEW i, NEW f, has' = [has EXCEPT ![i] = has[i] \ {f}] PROVE Room'
    BY <1>4, <1>8, <2>1 DEF ClearOne
  <2> QED
    BY <1>5, <1>8, <2>1 DEF ClearOne
<1>9. ASSUME NEW r \in Recorder, Record(r) PROVE Room'
  <2>1. CASE EvictFails(r) \/ RecordFails(r) \/ KillRecorder(r)
    BY <1>2, <2>1 DEF EvictFails, RecordFails, KillRecorder
  <2> QED
    BY <1>3, <1>6, <1>9, <2>1, RoomForOne, RoomKeptByEviction, RoomForTheEvent DEF Record
<1>10. CASE MarkBegin \/ MarkFails \/ ClearBegin \/ ClearEnd
  BY <1>5, <1>10 DEF MarkBegin, MarkFails, ClearBegin, ClearEnd
<1> QED
  BY <1>5, <1>7, <1>8, <1>9, <1>10 DEF Commands, historyVars

-----------------------------------------------------------------------------
\* However the recorders, a label and a clear meet, the events that are there and
\* those that may still come have room (record).
THEOREM HistoryInvariant == HistorySpec => []HistoryInv
<1>1. HistoryInit => HistoryInv
  BY HistoryInitially
<1>2. HistoryInv /\ [(\E r \in Recorder : Record(r)) \/ Commands]_historyVars => HistoryInv'
  BY ShapeStays, RoomStays DEF HistoryInv
<1> QED
  BY <1>1, <1>2, PTL DEF HistorySpec

\* Any number of recorders, for ever: the clips exceed the limit by one at most for
\* each recorder but the first (the eviction in record).
THEOREM ClipsBounded == HistorySpec => []HistoryBounded
<1>1. ASSUME HistoryInv PROVE HistoryBounded
  <2> DEFINE A == {i \in EventId : "audio" \in has[i]}
  <2>1. A \in SUBSET Events /\ Spared({}) = Events
    BY DEF Events, Spared
  <2>2. Cardinality(Events) <= MaxEvents + Cardinality(Recorder) - 1
    <3>1. {} \in SUBSET Working /\ Cardinality({}) = 0
      BY FS_EmptySet
    <3>2. Cardinality(Events) + 0 <= MaxEvents + Cardinality(Recorder) - 1
      BY <1>1, <2>1, <3>1 DEF HistoryInv, Room
    <3> QED
      BY <3>2, EventsFinite, FS_CardinalityType
  <2>3. Cardinality(A) <= Cardinality(Events) /\ Cardinality(A) \in Nat /\ Cardinality(Events) \in Nat
    BY <2>1, EventsFinite, FS_Subset, FS_CardinalityType
  <2> QED
    BY <2>2, <2>3, Recorders, HistoryAssumption DEF HistoryBounded, HistoryAssumption
<1> QED
  BY <1>1, HistoryInvariant, PTL

-----------------------------------------------------------------------------
(* Enrollment *)

Place == {"idle", "loaded", "prepare", "choose", "history", "merge", "rescue", "rescuing",
          "assist", "checkpoint", "augment", "import", "keep", "keeping", "train", "review",
          "confirm", "install", "write", "retain", "retaining", "save", "fail", "end"}
Clip == {"training", "calibration", "validation", "event", "made"} \X Nat
Data == [training : SUBSET Clip, calibration : SUBSET Clip, validation : SUBSET Clip]

Job == [pc : Place, mode : Mode, keep : BOOLEAN, feedback : BOOLEAN, aided : BOOLEAN,
        data : Data, from : Nat, merged : SUBSET EventId, base : Nat, seen : Nat, kept : Nat]
Session == [state : {"part", "whole", "lacking", "gone"}, data : Data]

TrainingTypes ==
  /\ command \in Nat
  /\ job \in Job
  /\ conf \in [edits : Nat, head : Data]
  /\ heads \in [whole : SUBSET Data, torn : SUBSET Data]
  /\ sessions \in Seq(Session)
  /\ copies \in SUBSET Nat /\ killed \in SUBSET Nat /\ reported \in SUBSET DOMAIN sessions

\* What goes on to be installed was held out; what is saved is whole; spellings train nothing.
HeadReady ==
  /\ job.pc \in {"review", "install", "write"} => Disjoint(job.data)
  /\ job.pc \in {"confirm", "retain", "retaining"} => job.mode = "spellings"
  /\ job.pc = "save" /\ job.mode # "spellings" => job.data \in heads.whole /\ Disjoint(job.data)

\* A session under way is the last, and nobody was told of it yet.
Underway == {"rescuing", "checkpoint", "keeping", "retaining"}
LastIsPart == job.pc \in Underway => sessions # <<>> /\ sessions[Len(sessions)].state = "part"

\* No command leaves its copies to the next one, unless it was killed.
OwnCopies == copies \subseteq killed \cup {command}

\* What was heard is the pronunciation that is under review, from the review on.
HeardIsReviewed ==
  /\ aid \in {"review", "generate"} /\ heard => <<voice, text>> \in played
  /\ aid = "generate" => heard

EnrollmentInv ==
  TrainingTypes /\ HeadReady /\ LastIsPart /\ OwnCopies /\ HeardIsReviewed
  /\ HeadSound /\ RecordingsKept /\ HeardApproved

-----------------------------------------------------------------------------
LEMMA EnrollmentInitially == ASSUME TrainingInit PROVE EnrollmentInv
<1>1. TrainingTypes
  BY DEF TrainingInit, TrainingTypes, Job, NoJob, NoDataset, Data, Place, Mode
<1>2. HeadReady /\ LastIsPart /\ OwnCopies /\ HeadSound /\ RecordingsKept
  BY DEF TrainingInit, HeadReady, LastIsPart, OwnCopies, HeadSound, RecordingsKept, NoJob, Underway
<1>3. HeardIsReviewed /\ HeardApproved
  BY DEF TrainingInit, AssistanceInit, Unassisted, HeardIsReviewed, HeardApproved
<1> QED
  BY <1>1, <1>2, <1>3 DEF EnrollmentInv

\* What a command may choose is recordings.
LEMMA ChosenTypes ==
  ASSUME TrainingTypes
  PROVE  \A c \in Chosen : c.data \in Data /\ c.from \in Nat
<1>1. Dataset(command) \in Data /\ Recorded("training", command) \in Clip
  BY DEF TrainingTypes, Dataset, Recorded, Data, Clip
<1>2. \A s \in DOMAIN sessions : sessions[s].data \in Data /\ s \in Nat
  <2>1. \A s \in DOMAIN sessions : sessions[s] \in Session /\ s \in Nat
    BY DEF TrainingTypes
  <2> QED
    BY <2>1 DEF Session
<1>3. \A s \in DOMAIN sessions, old \in {{}, {Recorded("training", command)}} :
        [Dataset(command) EXCEPT !.training = old \cup sessions[s].data.training] \in Data
  <2> HIDE DEF Clip
  <2> QED
    BY <1>1, <1>2 DEF Data
<1>4. \A i \in Events : <<"event", i>> \in Clip
  BY HistoryAssumption DEF HistoryAssumption, Events, EventId, Clip
<1>5. \A clip \in {{}} \cup {{<<"event", i>>} : i \in Events} :
        [Dataset(command) EXCEPT !.validation = @ \cup clip] \in Data
  BY <1>1, <1>4 DEF Data
<1>6. CASE job.mode \in {"fresh", "spellings"}
  BY <1>1, <1>6 DEF Chosen
<1>7. CASE job.mode = "resume"
  <2>1. Chosen = Resumed
    BY <1>7 DEF Chosen
  <2>2. ASSUME NEW c \in Resumed PROVE c.data \in Data /\ c.from \in Nat
    <3>1. PICK s \in DOMAIN sessions, old \in {{}, {Recorded("training", command)}} :
            c = [data |-> [Dataset(command) EXCEPT !.training = old \cup sessions[s].data.training], from |-> s]
      BY DEF Resumed, Loadable
    <3> DEFINE d == [Dataset(command) EXCEPT !.training = old \cup sessions[s].data.training]
    <3>2. d \in Data /\ s \in Nat
      BY <1>2, <1>3
    <3>3. c = [data |-> d, from |-> s]
      BY <3>1
    <3> HIDE DEF d
    <3> QED
      BY <3>2, <3>3
  <2> QED
    BY <2>1, <2>2
<1>8. CASE job.mode = "reuse"
  BY <1>2, <1>8 DEF Chosen, Newest, Loadable
<1>9. CASE job.mode = "file"
  <2>1. Chosen = FromFile
    BY <1>9 DEF Chosen
  <2>2. ASSUME NEW c \in FromFile PROVE c.data \in Data /\ c.from \in Nat
    <3>1. PICK clip \in {{}} \cup {{<<"event", i>>} : i \in Events} :
            c = [data |-> [Dataset(command) EXCEPT !.validation = @ \cup clip], from |-> 0]
      BY DEF FromFile
    <3> DEFINE d == [Dataset(command) EXCEPT !.validation = @ \cup clip]
    <3>2. d \in Data
      BY <1>5
    <3>3. c = [data |-> d, from |-> 0]
      BY <3>1
    <3> HIDE DEF d
    <3> QED
      BY <3>2, <3>3
  <2> QED
    BY <2>1, <2>2
<1> QED
  BY <1>6, <1>7, <1>8, <1>9 DEF TrainingTypes, Job, Mode

\* The steps that leave everything but the job.
LEMMA JobTypes ==
  ASSUME TrainingTypes, Snapshot \/ AskForHistory \/ Merge \/ Unaided \/ KeepNothing \/ Train
                        \/ CheckConfig \/ Fail
  PROVE  job' \in Job
<1> USE DEF TrainingTypes, To
<1>1. CASE Snapshot
  BY <1>1 DEF Snapshot, Job, Place
<1>2. CASE AskForHistory
  <2>1. PICK use \in BOOLEAN, keep \in {TRUE, job.keep} :
          job' = [job EXCEPT !.pc = "merge", !.feedback = use, !.keep = keep]
    BY <1>2 DEF AskForHistory
  <2>2. keep \in BOOLEAN
    BY DEF Job
  <2> QED
    BY <2>1, <2>2 DEF Job, Place
<1>3. CASE Merge
  <2> DEFINE joining == {<<"event", i>> : i \in Labelled}
             joined == [job.data EXCEPT !.training = @ \cup joining]
  <2>1. joining \subseteq Clip /\ Labelled \subseteq EventId
    BY HistoryAssumption DEF HistoryAssumption, Labelled, Events, EventId, Clip
  <2>2. joined \in Data
    <3> HIDE DEF Clip, joining
    <3> QED
      BY <2>1 DEF Data, Job
  <2>3. \/ job' = [job EXCEPT !.pc = "assist"]
        \/ job' = [job EXCEPT !.pc = "assist", !.data = joined, !.merged = Labelled]
        \/ job' = [job EXCEPT !.pc = "rescue"]
        \/ job' = [job EXCEPT !.pc = "fail"]
    BY <1>3 DEF Merge, Job
  <2> QED
    <3> HIDE DEF joined
    <3>1. ASSUME job' = [job EXCEPT !.pc = "assist", !.data = joined, !.merged = Labelled]
          PROVE  job' \in Job
      BY <2>1, <2>2, <3>1 DEF Job, Place
    <3>2. ASSUME NEW p \in Place, job' = [job EXCEPT !.pc = p] PROVE job' \in Job
      BY <3>2 DEF Job
    <3> QED
      BY <2>3, <3>1, <3>2 DEF Place
<1>4. CASE Unaided \/ KeepNothing \/ Train \/ Fail
  BY <1>4 DEF Unaided, KeepNothing, Train, Fail, Job, Place
<1>5. CASE CheckConfig
  BY <1>5 DEF CheckConfig, Job, Place
<1> QED
  BY <1>1, <1>2, <1>3, <1>4, <1>5

\* The life of a session: begun, ended, given up.
LEMMA RetainTypes ==
  ASSUME TrainingTypes, NEW from \in Place, NEW to \in Place
  PROVE  /\ Retaining(from, to) => TrainingTypes'
         /\ Retained(from, to) /\ sessions # <<>> => TrainingTypes'
         /\ NotRetained(from) /\ sessions # <<>> => TrainingTypes'
<1>1. Part \in Session /\ Gone \in Session
  BY DEF Part, Gone, NoDataset, Session, Data
<1>2. ASSUME Retaining(from, to) PROVE TrainingTypes'
  <2>1. job' \in Job
    BY <1>2 DEF TrainingTypes, Retaining, To, Job
  <2>2. sessions' \in Seq(Session) /\ DOMAIN sessions \subseteq DOMAIN sessions'
    BY <1>1, <1>2 DEF TrainingTypes, Retaining
  <2> QED
    BY <1>2, <2>1, <2>2 DEF TrainingTypes, Retaining
<1>3. ASSUME Retained(from, to), sessions # <<>> PROVE TrainingTypes'
  <2>1. job' \in Job
    <3>1. Len(sessions) \in Nat
      BY DEF TrainingTypes
    <3> QED
      BY <1>3, <3>1 DEF TrainingTypes, Retained, Job
  <2> DEFINE kept == IF job.mode = "spellings" THEN NoDataset ELSE job.data
  <2>2. [state |-> "whole", data |-> kept] \in Session
    BY DEF TrainingTypes, Job, Session, NoDataset, Data
  <2>4. sessions' = [sessions EXCEPT ![Len(sessions)] = [state |-> "whole", data |-> kept]]
    BY <1>3 DEF Retained
  <2> HIDE DEF kept
  <2>3. sessions' \in Seq(Session) /\ DOMAIN sessions' = DOMAIN sessions /\ Len(sessions) \in DOMAIN sessions
    BY <1>3, <2>2, <2>4 DEF TrainingTypes
  <2> QED
    BY <1>3, <2>1, <2>3 DEF TrainingTypes, Retained
<1>4. ASSUME NotRetained(from), sessions # <<>> PROVE TrainingTypes'
  <2>1. job' \in Job
    BY <1>4 DEF TrainingTypes, NotRetained, To, Job, Place
  <2>2. sessions' \in Seq(Session) /\ DOMAIN sessions' = DOMAIN sessions
    BY <1>1, <1>4 DEF TrainingTypes, NotRetained
  <2> QED
    BY <1>4, <2>1, <2>2 DEF TrainingTypes, NotRetained
<1> QED
  BY <1>2, <1>3, <1>4

LEMMA TypesStay ==
  ASSUME TrainingTypes, LastIsPart, CommandStep \/ UserStep
  PROVE  TrainingTypes'
<1>1. CASE BeginCommand
  <2>1. PICK m \in Mode, keep \in BOOLEAN, feedback \in BOOLEAN, aided \in BOOLEAN :
          job' = [NoJob EXCEPT !.pc = "loaded", !.mode = m, !.keep = keep,
                     !.feedback = feedback, !.aided = aided, !.base = conf.edits]
    BY <1>1 DEF BeginCommand
  <2>2. NoJob \in Job /\ conf.edits \in Nat
    BY DEF TrainingTypes, NoJob, NoDataset, Data, Job, Place, Mode
  <2>3. job' \in Job
    <3> HIDE DEF NoJob, Mode, Data
    <3> QED
      BY <2>1, <2>2 DEF Job, Place
  <2> QED
    BY <1>1, <2>3 DEF BeginCommand, TrainingTypes
<1>2. CASE Snapshot \/ AskForHistory \/ Merge \/ Unaided \/ KeepNothing \/ Train \/ CheckConfig \/ Fail
  BY <1>2, JobTypes DEF Snapshot, AskForHistory, Merge, Unaided, KeepNothing, Train, CheckConfig, Fail, TrainingTypes
<1>3. CASE Collect
  <2>1. job' \in Job
    <3>1. PICK c \in Chosen :
            job' = [job EXCEPT !.pc = IF job.mode = "spellings" THEN "confirm"
                                      ELSE IF job.mode \in Guided THEN "history" ELSE "merge",
                               !.data = c.data, !.from = c.from]
      BY <1>3 DEF Collect
    <3>2. c.data \in Data /\ c.from \in Nat
      BY ChosenTypes
    <3> HIDE DEF Chosen
    <3> QED
      BY <3>1, <3>2, ZenonT(40) DEF TrainingTypes, Job, Place
  <2> QED
    BY <1>3, <2>1 DEF Collect, TrainingTypes
<1>4. CASE Rescue \/ Checkpoint \/ Keep \/ RetainSpellings
  <2>1. ASSUME NEW from \in Underway, NEW to \in Place, Retained(from, to) \/ NotRetained(from)
        PROVE  TrainingTypes'
    <3>1. from \in Place /\ job.pc = from
      BY <2>1 DEF Underway, Place, Retained, NotRetained, To
    <3>2. sessions # <<>>
      BY <3>1 DEF LastIsPart
    <3> QED
      BY <2>1, <3>1, <3>2, RetainTypes
  <2>2. ASSUME NEW from \in Place, NEW to \in Place, Retaining(from, to) PROVE TrainingTypes'
    BY <2>2, RetainTypes
  <2>3. ASSUME job.pc = "keep", job' = [job EXCEPT !.pc = "keeping"],
               sessions' = Append(sessions, Part), UNCHANGED <<command, conf, heads, copies, reported, killed>>
        PROVE  TrainingTypes'
    <3>1. job' \in Job
      BY <2>3 DEF TrainingTypes, Job, Place
    <3>2. sessions' \in Seq(Session) /\ DOMAIN sessions \subseteq DOMAIN sessions'
      BY <2>3 DEF TrainingTypes, Part, NoDataset, Session, Data
    <3> QED
      BY <2>3, <3>1, <3>2 DEF TrainingTypes
  <2> QED
    BY <1>4, <2>1, <2>2, <2>3 DEF Rescue, Checkpoint, Keep, RetainSpellings, Underway, Place
<1>5. CASE BeginAid \/ Aid
  BY <1>5 DEF BeginAid, Aid, TrainingTypes, trainingVars
<1>6. CASE Aided \/ BeginAugment \/ Unaugmented
  <2>1. job' \in Job
    <3>1. CASE Aided
      BY <3>1, ZenonT(30) DEF Aided, TrainingTypes, Job, Place
    <3>2. CASE BeginAugment \/ Unaugmented
      BY <1>6, <3>2 DEF BeginAugment, Unaugmented, To, TrainingTypes, Job, Place
    <3> QED
      BY <1>6, <3>1, <3>2
  <2> QED
    BY <1>6, <2>1 DEF Aided, BeginAugment, Unaugmented, TrainingTypes
<1>7. CASE Augment
  <2> DEFINE d == [job.data EXCEPT !.training = @ \cup {<<"made", command>>}]
  <2>1. <<"made", command>> \in Clip
    BY DEF TrainingTypes, Clip
  <2>2. d \in Data
    <3> HIDE DEF Clip
    <3> QED
      BY <2>1 DEF TrainingTypes, Job, Data
  <2>3. job' = [job EXCEPT !.pc = "import", !.data = d]
    BY <1>7 DEF Augment, TrainingTypes, Job
  <2>4. job' \in Job
    <3> HIDE DEF d
    <3> QED
      BY <2>2, <2>3 DEF TrainingTypes, Job, Place
  <2> QED
    BY <1>7, <2>4 DEF Augment, TrainingTypes
<1>8. CASE Import
  BY <1>8 DEF Import, TrainingTypes, Job, Place
<1>9. CASE InstallHead
  <2>1. job' \in Job
    BY <1>9 DEF InstallHead, To, TrainingTypes, Job, Place
  <2>2. heads' \in [whole : SUBSET Data, torn : SUBSET Data]
    BY <1>9 DEF InstallHead, TrainingTypes, Job
  <2> QED
    BY <1>9, <2>1, <2>2 DEF InstallHead, TrainingTypes
<1>10. CASE WriteHead
  <2>1. job' \in Job
    BY <1>10 DEF WriteHead, To, TrainingTypes, Job, Place
  <2>2. heads' \in [whole : SUBSET Data, torn : SUBSET Data]
    BY <1>10 DEF WriteHead, TrainingTypes, Job
  <2> QED
    BY <1>10, <2>1, <2>2 DEF WriteHead, TrainingTypes
<1>11. CASE Save
  <2>1. job' \in Job
    BY <1>11 DEF Save, TrainingTypes, Job, Place
  <2>2. conf' \in [edits : Nat, head : Data]
    BY <1>11 DEF Save, TrainingTypes, Job, NoDataset, Data
  <2>3. sessions' \in Seq(Session) /\ reported' \in SUBSET DOMAIN sessions'
    BY <1>11, SMTT(20) DEF Save, TrainingTypes, Gone, NoDataset, Session, Data
  <2> QED
    BY <1>11, <2>1, <2>2, <2>3 DEF Save, TrainingTypes
<1>12. CASE EndCommand \/ KillCommand
  <2>1. NoJob \in Job
    BY DEF NoJob, NoDataset, Data, Job, Place, Mode
  <2> QED
    BY <1>12, <2>1 DEF EndCommand, KillCommand, TrainingTypes
<1>13. CASE EditConf
  BY <1>13 DEF EditConf, TrainingTypes
<1>14. CASE RemoveRecordings
  <2>1. PICK s \in DOMAIN sessions :
          /\ sessions' = [sessions EXCEPT ![s] = IF @.state = "whole" THEN [@ EXCEPT !.state = "lacking"] ELSE Gone]
          /\ reported' = reported \ {s}
    BY <1>14 DEF RemoveRecordings
  <2> DEFINE e == IF sessions[s].state = "whole" THEN [sessions[s] EXCEPT !.state = "lacking"] ELSE Gone
  <2>2. e \in Session
    <3>1. sessions[s] \in Session
      BY DEF TrainingTypes
    <3>2. Gone \in Session
      BY DEF Gone, NoDataset, Session, Data
    <3>3. [sessions[s] EXCEPT !.state = "lacking"] \in Session
      BY <3>1 DEF Session
    <3> QED
      BY <3>1, <3>2, <3>3
  <2>3. sessions' = [sessions EXCEPT ![s] = e]
    BY <2>1
  <2>4. sessions' \in Seq(Session) /\ DOMAIN sessions' = DOMAIN sessions
    <3> HIDE DEF e
    <3> QED
      BY <2>2, <2>3 DEF TrainingTypes
  <2> QED
    BY <1>14, <2>1, <2>4 DEF RemoveRecordings, TrainingTypes
<1> QED
  BY <1>1, <1>2, <1>3, <1>4, <1>5, <1>6, <1>7, <1>8, <1>9, <1>10, <1>11, <1>12, <1>13, <1>14
  DEF CommandStep, UserStep

\* A pronunciation is approved only after it was played; a step that leaves the
\* assistance alone, and the end of it, keep that.
LEMMA ApprovalStays ==
  ASSUME HeardIsReviewed, HeardApproved, CommandStep \/ UserStep
  PROVE  HeardIsReviewed' /\ HeardApproved'
<1> USE DEF HeardIsReviewed, HeardApproved, AidTo
<1>1. CASE UNCHANGED assistanceVars
  BY <1>1 DEF assistanceVars
<1>2. CASE BeginAid \/ Aided \/ BeginAugment
  BY <1>2 DEF BeginAid, Aided, BeginAugment, assistanceVars
<1>3. CASE Augment \/ Unaugmented \/ KillCommand
  BY <1>3 DEF Augment, Unaugmented, KillCommand, EndAid
<1>4. CASE AssistanceStep
  <2>1. CASE PrepareAid \/ StageRelease \/ ReleaseFails \/ PublishRelease \/ UnpublishedRelease
             \/ LinkRelease \/ UnlinkedRelease
    BY <2>1 DEF PrepareAid, StageRelease, ReleaseFails, PublishRelease, UnpublishedRelease,
                LinkRelease, UnlinkedRelease
  <2>2. CASE Inventory \/ NextVoice \/ Preview \/ Edit \/ Augmented
    BY <2>2 DEF Inventory, NextVoice, Preview, Edit, Augmented
  <2>3. CASE Play
    BY <2>3 DEF Play
  <2>4. CASE Decide
    BY <2>4 DEF Decide
  <2>5. CASE Generate
    <3>1. CASE clips' = clips
      BY <2>5, <3>1 DEF Generate
    <3>2. ASSUME NEW classes, clips' = clips \cup {[voice |-> voice, text |-> text, class |-> c] : c \in classes},
                 aid = "generate"
          PROVE  HeardApproved'
      <4>1. played' = played /\ <<voice, text>> \in played
        BY <2>5, <3>2 DEF Generate
      <4>2. ASSUME NEW c \in clips' PROVE <<c.voice, c.text>> \in played
        <5>1. c \in clips \/ (c.voice = voice /\ c.text = text)
          BY <3>2, <4>2
        <5> QED
          BY <4>1, <5>1
      <4> QED
        BY <4>1, <4>2
    <3>3. HeardIsReviewed' /\ aid = "generate"
      BY <2>5 DEF Generate
    <3> QED
      BY <2>5, <3>1, <3>2, <3>3 DEF Generate
  <2> QED
    BY <1>4, <2>1, <2>2, <2>3, <2>4, <2>5 DEF AssistanceStep
<1>5. CASE UserStep
  BY <1>1, <1>5 DEF UserStep, EditConf, RemoveRecordings
<1>6. CASE Rescue \/ Checkpoint \/ Keep \/ RetainSpellings
  BY <1>1, <1>6 DEF Rescue, Checkpoint, Keep, RetainSpellings, Retaining, Retained, NotRetained
<1> QED
  BY <1>1, <1>2, <1>3, <1>4, <1>5, <1>6
  DEF CommandStep, Aid, BeginCommand, Snapshot, Collect, AskForHistory, Merge, Unaided, Import,
      KeepNothing, Train, CheckConfig, InstallHead, WriteHead, Save, Fail, EndCommand

\* What is installed and saved was trained, and trained on other clips than it is held to.
LEMMA HeadStays ==
  ASSUME TrainingTypes, HeadReady, HeadSound, CommandStep \/ UserStep
  PROVE  HeadReady' /\ HeadSound'
<1> USE DEF TrainingTypes, HeadReady, HeadSound, To
<1> DEFINE Quiet == {"idle", "loaded", "prepare", "choose", "history", "merge", "rescue", "rescuing",
                     "assist", "checkpoint", "augment", "import", "keep", "keeping", "train", "end", "fail"}
\* Most steps go on to a place of which nothing is said.
<1>1. ASSUME job'.pc \in Quiet, conf'.head = conf.head, heads.whole \subseteq heads'.whole
      PROVE  HeadReady' /\ HeadSound'
  BY <1>1
<1>3. CASE BeginCommand \/ EndCommand \/ KillCommand
  <2>1. NoJob.pc \in Quiet
    BY DEF NoJob
  <2>2. CASE BeginCommand
    <3>1. job'.pc \in Quiet
      BY <2>2 DEF BeginCommand, NoJob
    <3> QED
      BY <1>1, <2>2, <3>1 DEF BeginCommand
  <2> QED
    BY <1>1, <1>3, <2>1, <2>2 DEF EndCommand, KillCommand
<1>4. CASE Snapshot \/ AskForHistory \/ Unaided \/ KeepNothing \/ Fail \/ Aided \/ Import
  <2>1. job'.pc \in Quiet
    BY <1>4, ZenonT(40) DEF Snapshot, AskForHistory, Unaided, KeepNothing, Fail, Aided, Import, Job
  <2> QED
    BY <1>1, <1>4, <2>1 DEF Snapshot, AskForHistory, Unaided, KeepNothing, Fail, Aided, Import
<1>5. CASE Merge
  <2>1. job'.pc \in Quiet
    BY <1>5 DEF Merge, Job
  <2> QED
    BY <1>1, <1>5, <2>1 DEF Merge
<1>6. CASE Collect
  <2>1. job'.pc \in Quiet \/ (job'.pc = "confirm" /\ job'.mode = "spellings")
    <3>1. PICK c \in Chosen :
            job' = [job EXCEPT !.pc = IF job.mode = "spellings" THEN "confirm"
                                      ELSE IF job.mode \in Guided THEN "history" ELSE "merge",
                               !.data = c.data, !.from = c.from]
      BY <1>6 DEF Collect
    <3> HIDE DEF Chosen
    <3> QED
      BY <3>1 DEF Job
  <2> QED
    BY <1>1, <1>6, <2>1 DEF Collect
<1>7. CASE Rescue \/ Checkpoint \/ Keep
  <2>1. job'.pc \in Quiet
    BY <1>7, ZenonT(30) DEF Rescue, Checkpoint, Keep, Retaining, Retained, NotRetained, Job
  <2> QED
    BY <1>1, <1>7, <2>1 DEF Rescue, Checkpoint, Keep, Retaining, Retained, NotRetained
<1>8. CASE RetainSpellings
  <2>1. job.mode = "spellings"
    BY <1>8 DEF RetainSpellings, Retaining, Retained, NotRetained
  <2>2. job'.mode = "spellings" /\ job'.pc \in {"retaining", "save", "fail"}
    BY <1>8, <2>1 DEF RetainSpellings, Retaining, Retained, NotRetained, Job
  <2> QED
    BY <1>8, <2>2 DEF RetainSpellings, Retaining, Retained, NotRetained
<1>9. CASE BeginAid \/ Aid \/ EditConf \/ RemoveRecordings
  BY <1>9 DEF BeginAid, Aid, EditConf, RemoveRecordings, trainingVars
<1>10. CASE BeginAugment \/ Augment \/ Unaugmented
  <2>1. job'.pc \in Quiet
    BY <1>10 DEF BeginAugment, Augment, Unaugmented, Job
  <2> QED
    BY <1>1, <1>10, <2>1 DEF BeginAugment, Augment, Unaugmented
<1>11. CASE Train
  <2>1. job'.pc = "review" /\ job'.data = job.data /\ Disjoint(job.data)
    BY <1>11 DEF Train, Job
  <2> QED
    BY <1>11, <2>1 DEF Train
<1>12. CASE CheckConfig
  <2>1. /\ job'.data = job.data /\ job'.mode = job.mode
        /\ \/ job.pc = "review" /\ job'.pc = "install"
           \/ job.pc = "confirm" /\ job'.pc \in {"retain", "save"}
    BY <1>12 DEF CheckConfig, Job
  <2> QED
    BY <1>12, <2>1 DEF CheckConfig
<1>13. CASE InstallHead \/ WriteHead
  <2>1. /\ job'.data = job.data /\ job'.pc \in {"save", "fail", "write"} /\ job.pc \in {"install", "write"}
        /\ job'.pc = "save" => job.data \in heads'.whole
        /\ heads.whole \subseteq heads'.whole /\ conf' = conf
    BY <1>13 DEF InstallHead, WriteHead, Job
  <2> QED
    BY <2>1
<1>14. CASE Save
  <2>1. job'.pc \in Quiet /\ heads' = heads
    BY <1>14 DEF Save, Job
  <2>2. CASE conf' = conf
    BY <1>1, <2>1, <2>2
  <2>3. CASE conf'.head = IF job.mode = "spellings" THEN NoDataset ELSE job.data
    BY <1>14, <2>1, <2>3 DEF Save
  <2> QED
    BY <1>14, <2>2, <2>3 DEF Save
<1> QED
  BY <1>3, <1>4, <1>5, <1>6, <1>7, <1>8, <1>9, <1>10, <1>11, <1>12, <1>13, <1>14
  DEF CommandStep, UserStep

\* The sessions of which the user was told, and the one under way, which is another.
LEMMA SessionsStay ==
  ASSUME TrainingTypes, LastIsPart, RecordingsKept, CommandStep \/ UserStep
  PROVE  LastIsPart' /\ \A s \in reported' : sessions'[s].state = "whole"
<1> USE DEF TrainingTypes, LastIsPart, To
<1> DEFINE Told == \A s \in reported' : sessions'[s].state = "whole"
<1>t. \A s \in reported : sessions[s].state = "whole"
  BY DEF RecordingsKept
<1>n. Len(sessions) \in Nat /\ DOMAIN sessions = 1 .. Len(sessions) /\ reported \subseteq DOMAIN sessions
  OBVIOUS
<1>1. ASSUME UNCHANGED <<sessions, reported>>, job'.pc \notin Underway PROVE LastIsPart' /\ Told
  BY <1>1, <1>t
<1>2. ASSUME NEW from, NEW to, Retaining(from, to) PROVE LastIsPart' /\ Told
  <2>1. sessions' = Append(sessions, Part) /\ reported' = reported
    BY <1>2 DEF Retaining
  <2>2. sessions' # <<>> /\ sessions'[Len(sessions')] = Part /\ \A s \in DOMAIN sessions : sessions'[s] = sessions[s]
    <3>1. Part \in Session
      BY DEF Part, NoDataset, Session, Data
    <3> HIDE DEF Part
    <3> QED
      BY <2>1, <3>1
  <2> QED
    BY <1>t, <1>n, <2>1, <2>2 DEF Part
<1>3. ASSUME NEW from \in Underway, NEW to \in Place \ Underway, Retained(from, to)
      PROVE  LastIsPart' /\ Told
  <2>1. job.pc = from /\ job'.pc = to
    BY <1>3 DEF Retained, Job
  <2>2. Len(sessions) \in DOMAIN sessions
    BY <2>1, <1>n
  <2>3. /\ sessions'[Len(sessions)].state = "whole" /\ reported' = reported \cup {Len(sessions)}
        /\ \A s \in DOMAIN sessions : s # Len(sessions) => sessions'[s] = sessions[s]
    BY <1>3, <2>2 DEF Retained
  <2> QED
    BY <1>t, <1>n, <2>1, <2>3
<1>4. ASSUME NEW from \in Underway, NotRetained(from) PROVE LastIsPart' /\ Told
  <2>1. job.pc = from /\ job'.pc = "fail"
    BY <1>4 DEF NotRetained, Job
  <2>2. Len(sessions) \notin reported
    BY <2>1, <1>t
  <2>3. reported' = reported /\ \A s \in DOMAIN sessions : s # Len(sessions) => sessions'[s] = sessions[s]
    BY <1>4 DEF NotRetained
  <2> QED
    BY <1>t, <1>n, <2>1, <2>2, <2>3 DEF Underway
<1>5. CASE Rescue
  BY <1>2, <1>3, <1>4, <1>5 DEF Rescue, Underway, Place
<1>6. CASE Checkpoint
  BY <1>2, <1>3, <1>4, <1>6 DEF Checkpoint, Underway, Place
<1>7. CASE RetainSpellings
  BY <1>2, <1>3, <1>4, <1>7 DEF RetainSpellings, Underway, Place
<1>8. CASE Keep
  <2>1. CASE job.pc = "keep" /\ sessions' = Append(sessions, Part) /\ reported' = reported
    <3>1. sessions' # <<>> /\ sessions'[Len(sessions')] = Part /\ \A s \in DOMAIN sessions : sessions'[s] = sessions[s]
      <4>1. Part \in Session
        BY DEF Part, NoDataset, Session, Data
      <4> HIDE DEF Part
      <4> QED
        BY <2>1, <4>1
    <3> QED
      BY <1>t, <1>n, <2>1, <3>1 DEF Part
  <2> QED
    BY <1>3, <1>4, <1>8, <2>1 DEF Keep, Underway, Place
<1>9. CASE BeginCommand \/ EndCommand \/ KillCommand
  <2>1. job'.pc \notin Underway
    <3>1. CASE BeginCommand
      BY <3>1 DEF BeginCommand, NoJob, Underway
    <3>2. NoJob.pc \notin Underway
      BY DEF NoJob, Underway
    <3> QED
      BY <1>9, <3>1, <3>2 DEF EndCommand, KillCommand
  <2> QED
    BY <1>1, <1>9, <2>1 DEF BeginCommand, EndCommand, KillCommand
<1>10. CASE Snapshot \/ AskForHistory \/ Merge \/ Unaided \/ KeepNothing \/ Train \/ Fail
  <2>1. job'.pc \notin Underway
    BY <1>10, ZenonT(40) DEF Snapshot, AskForHistory, Merge, Unaided, KeepNothing, Train, Fail, Job, Underway
  <2> QED
    BY <1>1, <1>10, <2>1 DEF Snapshot, AskForHistory, Merge, Unaided, KeepNothing, Train, Fail
<1>11. CASE CheckConfig \/ InstallHead \/ WriteHead \/ Aided \/ Import
  <2>1. job'.pc \notin Underway
    BY <1>11, ZenonT(40) DEF CheckConfig, InstallHead, WriteHead, Aided, Import, Job, Underway
  <2> QED
    BY <1>1, <1>11, <2>1 DEF CheckConfig, InstallHead, WriteHead, Aided, Import
<1>12. CASE BeginAugment \/ Augment \/ Unaugmented
  <2>1. job'.pc \notin Underway
    BY <1>12 DEF BeginAugment, Augment, Unaugmented, Job, Underway
  <2> QED
    BY <1>1, <1>12, <2>1 DEF BeginAugment, Augment, Unaugmented
<1>13. CASE Collect
  <2>1. job'.pc \notin Underway
    <3>1. PICK c \in Chosen :
            job' = [job EXCEPT !.pc = IF job.mode = "spellings" THEN "confirm"
                                      ELSE IF job.mode \in Guided THEN "history" ELSE "merge",
                               !.data = c.data, !.from = c.from]
      BY <1>13 DEF Collect
    <3> HIDE DEF Chosen
    <3> QED
      BY <3>1 DEF Job, Underway
  <2> QED
    BY <1>1, <1>13, <2>1 DEF Collect
<1>14. CASE BeginAid \/ Aid \/ EditConf
  BY <1>t, <1>14 DEF BeginAid, Aid, EditConf, trainingVars
<1>15. CASE Save
  <2>1. job'.pc \notin Underway
    BY <1>15 DEF Save, Job, Underway
  <2>2. CASE UNCHANGED <<sessions, reported>>
    BY <1>1, <2>1, <2>2
  <2>3. CASE sessions' = [sessions EXCEPT ![job.kept] = Gone] /\ reported' = reported \ {job.kept}
    BY <1>t, <1>n, <2>1, <2>3
  <2> QED
    BY <1>15, <2>2, <2>3 DEF Save
<1>16. CASE RemoveRecordings
  <2>1. PICK s \in DOMAIN sessions :
          /\ job.pc \in Underway => s # Len(sessions)
          /\ sessions' = [sessions EXCEPT ![s] = IF @.state = "whole" THEN [@ EXCEPT !.state = "lacking"] ELSE Gone]
          /\ reported' = reported \ {s} /\ job' = job
    BY <1>16 DEF RemoveRecordings, Underway
  <2>2. /\ DOMAIN sessions' = DOMAIN sessions /\ Len(sessions') = Len(sessions)
        /\ \A t \in DOMAIN sessions : t # s => sessions'[t] = sessions[t]
    BY <2>1
  <2> QED
    BY <1>t, <1>n, <2>1, <2>2
<1> QED
  BY <1>5, <1>6, <1>7, <1>8, <1>9, <1>10, <1>11, <1>12, <1>13, <1>14, <1>15, <1>16
  DEF CommandStep, UserStep

\* The copies are of the command that runs, or of one that was killed.
LEMMA CopiesStay ==
  ASSUME TrainingTypes, OwnCopies, RecordingsKept, CommandStep \/ UserStep
  PROVE  OwnCopies' /\ (job'.pc = "idle" => copies' \subseteq killed')
<1> USE DEF OwnCopies, To
<1>1. CASE BeginCommand
  BY <1>1 DEF BeginCommand, RecordingsKept, NoJob
<1>2. CASE EndCommand \/ KillCommand
  BY <1>2 DEF EndCommand, KillCommand
<1>3. ASSUME UNCHANGED <<command, killed>>, copies' \subseteq copies \cup {command}, job'.pc # "idle"
      PROVE  OwnCopies' /\ (job'.pc = "idle" => copies' \subseteq killed')
  BY <1>3
<1>4. ASSUME UNCHANGED <<command, killed, copies, job>>
      PROVE  OwnCopies' /\ (job'.pc = "idle" => copies' \subseteq killed')
  BY <1>4 DEF RecordingsKept
<1> USE DEF TrainingTypes
<1>5. CASE Snapshot \/ AskForHistory \/ Merge \/ Unaided \/ KeepNothing \/ Train \/ Fail
  <2>1. job'.pc # "idle"
    BY <1>5 DEF Snapshot, AskForHistory, Merge, Unaided, KeepNothing, Train, Fail, Job
  <2> QED
    BY <1>3, <1>5, <2>1 DEF Snapshot, AskForHistory, Merge, Unaided, KeepNothing, Train, Fail
<1>6. CASE CheckConfig \/ InstallHead \/ WriteHead \/ Aided \/ Save
  <2>1. job'.pc # "idle"
    BY <1>6 DEF CheckConfig, InstallHead, WriteHead, Aided, Save, Job
  <2> QED
    BY <1>3, <1>6, <2>1 DEF CheckConfig, InstallHead, WriteHead, Aided, Save
<1>7. CASE Augment \/ Unaugmented \/ Import
  <2>1. job'.pc # "idle"
    <3>1. CASE Augment
      BY <3>1 DEF Augment, Job
    <3>2. CASE Unaugmented \/ Import
      BY <3>2, ZenonT(40) DEF Unaugmented, Import, Job
    <3> QED
      BY <1>7, <3>1, <3>2
  <2> QED
    BY <1>3, <1>7, <2>1 DEF Augment, Unaugmented, Import
<1>8. CASE Collect
  <2>1. job'.pc # "idle"
    <3>1. PICK c \in Chosen :
            job' = [job EXCEPT !.pc = IF job.mode = "spellings" THEN "confirm"
                                      ELSE IF job.mode \in Guided THEN "history" ELSE "merge",
                               !.data = c.data, !.from = c.from]
      BY <1>8 DEF Collect
    <3> HIDE DEF Chosen
    <3> QED
      BY <3>1 DEF Job
  <2> QED
    BY <1>3, <1>8, <2>1 DEF Collect
<1>9. ASSUME NEW from, NEW to, to # "idle", Retaining(from, to) \/ Retained(from, to) \/ NotRetained(from)
      PROVE  OwnCopies' /\ (job'.pc = "idle" => copies' \subseteq killed')
  <2>1. job'.pc # "idle"
    BY <1>9 DEF Retaining, Retained, NotRetained, Job
  <2> QED
    BY <1>3, <1>9, <2>1 DEF Retaining, Retained, NotRetained
<1>10. CASE Rescue \/ Checkpoint \/ Keep \/ RetainSpellings
  <2>1. CASE job' = [job EXCEPT !.pc = "keeping"] /\ UNCHANGED <<command, killed, copies>>
    BY <1>3, <2>1 DEF Job
  <2> QED
    BY <1>9, <1>10, <2>1 DEF Rescue, Checkpoint, Keep, RetainSpellings
<1>11. CASE BeginAid \/ Aid \/ UserStep
  BY <1>4, <1>11 DEF BeginAid, Aid, UserStep, EditConf, RemoveRecordings, trainingVars
<1>12. CASE BeginAugment
  <2>1. job' = job \/ job'.pc = "augment"
    BY <1>12 DEF BeginAugment, Job
  <2> QED
    BY <1>3, <1>4, <1>12, <2>1 DEF BeginAugment
<1> QED
  BY <1>1, <1>2, <1>5, <1>6, <1>7, <1>8, <1>10, <1>11, <1>12 DEF CommandStep

\* The history moves beside an enrollment and touches nothing of it.
LEMMA EnrollmentInductive ==
  ASSUME EnrollmentInv, [EnrollmentNext]_enrollmentVars
  PROVE  EnrollmentInv'
<1>1. CASE UNCHANGED <<assistanceVars, trainingVars>>
  BY <1>1 DEF EnrollmentInv, TrainingTypes, HeadReady, LastIsPart, OwnCopies, HeardIsReviewed,
              HeadSound, RecordingsKept, HeardApproved, assistanceVars, trainingVars
<1>2. CASE CommandStep \/ UserStep
  BY <1>2, TypesStay, ApprovalStays, HeadStays, SessionsStay, CopiesStay DEF EnrollmentInv, RecordingsKept
<1> QED
  BY <1>1, <1>2 DEF EnrollmentNext, enrollmentVars

-----------------------------------------------------------------------------
\* The inductive invariant, for any number of commands, edits, voices and detections.
THEOREM EnrollmentInvariant == EnrollmentSpec => []EnrollmentInv
  BY EnrollmentInitially, EnrollmentInductive, PTL DEF EnrollmentSpec

\* No synthetic clip is generated for training before the user has heard that voice say
\* that very pronunciation (review_with).
THEOREM ApprovedWasHeard == EnrollmentSpec => []HeardApproved
  BY EnrollmentInvariant, PTL DEF EnrollmentInv

\* Whatever was labelled, evicted, resumed, killed or edited: the active head was written
\* to its end and judged by clips it was not trained on (Head::train, validate_held_out).
THEOREM ActiveHeadSound == EnrollmentSpec => []HeadSound
  BY EnrollmentInvariant, PTL DEF EnrollmentInv

\* What the user was told is kept stays, and only a killed command leaves private copies
\* (SampleSet::retain and drop).
THEOREM KeptStays == EnrollmentSpec => []RecordingsKept
  BY EnrollmentInvariant, PTL DEF EnrollmentInv

-----------------------------------------------------------------------------
(* The installations and setups *)

\* Who is inside has the lock, and only one is.
Locked == \A p \in Installer : at[p] \in Inside <=> lock = p

\* Whoever goes on to download has seen that the model is not there, or could not read it.
Seen == \A p \in Installer : at[p] = "absent" => target # "whole" \/ cancel[p] \/ misread

\* From there until the copy is verified, nobody has reported success, unless it was that.
Exchanging == {"fetch", "downloading", "copy", "discard", "ready", "vacant", "active"}
Alone == ~misread => \A p, q \in Installer : at[p] \in Exchanging => at[q] # "installed"

\* What is renamed into place has been copied whole.
Copied == \A p \in Installer :
  /\ at[p] \in {"ready", "vacant"} => staged[p] = "whole"
  /\ at[p] \in {"active", "verified", "finish"} => target = "whole"

InstallInv == InstallTypeOK /\ Locked /\ Seen /\ Alone /\ Copied /\ InstalledStays

-----------------------------------------------------------------------------
\* The places of a process, once each: their names are distinct.
USE NobodyAssumption DEF Inside, Ended, Exchanging

LEMMA InstallInitially == ASSUME InstallInit PROVE InstallInv
  BY DEF InstallInit, InstallInv, InstallTypeOK, Locked, Seen, Alone, Copied, InstalledStays, Version

\* A step of the installer, and the kill, keep the types.
LEMMA InstallTypes ==
  ASSUME InstallTypeOK, NEW p \in Installer, InstallStep(p) \/ KillInstaller(p)
  PROVE  InstallTypeOK'
<1> USE DEF InstallTypeOK, Version, Goto, files
<1>1. CASE Acquire(p) \/ Busy(p) \/ CheckInstalled(p) \/ Unprepared(p) \/ HaveSource(p)
  BY <1>1 DEF Acquire, Busy, CheckInstalled, Unprepared, HaveSource
<1>2. CASE Prepare(p) \/ Download(p) \/ Downloaded(p) \/ DownloadFails(p)
  BY <1>2 DEF Prepare, Download, Downloaded, DownloadFails
<1>3. CASE Copy(p) \/ CopyFails(p) \/ Discard(p) \/ RetainFails(p) \/ Retain(p)
  BY <1>3 DEF Copy, CopyFails, Discard, RetainFails, Retain
<1>4. CASE Activate(p) \/ Verify(p)
  BY <1>4 DEF Activate, Verify
<1>5. CASE ActivateFails(p) \/ VerifyFails(p)
  BY <1>5 DEF ActivateFails, VerifyFails, Restored
<1>6. CASE RemoveOld(p) \/ RemoveOldFails(p)
  BY <1>6 DEF RemoveOld, RemoveOldFails
<1>7. CASE Leave(p) \/ Signal(p) \/ KillInstaller(p)
  BY <1>7 DEF Leave, Signal, KillInstaller, Unlocked, Uncancelled
<1> QED
  BY <1>1, <1>2, <1>3, <1>4, <1>5, <1>6, <1>7 DEF InstallStep

LEMMA InstallInductive ==
  ASSUME InstallInv, InstallNext
  PROVE  InstallInv'
<1> USE DEF Goto, files
<1>1. PICK p \in Installer : InstallStep(p) \/ KillInstaller(p)
  BY DEF InstallNext
<1>t. InstallTypeOK'
  BY <1>1, InstallTypes DEF InstallInv
<1> SUFFICES (Locked /\ Seen /\ Alone /\ Copied /\ InstalledStays)'
  BY <1>t DEF InstallInv
<1> USE DEF InstallInv, InstallTypeOK, Locked, Seen, Alone, Copied, InstalledStays
<1>2. CASE Acquire(p)
  BY <1>2 DEF Acquire
<1>3. CASE Busy(p)
  BY <1>3 DEF Busy
<1>4. CASE CheckInstalled(p)
  <2>1. CASE Goto(p, "finish") /\ target = "whole" /\ misread' = misread
    BY <1>4, <2>1 DEF CheckInstalled
  <2>2. CASE Goto(p, "absent") /\ misread' = (misread \/ (target = "whole" /\ ~cancel[p]))
    <3>1. at[p] = "held" /\ lock' = lock /\ target' = target /\ staged' = staged /\ cancel' = cancel
      BY <1>4 DEF CheckInstalled
    <3>2. ~misread' => ~misread /\ (target # "whole" \/ cancel[p])
      BY <2>2, ZenonT(30)
    <3>3. /\ at'[p] = "absent" /\ \A q \in Installer \ {p} : at'[q] = at[q]
      BY <2>2
    <3>4. Locked' /\ Copied'
      BY <3>1, <3>3
    <3>5. Seen' /\ Alone' /\ InstalledStays'
      BY <3>1, <3>2, <3>3
    <3> QED
      BY <3>4, <3>5
  <2> QED
    BY <1>4, <2>1, <2>2 DEF CheckInstalled
<1>5. CASE Prepare(p)
  BY <1>5 DEF Prepare
<1>6. CASE Unprepared(p) \/ HaveSource(p)
  BY <1>6 DEF Unprepared, HaveSource
<1>7. CASE Download(p) \/ Downloaded(p) \/ DownloadFails(p)
  BY <1>7 DEF Download, Downloaded, DownloadFails
<1>8. CASE Copy(p)
  BY <1>8 DEF Copy
<1>9. CASE CopyFails(p) \/ Discard(p) \/ RetainFails(p)
  BY <1>9 DEF CopyFails, Discard, RetainFails
<1>10. CASE Retain(p)
  BY <1>10 DEF Retain
<1>11. CASE Activate(p)
  BY <1>11 DEF Activate
<1>12. CASE ActivateFails(p) \/ VerifyFails(p)
  BY <1>12 DEF ActivateFails, VerifyFails, Restored
<1>13. CASE Verify(p)
  BY <1>13 DEF Verify
<1>14. CASE RemoveOld(p) \/ RemoveOldFails(p)
  BY <1>14 DEF RemoveOld, RemoveOldFails
<1>15. CASE Leave(p)
  BY <1>15 DEF Leave, Unlocked, Uncancelled
<1>16. CASE Signal(p)
  BY <1>16 DEF Signal
<1>17. CASE KillInstaller(p)
  BY <1>17 DEF KillInstaller, Unlocked, Uncancelled
<1> QED
  BY <1>1, <1>2, <1>3, <1>4, <1>5, <1>6, <1>7, <1>8, <1>9, <1>10, <1>11, <1>12, <1>13,
     <1>14, <1>15, <1>16, <1>17 DEF InstallStep

-----------------------------------------------------------------------------
\* The inductive invariant of install_with_fetch under InstallGuard: who is inside has
\* the lock, has seen what is missing, and renames only what is whole.
THEOREM InstallerInv == InstallSpec => []InstallInv
<1>1. InstallInv /\ [InstallNext]_installVars => InstallInv'
  <2> SUFFICES ASSUME InstallInv, [InstallNext]_installVars PROVE InstallInv'
    OBVIOUS
  <2>1. CASE InstallNext
    BY <2>1, InstallInductive
  <2>2. CASE UNCHANGED installVars
    BY <2>2 DEF installVars, files, InstallInv, InstallTypeOK, Locked, Seen, Alone, Copied, InstalledStays
  <2> QED
    BY <2>1, <2>2
<1> QED
  BY <1>1, InstallInitially, PTL DEF InstallSpec

\* For any number of installers, whatever is cancelled, fails or is killed: once one has
\* reported success, the model is there and whole, and stays so (model::install).
THEOREM InstalledModelStays == InstallSpec => []InstalledStays
<1>1. InstallInv => InstalledStays
  BY DEF InstallInv
<1> QED
  BY <1>1, InstallerInv, PTL

-----------------------------------------------------------------------------
(* A setup is an installation, and more. *)

\* What a setup does beside installing the model leaves the installation alone.
LEMMA SetupInstalls == ASSUME SetupNext PROVE [InstallNext]_installVars
<1>1. PICK p \in Installer : SetupStep(p) \/ KillSetup(p)
  BY DEF SetupNext
<1>2. CASE Install(p)
  BY <1>2 DEF Install, InstallNext
<1>3. CASE KillSetup(p)
  BY <1>3 DEF KillSetup, InstallNext
<1>4. CASE SetupStep(p) /\ ~Install(p)
  BY <1>4 DEF SetupStep, FindActive, FindDown, Reserve, Refuse, CaptureFiles, Proved, NotInstalled, Cache, CacheEnds, Truncate, Fill,
    Rename, Menu, Check, Fails, Restart, UndoConfig, UndoLauncher, UndoService, Done
<1> QED
  BY <1>1, <1>2, <1>3, <1>4

\* Setups that overlap, fail or are killed leave a model that was reported installed.
THEOREM SetupKeepsModel == SetupSpec => []InstalledStays
<1>1. SetupInit => InstallInit
  BY DEF SetupInit
<1>2. [SetupNext]_setupVars => [InstallNext]_installVars
  BY SetupInstalls DEF setupVars
<1> QED
  BY <1>1, <1>2, InstalledModelStays, PTL DEF SetupSpec, InstallSpec

-----------------------------------------------------------------------------
(* What a setup has done at each of its places. *)

Beginning == {"reserve", "snapshot"}
Unsaved == {"install", "cache", "save", "fill"}
Doing == Beginning \cup Unsaved \cup {"rename", "menu", "check", "restart", "leave"}
Undoing == {"undo config", "undo launcher", "undo service"}
Content == {"none", "old", "new", "torn"}
Finding == [config : Content, launcher : Content, service : Content \cup {"down"}]

SetupTypeOK ==
  /\ step \in [Installer -> SetupEnded \cup Doing \cup Undoing]
  /\ config \in Content /\ tmp \in Content /\ launcher \in Content
  /\ service \in Content \cup {"down"}
  /\ found \in [Installer -> Finding]
  /\ alone \in [Installer -> BOOLEAN]
  /\ restarted \in [Installer -> BOOLEAN] /\ incomplete \in [Installer -> BOOLEAN]
  /\ DOMAIN prepares = Preparer /\ DOMAIN child = Preparer /\ DOMAIN response = Preparer

\* No staging copy is there before an installation has begun, or when it has ended.
Unstaged == \A p \in Installer :
  /\ at[p] \in {"idle", "held", "absent", "installed", "refused"} => staged[p] = "none"
  /\ step[p] \in (Doing \cup Undoing) \ (Beginning \cup {"install"}) => at[p] \in {"installed", "refused"}

\* A child and its response file are there only while they are waited for.
Childless == \A p \in Installer :
  /\ prepares[p] # "waits" => child[p] = "none" /\ response[p] = FALSE
  /\ step[p] \in {"idle"} \cup ((Doing \cup Undoing) \ {"cache"}) => prepares[p] # "waits"

\* What a setup has noted of its own restart and rollback.
Noted == \A p \in Installer :
  /\ step[p] \in {"idle"} \cup (Doing \ {"leave"}) => ~restarted[p]
  /\ step[p] \in {"idle", "undo config"} \cup Doing => ~incomplete[p]
  /\ restarted[p] /\ step[p] \in Undoing => found[p].service # "down"

\* What a setup has changed so far, and what it has put back, if no other ran beside it.
Changed(p) ==
  /\ step[p] = "fill" => tmp = "torn"
  /\ step[p] = "rename" => tmp = "new"
  /\ step[p] \in Unsaved \cup {"rename"} => config = found[p].config
  /\ step[p] \in Unsaved \cup {"rename", "menu"} => launcher = found[p].launcher
  /\ step[p] \in (Doing \cup Undoing) \ {"reserve", "leave"} /\ ~restarted[p] => service = found[p].service
  /\ step[p] \in {"undo launcher", "undo service"} /\ ~incomplete[p] => config = found[p].config
  /\ step[p] = "undo service" /\ ~incomplete[p] => launcher = found[p].launcher

OnlyOne(p) == \A q \in Installer \ {p} : step[q] \in Apart

Undisturbed == \A p \in Installer :
  alone[p] /\ step[p] \notin Apart => OnlyOne(p) /\ Changed(p)

\* What is not yet begun knows of no service.
Unfound == \A p \in Installer : step[p] \in {"idle", "reserve"} => found[p] = Unknown

SetupInv == InstallInv /\ SetupTypeOK /\ Unstaged /\ Childless /\ Noted /\ Unfound /\ Undisturbed

-----------------------------------------------------------------------------
USE DEF SetupEnded, Apart, Doing, Undoing, Beginning, Unsaved

LEMMA SetupInitially == ASSUME SetupInit PROVE SetupInv
<1> USE DEF SetupInit
<1>1. SetupTypeOK
  BY DEF SetupTypeOK, InstallInit, CacheInit, Unknown, Finding, Content, Version
<1>2. Unstaged /\ Childless /\ Noted
  BY SetupAssumption DEF Unstaged, Childless, Noted, InstallInit, CacheInit
<1>3. Undisturbed
  BY DEF Undisturbed
<1>4. Unfound
  BY DEF Unfound
<1> QED
  BY <1>1, <1>2, <1>3, <1>4, InstallInitially DEF SetupInv

LEMMA SetupTypes ==
  ASSUME SetupInv, NEW m \in Installer, SetupStep(m) \/ KillSetup(m)
  PROVE  SetupTypeOK'
<1> USE DEF SetupInv, SetupTypeOK, At, Forget, Incomplete, ownVars, cacheVars, installVars, files
<1>0. found[m] \in Finding
  OBVIOUS
<1>1. CASE FindActive(m)
  <2>1. [found[m] EXCEPT !.service = service] \in Finding
    BY <1>0 DEF Finding
  <2>2. found' \in [Installer -> Finding]
    BY <1>1, <2>1 DEF FindActive
  <2>3. alone' \in [Installer -> BOOLEAN]
    BY <1>1 DEF FindActive, Enter
  <2> HIDE DEF Finding
  <2> QED
    BY <1>1, <2>2, <2>3 DEF FindActive
<1>13. CASE FindDown(m)
  BY <1>13 DEF FindDown
<1>14. CASE Reserve(m)
  <2>1. alone' \in [Installer -> BOOLEAN]
    BY <1>14 DEF Reserve, Enter
  <2> QED
    BY <1>14, <2>1 DEF Reserve
<1>12. CASE CaptureFiles(m)
  <2>1. [found[m] EXCEPT !.config = config, !.launcher = launcher] \in Finding
    BY <1>0 DEF Finding
  <2>2. found' = [found EXCEPT ![m] = [found[m] EXCEPT !.config = config, !.launcher = launcher]]
    BY <1>12 DEF CaptureFiles
  <2>3. found' \in [Installer -> Finding]
    BY <2>1, <2>2
  <2> QED
    BY <1>12, <2>3 DEF CaptureFiles
<1>2. CASE Install(m)
  BY <1>2 DEF Install
<1>3. CASE Cache(m)
  BY <1>3 DEF Cache, CacheStep, Attempt, AttemptFails, ChildExits, Reap, TimeOut
<1>4. CASE Refuse(m) \/ Proved(m) \/ NotInstalled(m) \/ CacheEnds(m)
  BY <1>4 DEF Refuse, Proved, NotInstalled, CacheEnds
<1>5. CASE Truncate(m) \/ Fill(m) \/ Menu(m) \/ Check(m) \/ Fails(m)
  BY <1>5, ZenonT(40) DEF Truncate, Fill, Menu, Check, Fails, Content
<1>6. CASE Rename(m)
  BY <1>6 DEF Rename, Content
<1>7. CASE Restart(m)
  BY <1>7 DEF Restart
<1>8. CASE UndoConfig(m)
  BY <1>8 DEF UndoConfig, Content, Finding
<1>9. CASE UndoLauncher(m)
  <2>1. found[m].launcher \in Content
    BY DEF Finding
  <2> QED
    BY <1>9, <2>1 DEF UndoLauncher
<1>10. CASE UndoService(m) \/ Done(m)
  <2>1. Unknown \in Finding
    BY DEF Unknown, Finding, Content
  <2>2. config \in Content \cup {"down"}
    OBVIOUS
  <2> QED
    BY <1>10, <2>1, <2>2, ZenonT(30) DEF UndoService, Done
<1>11. CASE KillSetup(m)
  BY <1>11 DEF KillSetup, KillInstaller, Goto, Unknown, Finding, Content, Ended
<1> QED
  BY <1>1, <1>2, <1>3, <1>4, <1>5, <1>6, <1>7, <1>8, <1>9, <1>10, <1>11, <1>12, <1>13, <1>14 DEF SetupStep

\* The staging copy is gone when the installation ends.
LEMMA UnstagedStep ==
  ASSUME SetupInv, NEW m \in Installer, SetupStep(m) \/ KillSetup(m)
  PROVE  Unstaged'
<1> USE DEF SetupInv, SetupTypeOK, InstallInv, InstallTypeOK, Unstaged, At, Forget, ownVars, cacheVars, installVars, files
<1>1. CASE Install(m)
  <2> USE <1>1 DEF Install, Goto
  <2>1. step' = step /\ step[m] = "install" /\ \A p \in Installer \ {m} : at'[p] = at[p] /\ staged'[p] = staged[p]
    BY DEF InstallStep, Acquire, Busy, CheckInstalled, Prepare, Unprepared, HaveSource,
      Download, Downloaded, DownloadFails, Copy, CopyFails, Discard, Retain, RetainFails,
      Activate, ActivateFails, Verify, VerifyFails, RemoveOld, RemoveOldFails, Leave, Signal
  <2>2. at'[m] \in {"idle", "held", "absent", "installed", "refused"} => staged'[m] = "none"
    <3>1. CASE Acquire(m) \/ Busy(m) \/ CheckInstalled(m) \/ Prepare(m) \/ Leave(m) \/ Signal(m)
      BY <3>1 DEF Acquire, Busy, CheckInstalled, Prepare, Leave, Signal
    <3>2. CASE ~(Acquire(m) \/ Busy(m) \/ CheckInstalled(m) \/ Prepare(m) \/ Leave(m) \/ Signal(m))
      BY <3>2, ZenonT(30) DEF InstallStep, Unprepared, HaveSource,
      Download, Downloaded, DownloadFails, Copy, CopyFails, Discard, Retain, RetainFails,
      Activate, ActivateFails, Verify, VerifyFails, RemoveOld, RemoveOldFails
    <3> QED
      BY <3>1, <3>2
  <2> QED
    BY <2>1, <2>2
<1>2. CASE KillSetup(m)
  <2>1. staged' = staged /\ step'[m] = "killed" /\ at'[m] \in {at[m], "killed"}
    BY <1>2 DEF KillSetup, KillInstaller, Goto
  <2>2. \A p \in Installer \ {m} : at'[p] = at[p] /\ step'[p] = step[p]
    BY <1>2 DEF KillSetup, KillInstaller, Goto
  <2> QED
    BY <2>1, <2>2
<1>3. CASE NotInstalled(m) \/ Proved(m)
  BY <1>3, ZenonT(40) DEF NotInstalled, Proved
<1>4. CASE SetupStep(m) /\ ~Install(m) /\ ~NotInstalled(m) /\ ~Proved(m)
  <2>1. at' = at /\ staged' = staged
    BY <1>4 DEF SetupStep, FindActive, FindDown, Reserve, Refuse, CaptureFiles, Cache, CacheEnds, Truncate, Fill,
      Rename, Menu, Check, Fails, Restart, UndoConfig, UndoLauncher, UndoService, Done
  <2>2. /\ \A p \in Installer \ {m} : step'[p] = step[p]
        /\ step'[m] \in (Doing \cup Undoing) \ (Beginning \cup {"install"}) => step[m] \in (Doing \cup Undoing) \ (Beginning \cup {"install"})
    BY <1>4, ZenonT(40) DEF SetupStep, FindActive, FindDown, Reserve, Refuse, CaptureFiles, Cache, CacheEnds, Truncate, Fill,
      Rename, Menu, Check, Fails, Restart, UndoConfig, UndoLauncher, UndoService, Done
  <2> QED
    BY <2>1, <2>2
<1> QED
  BY <1>1, <1>2, <1>3, <1>4 DEF SetupStep

\* A child that is waited for is reaped, or killed at the time limit, before the setup goes on.
LEMMA ChildlessStep ==
  ASSUME SetupInv, NEW m \in Installer, SetupStep(m) \/ KillSetup(m)
  PROVE  Childless'
<1> USE SetupAssumption DEF SetupInv, SetupTypeOK, Childless, At, Forget, ownVars, cacheVars, installVars
<1>1. CASE Cache(m)
  <2>1. step' = step /\ step[m] = "cache"
    BY <1>1 DEF Cache
  <2>2. CASE Attempt(m)
    BY <2>1, <2>2 DEF Attempt
  <2>3. CASE AttemptFails(m)
    BY <2>1, <2>3 DEF AttemptFails
  <2>4. CASE ChildExits(m)
    BY <2>1, <2>4 DEF ChildExits
  <2>5. CASE Reap(m)
    BY <2>1, <2>5 DEF Reap
  <2>6. CASE TimeOut(m)
    BY <2>1, <2>6 DEF TimeOut
  <2> QED
    BY <1>1, <2>2, <2>3, <2>4, <2>5, <2>6 DEF Cache, CacheStep
<1>2. CASE Proved(m)
  BY <1>2, ZenonT(30) DEF Proved
<1>3. CASE CacheEnds(m)
  BY <1>3 DEF CacheEnds
<1>4. CASE KillSetup(m)
  BY <1>4 DEF KillSetup
<1>5. CASE SetupStep(m) /\ ~Cache(m) /\ ~Proved(m) /\ ~CacheEnds(m)
  <2>1. prepares' = prepares /\ child' = child /\ response' = response
    BY <1>5 DEF SetupStep, FindActive, FindDown, Reserve, Refuse, CaptureFiles, Install, NotInstalled, Truncate, Fill,
      Rename, Menu, Check, Fails, Restart, UndoConfig, UndoLauncher, UndoService, Done
  <2>2. /\ \A p \in Installer \ {m} : step'[p] = step[p]
        /\ step'[m] \in {"idle"} \cup ((Doing \cup Undoing) \ {"cache"})
             => step[m] \in {"idle"} \cup ((Doing \cup Undoing) \ {"cache"})
    BY <1>5 DEF SetupStep, FindActive, FindDown, Reserve, Refuse, CaptureFiles, Install, NotInstalled, Truncate, Fill,
      Rename, Menu, Check, Fails, Restart, UndoConfig, UndoLauncher, UndoService, Done
  <2> QED
    BY <2>1, <2>2
<1> QED
  BY <1>1, <1>2, <1>3, <1>4, <1>5 DEF SetupStep

\* What is noted of the restart and of the rollback.
LEMMA NotedStep ==
  ASSUME SetupInv, NEW m \in Installer, SetupStep(m) \/ KillSetup(m)
  PROVE  Noted'
<1> USE DEF SetupInv, SetupTypeOK, Noted, At, Forget, Incomplete, ownVars
<1>1. CASE FindActive(m) \/ CaptureFiles(m)
  BY <1>1 DEF FindActive, CaptureFiles
<1>2. CASE Restart(m)
  BY <1>2, ZenonT(30) DEF Restart
<1>3. CASE UndoConfig(m)
  BY <1>3 DEF UndoConfig
<1>4. CASE UndoLauncher(m)
  BY <1>4 DEF UndoLauncher
<1>5. CASE UndoService(m)
  BY <1>5 DEF UndoService
<1>6. CASE Done(m) \/ KillSetup(m)
  <2>1. /\ restarted' = restarted /\ incomplete' = incomplete /\ step'[m] \in {"done", "killed"}
        /\ \A p \in Installer \ {m} : found'[p] = found[p] /\ step'[p] = step[p]
    BY <1>6 DEF Done, KillSetup
  <2> QED
    BY <2>1
<1>7. CASE \/ FindDown(m) \/ Reserve(m) \/ Refuse(m) \/ Install(m) \/ Proved(m) \/ NotInstalled(m)
           \/ Cache(m) \/ CacheEnds(m) \/ Truncate(m) \/ Fill(m) \/ Rename(m) \/ Menu(m)
           \/ Check(m) \/ Fails(m)
  <2>1. /\ restarted' = restarted /\ incomplete' = incomplete /\ found' = found
        /\ \A p \in Installer \ {m} : step'[p] = step[p]
    BY <1>7 DEF FindDown, Reserve, Refuse, Install, Proved, NotInstalled, Cache, CacheEnds, Truncate, Fill, Rename,
      Menu, Check, Fails
  <2>2. /\ step[m] \in {"idle"} \cup (Doing \ {"leave"})
        /\ step'[m] \in {"refused", "undo config"} \cup (Doing \ {"leave"})
    BY <1>7 DEF FindDown, Reserve, Refuse, Install, Proved, NotInstalled, Cache, CacheEnds, Truncate, Fill, Rename,
      Menu, Check, Fails
  <2> QED
    BY <2>1, <2>2
<1> QED
  BY <1>1, <1>2, <1>3, <1>4, <1>5, <1>6, <1>7 DEF SetupStep

\* What a step of another leaves of what is known of p.
Untouched(p) ==
  /\ config' = config /\ tmp' = tmp /\ launcher' = launcher /\ service' = service
  /\ step'[p] = step[p] /\ found'[p] = found[p]
  /\ restarted'[p] = restarted[p] /\ incomplete'[p] = incomplete[p]

\* Whoever runs alone has no other past the reservation when that one steps.
LEMMA AloneStep ==
  ASSUME SetupInv, NEW m \in Installer, SetupStep(m) \/ KillSetup(m), NEW p \in Installer,
         alone'[p], step'[p] \notin Apart
  PROVE  /\ OnlyOne(p)'
         /\ p # m => alone[p] /\ step[p] \notin Apart /\ Untouched(p)
         /\ p = m => FindActive(m) \/ Reserve(m) \/ (alone[p] /\ step[p] \notin Apart)
<1> USE DEF SetupInv, SetupTypeOK, Undisturbed, OnlyOne, At, ownVars
<1>1. CASE FindActive(m) \/ Reserve(m)
  <2>1. \A q \in Installer \ {m} : step'[q] = step[q]
    BY <1>1 DEF FindActive, Reserve
  <2>2. Enter(m)
    BY <1>1 DEF FindActive, Reserve
  <2>3. p = m
    <3> SUFFICES ASSUME p # m PROVE FALSE
      OBVIOUS
    <3>1. alone'[p] = (alone[p] /\ step[p] \in Apart)
      BY <2>2 DEF Enter
    <3> QED
      BY <2>1, <3>1
  <2>4. alone'[m] = \A r \in Installer \ {m} : step[r] \in Apart
    BY <2>2 DEF Enter
  <2>5. \A q \in Installer \ {m} : step[q] \in Apart
    BY <2>3, <2>4
  <2>6. OnlyOne(m)'
    BY <2>1, <2>5
  <2> QED
    BY <1>1, <2>3, <2>6
<1>2. CASE FindDown(m) \/ Refuse(m)
  <2>1. /\ alone' = alone /\ step'[m] \in Apart /\ \A q \in Installer \ {m} : step'[q] = step[q]
        /\ UNCHANGED ownVars
    BY <1>2 DEF FindDown, Refuse
  <2>2. p # m /\ alone[p] /\ step[p] \notin Apart
    BY <2>1
  <2> QED
    BY <2>1, <2>2 DEF Untouched
<1>3. CASE KillSetup(m)
  <2>1. /\ alone' = alone /\ step'[m] = "killed"
        /\ UNCHANGED <<config, tmp, launcher, service, restarted, incomplete>>
    BY <1>3 DEF KillSetup
  <2>2. \A q \in Installer \ {m} : step'[q] = step[q] /\ found'[q] = found[q]
    BY <1>3 DEF KillSetup, Forget
  <2>3. p # m /\ alone[p] /\ step[p] \notin Apart
    BY <2>1, <2>2
  <2>4. OnlyOne(p)
    BY <2>3
  <2>5. OnlyOne(p)'
    BY <2>1, <2>2, <2>3, <2>4
  <2> QED
    BY <2>1, <2>2, <2>3, <2>5 DEF Untouched
<1>4. CASE SetupStep(m) /\ ~FindActive(m) /\ ~Reserve(m) /\ ~FindDown(m) /\ ~Refuse(m)
  <2>1. alone' = alone /\ step[m] \notin Apart /\ \A q \in Installer \ {m} : step'[q] = step[q]
    BY <1>4 DEF SetupStep, CaptureFiles, Install, Proved, NotInstalled, Cache, CacheEnds, Truncate, Fill,
      Rename, Menu, Check, Fails, Restart, UndoConfig, UndoLauncher, UndoService, Done
  <2> QED
    BY <2>1, <1>4
<1> QED
  BY <1>1, <1>2, <1>3, <1>4

\* A setup before the reservation knows nothing.
LEMMA UnfoundStep ==
  ASSUME SetupInv, NEW m \in Installer, SetupStep(m) \/ KillSetup(m)
  PROVE  Unfound'
<1> USE DEF SetupInv, SetupTypeOK, Unfound, At, Forget, ownVars
<1>1. \A q \in Installer \ {m} : step'[q] = step[q] /\ found'[q] = found[q]
  BY DEF SetupStep, FindActive, FindDown, Reserve, Refuse, CaptureFiles, Install, Proved, NotInstalled,
    Cache, CacheEnds, Truncate, Fill, Rename, Menu, Check, Fails, Restart, UndoConfig, UndoLauncher,
    UndoService, Done, KillSetup
<1>2. step'[m] \in {"idle", "reserve"} => step[m] = "idle" /\ found' = found
  BY DEF SetupStep, FindActive, FindDown, Reserve, Refuse, CaptureFiles, Install, Proved, NotInstalled,
    Cache, CacheEnds, Truncate, Fill, Rename, Menu, Check, Fails, Restart, UndoConfig, UndoLauncher,
    UndoService, Done, KillSetup
<1> QED
  BY <1>1, <1>2

\* What a setup that runs alone has changed, and put back.
LEMMA UndisturbedStep ==
  ASSUME SetupInv, NEW m \in Installer, SetupStep(m) \/ KillSetup(m)
  PROVE  Undisturbed'
<1> SUFFICES ASSUME NEW p \in Installer, alone'[p], step'[p] \notin Apart
             PROVE  Changed(p)'
  BY AloneStep DEF Undisturbed
<1>1. CASE p # m
  <2>1. Untouched(p) /\ alone[p] /\ step[p] \notin Apart
    BY <1>1, AloneStep
  <2>2. Changed(p)
    BY <2>1 DEF SetupInv, Undisturbed
  <2> QED
    BY <2>1, <2>2 DEF Untouched, Changed
<1>2. CASE p = m /\ (FindActive(m) \/ Reserve(m))
  <2>0. found[m] \in Finding /\ m \in DOMAIN found
    BY DEF SetupInv, SetupTypeOK
  <2>1. ASSUME FindActive(m) PROVE step'[m] = "snapshot" /\ service' = found'[m].service
    BY <2>0, <2>1 DEF FindActive, At, SetupInv, SetupTypeOK, Finding
  <2>2. ASSUME Reserve(m) PROVE step'[m] = "snapshot" /\ service' = found'[m].service
    <3>1. step[m] = "reserve" /\ found' = found /\ service' = service /\ service = "down"
      BY <2>2 DEF Reserve, At
    <3>2. found[m] = Unknown
      BY <3>1 DEF SetupInv, Unfound
    <3>3. step'[m] = "snapshot"
      BY <2>2 DEF Reserve, At, SetupInv, SetupTypeOK
    <3> QED
      BY <3>1, <3>2, <3>3 DEF Unknown
  <2>3. step'[m] = "snapshot" /\ service' = found'[m].service
    BY <1>2, <2>1, <2>2
  <2> QED
    BY <1>2, <2>3 DEF Changed
<1>3. CASE p = m /\ ~FindActive(m) /\ ~Reserve(m)
  <2>1. Changed(m) /\ step[m] \notin Apart /\ step'[m] \notin Apart
    BY <1>3, AloneStep DEF SetupInv, Undisturbed
  <2> SUFFICES Changed(m)'
    BY <1>3
  <2> USE <2>1 DEF SetupInv, SetupTypeOK, Changed, At, Incomplete, ownVars
  <2>10. CASE CaptureFiles(m)
    <3>1. found[m] \in Finding
      OBVIOUS
    <3>2. found'[m] = [found[m] EXCEPT !.config = config, !.launcher = launcher]
      BY <2>10 DEF CaptureFiles
    <3>3. found'[m].config = config /\ found'[m].launcher = launcher /\ found'[m].service = found[m].service
      BY <3>1, <3>2 DEF Finding
    <3> QED
      BY <2>10, <3>3 DEF CaptureFiles
  <2>2. CASE Install(m) \/ Proved(m) \/ NotInstalled(m) \/ Cache(m) \/ CacheEnds(m)
    BY <2>2 DEF Install, Proved, NotInstalled, Cache, CacheEnds, Noted
  <2>3. CASE Truncate(m) \/ Fill(m)
    BY <2>3 DEF Truncate, Fill
  <2>4. CASE Rename(m)
    BY <2>4 DEF Rename
  <2>5. CASE Menu(m) \/ Check(m) \/ Fails(m)
    BY <2>5 DEF Menu, Check, Fails
  <2>6. CASE Restart(m)
    BY <2>6 DEF Restart
  <2>7. CASE UndoConfig(m)
    BY <2>7 DEF UndoConfig, Noted
  <2>8. CASE UndoLauncher(m)
    BY <2>8 DEF UndoLauncher
  <2>9. CASE FindDown(m) \/ Refuse(m) \/ UndoService(m) \/ Done(m) \/ KillSetup(m)
    BY <2>9 DEF FindDown, Refuse, UndoService, Done, KillSetup
  <2> QED
    BY <1>3, <2>2, <2>3, <2>4, <2>5, <2>6, <2>7, <2>8, <2>9, <2>10 DEF SetupStep
<1> QED
  BY <1>1, <1>2, <1>3

\* The inductive invariant of a setup (install_everything_with_config_and_cache).
THEOREM SetupInvariant == SetupSpec => []SetupInv
<1>1. SetupInv /\ [SetupNext]_setupVars => SetupInv'
  <2> SUFFICES ASSUME SetupInv, [SetupNext]_setupVars PROVE SetupInv'
    OBVIOUS
  <2>1. InstallInv'
    <3>1. CASE SetupNext
      <4>1. CASE InstallNext
        BY <4>1, InstallInductive DEF SetupInv
      <4>2. CASE UNCHANGED installVars
        BY <4>2 DEF SetupInv, installVars, files, InstallInv, InstallTypeOK, Locked, Seen, Alone, Copied, InstalledStays
      <4> QED
        BY <3>1, <4>1, <4>2, SetupInstalls
    <3>2. CASE UNCHANGED setupVars
      BY <3>2 DEF setupVars, SetupInv, installVars, files, InstallInv, InstallTypeOK, Locked, Seen, Alone, Copied, InstalledStays
    <3> QED
      BY <3>1, <3>2
  <2>2. CASE SetupNext
    BY <2>1, <2>2, SetupTypes, UnstagedStep, ChildlessStep, NotedStep, UnfoundStep, UndisturbedStep DEF SetupNext, SetupInv
  <2>3. CASE UNCHANGED setupVars
    BY <2>1, <2>3 DEF setupVars, cacheVars, installVars, files, ownVars, SetupInv, SetupTypeOK,
      Unstaged, Childless, Noted, Unfound, Undisturbed, OnlyOne, Changed
  <2> QED
    BY <2>2, <2>3
<1> QED
  BY <1>1, SetupInitially, PTL DEF SetupSpec

\* A setup that fails with its rollback complete, and that no other ran beside, leaves
\* everything but an installed model as it found it (rollback_setup_changes), for any
\* number of setups and of attempts at the cache.
THEOREM FailedSetupUndone == SetupSpec => SetupUndone
<1> DEFINE Undone == \A p \in Installer :
  step[p] # "failed" /\ step'[p] = "failed" /\ alone[p] /\ ~incomplete'[p] =>
    /\ config' = found[p].config /\ launcher' = found[p].launcher
    /\ service' \in {found[p].service, found[p].config}
    /\ found[p].service # "down" => service' # "down"
    /\ staged'[p] = "none" /\ child'[p] = "none" /\ ~response'[p]
<1>1. ASSUME SetupInv, SetupNext PROVE Undone
  <2> SUFFICES ASSUME NEW p \in Installer, step[p] # "failed", step'[p] = "failed", alone[p], ~incomplete'[p]
               PROVE  /\ config' = found[p].config /\ launcher' = found[p].launcher
                      /\ service' \in {found[p].service, found[p].config}
                      /\ found[p].service # "down" => service' # "down"
                      /\ staged'[p] = "none" /\ child'[p] = "none" /\ ~response'[p]
    OBVIOUS
  <2>1. UndoService(p)
    <3>1. PICK m \in Installer : SetupStep(m) \/ KillSetup(m)
      BY <1>1 DEF SetupNext
    <3>2. step'[m] # "failed" \/ UndoService(m)
      BY <1>1, <3>1 DEF SetupInv, SetupTypeOK, SetupStep, At, FindActive, FindDown, Reserve, Refuse, CaptureFiles, Enter, Install, Proved,
        NotInstalled, Cache, CacheEnds, Truncate, Fill, Rename, Menu, Check, Fails, Restart,
        UndoConfig, UndoLauncher, Done, KillSetup, ownVars
    <3>3. p = m
      BY <1>1, <3>1 DEF SetupInv, SetupTypeOK, SetupStep, At, FindActive, FindDown, Reserve, Refuse, CaptureFiles, Enter, Install, Proved,
        NotInstalled, Cache, CacheEnds, Truncate, Fill, Rename, Menu, Check, Fails, Restart,
        UndoConfig, UndoLauncher, UndoService, Done, KillSetup, ownVars
    <3> QED
      BY <3>2, <3>3
  <2> USE <1>1, <2>1 DEF SetupInv, SetupTypeOK, UndoService, At, Incomplete
  <2>2. ~incomplete[p] /\ (service' = IF restarted[p] THEN config ELSE service)
    OBVIOUS
  <2>3. config = found[p].config /\ launcher = found[p].launcher
    BY <2>2 DEF Undisturbed, Changed
  <2>4. service' \in {found[p].service, found[p].config} /\ (found[p].service # "down" => service' # "down")
    BY <2>2, <2>3 DEF Undisturbed, Changed, Content
  <2>5. staged'[p] = "none" /\ child'[p] = "none" /\ ~response'[p]
    BY DEF Unstaged, Childless, installVars, files, cacheVars
  <2> QED
    BY <2>3, <2>4, <2>5
<1>2. SetupInv /\ [SetupNext]_setupVars => [Undone]_setupVars
  BY <1>1
<1> QED
  BY <1>2, SetupInvariant, PTL DEF SetupSpec, SetupUndone
=============================================================================
