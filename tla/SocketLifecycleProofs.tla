------------------------ MODULE SocketLifecycleProofs ------------------------
(***************************************************************************)
(* What holds of the path and the reservations for any number of daemons   *)
(* and clients.                                                            *)
(***************************************************************************)
EXTENDS SocketLifecycle, FiniteSetTheorems, TLAPS

\* A daemon that runs has reserved every identity of its configuration.
Reserved == \A d \in Daemon : Running(d) => \A i \in Identities[d] : holder[i] = d

\* Before it binds, nobody has met its socket.
Early == {"reserve", "refused", "inspect", "probe", "replace", "replaceing", "bind"}
Unmet == \A d \in Daemon :
  at[d] \in Early => path # d /\ d \notin listening /\ \A p \in Process : seen[p] # d

\* A daemon that finds its own socket has seen it; one that has cleaned up, none.
OwnSocket == \A d \in Daemon :
  /\ at[d] \in {"adopt", "serve", "cleanup", "cleanuping"} /\ path = d => seen[d] = d
  /\ at[d] = "failed" => path # d

\* Without the windows, a bound socket listens and is at the path, and whoever is about
\* to remove one has seen that of a daemon that no longer serves, or its own.
Bound == {"bound", "adopt", "serve"}
Past == {"cleanup", "failed", "over"}
NoWindow == gaps = {} =>
  /\ \A d \in Daemon : at[d] \in Bound => path = d /\ d \in listening
  /\ \A p \in Process : at[p] \notin {"listen", "replaceing", "cleanuping", "tidying"}
  /\ \A d \in Daemon : at[d] = "cleanup" => seen[d] = d
  /\ \A p \in Process, d \in Daemon :
       at[p] \in {"replace", "tidy"} /\ seen[p] = d => at[d] \in Past

\* Daemons have the places of daemons, clients those of clients.
ClientPlaces == {"idle", "connect", "tidy", "tidying"}
Apart == \A p \in Process : p \in Client <=> at[p] \in ClientPlaces

SocketInv == TypeOK /\ Apart /\ Reserved /\ Unmet /\ OwnSocket /\ NoWindow

USE NamesAssumption DEF Process, Sockets, None, Places, ClientPlaces, Early, Bound, Past, Running

-----------------------------------------------------------------------------
LEMMA SocketInitially == Init => SocketInv
  BY DEF Init, SocketInv, TypeOK, Apart, Reserved, Unmet, OwnSocket, NoWindow

\* What a step of the reservation does: the last identity is there, one more is taken,
\* or one is found taken.
LEMMA ReserveCases ==
  ASSUME NEW d \in Daemon, Reserve(d)
  PROVE  /\ at[d] = "reserve" /\ UNCHANGED <<path, seen, listening>>
         /\ \/ Wanted(d) = {} /\ Move(d, "inspect") /\ UNCHANGED <<holder, refused>>
            \/ /\ \E i \in Identity : holder[i] = None /\ holder' = [holder EXCEPT ![i] = d]
               /\ UNCHANGED <<at, refused>>
            \/ Move(d, "refused") /\ refused' = refused \cup {d} /\ UNCHANGED holder
<1>1. CASE Wanted(d) = {}
  BY <1>1 DEF Reserve
<1>2. CASE Wanted(d) # {}
  <2>1. PICK i \in Wanted(d) :
          IF holder[i] = None
            THEN holder' = [holder EXCEPT ![i] = d] /\ UNCHANGED <<at, listening, refused>>
            ELSE /\ Move(d, "refused") /\ refused' = refused \cup {d}
                 /\ UNCHANGED <<listening, holder>>
    BY <1>2 DEF Reserve
  <2>2. i \in Identity
    BY DEF Wanted, Identity
  <2> QED
    BY <2>1, <2>2 DEF Reserve
<1> QED
  BY <1>1, <1>2

LEMMA SocketTypes ==
  ASSUME TypeOK, Next
  PROVE  TypeOK'
<1> USE DEF TypeOK, Move, See, End, Remove
<1>0. UNCHANGED gaps
  BY DEF Next
<1>1. ASSUME NEW d \in Daemon, Reserve(d) PROVE TypeOK'
  BY <1>0, <1>1, ReserveCases
<1>2. ASSUME NEW d \in Daemon, Inspect(d) \/ Probe(d) PROVE TypeOK'
  BY <1>0, <1>2 DEF Inspect, Probe
<1>3. ASSUME NEW d \in Daemon, Replace(d) PROVE TypeOK'
  BY <1>0, <1>3 DEF Replace, Compare, Unlink
<1>4. ASSUME NEW d \in Daemon, Bind(d) PROVE TypeOK'
  BY <1>0, <1>4 DEF Bind
<1>5. ASSUME NEW d \in Daemon, Listen(d) \/ Prepare(d) \/ Adopt(d) PROVE TypeOK'
  BY <1>0, <1>5 DEF Listen, Prepare, Adopt
<1>6. ASSUME NEW d \in Daemon, Stop(d) \/ Return(d) PROVE TypeOK'
  BY <1>0, <1>6 DEF Stop, Return
<1>7. ASSUME NEW d \in Daemon, Cleanup(d) PROVE TypeOK'
  BY <1>0, <1>7 DEF Cleanup, Compare, Unlink
<1>8. ASSUME NEW c \in Client, Look(c) \/ Connect(c) PROVE TypeOK'
  BY <1>0, <1>8 DEF Look, Connect
<1>9. ASSUME NEW c \in Client, Tidy(c) PROVE TypeOK'
  BY <1>0, <1>9 DEF Tidy, Compare, Unlink
<1> QED
  BY <1>1, <1>2, <1>3, <1>4, <1>5, <1>6, <1>7, <1>8, <1>9 DEF Next, Step

-----------------------------------------------------------------------------
LEMMA ReservedStays ==
  ASSUME SocketInv, Next
  PROVE  Reserved'
<1> USE DEF SocketInv, TypeOK, Apart, Reserved, Move, See, End, Remove
<1>1. ASSUME NEW d \in Daemon, Reserve(d) PROVE Reserved'
  <2>1. \A i \in Identities[d] : i \in Identity
    BY DEF Identity
  <2> QED
    BY <1>1, <2>1, ReserveCases DEF Wanted, Identity
<1>2. ASSUME NEW d \in Daemon, Inspect(d) \/ Probe(d) PROVE Reserved'
  BY <1>2 DEF Inspect, Probe, Identity
<1>3. ASSUME NEW d \in Daemon, Replace(d) PROVE Reserved'
  BY <1>3 DEF Replace, Compare, Unlink
<1>4. ASSUME NEW d \in Daemon, Bind(d) PROVE Reserved'
  BY <1>4 DEF Bind, Identity
<1>5. ASSUME NEW d \in Daemon, Listen(d) \/ Prepare(d) \/ Adopt(d) PROVE Reserved'
  BY <1>5 DEF Listen, Prepare, Adopt, Identity
<1>6. ASSUME NEW d \in Daemon, Stop(d) \/ Return(d) PROVE Reserved'
  BY <1>6 DEF Stop, Return, Identity
<1>7. ASSUME NEW d \in Daemon, Cleanup(d) PROVE Reserved'
  BY <1>7 DEF Cleanup, Compare, Unlink
<1>8. ASSUME NEW c \in Client, Look(c) \/ Connect(c) PROVE Reserved'
  BY <1>8 DEF Look, Connect
<1>9. ASSUME NEW c \in Client, Tidy(c) PROVE Reserved'
  BY <1>9 DEF Tidy, Compare, Unlink
<1> QED
  BY <1>1, <1>2, <1>3, <1>4, <1>5, <1>6, <1>7, <1>8, <1>9 DEF Next, Step

LEMMA PathInductive ==
  ASSUME SocketInv, Next
  PROVE  (Apart /\ Unmet /\ OwnSocket /\ NoWindow)'
<1> USE DEF SocketInv, TypeOK, Apart, Unmet, OwnSocket, NoWindow, Move, See, End, Remove
<1> DEFINE Goal == (Apart /\ Unmet /\ OwnSocket /\ NoWindow)'
<1>0. UNCHANGED gaps
  BY DEF Next
<1>1. ASSUME NEW d \in Daemon, Reserve(d) PROVE Goal
  BY <1>0, <1>1, ReserveCases
<1>2. ASSUME NEW d \in Daemon, Inspect(d) PROVE Goal
  BY <1>0, <1>2 DEF Inspect
<1>3. ASSUME NEW d \in Daemon, Probe(d) PROVE Goal
  BY <1>0, <1>3 DEF Probe
<1>4. ASSUME NEW d \in Daemon, Replace(d) PROVE Goal
  BY <1>0, <1>4 DEF Replace, Compare, Unlink
<1>5. ASSUME NEW d \in Daemon, Bind(d) PROVE Goal
  BY <1>0, <1>5 DEF Bind
<1>6. ASSUME NEW d \in Daemon, Listen(d) PROVE Goal
  BY <1>0, <1>6 DEF Listen
<1>7. ASSUME NEW d \in Daemon, Prepare(d) PROVE Goal
  BY <1>0, <1>7 DEF Prepare
<1>8. ASSUME NEW d \in Daemon, Adopt(d) PROVE Goal
  BY <1>0, <1>8 DEF Adopt
<1>9. ASSUME NEW d \in Daemon, Stop(d) PROVE Goal
  BY <1>0, <1>9 DEF Stop
<1>10. ASSUME NEW d \in Daemon, Cleanup(d) PROVE Goal
  BY <1>0, <1>10 DEF Cleanup, Compare, Unlink
<1>11. ASSUME NEW d \in Daemon, Return(d) PROVE Goal
  BY <1>0, <1>11 DEF Return
<1>12. ASSUME NEW c \in Client, Look(c) PROVE Goal
  BY <1>0, <1>12 DEF Look
<1>13. ASSUME NEW c \in Client, Connect(c) PROVE Goal
  BY <1>0, <1>13 DEF Connect
<1>14. ASSUME NEW c \in Client, Tidy(c) PROVE Goal
  BY <1>0, <1>14 DEF Tidy, Compare, Unlink
<1> QED
  BY <1>1, <1>2, <1>3, <1>4, <1>5, <1>6, <1>7, <1>8, <1>9, <1>10, <1>11, <1>12, <1>13, <1>14
  DEF Next, Step

-----------------------------------------------------------------------------
(* Why not all of them are refused. *)

\* A refused daemon rests, and one that is gone holds nothing.
Rests == \A d \in Daemon :
  /\ d \in refused => at[d] \in {"refused", "over"}
  /\ at[d] = "refused" => d \in refused
  /\ at[d] = "over" => \A i \in Identity : holder[i] # d

\* Identities are taken from the lowest on, and only a daemon's own.
Ordered ==
  /\ \A d \in Daemon : at[d] = "reserve" =>
       \A i, j \in Identities[d] : holder[j] = d /\ i < j => holder[i] = d
  /\ \A i \in Identity, d \in Daemon : holder[i] = d => i \in Identities[d]

\* Whoever was refused has failed at an identity above all that it holds; whoever had that
\* one has not been refused, or was so further up.
StoppedAt(r, d) ==
  /\ r[d] \in Identities[d]
  /\ \A i \in Identity : holder[i] = d => i < r[d]
  /\ \E e \in Daemon :
       /\ r[d] \in Identities[e]
       /\ e \in refused => r[d] < r[e]
       /\ e \notin refused /\ at[e] = "reserve" => holder[r[d]] = e
Climbs == IsFiniteSet(refused) /\ \E r \in [Daemon -> Nat] : \A d \in refused : StoppedAt(r, d)

RefusalInv == Rests /\ Ordered /\ Climbs

LEMMA RefusalInitially == Init => RefusalInv
<1>1. ASSUME Init PROVE Climbs
  <2>1. IsFiniteSet({})
    BY FS_EmptySet
  <2>2. [d \in Daemon |-> 0] \in [Daemon -> Nat]
    OBVIOUS
  <2> QED
    BY <1>1, <2>1, <2>2 DEF Init, Climbs
<1>2. ASSUME Init PROVE Rests /\ Ordered
  <2>1. \A d \in Daemon : at[d] = "reserve" /\ d # None
    BY <1>2 DEF Init
  <2>2. \A i \in Identity : holder[i] = None
    BY <1>2 DEF Init
  <2>3. \A d \in Daemon : \A i \in Identities[d] : i \in Identity
    BY DEF Identity
  <2>4. refused = {}
    BY <1>2 DEF Init
  <2> HIDE DEF None
  <2> QED
    BY <2>1, <2>2, <2>3, <2>4 DEF Rests, Ordered
<1> QED
  BY <1>1, <1>2 DEF RefusalInv

\* What any other step than a reservation does to the reservations: a daemon that ends
\* gives up its own, nobody takes one, goes back to it, or is refused.
TakesNothing(d) ==
  /\ at'[d] = "reserve" => at[d] = "reserve" /\ \A i \in Identity : holder'[i] = d <=> holder[i] = d
  /\ at'[d] = "refused" => at[d] = "refused"
  /\ at[d] \in {"refused", "over"} => at'[d] \in {at[d], "over"}
  /\ \A i \in Identity : holder'[i] = d => holder[i] = d
  /\ at'[d] = "over" => at[d] = "over" \/ \A i \in Identity : holder'[i] # d

LEMMA EndTakesNothing ==
  ASSUME TypeOK, NEW e \in Daemon, End(e)
  PROVE  \A d \in Daemon : TakesNothing(d)
<1>1. \A i \in Identity : holder'[i] = IF holder[i] = e THEN None ELSE holder[i]
  BY DEF End
<1>2. \A d \in Daemon : at'[d] = IF d = e THEN "over" ELSE at[d]
  BY DEF End, Move, TypeOK
<1>3. \A d \in Daemon : d # None
  OBVIOUS
<1> HIDE DEF None
<1> QED
  BY <1>1, <1>2, <1>3 DEF TakesNothing

LEMMA OnlyReserveReserves ==
  ASSUME TypeOK, Apart, Next, \A d \in Daemon : ~Reserve(d)
  PROVE  refused' = refused /\ \A d \in Daemon : TakesNothing(d)
<1> USE DEF TypeOK, Apart, Move, See, Remove
<1>1. ASSUME NEW e \in Daemon, Inspect(e) PROVE refused' = refused /\ \A d \in Daemon : TakesNothing(d)
  BY <1>1, EndTakesNothing DEF Inspect, TakesNothing
<1>2. ASSUME NEW e \in Daemon, Probe(e) PROVE refused' = refused /\ \A d \in Daemon : TakesNothing(d)
  BY <1>2, EndTakesNothing DEF Probe, TakesNothing
<1>3. ASSUME NEW e \in Daemon, Replace(e) PROVE refused' = refused /\ \A d \in Daemon : TakesNothing(d)
  BY <1>3 DEF Replace, Compare, Unlink, TakesNothing
<1>4. ASSUME NEW e \in Daemon, Bind(e) PROVE refused' = refused /\ \A d \in Daemon : TakesNothing(d)
  BY <1>4, EndTakesNothing DEF Bind, TakesNothing
<1>5. ASSUME NEW e \in Daemon, Listen(e) PROVE refused' = refused /\ \A d \in Daemon : TakesNothing(d)
  BY <1>5 DEF Listen, TakesNothing
<1>6. ASSUME NEW e \in Daemon, Prepare(e) PROVE refused' = refused /\ \A d \in Daemon : TakesNothing(d)
  BY <1>6, EndTakesNothing DEF Prepare, TakesNothing
<1>7. ASSUME NEW e \in Daemon, Adopt(e) PROVE refused' = refused /\ \A d \in Daemon : TakesNothing(d)
  BY <1>7, EndTakesNothing DEF Adopt, TakesNothing
<1>8. ASSUME NEW e \in Daemon, Stop(e) PROVE refused' = refused /\ \A d \in Daemon : TakesNothing(d)
  BY <1>8 DEF Stop, TakesNothing
<1>9. ASSUME NEW e \in Daemon, Cleanup(e) PROVE refused' = refused /\ \A d \in Daemon : TakesNothing(d)
  BY <1>9 DEF Cleanup, Compare, Unlink, TakesNothing
<1>10. ASSUME NEW e \in Daemon, Return(e) PROVE refused' = refused /\ \A d \in Daemon : TakesNothing(d)
  BY <1>10, EndTakesNothing DEF Return, TakesNothing
<1>11. ASSUME NEW c \in Client, Look(c) \/ Connect(c) PROVE refused' = refused /\ \A d \in Daemon : TakesNothing(d)
  BY <1>11 DEF Look, Connect, TakesNothing
<1>12. ASSUME NEW c \in Client, Tidy(c) PROVE refused' = refused /\ \A d \in Daemon : TakesNothing(d)
  BY <1>12 DEF Tidy, Compare, Unlink, TakesNothing
<1> QED
  BY <1>1, <1>2, <1>3, <1>4, <1>5, <1>6, <1>7, <1>8, <1>9, <1>10, <1>11, <1>12 DEF Next, Step

\* Whatever is no reservation leaves what the refused were stopped at.
LEMMA OthersKeepRefusals ==
  ASSUME TypeOK, Apart, RefusalInv, Next, \A d \in Daemon : ~Reserve(d)
  PROVE  RefusalInv'
<1>1. refused' = refused /\ \A d \in Daemon : TakesNothing(d)
  BY OnlyReserveReserves
<1>2. Rests'
  BY <1>1 DEF RefusalInv, Rests, TakesNothing, TypeOK
<1>3. Ordered'
  <2>1. \A d \in Daemon : \A i \in Identities[d] : i \in Identity
    BY DEF Identity
  <2> QED
    BY <1>1, <2>1 DEF RefusalInv, Ordered, TakesNothing
<1>4. Climbs'
  <2>1. PICK r \in [Daemon -> Nat] : \A d \in refused : StoppedAt(r, d)
    BY DEF RefusalInv, Climbs
  <2>2. ASSUME NEW d \in refused PROVE StoppedAt(r, d)'
    <3>1. \A e \in Daemon : r[d] \in Identities[e] => r[d] \in Identity
      BY DEF Identity
    <3> QED
      BY <1>1, <2>1, <3>1 DEF StoppedAt, TakesNothing, TypeOK
  <2> QED
    BY <1>1, <2>1, <2>2 DEF RefusalInv, Climbs
<1> QED
  BY <1>2, <1>3, <1>4 DEF RefusalInv

\* A reservation takes the next identity in order, or is refused one above all its own.
LEMMA ReserveKeepsRefusals ==
  ASSUME TypeOK, Apart, RefusalInv, NEW d \in Daemon, Reserve(d)
  PROVE  RefusalInv'
<1>0. /\ at[d] = "reserve" /\ UNCHANGED <<path, seen, listening>>
      /\ d \notin refused /\ \A i \in Identities[d] : i \in Identity /\ i \in Nat
  BY IdentitiesAssumption DEF Reserve, RefusalInv, Rests, Identity
<1>1. CASE Wanted(d) = {}
  <2>1. at' = [at EXCEPT ![d] = "inspect"] /\ UNCHANGED <<holder, refused>>
    BY <1>1 DEF Reserve, Move
  <2>2. Rests'
    BY <1>0, <2>1 DEF RefusalInv, Rests, TypeOK
  <2>3. Ordered'
    BY <1>0, <2>1 DEF RefusalInv, Ordered, TypeOK
  <2>4. Climbs'
    <3>1. PICK r \in [Daemon -> Nat] : \A e \in refused : StoppedAt(r, e)
      BY DEF RefusalInv, Climbs
    <3>2. ASSUME NEW e \in refused PROVE StoppedAt(r, e)'
      BY <1>0, <2>1, <3>1 DEF StoppedAt, TypeOK
    <3> QED
      BY <2>1, <3>1, <3>2 DEF RefusalInv, Climbs
  <2> QED
    BY <2>2, <2>3, <2>4 DEF RefusalInv
<1>2. CASE Wanted(d) # {}
  <2>1. PICK i \in Wanted(d) :
          /\ \A j \in Wanted(d) : i <= j
          /\ IF holder[i] = None
               THEN holder' = [holder EXCEPT ![i] = d] /\ UNCHANGED <<at, listening, refused>>
               ELSE /\ Move(d, "refused") /\ refused' = refused \cup {d}
                    /\ UNCHANGED <<listening, holder>>
    BY <1>2 DEF Reserve
  <2>2. i \in Identities[d] /\ i \in Identity /\ i \in Nat /\ holder[i] # d
    BY <1>0 DEF Wanted
  <2>3. \A j \in Identities[d] : j < i => holder[j] = d
    BY <1>0, <2>1, <2>2 DEF Wanted
  <2>4. CASE holder[i] = None
    <3>1. holder' = [holder EXCEPT ![i] = d] /\ UNCHANGED <<at, refused>>
      BY <2>1, <2>4
    <3>2. \A j \in Identity : holder'[j] = IF j = i THEN d ELSE holder[j]
      BY <2>2, <3>1 DEF TypeOK
    <3>3. Rests'
      BY <1>0, <2>2, <3>1, <3>2 DEF RefusalInv, Rests
    <3>4. Ordered'
      <4>1. \A e \in Daemon : \A j \in Identities[e] : j \in Identity /\ j \in Nat
        BY IdentitiesAssumption DEF Identity
      <4> QED
        BY <1>0, <2>2, <2>3, <2>4, <3>1, <3>2, <4>1 DEF RefusalInv, Ordered
    <3>5. Climbs'
      <4>1. PICK r \in [Daemon -> Nat] : \A e \in refused : StoppedAt(r, e)
        BY DEF RefusalInv, Climbs
      <4>2. ASSUME NEW e \in refused PROVE StoppedAt(r, e)'
        <5>1. r[e] \in Identity /\ e \in Daemon /\ e # d
          BY <1>0, <4>1 DEF StoppedAt, Identity, TypeOK
        <5>2. \A f \in Daemon : f # None
          OBVIOUS
        <5> HIDE DEF None
        <5> QED
          BY <2>2, <2>4, <3>1, <3>2, <4>1, <5>1, <5>2 DEF StoppedAt
      <4> QED
        BY <3>1, <4>1, <4>2 DEF RefusalInv, Climbs
    <3> QED
      BY <3>3, <3>4, <3>5 DEF RefusalInv
  <2>5. CASE holder[i] # None
    <3>1. at' = [at EXCEPT ![d] = "refused"] /\ refused' = refused \cup {d} /\ UNCHANGED holder
      BY <2>1, <2>5 DEF Move
    <3>2. Rests'
      BY <1>0, <3>1 DEF RefusalInv, Rests, TypeOK
    <3>3. Ordered'
      BY <1>0, <3>1 DEF RefusalInv, Ordered, TypeOK
    <3>4. \A j \in Identity : holder[j] = d => j < i
      <4>1. ASSUME NEW j \in Identity, holder[j] = d PROVE j < i
        <5>1. j \in Identities[d] /\ j \in Nat /\ j # i
          BY <1>0, <2>2, <4>1 DEF RefusalInv, Ordered
        <5> QED
          BY <1>0, <2>2, <4>1, <5>1 DEF RefusalInv, Ordered
      <4> QED
        BY <4>1
    <3>5. holder[i] \in Daemon /\ holder[i] # d /\ i \in Identities[holder[i]]
      BY <2>2, <2>5 DEF TypeOK, RefusalInv, Ordered
    <3>6. Climbs'
      <4>1. PICK r \in [Daemon -> Nat] : \A e \in refused : StoppedAt(r, e)
        BY DEF RefusalInv, Climbs
      <4> DEFINE q == [r EXCEPT ![d] = i]
      <4>2. q \in [Daemon -> Nat] /\ q[d] = i /\ \A e \in Daemon : e # d => q[e] = r[e]
        BY <2>2
      <4> HIDE DEF q
      <4>3. StoppedAt(q, d)'
        BY <1>0, <2>2, <3>1, <3>4, <3>5, <4>1, <4>2 DEF StoppedAt, TypeOK
      <4>4. ASSUME NEW e \in refused PROVE StoppedAt(q, e)'
        <5>1. e \in Daemon /\ e # d /\ q[e] = r[e] /\ StoppedAt(r, e)
          BY <1>0, <4>1, <4>2 DEF TypeOK
        <5>2. PICK f \in Daemon : /\ r[e] \in Identities[f]
                                  /\ f \in refused => r[e] < r[f]
                                  /\ f \notin refused /\ at[f] = "reserve" => holder[r[e]] = f
          BY <5>1 DEF StoppedAt
        <5>3. CASE f = d
          <6>1. holder[r[e]] = d /\ r[e] \in Identity
            BY <1>0, <5>2, <5>3
          <6> QED
            BY <2>2, <3>1, <3>4, <4>2, <5>1, <5>2, <5>3, <6>1 DEF StoppedAt
        <5>4. CASE f # d
          BY <3>1, <4>2, <5>1, <5>2, <5>4 DEF StoppedAt, TypeOK
        <5> QED
          BY <5>3, <5>4
      <4>5. IsFiniteSet(refused')
        BY <3>1, FS_AddElement DEF RefusalInv, Climbs
      <4> QED
        BY <3>1, <4>2, <4>3, <4>4, <4>5 DEF Climbs
    <3> QED
      BY <3>2, <3>3, <3>6 DEF RefusalInv
  <2> QED
    BY <2>4, <2>5
<1> QED
  BY <1>1, <1>2

\* Of finitely many, one was stopped furthest up.
LEMMA Furthest ==
  ASSUME NEW S, IsFiniteSet(S), S # {}, NEW r \in [S -> Nat]
  PROVE  \E m \in S : \A d \in S : r[d] <= r[m]
<1> DEFINE Above(d) == {e \in S : r[e] > r[d]}
           T == {Above(d) : d \in S}
<1>1. IsWellFoundedOn(StrictSubsetOrdering(S), FiniteSubsetsOf(S))
  BY FS_StrictSubsetOrderingWellFounded
<1>2. \A d \in S : Above(d) \in SUBSET S /\ IsFiniteSet(Above(d))
  <2>1. \A d \in S : Above(d) \in SUBSET S
    OBVIOUS
  <2> QED
    BY <2>1, FS_Subset
<1>3. T \subseteq FiniteSubsetsOf(S) /\ T # {}
  <2> HIDE DEF Above
  <2> QED
    BY <1>2 DEF FiniteSubsetsOf
<1>4. \E x \in T : \A y \in T : ~ (<<y, x>> \in StrictSubsetOrdering(S))
  BY <1>1, <1>3, WFMin
<1>5. PICK m \in S : \A d \in S : ~ (<<Above(d), Above(m)>> \in StrictSubsetOrdering(S))
  BY <1>4
<1>6. ASSUME NEW d \in S, r[d] > r[m] PROVE FALSE
  <2>1. d \in Above(m) /\ d \notin Above(d)
    BY <1>6
  <2>2. Above(d) \subseteq Above(m)
    BY <1>6
  <2> QED
    <3> HIDE DEF Above
    <3> QED
      BY <1>2, <1>5, <2>1, <2>2 DEF StrictSubsetOrdering
<1> QED
  BY <1>6

-----------------------------------------------------------------------------
\* The inductive invariant of bind_socket, finish_daemon and the clients: who has met
\* which socket, and what the reservation of a running daemon covers.
THEOREM SocketInvariant == Spec => []SocketInv
<1>1. SocketInv /\ [Next]_vars => SocketInv'
  <2> SUFFICES ASSUME SocketInv, [Next]_vars PROVE SocketInv'
    OBVIOUS
  <2>1. CASE Next
    BY <2>1, SocketTypes, ReservedStays, PathInductive DEF SocketInv
  <2>2. CASE UNCHANGED vars
    BY <2>2 DEF vars, SocketInv, TypeOK, Apart, Reserved, Unmet, OwnSocket, NoWindow
  <2> QED
    BY <2>1, <2>2
<1> QED
  BY <1>1, SocketInitially, PTL DEF Spec

\* However many daemons share an identity of their configuration, by spelling or through
\* a link, one of them runs (daemon_instance::reserve).
THEOREM OneDaemon == Spec => []OneDaemonPerConfig
<1>1. SocketInv => OneDaemonPerConfig
  BY DEF SocketInv, Reserved, OneDaemonPerConfig
<1> QED
  BY <1>1, SocketInvariant, PTL

\* However many daemons and clients share the path: without the two windows a daemon that
\* serves is at it, and with them, too, one that stopped in order has left nothing there
\* (bind_socket_with, connect_control_socket_with, finish_daemon).
THEOREM ServedIsReachable == Spec => []Reachable
<1>1. SocketInv => Reachable
  BY DEF SocketInv, OwnSocket, NoWindow, Reachable
<1> QED
  BY <1>1, SocketInvariant, PTL

\* The inductive invariant of daemon_instance::reserve: what each refused daemon was
\* stopped at, and what became of the one that had it.
THEOREM RefusalInvariant == Spec => []RefusalInv
<1>1. SocketInv /\ RefusalInv /\ [Next]_vars => RefusalInv'
  <2> SUFFICES ASSUME SocketInv, RefusalInv, [Next]_vars PROVE RefusalInv'
    OBVIOUS
  <2>0. TypeOK /\ Apart
    BY DEF SocketInv
  <2>1. CASE UNCHANGED vars
    <3>1. \A r, d : StoppedAt(r, d)' = StoppedAt(r, d)
      BY <2>1 DEF vars, StoppedAt
    <3> QED
      BY <2>1, <3>1 DEF vars, RefusalInv, Rests, Ordered, Climbs
  <2>2. CASE Next /\ \A d \in Daemon : ~Reserve(d)
    BY <2>0, <2>2, OthersKeepRefusals
  <2>3. CASE \E d \in Daemon : Reserve(d)
    BY <2>0, <2>3, ReserveKeepsRefusals
  <2> QED
    BY <2>1, <2>2, <2>3
<1> QED
  BY <1>1, RefusalInitially, SocketInvariant, PTL DEF Spec

\* However many daemons start at once and whatever identities they share: one that stands
\* in the way of a refused one has not been refused itself (daemon_instance::reserve).
THEOREM SomeoneStays == Spec => []NotAllRefused
<1>1. TypeOK /\ RefusalInv => NotAllRefused
  <2> SUFFICES ASSUME TypeOK, RefusalInv, refused # {} PROVE NotAllRefused
    BY DEF NotAllRefused
  <2>1. PICK r \in [Daemon -> Nat] : \A d \in refused : StoppedAt(r, d)
    BY DEF RefusalInv, Climbs
  <2> DEFINE q == [d \in refused |-> r[d]]
  <2>2. q \in [refused -> Nat]
    BY DEF TypeOK
  <2>3. PICK d \in refused : \A e \in refused : q[e] <= q[d]
    <3> HIDE DEF q
    <3> QED
      BY <2>2, Furthest DEF RefusalInv, Climbs
  <2>4. \A e \in refused : r[e] <= r[d] /\ r[e] \in Nat
    BY <2>3 DEF TypeOK
  <2>5. PICK e \in Daemon : r[d] \in Identities[e] /\ (e \in refused => r[d] < r[e])
    BY <2>1 DEF StoppedAt
  <2>6. e \notin refused
    BY <2>4, <2>5
  <2>7. r[d] \in Identities[d]
    BY <2>1 DEF StoppedAt
  <2> QED
    BY <2>5, <2>6, <2>7 DEF NotAllRefused
<1>2. SocketInv => TypeOK
  BY DEF SocketInv
<1> QED
  BY <1>1, <1>2, RefusalInvariant, SocketInvariant, PTL
=============================================================================
