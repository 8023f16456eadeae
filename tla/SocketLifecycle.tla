--------------------------- MODULE SocketLifecycle ---------------------------
(***************************************************************************)
(* Who owns the path of the control socket: daemons that reserve their     *)
(* configuration, replace a stale socket, bind, serve and clean up, and    *)
(* clients that remove a socket which refused them.                        *)
(*                                                                         *)
(* A daemon process runs once and binds at most once, so its name stands   *)
(* for the inode it creates.  "stale" is the socket of a process that died *)
(* before, "file" something at the path that is not a socket.              *)
(*                                                                         *)
(* gaps names the windows that other processes get in between: "listen",   *)
(* between bind(2) and listen(2) inside UnixListener::bind, and "unlink",  *)
(* between the comparison of the inodes and the removal of the path.  A    *)
(* behaviour has one, both or none of them, so a property can say which it *)
(* depends on.                                                             *)
(***************************************************************************)
EXTENDS Integers

CONSTANTS
  Daemon, Client,
  Identities      \* the identities of the configuration of each daemon, numbered in order

ASSUME IdentitiesAssumption == \A d \in Daemon : Identities[d] \subseteq Nat
ASSUME NamesAssumption ==
  Daemon \cap Client = {} /\ {"none", "stale", "file"} \cap (Daemon \cup Client) = {}

Process == Daemon \cup Client
Identity == UNION {Identities[d] : d \in Daemon}
None == "none"

VARIABLES
  path,       \* what is at the path of the control socket
  listening,  \* the daemons whose socket accepts connections
  holder,     \* the daemon that reserved identity i
  at,         \* where a process is
  seen,       \* what its last inspection of the path found
  refused,    \* daemons that found their configuration taken
  gaps        \* the windows of this behaviour

vars == <<path, listening, holder, at, seen, refused, gaps>>

Sockets == Daemon \cup {"stale"}

Init ==
  /\ path \in {None, "stale", "file"}
  /\ listening = {}
  /\ holder = [i \in Identity |-> None]
  /\ at = [p \in Process |-> IF p \in Daemon THEN "reserve" ELSE "idle"]
  /\ seen = [p \in Process |-> None]
  /\ refused = {}
  /\ gaps \in SUBSET {"listen", "unlink"}

Move(p, to) == at' = [at EXCEPT ![p] = to]

See(p, found) == seen' = [seen EXCEPT ![p] = found]

-----------------------------------------------------------------------------
(* remove_socket_if_unchanged, as a daemon and as a client. *)

Remove(p, then) ==
  /\ path' = None
  /\ Move(p, then)

\* Slip: the inodes are not compared.
CompareNothing(p, step, gap, gone, changed) ==
  /\ at[p] = step
  /\ IF seen[p] \notin Sockets
     THEN Move(p, changed) /\ UNCHANGED path
     ELSE Remove(p, gone)
  /\ UNCHANGED <<listening, holder, seen, refused>>

\* Only a socket is removed, and only when it is the one that was inspected before.
\* A path that is gone is as good as removed; a changed one is an error.
Compare(p, step, gap, gone, changed) ==
  /\ at[p] = step
  /\ IF seen[p] \notin Sockets
     THEN Move(p, changed) /\ UNCHANGED path
     ELSE IF path = None THEN Move(p, gone) /\ UNCHANGED path
     ELSE IF path # seen[p] THEN Move(p, changed) /\ UNCHANGED path
     ELSE IF "unlink" \in gaps THEN Move(p, gap) /\ UNCHANGED path
     ELSE Remove(p, gone)
  /\ UNCHANGED <<listening, holder, seen, refused>>

Unlink(p, gap, then) ==
  /\ at[p] = gap
  /\ Remove(p, then)
  /\ UNCHANGED <<listening, holder, seen, refused>>

-----------------------------------------------------------------------------
(* A daemon. *)

\* The process is gone, and with it its sockets and what it had reserved.
End(d) ==
  /\ Move(d, "over")
  /\ listening' = listening \ {d}
  /\ holder' = [i \in Identity |-> IF holder[i] = d THEN None ELSE holder[i]]

Wanted(d) == {i \in Identities[d] : holder[i] # d}

\* Slip: a taken identity is skipped.
ReserveAnyway(d) ==
  /\ at[d] = "reserve"
  /\ holder' = [i \in Identity |-> IF i \in Identities[d] /\ holder[i] = None THEN d ELSE holder[i]]
  /\ Move(d, "inspect")
  /\ UNCHANGED <<path, listening, seen, refused>>

\* Slip: the identities are reserved in no fixed order.
ReserveUnsorted(d) ==
  /\ at[d] = "reserve"
  /\ IF Wanted(d) = {}
     THEN /\ Move(d, "inspect")
          /\ UNCHANGED <<listening, holder, refused>>
     ELSE \E i \in Wanted(d) :
            IF holder[i] = None
            THEN /\ holder' = [holder EXCEPT ![i] = d]
                 /\ UNCHANGED <<at, listening, refused>>
            ELSE /\ Move(d, "refused")
                 /\ refused' = refused \cup {d}
                 /\ UNCHANGED <<listening, holder>>
  /\ UNCHANGED <<path, seen>>

\* The identities are reserved one by one in order; a taken one ends the
\* start, and what was reserved before it goes with the process.
Reserve(d) ==
  /\ at[d] = "reserve"
  /\ IF Wanted(d) = {}
     THEN /\ Move(d, "inspect")
          /\ UNCHANGED <<listening, holder, refused>>
     ELSE \E i \in Wanted(d) :
            /\ \A j \in Wanted(d) : i <= j
            /\ IF holder[i] = None
               THEN /\ holder' = [holder EXCEPT ![i] = d]
                    /\ UNCHANGED <<at, listening, refused>>
               ELSE /\ Move(d, "refused")
                    /\ refused' = refused \cup {d}
                    /\ UNCHANGED <<listening, holder>>
  /\ UNCHANGED <<path, seen>>

\* bind_socket looks at what is there, and refuses anything but a socket.
Inspect(d) ==
  /\ at[d] = "inspect"
  /\ See(d, path)
  /\ \/ path = None /\ Move(d, "bind") /\ UNCHANGED <<listening, holder>>
     \/ path = "file" /\ End(d)
     \/ path \in Sockets /\ Move(d, "probe") /\ UNCHANGED <<listening, holder>>
  /\ UNCHANGED <<path, refused>>

\* A connection that succeeds shows that a daemon is running there.
Probe(d) ==
  /\ at[d] = "probe"
  /\ IF path \in listening
     THEN End(d)
     ELSE Move(d, "replace") /\ UNCHANGED <<listening, holder>>
  /\ UNCHANGED <<path, seen, refused>>

Replace(d) ==
  \/ Compare(d, "replace", "replaceing", "bind", "failed")
  \/ Unlink(d, "replaceing", "bind")

\* bind(2) fails on a path that exists; listen(2) follows.
Bind(d) ==
  /\ at[d] = "bind"
  /\ IF path # None
     THEN End(d) /\ UNCHANGED path
     ELSE /\ path' = d
          /\ IF "listen" \in gaps
             THEN Move(d, "listen") /\ UNCHANGED listening
             ELSE Move(d, "bound") /\ listening' = listening \cup {d}
          /\ UNCHANGED holder
  /\ UNCHANGED <<seen, refused>>

Listen(d) ==
  /\ at[d] = "listen"
  /\ listening' = listening \cup {d}
  /\ Move(d, "bound")
  /\ UNCHANGED <<path, holder, seen, refused>>

\* The bound path is inspected; then its permissions or the listener's mode may fail to
\* be set, and the socket is taken away again.
Prepare(d) ==
  /\ at[d] = "bound"
  /\ See(d, path)
  /\ \/ path = None /\ End(d)
     \/ path # None /\ Move(d, "adopt") /\ UNCHANGED <<listening, holder>>
     \/ /\ path # None
        /\ Move(d, "cleanup")
        /\ listening' = listening \ {d}
        /\ UNCHANGED holder
  /\ UNCHANGED <<path, refused>>

\* run_loaded_daemon inspects the path once more: this is the socket it will remove.
Adopt(d) ==
  /\ at[d] = "adopt"
  /\ See(d, path)
  /\ IF path = None
     THEN End(d)
     ELSE Move(d, "serve") /\ UNCHANGED <<listening, holder>>
  /\ UNCHANGED <<path, refused>>

\* finish_daemon: the listener is dropped before the path is removed.
Stop(d) ==
  /\ at[d] = "serve"
  /\ listening' = listening \ {d}
  /\ Move(d, "cleanup")
  /\ UNCHANGED <<path, holder, seen, refused>>

Cleanup(d) ==
  \/ Compare(d, "cleanup", "cleanuping", "failed", "failed")
  \/ Unlink(d, "cleanuping", "failed")

\* The process returns, or crashes, or its models do not load.
Return(d) ==
  /\ at[d] # "over"
  /\ End(d)
  /\ UNCHANGED <<path, seen, refused>>

-----------------------------------------------------------------------------
(* A client: connect_control_socket_with. *)

Look(c) ==
  /\ at[c] = "idle"
  /\ See(c, path)
  /\ Move(c, "connect")
  /\ UNCHANGED <<path, listening, holder, refused>>

\* A refused connection makes the socket that was seen a stale one.
Connect(c) ==
  /\ at[c] = "connect"
  /\ Move(c, IF path \in listening \/ path = None THEN "idle" ELSE "tidy")
  /\ UNCHANGED <<path, listening, holder, seen, refused>>

Tidy(c) ==
  \/ Compare(c, "tidy", "tidying", "idle", "idle")
  \/ Unlink(c, "tidying", "idle")

Step ==
  \/ \E d \in Daemon : \/ Reserve(d) \/ Inspect(d) \/ Probe(d) \/ Replace(d) \/ Bind(d)
                       \/ Listen(d) \/ Prepare(d) \/ Adopt(d) \/ Stop(d) \/ Cleanup(d)
                       \/ Return(d)
  \/ \E c \in Client : Look(c) \/ Connect(c) \/ Tidy(c)

Next == Step /\ UNCHANGED gaps

Spec == Init /\ [][Next]_vars

-----------------------------------------------------------------------------
(* Properties. *)

Places ==
  {"reserve", "refused", "inspect", "probe", "replace", "replaceing", "bind", "listen", "bound",
   "adopt", "serve", "cleanup", "cleanuping", "failed", "over", "idle", "connect", "tidy", "tidying"}

TypeOK ==
  /\ path \in Sockets \cup {None, "file"}
  /\ listening \subseteq Daemon
  /\ holder \in [Identity -> Daemon \cup {None}]
  /\ seen \in [Process -> Sockets \cup {None, "file"}]
  /\ refused \subseteq Daemon
  /\ at \in [Process -> Places]
  /\ gaps \in SUBSET {"listen", "unlink"}

Running(d) == at[d] \notin {"reserve", "refused", "over"}

\* Two daemons whose configurations share an identity, by spelling or by what a link
\* points to, never run at the same time.
OneDaemonPerConfig ==
  \A d, e \in Daemon :
    Running(d) /\ Running(e) /\ Identities[d] \cap Identities[e] # {} => d = e

\* Daemons that start together do not all refuse each other: one of those that stand in
\* each other's way has not been refused.
NotAllRefused ==
  refused # {} => \E d \in refused, e \in Daemon \ refused : Identities[d] \cap Identities[e] # {}

\* Whoever looks at the path finds the daemon that serves: nobody has taken its socket
\* for a stale one, and no other has bound over it.  The code has no answer to the two
\* windows; without them it holds.  A daemon that stopped in order leaves nothing there.
Reachable ==
  /\ gaps = {} => \A d \in Daemon : at[d] = "serve" => path = d
  /\ \A d \in Daemon : at[d] = "failed" => path # d

\* tests/unit/app_main.rs: "refused_client_connection_removes_only_the_same_stale_socket".
OnlyStaleRemoved == [][(path \in listening) => UNCHANGED path]_vars
=============================================================================
