-------------------------- MODULE CachePreparation --------------------------
(***************************************************************************)
(* The compiled cache of an OpenVINO accelerator, prepared by a child      *)
(* process that may crash in the driver: a few attempts, each with a time  *)
(* limit and a response file of its own.                                   *)
(***************************************************************************)
EXTENDS Naturals

CONSTANTS
  Preparer,      \* the processes that prepare a cache
  MaxAttempts    \* MAX_SIGNAL_ATTEMPTS

VARIABLES
  prepares,   \* "no", "next" (an attempt comes), "waits" (for the child), "prepared", "failed"
  attempt,    \* the attempts begun
  child,      \* the child process, until it is waited for
  response    \* the response file is there

cacheVars == <<prepares, attempt, child, response>>

\* How a child ends, and what its report says.
Complete == "complete"
Fruitless == {"no artifact", "no report", "failed"}
Exits == {Complete, "signalled"} \cup Fruitless

CacheInit ==
  /\ prepares = [p \in Preparer |-> "no"] /\ attempt = [p \in Preparer |-> 0]
  /\ child = [p \in Preparer |-> "none"] /\ response = [p \in Preparer |-> FALSE]

Attempt(p) ==
  /\ prepares[p] = "next"
  /\ attempt' = [attempt EXCEPT ![p] = @ + 1]
  /\ child' = [child EXCEPT ![p] = "running"]
  /\ response' = [response EXCEPT ![p] = TRUE]
  /\ prepares' = [prepares EXCEPT ![p] = "waits"]

\* No response file, or no process.
AttemptFails(p) ==
  /\ prepares[p] = "next"
  /\ prepares' = [prepares EXCEPT ![p] = "failed"]
  /\ UNCHANGED <<attempt, child, response>>

ChildExits(p) ==
  /\ child[p] = "running"
  /\ \E e \in Exits : child' = [child EXCEPT ![p] = e]
  /\ UNCHANGED <<prepares, attempt, response>>

\* What follows from the end of a child: a report with an artifact, one more
\* attempt after a signal, or an error.
Outcome(p) ==
  CASE child[p] = Complete -> "prepared"
    [] child[p] = "signalled" /\ attempt[p] < MaxAttempts -> "next"
    [] OTHER -> "failed"

\* The child is waited for, its output read to the end, the response removed.
Reap(p) ==
  /\ prepares[p] = "waits" /\ child[p] \in Exits
  /\ prepares' = [prepares EXCEPT ![p] = Outcome(p)]
  /\ attempt' = [attempt EXCEPT ![p] = IF Outcome(p) = "next" THEN @ ELSE 0]
  /\ child' = [child EXCEPT ![p] = "none"]
  /\ response' = [response EXCEPT ![p] = FALSE]

TimeOut(p) ==
  /\ prepares[p] = "waits" /\ child[p] = "running"
  /\ prepares' = [prepares EXCEPT ![p] = "failed"]
  /\ attempt' = [attempt EXCEPT ![p] = 0]
  /\ child' = [child EXCEPT ![p] = "none"]
  /\ response' = [response EXCEPT ![p] = FALSE]

CacheStep(p) == Attempt(p) \/ AttemptFails(p) \/ ChildExits(p) \/ Reap(p) \/ TimeOut(p)
=============================================================================
