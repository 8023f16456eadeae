-------------------------- MODULE MCSocketLifecycle --------------------------
EXTENDS SocketLifecycle

\* Two daemons started with the same link to a configuration file, and one with another
\* configuration; all share the runtime directory.
MCIdentities == [d \in {"d1", "d2", "d3"} |-> IF d = "d3" THEN {3} ELSE {1, 2}]
=============================================================================
