------------------------------ MODULE MCDaemon ------------------------------
EXTENDS Daemon, TLC

CONSTANTS a, b, c3
Clients == {a, b, c3}
Symmetry == Permutations(Clients)
=============================================================================
