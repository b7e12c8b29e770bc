------------------------------ MODULE MCRefresh ------------------------------
EXTENDS Refresh, TLC
CONSTANTS v, w, a, b
Perms == Permutations(Worker) \cup Permutations(Route)
=============================================================================
