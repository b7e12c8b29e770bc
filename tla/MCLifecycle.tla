---------------------------- MODULE MCLifecycle ----------------------------
EXTENDS Lifecycle, TLC
CONSTANTS p1, p2, k1, k2, shipped, custom
Perms == Permutations(Proc) \cup Permutations(Secret)
=============================================================================
