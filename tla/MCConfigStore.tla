---------------------------- MODULE MCConfigStore ----------------------------
EXTENDS ConfigStore, TLC
CONSTANTS a, b, c
Perms == Permutations(Proc)
=============================================================================
