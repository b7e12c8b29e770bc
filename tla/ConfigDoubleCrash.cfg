\* Two crashes, nothing else: is every later update still accepted?
SPECIFICATION Spec
CONSTANTS
    a = a
    b = b
    c = c
    Proc = {a, b}
    Rounds = 1
    MaxDoc = 4
    MaxCrash = 2
    Faults = {}
SYMMETRY Perms
INVARIANTS CrashNeverLocksOut
