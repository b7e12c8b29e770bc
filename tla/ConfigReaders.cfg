\* Readers without a lock against publishers that may crash once.
SPECIFICATION Spec
CONSTANTS
    a = a
    b = b
    c = c
    Proc = {a, b, c}
    Rounds = 2
    MaxDoc = 3
    MaxCrash = 1
    Faults = {}
SYMMETRY Perms
INVARIANTS ReadIsCurrent AbsenceIsProven CrashNeverLocksOut
