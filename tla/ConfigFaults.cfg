\* Publishers under every fault: config.json deleted by the user at any moment,
\* file operations that fail, a crash between any two steps.
SPECIFICATION Spec
CONSTANTS
    a = a
    b = b
    c = c
    Proc = {a, b}
    Rounds = 2
    MaxDoc = 3
    MaxCrash = 1
    Faults = {"outside", "io"}
SYMMETRY Perms
INVARIANTS IInv AckedKept
PROPERTIES OnlyMigrationCreates
