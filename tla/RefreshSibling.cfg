\* One collection and one provider command, nothing fails.
SPECIFICATION Spec
CONSTANTS
    v = v
    w = w
    a = a
    b = b
    Route = {a, b}
    Worker = {v, w}
    MaxRev = 2
    Ttl = 1
    Fan = 1
    MaxTime = 1
    MaxEdit = 1
    MaxRun = 1
    Faults = {}
SYMMETRY Perms
PROPERTIES OnlyTheDroppedRow
\* The clock and the number of provider commands are bounded.
CHECK_DEADLOCK FALSE
