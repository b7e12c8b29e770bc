\* Two collections and a provider command on two routes, one of which may have a
\* row already; files that fail and crashes.
SPECIFICATION Spec
CONSTANTS
    v = v
    w = w
    a = a
    b = b
    Route = {a, b}
    Worker = {v, w}
    MaxRev = 2
    Ttl = 1
    Fan = 1
    MaxTime = 3
    MaxEdit = 1
    MaxRun = 2
    Faults = {"io", "crash"}
SYMMETRY Perms
INVARIANTS DenyIsGrounded DenyIsRecent
PROPERTIES PublishKeepsFacts
\* The clock and the number of provider commands are bounded.
CHECK_DEADLOCK FALSE
