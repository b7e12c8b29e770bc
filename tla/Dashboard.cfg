\* Two daemons, two commands at a time and two ports; every fault.
SPECIFICATION Spec
CONSTANTS
    Daemon = {d1, d2}
    Client = {c1, c2}
    Port = {p1, p2}
    None = None
    Stranger = Stranger
    Faults = {"crash", "reuse", "ps", "zone", "lost", "slow", "io", "stranger"}
SYMMETRY Symmetry
VIEW View
INVARIANTS IInv RecordKept
PROPERTIES StopsOnlyConfirmed StopMakesRoom NeverCalledStale
