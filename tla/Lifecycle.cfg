\* Commands of two processes over one shipped and one custom route, every step
\* of which may fail or be the last.
SPECIFICATION Spec
CONSTANTS
    p1 = p1
    p2 = p2
    k1 = k1
    k2 = k2
    shipped = shipped
    custom = custom
    Proc = {p1, p2}
    Route = {shipped, custom}
    Shipped = {shipped}
    NoRoute = NoRoute
    Secret = {k1, k2}
    NoSecret = NoSecret
    Faults = {"vault", "config", "cache", "outside", "crash"}
SYMMETRY Perms
INVARIANT StoresAgree
PROPERTIES RowsHaveCredentials RemovalsAreTrue FailuresRestore
