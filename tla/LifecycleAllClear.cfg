\* Is there nothing left when a removal reports that there was nothing to remove?
SPECIFICATION Spec
CONSTANTS
    p1 = p1
    p2 = p2
    k1 = k1
    k2 = k2
    shipped = shipped
    custom = custom
    Proc = {p1, p2}
    Route = {shipped, custom}
    Shipped = {shipped}
    NoRoute = NoRoute
    Secret = {k1, k2}
    NoSecret = NoSecret
    Faults = {"vault", "config", "cache", "outside", "crash"}
SYMMETRY Perms
PROPERTIES NothingMeansNothing
