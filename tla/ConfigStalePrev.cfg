\* One crash, and the user deletes config.json when no publish is in flight.
SPECIFICATION Spec
CONSTANTS
    a = a
    b = b
    c = c
    Proc = {a, b}
    Rounds = 1
    MaxDoc = 2
    MaxCrash = 1
    Faults = {"outside"}
SYMMETRY Perms
PROPERTIES DeleteIsFinal
