\* The dashboard daemon's lock: waits for a peer that is still choosing, until a
\* deadline, and knows a ticket's owner by its pid and start token.
SPECIFICATION FairSpec
CONSTANTS
    Ticket = {1, 2, 3}
    Waits = TRUE
    StartTokens = TRUE
    Abroad = {}
    Faults = {"crash", "reuse", "slow"}
INVARIANTS HolderComesFirst ElectionNotEmpty
PROPERTIES ImplementsOwnership AttemptsEnd RecoversFromTheDead
\* Every attempt ends, and no new one begins once all tickets are used.
CHECK_DEADLOCK FALSE
