\* The provider mutation lock: refuses at once, knows owners by pid alone, and
\* takes a ticket that cannot be read for an un-numbered one.
SPECIFICATION Spec
CONSTANTS
    Ticket = {1, 2, 3}
    Waits = FALSE
    StartTokens = FALSE
    Abroad = {}
    Faults = {"crash", "reuse", "io", "read"}
INVARIANT SharedOnlyByMisread
PROPERTY LiveTicketKept
\* Every attempt ends, and no new one begins once all tickets are used.
CHECK_DEADLOCK FALSE
