------------------------------ MODULE Ownership ------------------------------
(***************************************************************************)
(* What the lock files of lib/lock.js, lib/refresh-owner.js and            *)
(* lib/dashboard/instance-lock.js promise their callers, with the ticket   *)
(* protocol left out: at most one contender owns the lock, and it is owned *)
(* only from a grant to the owner's release or death.                      *)
(***************************************************************************)
CONSTANT Contender

VARIABLE owners

TypeOK == owners \subseteq Contender

Init == owners = {}

\* acquireMutationLock returned { ok: true }.
Acquire(c) ==
    /\ owners = {}
    /\ owners' = {c}

\* release() ran, or the owning process is gone.
Leave(c) ==
    /\ owners = {c}
    /\ owners' = {}

Next == \E c \in Contender : Acquire(c) \/ Leave(c)

Spec == Init /\ [][Next]_owners
=============================================================================
