----------------------------- MODULE TicketLock ------------------------------
(***************************************************************************)
(* The ticket ("bakery") protocol of the three lock directories:           *)
(*   lib/lock.js                    the provider mutation lock             *)
(*   lib/refresh-owner.js           the refresh worker's ownership         *)
(*   lib/dashboard/instance-lock.js the dashboard daemon's instance lock   *)
(* One element of Ticket is one attempt to take the lock: a uniquely named *)
(* file whose name carries the process id, and the process behind it.      *)
(* The three copies differ in what the CONSTANTS say: whether a contender  *)
(* waits for a peer that has not numbered itself (Waits) and whether a     *)
(* ticket's owner is identified by its start token as well as by its pid   *)
(* (StartTokens).  Faults names what may go wrong in a run; "read", a peer's *)
(* ticket that cannot be read and counts as un-numbered, is of lib/lock.js   *)
(* and instance-lock.js only: refresh-owner.js gives up there ("io").        *)
(***************************************************************************)
EXTENDS Naturals

CONSTANTS Ticket,       \* attempts; the order of the numbers is the order of the ids
          Waits,        \* poll on an un-numbered peer instead of refusing
          StartTokens,  \* liveness is (pid, start token) instead of pid alone
          Abroad,       \* attempts whose process runs in another time zone (TZ)
          Faults        \* the faults a run allows

FaultKinds == {"crash", "reuse", "slow", "io", "read", "ps"}

ASSUME TicketAssumption == Ticket \subseteq Nat \ {0}
ASSUME ZoneAssumption == Abroad \subseteq Ticket
ASSUME ProtocolAssumption == Waits \in BOOLEAN /\ StartTokens \in BOOLEAN
ASSUME FaultAssumption == Faults \subseteq FaultKinds

NoTicket == 0

VARIABLES present,        \* the ticket files in the lock directory
          stamped,        \* those whose JSON document has been written
          num,            \* the number in each ticket, 0 while choosing
          pc,             \* where each attempt is in acquire ... release
          todo,           \* directory entries listed and not yet examined
          top,            \* the highest number read while choosing
          reaping,        \* an entry found dead whose unlink is still to come
          indeterminate,  \* attempts that met an un-numbered peer in this listing
          outranked,      \* attempts that met a lower ticket in this listing
          missed          \* history: the peers whose number each attempt, while it
                          \* chose its own, could not read

vars == <<present, stamped, num, pc, todo, top, reaping, indeterminate, outranked, missed>>

files == <<present, stamped, num>>
locals == <<todo, top, reaping, indeterminate, outranked, missed>>

\* Attempts of a live process between claiming their name and dropping it.
Competing == {"created", "choosing", "scan1", "numbered", "scan2", "held"}
\* Attempts that are over; the process may still run.
Over == {"refused", "timedOut", "released"}
\* The process of the attempt is gone; "reused": its pid belongs to a stranger.
Departed == {"gone", "reused"}
Places == {"idle"} \cup Competing \cup Over \cup Departed

TypeOK ==
    /\ present \subseteq Ticket
    /\ stamped \subseteq Ticket
    /\ num \in [Ticket -> Nat]
    /\ pc \in [Ticket -> Places]
    /\ todo \in [Ticket -> SUBSET Ticket]
    /\ top \in [Ticket -> Nat]
    /\ reaping \in [Ticket -> Ticket \cup {NoTicket}]
    /\ indeterminate \subseteq Ticket
    /\ outranked \subseteq Ticket
    /\ missed \in [Ticket -> SUBSET Ticket]

\* (number, id) order: the election's winner is the lowest.
Before(t, u) == num[t] < num[u] \/ (num[t] = num[u] /\ t < u)

\* The start token is local-time text of ps(1): two processes in different time
\* zones (instance-lock.js passes TZ on) never agree on a token.
Foreign(t, u) == StartTokens /\ (t \in Abroad <=> u \notin Abroad)

\* All attempts that are told apart by tokens print them alike.
OneZone == ~StartTokens \/ Abroad = {}

\* Mutated: a ticket without its document is taken for a leftover.
DeadIfBlank(t, u) == pc[u] = "gone" \/ u \notin stamped
\* Mutated: the daemon's ticket judged by its pid alone.
DeadByPid(t, u) == pc[u] = "gone"

\* As t judges u. kill(pid, 0) raises ESRCH; with start tokens, also a pid whose
\* process has another token, provided the ticket's document records one.
Dead(t, u) ==
    \/ pc[u] = "gone"
    \/ StartTokens /\ u \in stamped /\ (pc[u] = "reused" \/ Foreign(t, u))

\* An entry that is reported as a contender: not dead, or not provably dead
\* because ps cannot be read.
Standing(t, u) == ~Dead(t, u) \/ ("ps" \in Faults /\ pc[u] # "gone")

Scanning(t) == pc[t] \in {"scan1", "scan2"} /\ reaping[t] = NoTicket
Scanned(t) == Scanning(t) /\ todo[t] = {}

Init ==
    /\ present = {}
    /\ stamped = {}
    /\ num = [t \in Ticket |-> 0]
    /\ pc = [t \in Ticket |-> "idle"]
    /\ todo = [t \in Ticket |-> {}]
    /\ top = [t \in Ticket |-> 0]
    /\ reaping = [t \in Ticket |-> NoTicket]
    /\ indeterminate = {}
    /\ outranked = {}
    /\ missed = [t \in Ticket |-> {}]

-----------------------------------------------------------------------------
\* Choosing: claim the unique name, then write number 0 into it.

Create(t) ==
    /\ pc[t] = "idle"
    /\ present' = present \cup {t}
    /\ pc' = [pc EXCEPT ![t] = "created"]
    /\ UNCHANGED <<stamped, num, locals>>

Stamp(t) ==
    /\ pc[t] = "created"
    /\ stamped' = stamped \cup {t}
    /\ pc' = [pc EXCEPT ![t] = "choosing"]
    /\ UNCHANGED <<present, num, locals>>

\* One readdir of the directory: while choosing, and again once numbered.
List(t) ==
    /\ \/ pc[t] = "choosing" /\ pc' = [pc EXCEPT ![t] = "scan1"]
       \/ pc[t] = "numbered" /\ pc' = [pc EXCEPT ![t] = "scan2"]
    /\ todo' = [todo EXCEPT ![t] = present \ {t}]
    /\ indeterminate' = indeterminate \ {t}
    /\ outranked' = outranked \ {t}
    /\ UNCHANGED <<files, top, reaping, missed>>

\* An entry whose owner is provably gone: judged here, unlinked by Reap, and
\* anything may happen in between.
FindDead(t, u) ==
    /\ Scanning(t)
    /\ u \in todo[t]
    /\ Dead(t, u)
    /\ todo' = [todo EXCEPT ![t] = @ \ {u}]
    /\ reaping' = [reaping EXCEPT ![t] = u]
    /\ UNCHANGED <<files, pc, top, indeterminate, outranked, missed>>

Reap(t) ==
    /\ pc[t] \in {"scan1", "scan2"}
    /\ reaping[t] # NoTicket
    /\ present' = present \ {reaping[t]}
    /\ reaping' = [reaping EXCEPT ![t] = NoTicket]
    /\ UNCHANGED <<stamped, num, pc, todo, top, indeterminate, outranked, missed>>

\* Dropped by its owner, or reaped by a peer, since the listing (ENOENT).
Skip(t, u) ==
    /\ Scanning(t)
    /\ u \in todo[t] \ present
    /\ todo' = [todo EXCEPT ![t] = @ \ {u}]
    /\ UNCHANGED <<files, pc, top, reaping, indeterminate, outranked, missed>>

\* A standing ticket read while choosing: remember the highest number.
Weigh(t, u) ==
    /\ Scanning(t) /\ pc[t] = "scan1"
    /\ u \in todo[t] \cap present
    /\ Standing(t, u)
    /\ todo' = [todo EXCEPT ![t] = @ \ {u}]
    /\ top' = [top EXCEPT ![t] = IF num[u] > @ THEN num[u] ELSE @]
    /\ UNCHANGED <<files, pc, reaping, indeterminate, outranked, missed>>

\* A standing ticket read once numbered: does it stand in the way?
Compare(t, u) ==
    /\ Scanning(t) /\ pc[t] = "scan2"
    /\ u \in todo[t] \cap present
    /\ Standing(t, u)
    /\ todo' = [todo EXCEPT ![t] = @ \ {u}]
    /\ indeterminate' = IF num[u] = 0 THEN indeterminate \cup {t} ELSE indeterminate
    /\ outranked' = IF num[u] # 0 /\ Before(u, t) THEN outranked \cup {t} ELSE outranked
    /\ UNCHANGED <<files, pc, top, reaping, missed>>

\* A ticket that is there and cannot be read: no number, and no token either, so
\* whoever runs under its pid is taken for its owner.  Harmless once t is
\* numbered (t does not proceed); while t chooses, u's number goes unseen.
Misread(t, u) ==
    /\ "read" \in Faults
    /\ Scanning(t)
    /\ u \in todo[t] \cap present
    /\ pc[u] # "gone" /\ num[u] # 0
    /\ todo' = [todo EXCEPT ![t] = @ \ {u}]
    /\ \/ /\ pc[t] = "scan1"
          /\ missed' = [missed EXCEPT ![t] = @ \cup {u}]
          /\ UNCHANGED indeterminate
       \/ /\ pc[t] = "scan2"
          /\ indeterminate' = indeterminate \cup {t}
          /\ UNCHANGED missed
    /\ UNCHANGED <<files, pc, top, reaping, outranked>>

Examine(t) ==
    \/ Reap(t)
    \/ \E u \in Ticket : \/ FindDead(t, u) \/ Skip(t, u)
                          \/ Weigh(t, u) \/ Compare(t, u) \/ Misread(t, u)

\* Mutated: the number is one below what was read.
PublishBelow(t) ==
    /\ pc[t] = "scan1" /\ Scanned(t)
    /\ num' = [num EXCEPT ![t] = top[t] - 1]
    /\ top' = [top EXCEPT ![t] = 0]
    /\ pc' = [pc EXCEPT ![t] = "numbered"]
    /\ UNCHANGED <<present, stamped, todo, reaping, indeterminate, outranked, missed>>

\* Mutated: the directory is not read before the number is chosen.
PublishUnread(t) ==
    /\ pc[t] = "scan1" /\ reaping[t] = NoTicket
    /\ num' = [num EXCEPT ![t] = top[t] + 1]
    /\ top' = [top EXCEPT ![t] = 0]
    /\ pc' = [pc EXCEPT ![t] = "numbered"]
    /\ todo' = [todo EXCEPT ![t] = {}]
    /\ UNCHANGED <<present, stamped, reaping, indeterminate, outranked, missed>>

\* Numbered: one above everything read, published by rename (which creates the
\* name anew if somebody has unlinked it).
Publish(t) ==
    /\ pc[t] = "scan1" /\ Scanned(t)
    /\ present' = present \cup {t}
    /\ num' = [num EXCEPT ![t] = top[t] + 1]
    /\ top' = [top EXCEPT ![t] = 0]
    /\ pc' = [pc EXCEPT ![t] = "numbered"]
    /\ UNCHANGED <<stamped, todo, reaping, indeterminate, outranked, missed>>

-----------------------------------------------------------------------------
\* The decision at the end of the second listing.

\* Mutated: an un-numbered peer does not stand in the way.
AcquireOverChoosing(t) ==
    /\ pc[t] = "scan2" /\ Scanned(t)
    /\ t \notin outranked
    /\ pc' = [pc EXCEPT ![t] = "held"]
    /\ UNCHANGED <<files, locals>>

Acquire(t) ==
    /\ pc[t] = "scan2" /\ Scanned(t)
    /\ t \notin indeterminate \cup outranked
    /\ pc' = [pc EXCEPT ![t] = "held"]
    /\ UNCHANGED <<files, locals>>

\* Unlink the attempt's own ticket; a failing unlink leaves it behind.
DropOwn(t) ==
    \/ present' = present \ {t}
    \/ "io" \in Faults /\ present' = present

\* The attempt is over: refused, its claim dropped (the finally block).
GiveUp(t, how) ==
    /\ DropOwn(t)
    /\ pc' = [pc EXCEPT ![t] = how]
    /\ todo' = [todo EXCEPT ![t] = {}]
    /\ top' = [top EXCEPT ![t] = 0]
    /\ reaping' = [reaping EXCEPT ![t] = NoTicket]
    /\ indeterminate' = indeterminate \ {t}
    /\ outranked' = outranked \ {t}
    /\ missed' = [missed EXCEPT ![t] = {}]
    /\ UNCHANGED <<stamped, num>>

\* Mutated: nobody waits for a peer that is still choosing.
RefuseAtOnce(t) ==
    /\ pc[t] = "scan2" /\ Scanned(t)
    /\ t \in indeterminate \cup outranked
    /\ GiveUp(t, "refused")

\* Mutated: a lower ticket is waited for, not yielded to.
RefuseOnlyChoosing(t) ==
    /\ pc[t] = "scan2" /\ Scanned(t)
    /\ t \in indeterminate /\ ~Waits
    /\ GiveUp(t, "refused")

Refuse(t) ==
    /\ pc[t] = "scan2" /\ Scanned(t)
    /\ \/ t \in indeterminate /\ ~Waits
       \/ t \in outranked \ indeterminate
    /\ GiveUp(t, "refused")

\* The 5 ms pause and the next look, until the 1000 ms deadline.
Poll(t) ==
    /\ Waits
    /\ pc[t] = "scan2" /\ Scanned(t)
    /\ t \in indeterminate
    /\ pc' = [pc EXCEPT ![t] = "numbered"]
    /\ UNCHANGED <<files, locals>>

\* The deadline passed with a peer still un-numbered.
Timeout(t) ==
    /\ Waits /\ "slow" \in Faults
    /\ pc[t] = "scan2" /\ Scanned(t)
    /\ t \in indeterminate
    /\ GiveUp(t, "timedOut")

\* Any file operation before the grant throws: the catch and finally blocks.
StorageError(t) ==
    /\ "io" \in Faults
    /\ pc[t] \in Competing \ {"held"}
    /\ GiveUp(t, "refused")

Release(t) ==
    /\ pc[t] = "held"
    /\ DropOwn(t)
    /\ pc' = [pc EXCEPT ![t] = "released"]
    /\ missed' = [missed EXCEPT ![t] = {}]
    /\ UNCHANGED <<stamped, num, todo, top, reaping, indeterminate, outranked>>

-----------------------------------------------------------------------------
\* The operating system: the process dies, mid-attempt or after a release that
\* left the ticket behind, and its pid may be handed to another process.

Depart(t) ==
    /\ \/ "crash" \in Faults /\ pc[t] \in Competing
       \/ pc[t] \in Over /\ t \in present
    /\ pc' = [pc EXCEPT ![t] = "gone"]
    /\ todo' = [todo EXCEPT ![t] = {}]
    /\ top' = [top EXCEPT ![t] = 0]
    /\ reaping' = [reaping EXCEPT ![t] = NoTicket]
    /\ indeterminate' = indeterminate \ {t}
    /\ outranked' = outranked \ {t}
    /\ missed' = [missed EXCEPT ![t] = {}]
    /\ UNCHANGED files

ReusePid(t) ==
    /\ "reuse" \in Faults
    /\ pc[t] = "gone" /\ t \in present
    /\ pc' = [pc EXCEPT ![t] = "reused"]
    /\ UNCHANGED <<files, locals>>

\* The steps the protocol takes by itself once an attempt has begun.
Proceed(t) == Stamp(t) \/ List(t) \/ Examine(t) \/ Publish(t) \/ Acquire(t)
              \/ Refuse(t) \/ Poll(t)

Next == \E t \in Ticket :
    \/ Create(t)
    \/ Proceed(t)
    \/ Timeout(t)
    \/ StorageError(t)
    \/ Release(t)
    \/ Depart(t)
    \/ ReusePid(t)

Spec == Init /\ [][Next]_vars

\* Every call runs to its end: the code is straight-line and bounded (the
\* deadline ends the polling), and a holder releases when its mutation ends.
Fairness == \A t \in Ticket :
    /\ WF_vars(Proceed(t))
    /\ WF_vars(Release(t))
    /\ SF_vars(Timeout(t))

FairSpec == Spec /\ Fairness

-----------------------------------------------------------------------------
\* The processes that believe they own the lock.
Holders == {t \in Ticket : pc[t] = "held"}

\* Two live processes never both hold the lock, whatever interleaving of
\* listings, numberings, reapings, crashes and pid reuse led there: the lost
\* update of config.json that the comment of lib/lock.js sets out to prevent.
\* It takes tickets that can be read: see SharedOnlyByMisread.
MutualExclusion == \A t, u \in Holders : t = u

\* With tickets that may be unreadable, the lock is shared only if one holder, when
\* it chose its number, failed to read the other's ticket: the only way in which
\* the un-numbered peer of lib/lock.js, "never permission to proceed", is one.
SharedOnlyByMisread == \A t, u \in Holders :
    t = u \/ u \in missed[t] \/ t \in missed[u]

\* A ticket is removed by its owner or after its owner's death, never by a
\* peer that recovers in parallel: a step that removes another attempt's
\* ticket removes that of a process that is gone.
LiveTicketKept ==
    [][\A u \in Ticket : u \in present \ present' =>
          \/ pc[u] \in Departed
          \/ pc[u] # pc'[u]]_vars

\* The election is decided for the lowest ticket: whoever holds the lock comes
\* before every other numbered contender, so nobody overtakes a holder, unless the
\* contender could not read the holder's ticket when it chose its number.
HolderComesFirst == \A t \in Holders, u \in Ticket :
    u # t /\ pc[u] \in {"numbered", "scan2"} => Before(t, u) \/ t \in missed[u]

\* Elected, not seized: when every attempt is over, one of them was granted the
\* lock ("concurrent contenders converge on one holder", lib/lock.js), unless a
\* deadline passed.
Quiet == \A t \in Ticket : pc[t] \in Over \ {"timedOut"}
ElectionNotEmpty == Quiet => \E t \in Ticket : pc[t] = "released"

\* An attempt that has begun always ends, or its process dies: no deadlock
\* between contenders that wait for each other's number.
AttemptsEnd == \A t \in Ticket :
    pc[t] \in Competing ~> pc[t] \in Over \cup Departed

\* Dead tickets do not block: an attempt begun when every other process with a
\* ticket is provably gone is granted the lock, unless another attempt starts
\* or its own process dies first.
Alone(t) ==
    /\ pc[t] = "created"
    /\ \A u \in present \ {t} :
          /\ pc[u] \in Departed
          /\ "reuse" \in Faults => StartTokens /\ u \in stamped
RecoversFromTheDead == \A t \in Ticket :
    Alone(t) ~> (pc[t] \in {"held", "gone", "reused"} \/ \E u \in Ticket \ {t} : pc[u] \in Competing)

-----------------------------------------------------------------------------
\* The inductive invariant, part by part.

\* Places at which an attempt has not published its number yet.
Choosing == {"idle", "created", "choosing", "scan1"}
\* Places at which a live attempt's number is published.
Numbered == {"numbered", "scan2", "held"}

\* A competing attempt's ticket is in the directory.
TicketPresent == \A t \in Ticket : pc[t] \in Competing => t \in present

\* A number is published exactly when choosing ends.
NumberPublished == \A t \in Ticket :
    /\ pc[t] \in Choosing => num[t] = 0
    /\ pc[t] \in Numbered => num[t] > 0

\* An entry judged dead stays dead: names are never reused.
ReapedIsGone == \A t \in Ticket :
    reaping[t] # NoTicket => pc[reaping[t]] \in Departed

\* t has examined u in its second listing and nothing stood in its way.
Passed(t, u) ==
    \/ pc[t] = "held"
    \/ /\ pc[t] = "scan2"
       /\ u \notin todo[t]
       /\ t \notin indeterminate \cup outranked

\* u does not threaten t: it has not begun, has ended, will read t's number
\* or has already, is numbered above t, or failed to read t's ticket.
Yields(u, t) ==
    \/ pc[u] \in {"idle", "created", "choosing"} \cup Over \cup Departed
    \/ pc[u] = "scan1" /\ (t \in todo[u] \/ top[u] >= num[t])
    \/ pc[u] \in Numbered /\ Before(t, u)
    \/ t \in missed[u]

Bakery == \A t, u \in Ticket : t # u /\ Passed(t, u) => Yields(u, t)

\* What no attempt misses where files can be read.
NothingMissed == \A t \in Ticket : missed[t] = {}

\* The strengthening of SharedOnlyByMisread that every step preserves: what a
\* contender that got past a peer may rely on, although files are read one by
\* one while others number themselves, reap, crash and start.
IInv == TypeOK /\ TicketPresent /\ NumberPublished /\ ReapedIsGone /\ Bakery

-----------------------------------------------------------------------------
\* The ticket protocol implements the abstract lock.
Abstract == INSTANCE Ownership WITH Contender <- Ticket, owners <- Holders
ImplementsOwnership == Abstract!Spec
=============================================================================
