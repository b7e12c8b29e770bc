-------------------------- MODULE TicketLockProofs ---------------------------
(***************************************************************************)
(* Proofs about TicketLock for every set of tickets, for the waiting and   *)
(* the refusing variants, with and without start tokens, and under every   *)
(* fault: the state is well typed, the lock is shared only with an attempt *)
(* that could not read a ticket, and no peer removes a live contender's    *)
(* ticket.  Where tickets can be read, two live processes never both hold  *)
(* the lock, and the protocol implements the abstract lock of Ownership.   *)
(* Attempts that are told apart by tokens run in one time zone (OneZone).  *)
(***************************************************************************)
EXTENDS TicketLock, WellFoundedInduction, TLAPS

USE TicketAssumption
USE DEF NoTicket, Places, Choosing, Numbered, Competing, Over, Departed, files, locals

-----------------------------------------------------------------------------
\* NoTicket names no attempt.
LEMMA TicketNotNone == NoTicket \notin Ticket
BY DEF NoTicket

\* The (number, id) order is asymmetric: of two tickets one comes first.
LEMMA BeforeAsymmetric ==
    ASSUME TypeOK, NEW t \in Ticket, NEW u \in Ticket, Before(t, u)
    PROVE ~Before(u, t)
BY DEF TypeOK, Before

\* The directory is empty initially.
LEMMA InitInvariant == Init => IInv
BY DEF Init, IInv, TypeOK, TicketPresent, NumberPublished, ReapedIsGone, Bakery,
       Passed, Yields, Before

-----------------------------------------------------------------------------
\* One lemma per action: the step keeps the invariant.

LEMMA CreateKeeps ==
    ASSUME IInv, NEW t \in Ticket, Create(t)
    PROVE IInv'
BY SMTT(30) DEF Create, IInv, TypeOK, TicketPresent, NumberPublished, ReapedIsGone, Bakery,
       Passed, Yields, Before

LEMMA StampKeeps ==
    ASSUME IInv, NEW t \in Ticket, Stamp(t)
    PROVE IInv'
BY SMTT(30) DEF Stamp, IInv, TypeOK, TicketPresent, NumberPublished, ReapedIsGone, Bakery,
       Passed, Yields, Before

\* A live peer missing from the listing has not begun or is over.
LEMMA ListKeeps ==
    ASSUME IInv, NEW t \in Ticket, List(t)
    PROVE IInv'
<1>1. TypeOK'
  BY DEF List, IInv, TypeOK
<1>2. TicketPresent'
  BY DEF List, IInv, TypeOK, TicketPresent, ReapedIsGone
<1>3. NumberPublished'
  BY DEF List, IInv, TypeOK, NumberPublished
<1>4. ReapedIsGone'
  BY DEF List, IInv, TypeOK, ReapedIsGone
<1>5. ASSUME NEW v \in Ticket, NEW w \in Ticket, v # w, Passed(v, w)'
      PROVE Yields(w, v)'
  <2>1. CASE v = t
    BY <1>5, <2>1 DEF List, IInv, TypeOK, TicketPresent, NumberPublished, Bakery, Passed, Yields, Before
  <2>2. CASE w = t
    BY <1>5, <2>2 DEF List, IInv, TypeOK, TicketPresent, NumberPublished, Bakery, Passed, Yields, Before
  <2>3. CASE v # t /\ w # t
    BY <1>5, <2>3 DEF List, IInv, TypeOK, Bakery, Passed, Yields, Before
  <2> QED BY <2>1, <2>2, <2>3
<1> QED BY <1>1, <1>2, <1>3, <1>4, <1>5 DEF IInv, Bakery

LEMMA FindDeadKeeps ==
    ASSUME OneZone, IInv, NEW t \in Ticket, NEW u \in Ticket, FindDead(t, u)
    PROVE IInv'
BY SMTT(30) DEF OneZone, FindDead, Scanning, Dead, Foreign, IInv, TypeOK, TicketPresent, NumberPublished, ReapedIsGone, Bakery,
       Passed, Yields, Before

\* Only the ticket of a departed process is unlinked.
LEMMA ReapKeeps ==
    ASSUME IInv, NEW t \in Ticket, Reap(t)
    PROVE IInv'
<1>1. TypeOK'
  BY DEF Reap, IInv, TypeOK
<1>2. TicketPresent'
  BY DEF Reap, IInv, TypeOK, TicketPresent, ReapedIsGone
<1>3. NumberPublished'
  BY DEF Reap, IInv, TypeOK, NumberPublished
<1>4. ReapedIsGone'
  BY DEF Reap, IInv, TypeOK, ReapedIsGone
<1>5. ASSUME NEW v \in Ticket, NEW w \in Ticket, v # w, Passed(v, w)'
      PROVE Yields(w, v)'
  <2>1. CASE v = t
    BY <1>5, <2>1 DEF Reap, IInv, TypeOK, TicketPresent, NumberPublished, Bakery, Passed, Yields, Before
  <2>2. CASE w = t
    BY <1>5, <2>2 DEF Reap, IInv, TypeOK, TicketPresent, NumberPublished, Bakery, Passed, Yields, Before
  <2>3. CASE v # t /\ w # t
    BY <1>5, <2>3 DEF Reap, IInv, TypeOK, Bakery, Passed, Yields, Before
  <2> QED BY <2>1, <2>2, <2>3
<1> QED BY <1>1, <1>2, <1>3, <1>4, <1>5 DEF IInv, Bakery

LEMMA SkipKeeps ==
    ASSUME IInv, NEW t \in Ticket, NEW u \in Ticket, Skip(t, u)
    PROVE IInv'
BY SMTT(30) DEF Skip, Scanning, IInv, TypeOK, TicketPresent, NumberPublished, ReapedIsGone, Bakery,
       Passed, Yields, Before

LEMMA WeighKeeps ==
    ASSUME IInv, NEW t \in Ticket, NEW u \in Ticket, Weigh(t, u)
    PROVE IInv'
BY SMTT(30) DEF Weigh, Scanning, Standing, IInv, TypeOK, TicketPresent, NumberPublished, ReapedIsGone, Bakery,
       Passed, Yields, Before

LEMMA CompareKeeps ==
    ASSUME OneZone, IInv, NEW t \in Ticket, NEW u \in Ticket, Compare(t, u)
    PROVE IInv'
BY SMTT(30) DEF OneZone, Compare, Scanning, Standing, Dead, Foreign, IInv, TypeOK, TicketPresent, NumberPublished, ReapedIsGone, Bakery,
       Passed, Yields, Before

\* A misread changes what is listed and missed, by tickets.
LEMMA MisreadTyped ==
    ASSUME TypeOK, NEW t \in Ticket, NEW u \in Ticket, Misread(t, u)
    PROVE  TypeOK'
<1>1. todo' = [todo EXCEPT ![t] = todo[t] \ {u}] /\ todo[t] \ {u} \in SUBSET Ticket
  BY DEF Misread, TypeOK
<1>2. todo' \in [Ticket -> SUBSET Ticket]
  BY <1>1 DEF TypeOK
<1>3. missed' = missed \/ missed' = [missed EXCEPT ![t] = missed[t] \cup {u}]
  BY DEF Misread
<1>4. missed[t] \cup {u} \in SUBSET Ticket
  BY DEF TypeOK
<1>5. missed' \in [Ticket -> SUBSET Ticket]
  BY <1>3, <1>4 DEF TypeOK
<1>6. indeterminate' \subseteq Ticket
  BY DEF Misread, TypeOK
<1> QED  BY <1>2, <1>5, <1>6 DEF Misread, TypeOK

\* Whoever missed a number stands by it.
LEMMA MisreadKeeps ==
    ASSUME IInv, NEW t \in Ticket, NEW u \in Ticket, Misread(t, u)
    PROVE IInv'
<1>1. TypeOK'
  BY MisreadTyped DEF IInv
<1>2. TicketPresent' /\ NumberPublished' /\ ReapedIsGone'
  BY DEF Misread, IInv, TicketPresent, NumberPublished, ReapedIsGone
<1>3. /\ \A v \in Ticket : todo'[v] \subseteq todo[v] /\ missed[v] \subseteq missed'[v]
      /\ \A v \in Ticket \ {t} : todo'[v] = todo[v]
      /\ pc' = pc /\ num' = num /\ top' = top /\ outranked' = outranked
      /\ indeterminate \subseteq indeterminate'
  BY DEF Misread, IInv, TypeOK
<1>4. /\ pc[t] = "scan1" => u \in missed'[t]
      /\ pc[t] = "scan2" => t \in indeterminate'
      /\ todo[t] \subseteq todo'[t] \cup {u}
      /\ pc[t] \in {"scan1", "scan2"}
  BY DEF Misread, Scanning, IInv, TypeOK
<1>5. ASSUME NEW v \in Ticket, NEW w \in Ticket, v # w, Passed(v, w)'
      PROVE Yields(w, v)'
  <2>1. Passed(v, w)
    BY <1>3, <1>4, <1>5 DEF Passed
  <2>2. Yields(w, v)
    BY <1>5, <2>1 DEF IInv, Bakery
  <2>3. /\ v \in todo[w] => v \in todo'[w] \/ (w = t /\ v = u)
        /\ v \in missed[w] => v \in missed'[w]
        /\ Before(v, w)' <=> Before(v, w)
    BY <1>3, <1>4 DEF Before
  <2>4. CASE w = t /\ v = u /\ pc[t] = "scan1"
    BY <1>4, <2>4 DEF Yields
  <2>5. CASE w = t /\ v = u /\ pc[t] = "scan2"
    BY <1>3, <2>2, <2>3, <2>5 DEF Yields
  <2>6. CASE ~(w = t /\ v = u)
    BY <1>3, <2>2, <2>3, <2>6 DEF Yields
  <2> QED  BY <1>4, <2>4, <2>5, <2>6
<1> QED BY <1>1, <1>2, <1>5 DEF IInv, Bakery

LEMMA PublishKeeps ==
    ASSUME IInv, NEW t \in Ticket, Publish(t)
    PROVE IInv'
BY SMTT(30) DEF Publish, Scanned, Scanning, IInv, TypeOK, TicketPresent, NumberPublished, ReapedIsGone, Bakery,
       Passed, Yields, Before

LEMMA AcquireKeeps ==
    ASSUME IInv, NEW t \in Ticket, Acquire(t)
    PROVE IInv'
BY SMTT(30) DEF Acquire, Scanned, Scanning, IInv, TypeOK, TicketPresent, NumberPublished, ReapedIsGone, Bakery,
       Passed, Yields, Before

\* An attempt that gives up threatens nobody.
LEMMA GiveUpKeeps ==
    ASSUME IInv, NEW t \in Ticket, NEW how \in {"refused", "timedOut"}, GiveUp(t, how), pc[t] \in Competing
    PROVE IInv'
<1>1. TypeOK'
  BY DEF GiveUp, DropOwn, IInv, TypeOK
<1>2. TicketPresent'
  BY DEF GiveUp, DropOwn, IInv, TypeOK, TicketPresent, ReapedIsGone
<1>3. NumberPublished'
  BY DEF GiveUp, DropOwn, IInv, TypeOK, NumberPublished
<1>4. ReapedIsGone'
  BY DEF GiveUp, DropOwn, IInv, TypeOK, ReapedIsGone
<1>5. ASSUME NEW v \in Ticket, NEW w \in Ticket, v # w, Passed(v, w)'
      PROVE Yields(w, v)'
  <2>1. CASE v = t
    BY <1>5, <2>1 DEF GiveUp, DropOwn, IInv, TypeOK, TicketPresent, NumberPublished, Bakery, Passed, Yields, Before
  <2>2. CASE w = t
    BY <1>5, <2>2 DEF GiveUp, DropOwn, IInv, TypeOK, TicketPresent, NumberPublished, Bakery, Passed, Yields, Before
  <2>3. CASE v # t /\ w # t
    BY <1>5, <2>3 DEF GiveUp, DropOwn, IInv, TypeOK, Bakery, Passed, Yields, Before
  <2> QED BY <2>1, <2>2, <2>3
<1> QED BY <1>1, <1>2, <1>3, <1>4, <1>5 DEF IInv, Bakery

LEMMA PollKeeps ==
    ASSUME IInv, NEW t \in Ticket, Poll(t)
    PROVE IInv'
BY SMTT(30) DEF Poll, Scanned, Scanning, IInv, TypeOK, TicketPresent, NumberPublished, ReapedIsGone, Bakery,
       Passed, Yields, Before

\* A holder that releases threatens nobody.
LEMMA ReleaseKeeps ==
    ASSUME IInv, NEW t \in Ticket, Release(t)
    PROVE IInv'
<1>1. TypeOK'
  BY DEF Release, DropOwn, IInv, TypeOK
<1>2. TicketPresent'
  BY DEF Release, DropOwn, IInv, TypeOK, TicketPresent, ReapedIsGone
<1>3. NumberPublished'
  BY DEF Release, DropOwn, IInv, TypeOK, NumberPublished
<1>4. ReapedIsGone'
  BY DEF Release, DropOwn, IInv, TypeOK, ReapedIsGone
<1>5. ASSUME NEW v \in Ticket, NEW w \in Ticket, v # w, Passed(v, w)'
      PROVE Yields(w, v)'
  <2>1. CASE v = t
    BY <1>5, <2>1 DEF Release, DropOwn, IInv, TypeOK, TicketPresent, NumberPublished, Bakery, Passed, Yields, Before
  <2>2. CASE w = t
    BY <1>5, <2>2 DEF Release, DropOwn, IInv, TypeOK, TicketPresent, NumberPublished, Bakery, Passed, Yields, Before
  <2>3. CASE v # t /\ w # t
    BY <1>5, <2>3 DEF Release, DropOwn, IInv, TypeOK, Bakery, Passed, Yields, Before
  <2> QED BY <2>1, <2>2, <2>3
<1> QED BY <1>1, <1>2, <1>3, <1>4, <1>5 DEF IInv, Bakery

LEMMA DepartKeeps ==
    ASSUME IInv, NEW t \in Ticket, Depart(t)
    PROVE IInv'
BY SMTT(30) DEF Depart, IInv, TypeOK, TicketPresent, NumberPublished, ReapedIsGone, Bakery,
       Passed, Yields, Before

LEMMA ReusePidKeeps ==
    ASSUME IInv, NEW t \in Ticket, ReusePid(t)
    PROVE IInv'
BY SMTT(30) DEF ReusePid, IInv, TypeOK, TicketPresent, NumberPublished, ReapedIsGone, Bakery,
       Passed, Yields, Before

-----------------------------------------------------------------------------
\* The steps put together, action by action.
LEMMA NextKeeps ==
    ASSUME OneZone, IInv, [Next]_vars
    PROVE  IInv'
<1>1. CASE UNCHANGED vars
  BY <1>1 DEF vars, IInv, TypeOK, TicketPresent, NumberPublished, ReapedIsGone,
              Bakery, Passed, Yields, Before
<1>2. ASSUME NEW t \in Ticket, Proceed(t)
      PROVE IInv'
  <2>1. CASE Examine(t)
    BY <2>1, ReapKeeps, FindDeadKeeps, SkipKeeps, WeighKeeps, CompareKeeps, MisreadKeeps DEF Examine
  <2>2. CASE Refuse(t)
    BY <2>2, GiveUpKeeps DEF Refuse
  <2> QED
    BY <1>2, <2>1, <2>2, StampKeeps, ListKeeps, PublishKeeps, AcquireKeeps, PollKeeps
       DEF Proceed
<1>3. ASSUME NEW t \in Ticket, Timeout(t) \/ StorageError(t)
      PROVE IInv'
  BY <1>3, GiveUpKeeps DEF Timeout, StorageError
<1>4. ASSUME NEW t \in Ticket, Create(t) \/ Release(t) \/ Depart(t) \/ ReusePid(t)
      PROVE IInv'
  BY <1>4, CreateKeeps, ReleaseKeeps, DepartKeeps, ReusePidKeeps
<1> QED BY <1>1, <1>2, <1>3, <1>4 DEF Next

\* The inductive invariant holds in every reachable state, for any number of
\* tickets and any combination of faults, unreadable tickets among them.
THEOREM Invariance ==
    ASSUME OneZone
    PROVE  Spec => []IInv
<1>1. Init => IInv
  BY InitInvariant
<1>2. IInv /\ [Next]_vars => IInv'
  BY NextKeeps
<1> QED BY <1>1, <1>2, PTL DEF Spec

\* The state of the protocol is well typed, whatever the time zones.
THEOREM TypeCorrect == Spec => []TypeOK
<1>1. Init => TypeOK
  BY DEF Init, TypeOK
<1>2. TypeOK /\ [Next]_vars => TypeOK'
  <2> SUFFICES ASSUME TypeOK, [Next]_vars
               PROVE  TypeOK'
    OBVIOUS
  <2>1. CASE UNCHANGED vars
    BY <2>1 DEF vars, TypeOK
  <2>2. ASSUME NEW t \in Ticket, Create(t) \/ Stamp(t) \/ List(t)
        PROVE  TypeOK'
    <3>1. CASE Create(t)
      BY <3>1 DEF Create, TypeOK
    <3>2. CASE Stamp(t)
      BY <3>2 DEF Stamp, TypeOK
    <3>3. CASE List(t)
      BY <3>3 DEF List, TypeOK
    <3> QED  BY <2>2, <3>1, <3>2, <3>3
  <2>3. ASSUME NEW t \in Ticket, Publish(t) \/ Acquire(t) \/ Poll(t)
        PROVE  TypeOK'
    <3>1. CASE Publish(t)
      BY <3>1 DEF Publish, TypeOK
    <3>2. CASE Acquire(t) \/ Poll(t)
      BY <3>2 DEF Acquire, Poll, TypeOK
    <3> QED  BY <2>3, <3>1, <3>2
  <2>4. ASSUME NEW t \in Ticket, Examine(t)
        PROVE  TypeOK'
    <3>1. CASE Reap(t)
      BY <3>1 DEF Reap, TypeOK
    <3>2. ASSUME NEW u \in Ticket, FindDead(t, u)
          PROVE  TypeOK'
      BY <3>2 DEF FindDead, TypeOK
    <3>6. ASSUME NEW u \in Ticket, Skip(t, u)
          PROVE  TypeOK'
      BY <3>6 DEF Skip, TypeOK
    <3>3. ASSUME NEW u \in Ticket, Weigh(t, u)
          PROVE  TypeOK'
      BY <3>3 DEF Weigh, TypeOK
    <3>4. ASSUME NEW u \in Ticket, Compare(t, u)
          PROVE  TypeOK'
      BY <3>4 DEF Compare, TypeOK
    <3>5. ASSUME NEW u \in Ticket, Misread(t, u)
          PROVE  TypeOK'
      BY <3>5, MisreadTyped
    <3> QED  BY <2>4, <3>1, <3>2, <3>3, <3>4, <3>5, <3>6 DEF Examine
  <2>5. ASSUME NEW t \in Ticket, Refuse(t) \/ Timeout(t) \/ StorageError(t)
        PROVE  TypeOK'
    <3>1. PICK how \in {"refused", "timedOut"} : GiveUp(t, how)
      BY <2>5 DEF Refuse, Timeout, StorageError
    <3> QED  BY <3>1 DEF GiveUp, DropOwn, TypeOK
  <2>6. ASSUME NEW t \in Ticket, Release(t) \/ Depart(t) \/ ReusePid(t)
        PROVE  TypeOK'
    <3>1. CASE Release(t)
      BY <3>1 DEF Release, DropOwn, TypeOK
    <3>2. CASE Depart(t)
      BY <3>2 DEF Depart, TypeOK
    <3>3. CASE ReusePid(t)
      BY <3>3 DEF ReusePid, TypeOK
    <3> QED  BY <2>6, <3>1, <3>2, <3>3
  <2> QED  BY <2>1, <2>2, <2>3, <2>4, <2>5, <2>6 DEF Next, Proceed
<1> QED BY <1>1, <1>2, PTL DEF Spec

-----------------------------------------------------------------------------
\* Whoever holds the lock is numbered below every other numbered contender that
\* has not missed its number.
LEMMA InvariantGivesOrder == IInv => HolderComesFirst
<1> SUFFICES ASSUME IInv, NEW t \in Holders, NEW u \in Ticket,
                    u # t, pc[u] \in {"numbered", "scan2"}
             PROVE Before(t, u) \/ t \in missed[u]
  BY DEF HolderComesFirst
<1>1. t \in Ticket /\ Passed(t, u)
  BY DEF Holders, Passed
<1>2. Yields(u, t)
  BY <1>1 DEF IInv, Bakery
<1> QED BY <1>2 DEF Yields

\* Whoever holds the lock comes before every other numbered contender that could
\* read its ticket.
THEOREM HolderOrder ==
    ASSUME OneZone
    PROVE  Spec => []HolderComesFirst
BY InvariantGivesOrder, Invariance, PTL

\* Two holders would each be numbered below the other, or one of them has missed
\* the other's number.
LEMMA InvariantShares == IInv => SharedOnlyByMisread
<1> SUFFICES ASSUME IInv, NEW t \in Holders, NEW u \in Holders, t # u,
                    u \notin missed[t], t \notin missed[u]
             PROVE FALSE
  BY DEF SharedOnlyByMisread
<1>1. /\ t \in Ticket /\ u \in Ticket
      /\ pc[t] = "held" /\ pc[u] = "held"
  BY DEF Holders
<1>2. Yields(u, t) /\ Yields(t, u)
  BY <1>1 DEF IInv, Bakery, Passed
<1>3. Before(t, u) /\ Before(u, t)
  BY <1>1, <1>2 DEF Yields
<1> QED BY <1>1, <1>3, BeforeAsymmetric DEF IInv

\* Under every fault, the lock is shared only by an attempt that could not read the
\* other's ticket while it chose its number.
THEOREM SharedByMisreadOnly ==
    ASSUME OneZone
    PROVE  Spec => []SharedOnlyByMisread
BY InvariantShares, Invariance, PTL

\* Where tickets can be read, nothing is missed.
LEMMA ReadableMissesNothing ==
    ASSUME "read" \notin Faults, NothingMissed, [Next]_vars
    PROVE  NothingMissed'
<1>1. ASSUME NEW t \in Ticket, missed' = [missed EXCEPT ![t] = {}]
      PROVE  NothingMissed'
  BY <1>1 DEF NothingMissed
<1>2. CASE missed' = missed
  BY <1>2 DEF NothingMissed
<1>3. missed' = missed \/ \E t \in Ticket : missed' = [missed EXCEPT ![t] = {}]
  BY DEF Next, vars, Proceed, Examine, Create, Stamp, List, Reap, FindDead, Skip, Weigh, Compare, Misread,
         Publish, Acquire, Refuse, Poll, Timeout, StorageError, GiveUp, Release, Depart, ReusePid
<1> QED  BY <1>1, <1>2, <1>3

LEMMA NothingMissedAlways ==
    ASSUME "read" \notin Faults
    PROVE  Spec => []NothingMissed
<1>1. Init => NothingMissed
  BY DEF Init, NothingMissed
<1> QED  BY <1>1, ReadableMissesNothing, PTL DEF Spec

LEMMA InvariantExcludes == IInv /\ NothingMissed => MutualExclusion
BY InvariantShares DEF SharedOnlyByMisread, NothingMissed, MutualExclusion, Holders

\* Two live processes never both hold the lock, provided that tickets that are there
\* can be read; any other file operation may fail.
THEOREM Exclusion ==
    ASSUME OneZone, "read" \notin Faults
    PROVE  Spec => []MutualExclusion
BY InvariantExcludes, Invariance, NothingMissedAlways, PTL

-----------------------------------------------------------------------------
\* An attempt ends without the lock, refused or out of time.
GivesUp(t) == \E how \in {"refused", "timedOut"} : GiveUp(t, how)

\* A step removes a ticket only as its owner's own step, or when the reaper
\* had found the owner dead; the invariant says the owner is dead still.
LEMMA StepKeepsLiveTickets ==
    ASSUME IInv, [Next]_vars, NEW u \in Ticket, u \in present \ present'
    PROVE pc[u] \in Departed \/ pc[u] # pc'[u]
<1>1. present' # present
  OBVIOUS
<1>2. PICK t \in Ticket : Reap(t) \/ Release(t) \/ (GivesUp(t) /\ pc[t] \in Competing)
  BY <1>1 DEF Next, vars, Proceed, Examine, Create, Stamp, List, FindDead, Skip, Weigh,
              Compare, Misread, Publish, Acquire, Refuse, Poll, Timeout, StorageError, GivesUp, Depart, ReusePid
<1>3. CASE Reap(t)
  <2>1. u = reaping[t] /\ reaping[t] # NoTicket
    BY <1>3 DEF Reap
  <2> QED BY <2>1 DEF IInv, ReapedIsGone
<1>4. CASE Release(t)
  BY <1>4 DEF Release, DropOwn, IInv, TypeOK
<1>5. CASE GivesUp(t) /\ pc[t] \in Competing
  BY <1>5 DEF GivesUp, GiveUp, DropOwn, IInv, TypeOK
<1> QED BY <1>2, <1>3, <1>4, <1>5

\* No peer ever removes the ticket of a contender whose process lives.
THEOREM LiveTicketsKept ==
    ASSUME OneZone
    PROVE  Spec => LiveTicketKept
<1>1. IInv /\ [Next]_vars
      => [\A u \in Ticket : u \in present \ present' =>
              \/ pc[u] \in Departed
              \/ pc[u] # pc'[u]]_vars
  BY StepKeepsLiveTickets
<1> QED BY <1>1, Invariance, PTL DEF Spec, LiveTicketKept

-----------------------------------------------------------------------------
\* Every step grants the lock to one attempt, takes it from its holder, or
\* leaves the owners alone.
LEMMA StepImplements ==
    ASSUME IInv, NothingMissed, MutualExclusion', [Next]_vars
    PROVE  [Abstract!Next]_Holders
<1>1. CASE \E t \in Ticket : Acquire(t)
  <2>1. PICK t \in Ticket : Acquire(t)
    BY <1>1
  <2>2. t \in Holders' /\ t \notin Holders /\ Holders' = Holders \cup {t}
    BY <2>1 DEF Acquire, Holders, IInv, TypeOK
  <2>3. \A v, w \in Holders' : v = w
    BY DEF MutualExclusion
  <2>4. Holders = {} /\ Holders' = {t}
    BY <2>2, <2>3
  <2> QED BY <2>4 DEF Abstract!Next, Abstract!Acquire
<1>2. CASE \E t \in Ticket : pc[t] = "held" /\ (Release(t) \/ Depart(t))
  <2>1. PICK t \in Ticket : pc[t] = "held" /\ (Release(t) \/ Depart(t))
    BY <1>2
  <2>2. Holders' = Holders \ {t}
    BY <2>1 DEF Release, Depart, Holders, IInv, TypeOK
  <2>3. Holders = {t}
    BY <2>1, InvariantExcludes DEF Holders, MutualExclusion
  <2> QED BY <2>2, <2>3 DEF Abstract!Next, Abstract!Leave
<1>3. CASE UNCHANGED vars
  BY <1>3 DEF vars, Holders
<1>4. ASSUME NEW t \in Ticket,
             \/ Create(t) \/ Stamp(t) \/ List(t) \/ Examine(t) \/ Publish(t) \/ Poll(t)
             \/ (pc[t] # "held" /\ (GivesUp(t) \/ Depart(t))) \/ ReusePid(t)
      PROVE Holders' = Holders
  <2>1. CASE Create(t) \/ Stamp(t) \/ List(t) \/ Publish(t) \/ Poll(t)
    BY <2>1 DEF Create, Stamp, List, Publish, Poll, Holders, IInv, TypeOK
  <2>2. CASE Examine(t)
    BY <2>2 DEF Examine, Reap, FindDead, Skip, Weigh, Compare, Misread, Holders, IInv, TypeOK
  <2>3. CASE pc[t] # "held" /\ GivesUp(t)
    BY <2>3 DEF GivesUp, GiveUp, Holders, IInv, TypeOK
  <2>4. CASE (pc[t] # "held" /\ Depart(t)) \/ ReusePid(t)
    BY <2>4 DEF Depart, ReusePid, Holders, IInv, TypeOK
  <2> QED  BY <1>4, <2>1, <2>2, <2>3, <2>4
<1>5. ASSUME NEW t \in Ticket, Refuse(t) \/ Timeout(t) \/ StorageError(t)
      PROVE pc[t] # "held" /\ GivesUp(t)
  BY <1>5 DEF GivesUp, Refuse, Timeout, StorageError
<1>6. ASSUME NEW t \in Ticket, Release(t)
      PROVE pc[t] = "held"
  BY <1>6 DEF Release
<1> QED BY <1>1, <1>2, <1>3, <1>4, <1>5, <1>6 DEF Next, Proceed

\* The ticket protocol implements the abstract lock: at most one owner, and
\* ownership only from a grant to the owner's release or death, provided that
\* tickets that are there can be read.
THEOREM Refinement ==
    ASSUME OneZone, "read" \notin Faults
    PROVE  Spec => ImplementsOwnership
<1>1. Init => Abstract!Init
  BY DEF Init, Abstract!Init, Holders
<1>2. IInv /\ NothingMissed /\ MutualExclusion' /\ [Next]_vars => [Abstract!Next]_Holders
  BY StepImplements
<1> QED BY <1>1, <1>2, Invariance, NothingMissedAlways, Exclusion, PTL
        DEF Spec, ImplementsOwnership, Abstract!Spec
-----------------------------------------------------------------------------
\* Why a contender was refused, where contenders wait and files can be read: it was
\* numbered, and so was another that comes before it. Numbers are never taken back.
Beaten(t) == num[t] > 0 /\ \E u \in Ticket : num[u] > 0 /\ Before(u, t)
RefusedIsBeaten == \A t \in Ticket :
    /\ t \in outranked => pc[t] \in {"numbered", "scan2"} /\ Beaten(t)
    /\ pc[t] = "refused" => Beaten(t)

\* Whoever has a number keeps it.
LEMMA NumbersStay ==
    ASSUME IInv, [Next]_vars, NEW t \in Ticket, Beaten(t)
    PROVE  Beaten(t)'
<1>1. PICK u \in Ticket : num[t] > 0 /\ num[u] > 0 /\ Before(u, t)
  BY DEF Beaten
<1>2. \A v \in Ticket : num[v] > 0 => num'[v] = num[v]
  BY DEF Next, vars, Proceed, Examine, Create, Stamp, List, Reap, FindDead, Skip, Weigh, Compare, Misread, Publish,
         Scanned, Scanning, Acquire, Refuse, Poll, Timeout, StorageError, GiveUp, Release, Depart, ReusePid,
         IInv, TypeOK, NumberPublished
<1> QED  BY <1>1, <1>2 DEF Beaten, Before

\* A lower ticket is met by comparison alone, and without "io" only it is a reason to refuse.
LEMMA RefusalsKeep ==
    ASSUME Waits, "io" \notin Faults, IInv, RefusedIsBeaten, [Next]_vars
    PROVE  RefusedIsBeaten'
<1>1. \A t \in Ticket : Beaten(t) => Beaten(t)'
  BY NumbersStay
<1>2. ASSUME NEW t \in Ticket, t \in outranked', t \notin outranked
      PROVE  pc'[t] \in {"numbered", "scan2"} /\ Beaten(t)'
  <2>1. PICK u \in Ticket : Compare(t, u) /\ num[u] # 0 /\ Before(u, t)
    BY <1>2 DEF Next, vars, Proceed, Examine, Create, Stamp, List, Reap, FindDead, Skip, Weigh, Compare, Misread, Publish,
                Acquire, Refuse, Poll, Timeout, StorageError, GiveUp, Release, Depart, ReusePid
  <2>2. pc[t] = "scan2" /\ pc' = pc
    BY <2>1 DEF Compare
  <2>3. Beaten(t)
    BY <2>1, <2>2 DEF Beaten, IInv, TypeOK, NumberPublished
  <2> QED  BY <1>1, <2>2, <2>3
<1>3. ASSUME NEW t \in Ticket, t \in outranked', t \in outranked
      PROVE  pc'[t] \in {"numbered", "scan2"} /\ Beaten(t)'
  <2>1. pc[t] \in {"numbered", "scan2"} /\ Beaten(t)
    BY <1>3 DEF RefusedIsBeaten
  <2>2. pc'[t] \in {"numbered", "scan2"}
    BY <1>3, <2>1 DEF Next, vars, Proceed, Examine, Create, Stamp, List, Reap, FindDead, Skip, Weigh, Compare, Misread,
                Publish, Acquire, Refuse, Poll, Timeout, StorageError, GiveUp, Release, Depart, ReusePid, IInv, TypeOK
  <2> QED  BY <1>1, <2>1, <2>2
<1>4. ASSUME NEW t \in Ticket, pc'[t] = "refused"
      PROVE  Beaten(t)'
  <2>1. CASE pc[t] = "refused"
    BY <1>1, <2>1 DEF RefusedIsBeaten
  <2>2. CASE pc[t] # "refused"
    <3>1. Refuse(t)
      BY <1>4, <2>2 DEF Next, vars, Proceed, Examine, Create, Stamp, List, Reap, FindDead, Skip, Weigh, Compare, Misread,
                Publish, Acquire, Refuse, Poll, Timeout, StorageError, GiveUp, Release, Depart, ReusePid, IInv, TypeOK
    <3>2. t \in outranked
      BY <3>1 DEF Refuse
    <3> QED  BY <1>1, <3>2 DEF RefusedIsBeaten
  <2> QED  BY <2>1, <2>2
<1> QED  BY <1>2, <1>3, <1>4 DEF RefusedIsBeaten

\* A set of numbers has a first one.
LEMMA FirstNumber ==
    ASSUME NEW T, T \subseteq Nat, T # {}
    PROVE  \E m \in T : \A n \in T : m <= n
<1>1. PICK m \in T : \A n \in T : ~ (<<n, m>> \in OpToRel(<, Nat))
  BY NatLessThanWellFounded, WFMin
<1>2. ASSUME NEW n \in T, n < m
      PROVE  FALSE
  <2>1. <<n, m>> \in Nat \X Nat /\ <<n, m>>[1] < <<n, m>>[2]
    BY <1>2
  <2>2. <<n, m>> \in OpToRel(<, Nat)
    BY <2>1 DEF OpToRel
  <2> QED  BY <1>1, <2>2
<1> QED  BY <1>2

\* Of numbered contenders one comes before all others.
LEMMA OneIsFirst ==
    ASSUME TypeOK, Ticket # {}
    PROVE  \E t \in Ticket : \A u \in Ticket : ~Before(u, t)
<1> DEFINE numbers == {num[t] : t \in Ticket}
<1>1. PICK n \in numbers : \A m \in numbers : n <= m
  <2>1. numbers \subseteq Nat
    BY DEF TypeOK
  <2>2. numbers # {}
    <3>1. PICK t \in Ticket : TRUE
      OBVIOUS
    <3>2. num[t] \in numbers
      BY <3>1
    <3> QED  BY <3>2
  <2> HIDE DEF numbers
  <2> QED  BY <2>1, <2>2, FirstNumber
<1> DEFINE lowest == {t \in Ticket : num[t] = n}
<1>2. PICK t \in lowest : \A u \in lowest : t <= u
  <2>1. lowest \subseteq Nat /\ lowest # {}
    BY <1>1
  <2> HIDE DEF lowest
  <2> QED  BY <2>1, FirstNumber
<1>3. ASSUME NEW u \in Ticket, Before(u, t)
      PROVE  FALSE
  <2>1. num[u] \in Nat /\ num[t] = n /\ n <= num[u]
    BY <1>1, <1>2 DEF TypeOK
  <2>2. num[u] = n /\ u < t
    BY <1>1, <1>3, <2>1 DEF Before, TypeOK
  <2>3. u \in lowest /\ u \in Nat /\ t \in Nat
    BY <1>2, <2>2
  <2> QED  BY <1>2, <2>2, <2>3
<1> QED  BY <1>2, <1>3

\* Where contenders wait for each other's number, whatever crashes and reused pids there
\* were and however many contended: when every attempt has been refused or has released,
\* one of them was granted the lock. A refusal names a lower ticket, and the lowest has none.
THEOREM SomebodyIsElected ==
    ASSUME OneZone, Waits, "io" \notin Faults, Ticket # {}
    PROVE  Spec => []ElectionNotEmpty
<1>1. Init => RefusedIsBeaten
  BY DEF Init, RefusedIsBeaten
<1>2. IInv /\ RefusedIsBeaten /\ [Next]_vars => RefusedIsBeaten'
  BY RefusalsKeep
<1>3. IInv /\ RefusedIsBeaten => ElectionNotEmpty
  <2> SUFFICES ASSUME IInv, RefusedIsBeaten, Quiet, \A t \in Ticket : pc[t] # "released"
               PROVE  FALSE
    BY DEF ElectionNotEmpty
  <2>1. PICK t \in Ticket : \A u \in Ticket : ~Before(u, t)
    BY OneIsFirst DEF IInv
  <2>2. Beaten(t)
    BY DEF Quiet, RefusedIsBeaten
  <2> QED  BY <2>1, <2>2 DEF Beaten
<1> QED  BY <1>1, <1>2, <1>3, Invariance, PTL DEF Spec
=============================================================================
