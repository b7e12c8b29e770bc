-------------------------- MODULE ConfigStoreProofs --------------------------
(***************************************************************************)
(* Proofs about ConfigStore for every set of processes, every number of    *)
(* read rounds, documents and crashes, with I/O faults and with outside    *)
(* deletes: acknowledged edits are kept, only the migration creates the    *)
(* document, and readers report what was true at some moment of the read.  *)
(***************************************************************************)
EXTENDS ConfigStore, TLAPS

USE RoundsAssumption, BoundsAssumption, FaultAssumption
USE DEF Doc, Absent, Entry, Jobs, Publishing, Reading, Locked, Places, Outcomes,
        entries, store, local, env, Current, Holds, Goto, Files, Witness

\* Nothing is published, read or held initially.
LEMMA InitInvariant == Init => IInv
<1> SUFFICES ASSUME Init PROVE IInv
  OBVIOUS
<1>1. TypeOK
  <2>1. target \in Entry /\ prev \in Entry /\ made \in 0 .. MaxDoc /\ crashes \in 0 .. MaxCrash
    BY DEF Init
  <2>2. edits \in [Doc -> SUBSET Doc] /\ acked \subseteq Doc /\ owners \subseteq Proc
    BY DEF Init
  <2>3. pc \in [Proc -> Places] /\ job \in [Proc -> Jobs \cup {"none"}] /\ out \in [Proc -> Outcomes]
    BY DEF Init
  <2>4. round \in [Proc -> 0 .. Rounds]
    BY DEF Init
  <2>5. seen \in [Proc -> Entry] /\ tmp \in [Proc -> Entry] /\ window \in [Proc -> SUBSET Entry]
    BY DEF Init
  <2> QED BY <2>1, <2>2, <2>3, <2>4, <2>5 DEF Init, TypeOK
<1>2. OneOwner /\ Numbered /\ AckedKept
  BY DEF Init, OneOwner, Numbered, AckedKept
<1>3. ASSUME NEW p \in Proc PROVE ProcInv(p)
  BY DEF Init, ProcInv, LockHeld, OnPath, Bounded, TmpMade, AtPlace, BaseIsCurrent, WindowHolds
<1> QED BY <1>1, <1>2, <1>3 DEF IInv

-----------------------------------------------------------------------------
\* What a step of another process may do to q.

\* The part of the state that belongs to q is left alone.
Untouched(q) ==
    /\ pc'[q] = pc[q] /\ job'[q] = job[q] /\ seen'[q] = seen[q]
    /\ tmp'[q] = tmp[q] /\ out'[q] = out[q]
    /\ Holds(q)' <=> Holds(q)

\* A step that moves no file leaves every other process where it was.
LEMMA QuietStep ==
    ASSUME IInv, NEW q \in Proc, Untouched(q),
           UNCHANGED <<target, prev, store, deleted>>, window'[q] = window[q]
    PROVE ProcInv(q)'
BY DEF IInv, ProcInv, Untouched, LockHeld, OnPath, Bounded, TmpMade, AtPlace,
       BaseIsCurrent, WindowHolds

\* A step of the lock holder finds every other process outside the lock, where
\* only its window depends on the files.
LEMMA HolderStep ==
    ASSUME IInv, TypeOK', NEW p \in Proc, NEW q \in Proc, p # q, Holds(p), Untouched(q),
           made' >= made,
           prev' \in {Absent, prev, target},
           pc[q] \notin {"idle", "done"} => window'[q] = window[q] \cup {Current'},
           pc[q] \in {"idle", "done"} => window'[q] = window[q]
    PROVE ProcInv(q)'
<1> USE DEF IInv, Untouched
<1>1. ~Holds(q)
  OBVIOUS
<1>2. pc[q] \notin Locked /\ ~(job[q] = "update" /\ pc[q] \in Reading)
  BY <1>1 DEF ProcInv, LockHeld
<1>3. (LockHeld(q) /\ OnPath(q) /\ TmpMade(q) /\ BaseIsCurrent(q))'
  BY <1>1, <1>2 DEF ProcInv, LockHeld, OnPath, TmpMade, BaseIsCurrent
<1>4. Bounded(q)'
  <2>1. seen[q] <= made /\ tmp[q] <= made
    BY DEF ProcInv, Bounded
  <2>2. made \in 0 .. MaxDoc /\ made' \in 0 .. MaxDoc
    BY DEF TypeOK
  <2>0. seen[q] \in Entry /\ tmp[q] \in Entry
    BY DEF TypeOK
  <2>3. seen[q] <= made' /\ tmp[q] <= made'
    BY <2>0, <2>1, <2>2
  <2> QED BY <1>2, <2>3 DEF Bounded
<1>5. AtPlace(q)'
  BY <1>1, <1>2 DEF AtPlace
<1>6. WindowHolds(q)'
  BY <1>2 DEF ProcInv, WindowHolds, TypeOK
<1> QED BY <1>3, <1>4, <1>5, <1>6 DEF ProcInv

-----------------------------------------------------------------------------
\* One lemma per action: the step keeps the invariant.

LEMMA BeginKeeps ==
    ASSUME IInv, NEW p \in Proc, NEW j \in Jobs, Begin(p, j)
    PROVE IInv'
<1> USE DEF Begin, Entrance
<1>0. ProcInv(p) /\ TypeOK /\ OneOwner /\ Numbered /\ AckedKept
  BY DEF IInv
<1>1. TypeOK'
  BY <1>0 DEF TypeOK
<1>2. OneOwner' /\ Numbered'
  BY <1>0 DEF OneOwner, Numbered, TypeOK, ProcInv, Bounded
<1>3. AckedKept'
  BY <1>0 DEF AckedKept, TypeOK, Numbered, ProcInv, OnPath, Bounded, TmpMade, AtPlace, BaseIsCurrent
<1>4. ProcInv(p)'
  <2>1. (LockHeld(p) /\ OnPath(p))'
    BY <1>0 DEF TypeOK, ProcInv, LockHeld, OnPath
  <2>2. Bounded(p)'
    BY <1>0 DEF TypeOK, ProcInv, OnPath, Bounded, Numbered
  <2>3. TmpMade(p)'
    BY <1>0 DEF TypeOK, ProcInv, OnPath, Bounded, TmpMade
  <2>4. AtPlace(p)'
    BY <1>0 DEF TypeOK, ProcInv, LockHeld, OnPath, AtPlace
  <2>5. BaseIsCurrent(p)'
    BY <1>0 DEF TypeOK, ProcInv, OnPath, AtPlace, BaseIsCurrent
  <2>6. WindowHolds(p)'
    BY <1>0 DEF TypeOK, ProcInv, LockHeld, OnPath, AtPlace, WindowHolds
  <2> QED BY <2>1, <2>2, <2>3, <2>4, <2>5, <2>6 DEF ProcInv
<1>5. ASSUME NEW q \in Proc, q # p PROVE ProcInv(q)'
  BY <1>0, <1>5, QuietStep DEF Untouched, TypeOK
<1> QED BY <1>1, <1>2, <1>3, <1>4, <1>5 DEF IInv

LEMMA CheckTargetKeeps ==
    ASSUME IInv, NEW p \in Proc, CheckTarget(p)
    PROVE IInv'
<1> USE DEF CheckTarget, End
<1>0. ProcInv(p) /\ TypeOK /\ OneOwner /\ Numbered /\ AckedKept
  BY DEF IInv
<1>1. TypeOK'
  BY <1>0 DEF TypeOK
<1>2. OneOwner' /\ Numbered'
  BY <1>0 DEF OneOwner, Numbered, TypeOK, ProcInv, Bounded
<1>3. AckedKept'
  BY <1>0 DEF AckedKept, TypeOK, Numbered, ProcInv, OnPath, Bounded, TmpMade, AtPlace, BaseIsCurrent
<1>4. ProcInv(p)'
  <2>1. (LockHeld(p) /\ OnPath(p))'
    BY <1>0 DEF TypeOK, ProcInv, LockHeld, OnPath
  <2>2. Bounded(p)'
    BY <1>0 DEF TypeOK, ProcInv, OnPath, Bounded, Numbered
  <2>3. TmpMade(p)'
    BY <1>0 DEF TypeOK, ProcInv, OnPath, Bounded, TmpMade
  <2>4. AtPlace(p)'
    BY <1>0 DEF TypeOK, ProcInv, LockHeld, OnPath, AtPlace
  <2>5. BaseIsCurrent(p)'
    BY <1>0 DEF TypeOK, ProcInv, OnPath, AtPlace, BaseIsCurrent
  <2>6. WindowHolds(p)'
    BY <1>0 DEF TypeOK, ProcInv, LockHeld, OnPath, AtPlace, WindowHolds
  <2> QED BY <2>1, <2>2, <2>3, <2>4, <2>5, <2>6 DEF ProcInv
<1>5. ASSUME NEW q \in Proc, q # p PROVE ProcInv(q)'
  BY <1>0, <1>5, QuietStep DEF Untouched, TypeOK
<1> QED BY <1>1, <1>2, <1>3, <1>4, <1>5 DEF IInv

LEMMA CheckPrevKeeps ==
    ASSUME IInv, NEW p \in Proc, CheckPrev(p)
    PROVE IInv'
<1> USE DEF CheckPrev, End
<1>0. ProcInv(p) /\ TypeOK /\ OneOwner /\ Numbered /\ AckedKept
  BY DEF IInv
<1>1. TypeOK'
  BY <1>0 DEF TypeOK
<1>2. OneOwner' /\ Numbered'
  BY <1>0 DEF OneOwner, Numbered, TypeOK, ProcInv, Bounded
<1>3. AckedKept'
  BY <1>0 DEF AckedKept, TypeOK, Numbered, ProcInv, OnPath, Bounded, TmpMade, AtPlace, BaseIsCurrent
<1>4. ProcInv(p)'
  <2>1. (LockHeld(p) /\ OnPath(p))'
    <3>1. LockHeld(p)'
      BY <1>0 DEF TypeOK, ProcInv, LockHeld, OnPath
    <3>2. OnPath(p)'
      BY <1>0 DEF TypeOK, ProcInv, OnPath
    <3> QED BY <3>1, <3>2
  <2>2. Bounded(p)'
    BY <1>0 DEF TypeOK, ProcInv, OnPath, Bounded, Numbered
  <2>3. TmpMade(p)'
    BY <1>0 DEF TypeOK, ProcInv, OnPath, Bounded, TmpMade
  <2>4. AtPlace(p)'
    BY <1>0 DEF TypeOK, ProcInv, LockHeld, OnPath, AtPlace
  <2>5. BaseIsCurrent(p)'
    BY <1>0 DEF TypeOK, ProcInv, OnPath, AtPlace, BaseIsCurrent
  <2>6. WindowHolds(p)'
    BY <1>0 DEF TypeOK, ProcInv, LockHeld, OnPath, AtPlace, WindowHolds
  <2> QED BY <2>1, <2>2, <2>3, <2>4, <2>5, <2>6 DEF ProcInv
<1>5. ASSUME NEW q \in Proc, q # p PROVE ProcInv(q)'
  BY <1>0, <1>5, QuietStep DEF Untouched, TypeOK
<1> QED BY <1>1, <1>2, <1>3, <1>4, <1>5 DEF IInv

LEMMA GrabKeeps ==
    ASSUME IInv, NEW p \in Proc, Grab(p)
    PROVE IInv'
<1> USE DEF Grab, Lock!Acquire
<1>0. ProcInv(p) /\ TypeOK /\ OneOwner /\ Numbered /\ AckedKept
  BY DEF IInv
<1>1. TypeOK'
  BY <1>0 DEF TypeOK
<1>2. OneOwner' /\ Numbered'
  BY <1>0 DEF OneOwner, Numbered, TypeOK, ProcInv, Bounded
<1>3. AckedKept'
  BY <1>0 DEF AckedKept, TypeOK, Numbered, ProcInv, OnPath, Bounded, TmpMade, AtPlace, BaseIsCurrent
<1>4. ProcInv(p)'
  <2>1. (LockHeld(p) /\ OnPath(p))'
    <3>1. LockHeld(p)'
      BY <1>0 DEF TypeOK, ProcInv, LockHeld, OnPath
    <3>2. OnPath(p)'
      BY <1>0 DEF TypeOK, ProcInv, OnPath
    <3> QED BY <3>1, <3>2
  <2>2. Bounded(p)'
    BY <1>0 DEF TypeOK, ProcInv, OnPath, Bounded, Numbered
  <2>3. TmpMade(p)'
    BY <1>0 DEF TypeOK, ProcInv, OnPath, Bounded, TmpMade
  <2>4. AtPlace(p)'
    BY <1>0 DEF TypeOK, ProcInv, LockHeld, OnPath, AtPlace
  <2>5. BaseIsCurrent(p)'
    BY <1>0 DEF TypeOK, ProcInv, OnPath, AtPlace, BaseIsCurrent
  <2>6. WindowHolds(p)'
    BY <1>0 DEF TypeOK, ProcInv, LockHeld, OnPath, AtPlace, WindowHolds
  <2> QED BY <2>1, <2>2, <2>3, <2>4, <2>5, <2>6 DEF ProcInv
<1>5. ASSUME NEW q \in Proc, q # p PROVE ProcInv(q)'
  BY <1>0, <1>5, QuietStep DEF Untouched, TypeOK
<1> QED BY <1>1, <1>2, <1>3, <1>4, <1>5 DEF IInv

LEMMA BusyKeeps ==
    ASSUME IInv, NEW p \in Proc, Busy(p)
    PROVE IInv'
<1> USE DEF Busy, End
<1>0. ProcInv(p) /\ TypeOK /\ OneOwner /\ Numbered /\ AckedKept
  BY DEF IInv
<1>1. TypeOK'
  BY <1>0 DEF TypeOK
<1>2. OneOwner' /\ Numbered'
  BY <1>0 DEF OneOwner, Numbered, TypeOK, ProcInv, Bounded
<1>3. AckedKept'
  BY <1>0 DEF AckedKept, TypeOK, Numbered, ProcInv, OnPath, Bounded, TmpMade, AtPlace, BaseIsCurrent
<1>4. ProcInv(p)'
  <2>1. (LockHeld(p) /\ OnPath(p))'
    BY <1>0 DEF TypeOK, ProcInv, LockHeld, OnPath
  <2>2. Bounded(p)'
    BY <1>0 DEF TypeOK, ProcInv, OnPath, Bounded, Numbered
  <2>3. TmpMade(p)'
    BY <1>0 DEF TypeOK, ProcInv, OnPath, Bounded, TmpMade
  <2>4. AtPlace(p)'
    BY <1>0 DEF TypeOK, ProcInv, LockHeld, OnPath, AtPlace
  <2>5. BaseIsCurrent(p)'
    BY <1>0 DEF TypeOK, ProcInv, OnPath, AtPlace, BaseIsCurrent
  <2>6. WindowHolds(p)'
    BY <1>0 DEF TypeOK, ProcInv, LockHeld, OnPath, AtPlace, WindowHolds
  <2> QED BY <2>1, <2>2, <2>3, <2>4, <2>5, <2>6 DEF ProcInv
<1>5. ASSUME NEW q \in Proc, q # p PROVE ProcInv(q)'
  BY <1>0, <1>5, QuietStep DEF Untouched, TypeOK
<1> QED BY <1>1, <1>2, <1>3, <1>4, <1>5 DEF IInv

LEMMA UnlockKeeps ==
    ASSUME IInv, NEW p \in Proc, Unlock(p)
    PROVE IInv'
<1> USE DEF Unlock, Lock!Leave
<1>0. ProcInv(p) /\ TypeOK /\ OneOwner /\ Numbered /\ AckedKept
  BY DEF IInv
<1>1. TypeOK'
  BY <1>0 DEF TypeOK
<1>2. OneOwner' /\ Numbered'
  BY <1>0 DEF OneOwner, Numbered, TypeOK, ProcInv, Bounded
<1>3. AckedKept'
  BY <1>0 DEF AckedKept, TypeOK, Numbered, ProcInv, OnPath, Bounded, TmpMade, AtPlace, BaseIsCurrent
<1>4. ProcInv(p)'
  <2>1. (LockHeld(p) /\ OnPath(p))'
    BY <1>0 DEF TypeOK, ProcInv, LockHeld, OnPath
  <2>2. Bounded(p)'
    BY <1>0 DEF TypeOK, ProcInv, OnPath, Bounded, Numbered
  <2>3. TmpMade(p)'
    BY <1>0 DEF TypeOK, ProcInv, OnPath, Bounded, TmpMade
  <2>4. AtPlace(p)'
    BY <1>0 DEF TypeOK, ProcInv, LockHeld, OnPath, AtPlace
  <2>5. BaseIsCurrent(p)'
    BY <1>0 DEF TypeOK, ProcInv, OnPath, AtPlace, BaseIsCurrent
  <2>6. WindowHolds(p)'
    BY <1>0 DEF TypeOK, ProcInv, LockHeld, OnPath, AtPlace, WindowHolds
  <2> QED BY <2>1, <2>2, <2>3, <2>4, <2>5, <2>6 DEF ProcInv
<1>5. ASSUME NEW q \in Proc, q # p PROVE ProcInv(q)'
  BY <1>0, <1>5, QuietStep DEF Untouched, TypeOK
<1> QED BY <1>1, <1>2, <1>3, <1>4, <1>5 DEF IInv

LEMMA FinishKeeps ==
    ASSUME IInv, NEW p \in Proc, Finish(p)
    PROVE IInv'
<1> USE DEF Finish
<1>0. ProcInv(p) /\ TypeOK /\ OneOwner /\ Numbered /\ AckedKept
  BY DEF IInv
<1>1. TypeOK'
  BY <1>0 DEF TypeOK
<1>2. OneOwner' /\ Numbered'
  BY <1>0 DEF OneOwner, Numbered, TypeOK, ProcInv, Bounded
<1>3. AckedKept'
  BY <1>0 DEF AckedKept, TypeOK, Numbered, ProcInv, OnPath, Bounded, TmpMade, AtPlace, BaseIsCurrent
<1>4. ProcInv(p)'
  <2>1. (LockHeld(p) /\ OnPath(p))'
    BY <1>0 DEF TypeOK, ProcInv, LockHeld, OnPath
  <2>2. Bounded(p)'
    BY <1>0 DEF TypeOK, ProcInv, OnPath, Bounded, Numbered
  <2>3. TmpMade(p)'
    BY <1>0 DEF TypeOK, ProcInv, OnPath, Bounded, TmpMade
  <2>4. AtPlace(p)'
    BY <1>0 DEF TypeOK, ProcInv, LockHeld, OnPath, AtPlace
  <2>5. BaseIsCurrent(p)'
    BY <1>0 DEF TypeOK, ProcInv, OnPath, AtPlace, BaseIsCurrent
  <2>6. WindowHolds(p)'
    BY <1>0 DEF TypeOK, ProcInv, LockHeld, OnPath, AtPlace, WindowHolds
  <2> QED BY <2>1, <2>2, <2>3, <2>4, <2>5, <2>6 DEF ProcInv
<1>5. ASSUME NEW q \in Proc, q # p PROVE ProcInv(q)'
  BY <1>0, <1>5, QuietStep DEF Untouched, TypeOK
<1> QED BY <1>1, <1>2, <1>3, <1>4, <1>5 DEF IInv

LEMMA ReadTargetKeeps ==
    ASSUME IInv, NEW p \in Proc, ReadTarget(p)
    PROVE IInv'
<1> USE DEF ReadTarget, Found, End
<1>0. ProcInv(p) /\ TypeOK /\ OneOwner /\ Numbered /\ AckedKept
  BY DEF IInv
<1>1. TypeOK'
  <2>1. /\ target' \in Entry /\ prev' \in Entry /\ made' \in 0 .. MaxDoc /\ acked' \subseteq Doc
        /\ edits' \in [Doc -> SUBSET Doc] /\ seen' \in [Proc -> Entry] /\ tmp' \in [Proc -> Entry]
        /\ owners' \subseteq Proc /\ job' \in [Proc -> Jobs \cup {"none"}]
        /\ round' \in [Proc -> 0 .. Rounds] /\ crashes' \in 0 .. MaxCrash /\ deleted' \in BOOLEAN
    <3>1. seen' = seen \/ seen' = [seen EXCEPT ![p] = target]
      OBVIOUS
    <3>2. seen' \in [Proc -> Entry]
      BY <1>0, <3>1 DEF TypeOK
    <3> QED BY <1>0, <3>2 DEF TypeOK
  <2>2. \E place \in Places : pc' = [pc EXCEPT ![p] = place]
    OBVIOUS
  <2>3. out' \in [Proc -> Outcomes]
    BY <1>0 DEF TypeOK
  <2>4. window' \in [Proc -> SUBSET Entry]
    BY <1>0, <2>1 DEF TypeOK
  <2>5. pc' \in [Proc -> Places]
    BY <1>0, <2>2 DEF TypeOK
  <2> QED BY <2>1, <2>3, <2>4, <2>5 DEF TypeOK
<1>2. OneOwner' /\ Numbered'
  BY <1>0 DEF OneOwner, Numbered, TypeOK, ProcInv, Bounded
<1>3. AckedKept'
  BY <1>0 DEF AckedKept, TypeOK, Numbered, ProcInv, OnPath, Bounded, TmpMade, AtPlace, BaseIsCurrent
<1>4. ProcInv(p)'
  <2>1. (LockHeld(p) /\ OnPath(p))'
    BY <1>0 DEF TypeOK, ProcInv, LockHeld, OnPath
  <2>2. Bounded(p)'
    BY <1>0 DEF TypeOK, ProcInv, OnPath, Bounded, Numbered
  <2>3. TmpMade(p)'
    BY <1>0 DEF TypeOK, ProcInv, OnPath, Bounded, TmpMade
  <2>4. AtPlace(p)'
    BY <1>0 DEF TypeOK, ProcInv, LockHeld, OnPath, AtPlace
  <2>5. BaseIsCurrent(p)'
    BY <1>0 DEF TypeOK, ProcInv, OnPath, AtPlace, BaseIsCurrent
  <2>6. WindowHolds(p)'
    BY <1>0 DEF TypeOK, ProcInv, LockHeld, OnPath, AtPlace, WindowHolds
  <2> QED BY <2>1, <2>2, <2>3, <2>4, <2>5, <2>6 DEF ProcInv
<1>5. ASSUME NEW q \in Proc, q # p PROVE ProcInv(q)'
  BY <1>0, <1>5, QuietStep DEF Untouched, TypeOK
<1> QED BY <1>1, <1>2, <1>3, <1>4, <1>5 DEF IInv

LEMMA ReadPrevKeeps ==
    ASSUME IInv, NEW p \in Proc, ReadPrev(p)
    PROVE IInv'
<1> USE DEF ReadPrev, Found, Exhausted, End
<1>0. ProcInv(p) /\ TypeOK /\ OneOwner /\ Numbered /\ AckedKept
  BY DEF IInv
<1>1. TypeOK'
  <2>1. /\ target' \in Entry /\ prev' \in Entry /\ made' \in 0 .. MaxDoc /\ acked' \subseteq Doc
        /\ edits' \in [Doc -> SUBSET Doc] /\ seen' \in [Proc -> Entry] /\ tmp' \in [Proc -> Entry]
        /\ owners' \subseteq Proc /\ job' \in [Proc -> Jobs \cup {"none"}]
        /\ round' \in [Proc -> 0 .. Rounds] /\ crashes' \in 0 .. MaxCrash /\ deleted' \in BOOLEAN
    <3>1. round' \in [Proc -> 0 .. Rounds]
      <4>1. \/ round' = round
            \/ round[p] < Rounds /\ round' = [round EXCEPT ![p] = round[p] + 1]
        OBVIOUS
      <4>2. round[p] < Rounds => round[p] + 1 \in 0 .. Rounds
        BY <1>0 DEF TypeOK
      <4>3. CASE round' = round
        BY <1>0, <4>3 DEF TypeOK
      <4>4. CASE round[p] < Rounds /\ round' = [round EXCEPT ![p] = round[p] + 1]
        BY <1>0, <4>2, <4>4 DEF TypeOK
      <4> QED BY <4>1, <4>3, <4>4
    <3>2. seen' = seen \/ seen' = [seen EXCEPT ![p] = prev]
      OBVIOUS
    <3>3. seen' \in [Proc -> Entry]
      BY <1>0, <3>2 DEF TypeOK
    <3> QED BY <1>0, <3>1, <3>3 DEF TypeOK
  <2>2. \E place \in Places : pc' = [pc EXCEPT ![p] = place]
    OBVIOUS
  <2>3. out' \in [Proc -> Outcomes]
    BY <1>0 DEF TypeOK
  <2>4. window' \in [Proc -> SUBSET Entry]
    BY <1>0, <2>1 DEF TypeOK
  <2>5. pc' \in [Proc -> Places]
    BY <1>0, <2>2 DEF TypeOK
  <2> QED BY <2>1, <2>3, <2>4, <2>5 DEF TypeOK
<1>2. OneOwner' /\ Numbered'
  BY <1>0 DEF OneOwner, Numbered, TypeOK, ProcInv, Bounded
<1>3. AckedKept'
  BY <1>0 DEF AckedKept, TypeOK, Numbered, ProcInv, OnPath, Bounded, TmpMade, AtPlace, BaseIsCurrent
<1>4. ProcInv(p)'
  <2>1. (LockHeld(p) /\ OnPath(p))'
    BY <1>0 DEF TypeOK, ProcInv, LockHeld, OnPath
  <2>2. Bounded(p)'
    BY <1>0 DEF TypeOK, ProcInv, OnPath, Bounded, Numbered
  <2>3. TmpMade(p)'
    BY <1>0 DEF TypeOK, ProcInv, OnPath, Bounded, TmpMade
  <2>4. AtPlace(p)'
    BY <1>0 DEF TypeOK, ProcInv, LockHeld, OnPath, AtPlace
  <2>5. BaseIsCurrent(p)'
    <3>1. CASE pc'[p] = "write"
      <4>1. job[p] = "update" => target = Absent /\ seen[p] = Absent
        BY <1>0 DEF ProcInv, LockHeld, OnPath, AtPlace
      <4>2. seen'[p] = prev
        BY <1>0, <3>1, <4>1 DEF TypeOK, ProcInv, OnPath
      <4> QED BY <1>0, <4>1, <4>2 DEF BaseIsCurrent
    <3>2. CASE pc'[p] # "write"
      BY <1>0, <3>2 DEF TypeOK, BaseIsCurrent
    <3> QED BY <3>1, <3>2
  <2>6. WindowHolds(p)'
    BY <1>0 DEF TypeOK, ProcInv, LockHeld, OnPath, AtPlace, WindowHolds
  <2> QED BY <2>1, <2>2, <2>3, <2>4, <2>5, <2>6 DEF ProcInv
<1>5. ASSUME NEW q \in Proc, q # p PROVE ProcInv(q)'
  BY <1>0, <1>5, QuietStep DEF Untouched, TypeOK
<1> QED BY <1>1, <1>2, <1>3, <1>4, <1>5 DEF IInv

LEMMA WriteTmpKeeps ==
    ASSUME IInv, NEW p \in Proc, WriteTmp(p)
    PROVE IInv'
<1> USE DEF WriteTmp, Fails, End
<1>0. ProcInv(p) /\ TypeOK /\ OneOwner /\ Numbered /\ AckedKept
  BY DEF IInv
<1>1. TypeOK'
  <2>1. /\ target' \in Entry /\ prev' \in Entry /\ made' \in 0 .. MaxDoc /\ acked' \subseteq Doc
        /\ edits' \in [Doc -> SUBSET Doc] /\ seen' \in [Proc -> Entry] /\ tmp' \in [Proc -> Entry]
        /\ owners' \subseteq Proc /\ job' \in [Proc -> Jobs \cup {"none"}]
        /\ round' \in [Proc -> 0 .. Rounds] /\ crashes' \in 0 .. MaxCrash /\ deleted' \in BOOLEAN
    <3>1. made < MaxDoc /\ made + 1 \in Doc
      BY <1>0 DEF TypeOK, ProcInv, Bounded
    <3>2. edits' \in [Doc -> SUBSET Doc]
      <4>1. (IF seen[p] = Absent THEN {} ELSE edits[seen[p]]) \in SUBSET Doc
        BY <1>0 DEF TypeOK
      <4> QED BY <1>0, <3>1, <4>1 DEF TypeOK
    <3>3. made' \in 0 .. MaxDoc
      BY <1>0, <3>1 DEF TypeOK
    <3>4. tmp' = tmp \/ tmp' = [tmp EXCEPT ![p] = made + 1]
      OBVIOUS
    <3>5. tmp' \in [Proc -> Entry]
      BY <1>0, <3>1, <3>4 DEF TypeOK
    <3> QED BY <1>0, <3>2, <3>3, <3>5 DEF TypeOK
  <2>2. \E place \in Places : pc' = [pc EXCEPT ![p] = place]
    OBVIOUS
  <2>3. out' \in [Proc -> Outcomes]
    BY <1>0 DEF TypeOK
  <2>4. window' \in [Proc -> SUBSET Entry]
    BY <1>0, <2>1 DEF TypeOK
  <2>5. pc' \in [Proc -> Places]
    BY <1>0, <2>2 DEF TypeOK
  <2> QED BY <2>1, <2>3, <2>4, <2>5 DEF TypeOK
<1>2. OneOwner' /\ Numbered'
  BY <1>0 DEF OneOwner, Numbered, TypeOK, ProcInv, Bounded
<1>3. AckedKept'
  BY <1>0 DEF AckedKept, TypeOK, Numbered, ProcInv, OnPath, Bounded, TmpMade, AtPlace, BaseIsCurrent
<1>4. ProcInv(p)'
  <2>1. (LockHeld(p) /\ OnPath(p))'
    BY <1>0 DEF TypeOK, ProcInv, LockHeld, OnPath
  <2>2. Bounded(p)'
    BY <1>0 DEF TypeOK, ProcInv, OnPath, Bounded, Numbered
  <2>3. TmpMade(p)'
    BY <1>0 DEF TypeOK, ProcInv, OnPath, Bounded, TmpMade
  <2>4. AtPlace(p)'
    BY <1>0 DEF TypeOK, ProcInv, LockHeld, OnPath, AtPlace
  <2>5. BaseIsCurrent(p)'
    BY <1>0 DEF TypeOK, ProcInv, OnPath, AtPlace, BaseIsCurrent
  <2>6. WindowHolds(p)'
    BY <1>0 DEF TypeOK, ProcInv, LockHeld, OnPath, AtPlace, WindowHolds
  <2> QED BY <2>1, <2>2, <2>3, <2>4, <2>5, <2>6 DEF ProcInv
<1>5. ASSUME NEW q \in Proc, q # p PROVE ProcInv(q)'
  <2>1. Holds(p)
    BY <1>0 DEF ProcInv, LockHeld
  <2>2. Untouched(q)
    BY <1>0, <1>5 DEF Untouched, TypeOK
  <2>3. made' >= made /\ prev' \in {Absent, prev, target}
    BY <1>0 DEF TypeOK
  <2>4. /\ pc[q] \notin {"idle", "done"} => window'[q] = window[q] \cup {Current'}
        /\ pc[q] \in {"idle", "done"} => window'[q] = window[q]
    BY <1>0, <1>5 DEF IInv, TypeOK, ProcInv, WindowHolds
  <2> QED BY <1>1, <1>5, <2>1, <2>2, <2>3, <2>4, HolderStep
<1> QED BY <1>1, <1>2, <1>3, <1>4, <1>5 DEF IInv

LEMMA FirstPrevKeeps ==
    ASSUME IInv, NEW p \in Proc, FirstPrev(p)
    PROVE IInv'
<1> USE DEF FirstPrev, End
<1>0. ProcInv(p) /\ TypeOK /\ OneOwner /\ Numbered /\ AckedKept
  BY DEF IInv
<1>1. TypeOK'
  BY <1>0 DEF TypeOK
<1>2. OneOwner' /\ Numbered'
  BY <1>0 DEF OneOwner, Numbered, TypeOK, ProcInv, Bounded
<1>3. AckedKept'
  BY <1>0 DEF AckedKept, TypeOK, Numbered, ProcInv, OnPath, Bounded, TmpMade, AtPlace, BaseIsCurrent
<1>4. ProcInv(p)'
  <2>1. (LockHeld(p) /\ OnPath(p))'
    BY <1>0 DEF TypeOK, ProcInv, LockHeld, OnPath
  <2>2. Bounded(p)'
    BY <1>0 DEF TypeOK, ProcInv, OnPath, Bounded, Numbered
  <2>3. TmpMade(p)'
    BY <1>0 DEF TypeOK, ProcInv, OnPath, Bounded, TmpMade
  <2>4. AtPlace(p)'
    BY <1>0 DEF TypeOK, ProcInv, LockHeld, OnPath, AtPlace
  <2>5. BaseIsCurrent(p)'
    BY <1>0 DEF TypeOK, ProcInv, OnPath, AtPlace, BaseIsCurrent
  <2>6. WindowHolds(p)'
    BY <1>0 DEF TypeOK, ProcInv, LockHeld, OnPath, AtPlace, WindowHolds
  <2> QED BY <2>1, <2>2, <2>3, <2>4, <2>5, <2>6 DEF ProcInv
<1>5. ASSUME NEW q \in Proc, q # p PROVE ProcInv(q)'
  BY <1>0, <1>5, QuietStep DEF Untouched, TypeOK
<1> QED BY <1>1, <1>2, <1>3, <1>4, <1>5 DEF IInv

LEMMA FirstLinkKeeps ==
    ASSUME IInv, NEW p \in Proc, FirstLink(p)
    PROVE IInv'
<1> USE DEF FirstLink, Fails, End
<1>0. ProcInv(p) /\ TypeOK /\ OneOwner /\ Numbered /\ AckedKept
  BY DEF IInv
<1>1. TypeOK'
  <2>1. /\ target' \in Entry /\ prev' \in Entry /\ made' \in 0 .. MaxDoc /\ acked' \subseteq Doc
        /\ edits' \in [Doc -> SUBSET Doc] /\ seen' \in [Proc -> Entry] /\ tmp' \in [Proc -> Entry]
        /\ owners' \subseteq Proc /\ job' \in [Proc -> Jobs \cup {"none"}]
        /\ round' \in [Proc -> 0 .. Rounds] /\ crashes' \in 0 .. MaxCrash /\ deleted' \in BOOLEAN
    BY <1>0 DEF TypeOK, TmpMade, ProcInv
  <2>2. \E place \in Places : pc' = [pc EXCEPT ![p] = place]
    OBVIOUS
  <2>3. out' \in [Proc -> Outcomes]
    BY <1>0 DEF TypeOK
  <2>4. window' \in [Proc -> SUBSET Entry]
    BY <1>0, <2>1 DEF TypeOK
  <2>5. pc' \in [Proc -> Places]
    BY <1>0, <2>2 DEF TypeOK
  <2> QED BY <2>1, <2>3, <2>4, <2>5 DEF TypeOK
<1>2. OneOwner' /\ Numbered'
  BY <1>0 DEF OneOwner, Numbered, TypeOK, ProcInv, Bounded
<1>3. AckedKept'
  <2>1. CASE target' = target /\ acked' = acked
    BY <1>0, <2>1 DEF AckedKept
  <2>2. CASE target' = tmp[p] /\ acked' = acked \cup {tmp[p]}
    <3>1. Current = Absent /\ tmp[p] \in Doc /\ tmp[p] \in edits[tmp[p]]
      BY <1>0 DEF ProcInv, OnPath, AtPlace, TmpMade
    <3>2. ~deleted => acked = {}
      BY <1>0, <3>1 DEF AckedKept
    <3>3. Current' = tmp[p] /\ tmp[p] # Absent /\ edits' = edits /\ deleted' = deleted
      BY <2>2, <3>1
    <3> QED BY <2>2, <3>1, <3>2, <3>3 DEF AckedKept
  <2> QED BY <2>1, <2>2
<1>4. ProcInv(p)'
  <2>1. (LockHeld(p) /\ OnPath(p))'
    BY <1>0 DEF TypeOK, ProcInv, LockHeld, OnPath
  <2>2. Bounded(p)'
    BY <1>0 DEF TypeOK, ProcInv, OnPath, Bounded, Numbered
  <2>3. TmpMade(p)'
    BY <1>0 DEF TypeOK, ProcInv, OnPath, Bounded, TmpMade
  <2>4. AtPlace(p)'
    BY <1>0 DEF TypeOK, ProcInv, LockHeld, OnPath, AtPlace
  <2>5. BaseIsCurrent(p)'
    BY <1>0 DEF TypeOK, ProcInv, OnPath, AtPlace, BaseIsCurrent
  <2>6. WindowHolds(p)'
    BY <1>0 DEF TypeOK, ProcInv, LockHeld, OnPath, AtPlace, WindowHolds
  <2> QED BY <2>1, <2>2, <2>3, <2>4, <2>5, <2>6 DEF ProcInv
<1>5. ASSUME NEW q \in Proc, q # p PROVE ProcInv(q)'
  <2>1. Holds(p)
    BY <1>0 DEF ProcInv, LockHeld
  <2>2. Untouched(q)
    BY <1>0, <1>5 DEF Untouched, TypeOK
  <2>3. made' >= made /\ prev' \in {Absent, prev, target}
    BY <1>0 DEF TypeOK
  <2>4. /\ pc[q] \notin {"idle", "done"} => window'[q] = window[q] \cup {Current'}
        /\ pc[q] \in {"idle", "done"} => window'[q] = window[q]
    BY <1>0 DEF TypeOK
  <2> QED BY <1>1, <1>5, <2>1, <2>2, <2>3, <2>4, HolderStep
<1> QED BY <1>1, <1>2, <1>3, <1>4, <1>5 DEF IInv

LEMMA ProbeKeeps ==
    ASSUME IInv, NEW p \in Proc, Probe(p)
    PROVE IInv'
<1> USE DEF Probe
<1>0. ProcInv(p) /\ TypeOK /\ OneOwner /\ Numbered /\ AckedKept
  BY DEF IInv
<1>1. TypeOK'
  BY <1>0 DEF TypeOK
<1>2. OneOwner' /\ Numbered'
  BY <1>0 DEF OneOwner, Numbered, TypeOK, ProcInv, Bounded
<1>3. AckedKept'
  BY <1>0 DEF AckedKept, TypeOK, Numbered, ProcInv, OnPath, Bounded, TmpMade, AtPlace, BaseIsCurrent
<1>4. ProcInv(p)'
  <2>1. (LockHeld(p) /\ OnPath(p))'
    BY <1>0 DEF TypeOK, ProcInv, LockHeld, OnPath
  <2>2. Bounded(p)'
    BY <1>0 DEF TypeOK, ProcInv, OnPath, Bounded, Numbered
  <2>3. TmpMade(p)'
    BY <1>0 DEF TypeOK, ProcInv, OnPath, Bounded, TmpMade
  <2>4. AtPlace(p)'
    BY <1>0 DEF TypeOK, ProcInv, LockHeld, OnPath, AtPlace
  <2>5. BaseIsCurrent(p)'
    BY <1>0 DEF TypeOK, ProcInv, OnPath, AtPlace, BaseIsCurrent
  <2>6. WindowHolds(p)'
    BY <1>0 DEF TypeOK, ProcInv, LockHeld, OnPath, AtPlace, WindowHolds
  <2> QED BY <2>1, <2>2, <2>3, <2>4, <2>5, <2>6 DEF ProcInv
<1>5. ASSUME NEW q \in Proc, q # p PROVE ProcInv(q)'
  BY <1>0, <1>5, QuietStep DEF Untouched, TypeOK
<1> QED BY <1>1, <1>2, <1>3, <1>4, <1>5 DEF IInv

LEMMA RestoreKeeps ==
    ASSUME IInv, NEW p \in Proc, Restore(p)
    PROVE IInv'
<1> USE DEF Restore, Fails, End
<1>0. ProcInv(p) /\ TypeOK /\ OneOwner /\ Numbered /\ AckedKept
  BY DEF IInv
<1>1. TypeOK'
  <2>1. /\ target' \in Entry /\ prev' \in Entry /\ made' \in 0 .. MaxDoc /\ acked' \subseteq Doc
        /\ edits' \in [Doc -> SUBSET Doc] /\ seen' \in [Proc -> Entry] /\ tmp' \in [Proc -> Entry]
        /\ owners' \subseteq Proc /\ job' \in [Proc -> Jobs \cup {"none"}]
        /\ round' \in [Proc -> 0 .. Rounds] /\ crashes' \in 0 .. MaxCrash /\ deleted' \in BOOLEAN
    BY <1>0 DEF TypeOK
  <2>2. \E place \in Places : pc' = [pc EXCEPT ![p] = place]
    OBVIOUS
  <2>3. out' \in [Proc -> Outcomes]
    BY <1>0 DEF TypeOK
  <2>4. window' \in [Proc -> SUBSET Entry]
    BY <1>0, <2>1 DEF TypeOK
  <2>5. pc' \in [Proc -> Places]
    BY <1>0, <2>2 DEF TypeOK
  <2> QED BY <2>1, <2>3, <2>4, <2>5 DEF TypeOK
<1>2. OneOwner' /\ Numbered'
  BY <1>0 DEF OneOwner, Numbered, TypeOK, ProcInv, Bounded
<1>3. AckedKept'
  BY <1>0 DEF AckedKept, TypeOK, Numbered, ProcInv, OnPath, Bounded, TmpMade, AtPlace, BaseIsCurrent
<1>4. ProcInv(p)'
  <2>1. (LockHeld(p) /\ OnPath(p))'
    BY <1>0 DEF TypeOK, ProcInv, LockHeld, OnPath
  <2>2. Bounded(p)'
    BY <1>0 DEF TypeOK, ProcInv, OnPath, Bounded, Numbered
  <2>3. TmpMade(p)'
    BY <1>0 DEF TypeOK, ProcInv, OnPath, Bounded, TmpMade
  <2>4. AtPlace(p)'
    BY <1>0 DEF TypeOK, ProcInv, LockHeld, OnPath, AtPlace
  <2>5. BaseIsCurrent(p)'
    BY <1>0 DEF TypeOK, ProcInv, OnPath, AtPlace, BaseIsCurrent
  <2>6. WindowHolds(p)'
    BY <1>0 DEF TypeOK, ProcInv, LockHeld, OnPath, AtPlace, WindowHolds
  <2> QED BY <2>1, <2>2, <2>3, <2>4, <2>5, <2>6 DEF ProcInv
<1>5. ASSUME NEW q \in Proc, q # p PROVE ProcInv(q)'
  <2>1. Holds(p)
    BY <1>0 DEF ProcInv, LockHeld
  <2>2. Untouched(q)
    BY <1>0, <1>5 DEF Untouched, TypeOK
  <2>3. made' >= made /\ prev' \in {Absent, prev, target}
    BY <1>0 DEF TypeOK
  <2>4. /\ pc[q] \notin {"idle", "done"} => window'[q] = window[q] \cup {Current'}
        /\ pc[q] \in {"idle", "done"} => window'[q] = window[q]
    BY <1>0 DEF TypeOK
  <2> QED BY <1>1, <1>5, <2>1, <2>2, <2>3, <2>4, HolderStep
<1> QED BY <1>1, <1>2, <1>3, <1>4, <1>5 DEF IInv

LEMMA DropPrevKeeps ==
    ASSUME IInv, NEW p \in Proc, DropPrev(p)
    PROVE IInv'
<1> USE DEF DropPrev, Fails, End
<1>0. ProcInv(p) /\ TypeOK /\ OneOwner /\ Numbered /\ AckedKept
  BY DEF IInv
<1>1. TypeOK'
  <2>1. /\ target' \in Entry /\ prev' \in Entry /\ made' \in 0 .. MaxDoc /\ acked' \subseteq Doc
        /\ edits' \in [Doc -> SUBSET Doc] /\ seen' \in [Proc -> Entry] /\ tmp' \in [Proc -> Entry]
        /\ owners' \subseteq Proc /\ job' \in [Proc -> Jobs \cup {"none"}]
        /\ round' \in [Proc -> 0 .. Rounds] /\ crashes' \in 0 .. MaxCrash /\ deleted' \in BOOLEAN
    BY <1>0 DEF TypeOK
  <2>2. \E place \in Places : pc' = [pc EXCEPT ![p] = place]
    OBVIOUS
  <2>3. out' \in [Proc -> Outcomes]
    BY <1>0 DEF TypeOK
  <2>4. window' \in [Proc -> SUBSET Entry]
    BY <1>0, <2>1 DEF TypeOK
  <2>5. pc' \in [Proc -> Places]
    BY <1>0, <2>2 DEF TypeOK
  <2> QED BY <2>1, <2>3, <2>4, <2>5 DEF TypeOK
<1>2. OneOwner' /\ Numbered'
  BY <1>0 DEF OneOwner, Numbered, TypeOK, ProcInv, Bounded
<1>3. AckedKept'
  BY <1>0 DEF AckedKept, TypeOK, Numbered, ProcInv, OnPath, Bounded, TmpMade, AtPlace, BaseIsCurrent
<1>4. ProcInv(p)'
  <2>1. (LockHeld(p) /\ OnPath(p))'
    BY <1>0 DEF TypeOK, ProcInv, LockHeld, OnPath
  <2>2. Bounded(p)'
    BY <1>0 DEF TypeOK, ProcInv, OnPath, Bounded, Numbered
  <2>3. TmpMade(p)'
    BY <1>0 DEF TypeOK, ProcInv, OnPath, Bounded, TmpMade
  <2>4. AtPlace(p)'
    BY <1>0 DEF TypeOK, ProcInv, LockHeld, OnPath, AtPlace
  <2>5. BaseIsCurrent(p)'
    BY <1>0 DEF TypeOK, ProcInv, OnPath, AtPlace, BaseIsCurrent
  <2>6. WindowHolds(p)'
    BY <1>0 DEF TypeOK, ProcInv, LockHeld, OnPath, AtPlace, WindowHolds
  <2> QED BY <2>1, <2>2, <2>3, <2>4, <2>5, <2>6 DEF ProcInv
<1>5. ASSUME NEW q \in Proc, q # p PROVE ProcInv(q)'
  <2>1. Holds(p)
    BY <1>0 DEF ProcInv, LockHeld
  <2>2. Untouched(q)
    BY <1>0, <1>5 DEF Untouched, TypeOK
  <2>3. made' >= made /\ prev' \in {Absent, prev, target}
    BY <1>0 DEF TypeOK
  <2>4. /\ pc[q] \notin {"idle", "done"} => window'[q] = window[q] \cup {Current'}
        /\ pc[q] \in {"idle", "done"} => window'[q] = window[q]
    BY <1>0 DEF TypeOK
  <2> QED BY <1>1, <1>5, <2>1, <2>2, <2>3, <2>4, HolderStep
<1> QED BY <1>1, <1>2, <1>3, <1>4, <1>5 DEF IInv

LEMMA MoveAsideKeeps ==
    ASSUME IInv, NEW p \in Proc, MoveAside(p)
    PROVE IInv'
<1> USE DEF MoveAside, Fails, End
<1>0. ProcInv(p) /\ TypeOK /\ OneOwner /\ Numbered /\ AckedKept
  BY DEF IInv
<1>1. TypeOK'
  <2>1. /\ target' \in Entry /\ prev' \in Entry /\ made' \in 0 .. MaxDoc /\ acked' \subseteq Doc
        /\ edits' \in [Doc -> SUBSET Doc] /\ seen' \in [Proc -> Entry] /\ tmp' \in [Proc -> Entry]
        /\ owners' \subseteq Proc /\ job' \in [Proc -> Jobs \cup {"none"}]
        /\ round' \in [Proc -> 0 .. Rounds] /\ crashes' \in 0 .. MaxCrash /\ deleted' \in BOOLEAN
    BY <1>0 DEF TypeOK
  <2>2. \E place \in Places : pc' = [pc EXCEPT ![p] = place]
    OBVIOUS
  <2>3. out' \in [Proc -> Outcomes]
    BY <1>0 DEF TypeOK
  <2>4. window' \in [Proc -> SUBSET Entry]
    BY <1>0, <2>1 DEF TypeOK
  <2>5. pc' \in [Proc -> Places]
    BY <1>0, <2>2 DEF TypeOK
  <2> QED BY <2>1, <2>3, <2>4, <2>5 DEF TypeOK
<1>2. OneOwner' /\ Numbered'
  BY <1>0 DEF OneOwner, Numbered, TypeOK, ProcInv, Bounded
<1>3. AckedKept'
  BY <1>0 DEF AckedKept, TypeOK, Numbered, ProcInv, OnPath, Bounded, TmpMade, AtPlace, BaseIsCurrent
<1>4. ProcInv(p)'
  <2>1. (LockHeld(p) /\ OnPath(p))'
    BY <1>0 DEF TypeOK, ProcInv, LockHeld, OnPath
  <2>2. Bounded(p)'
    BY <1>0 DEF TypeOK, ProcInv, OnPath, Bounded, Numbered
  <2>3. TmpMade(p)'
    BY <1>0 DEF TypeOK, ProcInv, OnPath, Bounded, TmpMade
  <2>4. AtPlace(p)'
    BY <1>0 DEF TypeOK, ProcInv, LockHeld, OnPath, AtPlace
  <2>5. BaseIsCurrent(p)'
    BY <1>0 DEF TypeOK, ProcInv, OnPath, AtPlace, BaseIsCurrent
  <2>6. WindowHolds(p)'
    BY <1>0 DEF TypeOK, ProcInv, LockHeld, OnPath, AtPlace, WindowHolds
  <2> QED BY <2>1, <2>2, <2>3, <2>4, <2>5, <2>6 DEF ProcInv
<1>5. ASSUME NEW q \in Proc, q # p PROVE ProcInv(q)'
  <2>1. Holds(p)
    BY <1>0 DEF ProcInv, LockHeld
  <2>2. Untouched(q)
    BY <1>0, <1>5 DEF Untouched, TypeOK
  <2>3. made' >= made /\ prev' \in {Absent, prev, target}
    BY <1>0 DEF TypeOK
  <2>4. /\ pc[q] \notin {"idle", "done"} => window'[q] = window[q] \cup {Current'}
        /\ pc[q] \in {"idle", "done"} => window'[q] = window[q]
    BY <1>0 DEF TypeOK
  <2> QED BY <1>1, <1>5, <2>1, <2>2, <2>3, <2>4, HolderStep
<1> QED BY <1>1, <1>2, <1>3, <1>4, <1>5 DEF IInv

LEMMA LinkNewKeeps ==
    ASSUME IInv, NEW p \in Proc, LinkNew(p)
    PROVE IInv'
<1> USE DEF LinkNew
<1>0. ProcInv(p) /\ TypeOK /\ OneOwner /\ Numbered /\ AckedKept
  BY DEF IInv
<1>1. TypeOK'
  <2>1. /\ target' \in Entry /\ prev' \in Entry /\ made' \in 0 .. MaxDoc /\ acked' \subseteq Doc
        /\ edits' \in [Doc -> SUBSET Doc] /\ seen' \in [Proc -> Entry] /\ tmp' \in [Proc -> Entry]
        /\ owners' \subseteq Proc /\ job' \in [Proc -> Jobs \cup {"none"}]
        /\ round' \in [Proc -> 0 .. Rounds] /\ crashes' \in 0 .. MaxCrash /\ deleted' \in BOOLEAN
    BY <1>0 DEF TypeOK
  <2>2. \E place \in Places : pc' = [pc EXCEPT ![p] = place]
    OBVIOUS
  <2>3. out' \in [Proc -> Outcomes]
    BY <1>0 DEF TypeOK
  <2>4. window' \in [Proc -> SUBSET Entry]
    BY <1>0, <2>1 DEF TypeOK
  <2>5. pc' \in [Proc -> Places]
    BY <1>0, <2>2 DEF TypeOK
  <2> QED BY <2>1, <2>3, <2>4, <2>5 DEF TypeOK
<1>2. OneOwner' /\ Numbered'
  BY <1>0 DEF OneOwner, Numbered, TypeOK, ProcInv, Bounded
<1>3. AckedKept'
  BY <1>0 DEF AckedKept, TypeOK, Numbered, ProcInv, OnPath, Bounded, TmpMade, AtPlace, BaseIsCurrent
<1>4. ProcInv(p)'
  <2>1. (LockHeld(p) /\ OnPath(p))'
    BY <1>0 DEF TypeOK, ProcInv, LockHeld, OnPath
  <2>2. Bounded(p)'
    BY <1>0 DEF TypeOK, ProcInv, OnPath, Bounded, Numbered
  <2>3. TmpMade(p)'
    BY <1>0 DEF TypeOK, ProcInv, OnPath, Bounded, TmpMade
  <2>4. AtPlace(p)'
    BY <1>0 DEF TypeOK, ProcInv, LockHeld, OnPath, AtPlace
  <2>5. BaseIsCurrent(p)'
    BY <1>0 DEF TypeOK, ProcInv, OnPath, AtPlace, BaseIsCurrent
  <2>6. WindowHolds(p)'
    BY <1>0 DEF TypeOK, ProcInv, LockHeld, OnPath, AtPlace, WindowHolds
  <2> QED BY <2>1, <2>2, <2>3, <2>4, <2>5, <2>6 DEF ProcInv
<1>5. ASSUME NEW q \in Proc, q # p PROVE ProcInv(q)'
  <2>1. Holds(p)
    BY <1>0 DEF ProcInv, LockHeld
  <2>2. Untouched(q)
    BY <1>0, <1>5 DEF Untouched, TypeOK
  <2>3. made' >= made /\ prev' \in {Absent, prev, target}
    BY <1>0 DEF TypeOK
  <2>4. /\ pc[q] \notin {"idle", "done"} => window'[q] = window[q] \cup {Current'}
        /\ pc[q] \in {"idle", "done"} => window'[q] = window[q]
    BY <1>0 DEF TypeOK
  <2> QED BY <1>1, <1>5, <2>1, <2>2, <2>3, <2>4, HolderStep
<1> QED BY <1>1, <1>2, <1>3, <1>4, <1>5 DEF IInv

LEMMA PutBackKeeps ==
    ASSUME IInv, NEW p \in Proc, PutBack(p)
    PROVE IInv'
<1> USE DEF PutBack, End
<1>0. ProcInv(p) /\ TypeOK /\ OneOwner /\ Numbered /\ AckedKept
  BY DEF IInv
<1>1. TypeOK'
  <2>1. /\ target' \in Entry /\ prev' \in Entry /\ made' \in 0 .. MaxDoc /\ acked' \subseteq Doc
        /\ edits' \in [Doc -> SUBSET Doc] /\ seen' \in [Proc -> Entry] /\ tmp' \in [Proc -> Entry]
        /\ owners' \subseteq Proc /\ job' \in [Proc -> Jobs \cup {"none"}]
        /\ round' \in [Proc -> 0 .. Rounds] /\ crashes' \in 0 .. MaxCrash /\ deleted' \in BOOLEAN
    BY <1>0 DEF TypeOK
  <2>2. \E place \in Places : pc' = [pc EXCEPT ![p] = place]
    OBVIOUS
  <2>3. out' \in [Proc -> Outcomes]
    BY <1>0 DEF TypeOK
  <2>4. window' \in [Proc -> SUBSET Entry]
    BY <1>0, <2>1 DEF TypeOK
  <2>5. pc' \in [Proc -> Places]
    BY <1>0, <2>2 DEF TypeOK
  <2> QED BY <2>1, <2>3, <2>4, <2>5 DEF TypeOK
<1>2. OneOwner' /\ Numbered'
  BY <1>0 DEF OneOwner, Numbered, TypeOK, ProcInv, Bounded
<1>3. AckedKept'
  BY <1>0 DEF AckedKept, TypeOK, Numbered, ProcInv, OnPath, Bounded, TmpMade, AtPlace, BaseIsCurrent
<1>4. ProcInv(p)'
  <2>1. (LockHeld(p) /\ OnPath(p))'
    BY <1>0 DEF TypeOK, ProcInv, LockHeld, OnPath
  <2>2. Bounded(p)'
    BY <1>0 DEF TypeOK, ProcInv, OnPath, Bounded, Numbered
  <2>3. TmpMade(p)'
    BY <1>0 DEF TypeOK, ProcInv, OnPath, Bounded, TmpMade
  <2>4. AtPlace(p)'
    BY <1>0 DEF TypeOK, ProcInv, LockHeld, OnPath, AtPlace
  <2>5. BaseIsCurrent(p)'
    BY <1>0 DEF TypeOK, ProcInv, OnPath, AtPlace, BaseIsCurrent
  <2>6. WindowHolds(p)'
    BY <1>0 DEF TypeOK, ProcInv, LockHeld, OnPath, AtPlace, WindowHolds
  <2> QED BY <2>1, <2>2, <2>3, <2>4, <2>5, <2>6 DEF ProcInv
<1>5. ASSUME NEW q \in Proc, q # p PROVE ProcInv(q)'
  <2>1. Holds(p)
    BY <1>0 DEF ProcInv, LockHeld
  <2>2. Untouched(q)
    BY <1>0, <1>5 DEF Untouched, TypeOK
  <2>3. made' >= made /\ prev' \in {Absent, prev, target}
    BY <1>0 DEF TypeOK
  <2>4. /\ pc[q] \notin {"idle", "done"} => window'[q] = window[q] \cup {Current'}
        /\ pc[q] \in {"idle", "done"} => window'[q] = window[q]
    BY <1>0 DEF TypeOK
  <2> QED BY <1>1, <1>5, <2>1, <2>2, <2>3, <2>4, HolderStep
<1> QED BY <1>1, <1>2, <1>3, <1>4, <1>5 DEF IInv

LEMMA DropBackKeeps ==
    ASSUME IInv, NEW p \in Proc, DropBack(p)
    PROVE IInv'
<1> USE DEF DropBack, End
<1>0. ProcInv(p) /\ TypeOK /\ OneOwner /\ Numbered /\ AckedKept
  BY DEF IInv
<1>1. TypeOK'
  BY <1>0 DEF TypeOK
<1>2. OneOwner' /\ Numbered'
  BY <1>0 DEF OneOwner, Numbered, TypeOK, ProcInv, Bounded
<1>3. AckedKept'
  BY <1>0 DEF AckedKept, TypeOK, Numbered, ProcInv, OnPath, Bounded, TmpMade, AtPlace, BaseIsCurrent
<1>4. ProcInv(p)'
  <2>1. (LockHeld(p) /\ OnPath(p))'
    BY <1>0 DEF TypeOK, ProcInv, LockHeld, OnPath
  <2>2. Bounded(p)'
    BY <1>0 DEF TypeOK, ProcInv, OnPath, Bounded, Numbered
  <2>3. TmpMade(p)'
    BY <1>0 DEF TypeOK, ProcInv, OnPath, Bounded, TmpMade
  <2>4. AtPlace(p)'
    BY <1>0 DEF TypeOK, ProcInv, LockHeld, OnPath, AtPlace
  <2>5. BaseIsCurrent(p)'
    BY <1>0 DEF TypeOK, ProcInv, OnPath, AtPlace, BaseIsCurrent
  <2>6. WindowHolds(p)'
    BY <1>0 DEF TypeOK, ProcInv, LockHeld, OnPath, AtPlace, WindowHolds
  <2> QED BY <2>1, <2>2, <2>3, <2>4, <2>5, <2>6 DEF ProcInv
<1>5. ASSUME NEW q \in Proc, q # p PROVE ProcInv(q)'
  <2>1. Holds(p)
    BY <1>0 DEF ProcInv, LockHeld
  <2>2. Untouched(q)
    BY <1>0, <1>5 DEF Untouched, TypeOK
  <2>3. made' >= made /\ prev' \in {Absent, prev, target}
    BY <1>0 DEF TypeOK
  <2>4. /\ pc[q] \notin {"idle", "done"} => window'[q] = window[q] \cup {Current'}
        /\ pc[q] \in {"idle", "done"} => window'[q] = window[q]
    BY <1>0 DEF TypeOK
  <2> QED BY <1>1, <1>5, <2>1, <2>2, <2>3, <2>4, HolderStep
<1> QED BY <1>1, <1>2, <1>3, <1>4, <1>5 DEF IInv

LEMMA CleanupKeeps ==
    ASSUME IInv, NEW p \in Proc, Cleanup(p)
    PROVE IInv'
<1> USE DEF Cleanup, End
<1>0. ProcInv(p) /\ TypeOK /\ OneOwner /\ Numbered /\ AckedKept
  BY DEF IInv
<1>1. TypeOK'
  <2>1. /\ target' \in Entry /\ prev' \in Entry /\ made' \in 0 .. MaxDoc /\ acked' \subseteq Doc
        /\ edits' \in [Doc -> SUBSET Doc] /\ seen' \in [Proc -> Entry] /\ tmp' \in [Proc -> Entry]
        /\ owners' \subseteq Proc /\ job' \in [Proc -> Jobs \cup {"none"}]
        /\ round' \in [Proc -> 0 .. Rounds] /\ crashes' \in 0 .. MaxCrash /\ deleted' \in BOOLEAN
    BY <1>0 DEF TypeOK, TmpMade, ProcInv
  <2>2. \E place \in Places : pc' = [pc EXCEPT ![p] = place]
    OBVIOUS
  <2>3. out' \in [Proc -> Outcomes]
    BY <1>0 DEF TypeOK
  <2>4. window' \in [Proc -> SUBSET Entry]
    BY <1>0, <2>1 DEF TypeOK
  <2>5. pc' \in [Proc -> Places]
    BY <1>0, <2>2 DEF TypeOK
  <2> QED BY <2>1, <2>3, <2>4, <2>5 DEF TypeOK
<1>2. OneOwner' /\ Numbered'
  BY <1>0 DEF OneOwner, Numbered, TypeOK, ProcInv, Bounded
<1>3. AckedKept'
  <2>1. /\ tmp[p] \in Doc /\ tmp[p] \in edits[tmp[p]]
        /\ ~deleted => target = tmp[p]
    BY <1>0 DEF ProcInv, AtPlace, TmpMade
  <2>2. ~deleted => Current = tmp[p] /\ Current' = tmp[p]
    BY <2>1
  <2>3. ~deleted => acked \subseteq edits[tmp[p]]
    BY <1>0, <2>2 DEF AckedKept
  <2> QED BY <2>1, <2>2, <2>3 DEF AckedKept
<1>4. ProcInv(p)'
  <2>1. (LockHeld(p) /\ OnPath(p))'
    BY <1>0 DEF TypeOK, ProcInv, LockHeld, OnPath
  <2>2. Bounded(p)'
    BY <1>0 DEF TypeOK, ProcInv, OnPath, Bounded, Numbered
  <2>3. TmpMade(p)'
    BY <1>0 DEF TypeOK, ProcInv, OnPath, Bounded, TmpMade
  <2>4. AtPlace(p)'
    BY <1>0 DEF TypeOK, ProcInv, LockHeld, OnPath, AtPlace
  <2>5. BaseIsCurrent(p)'
    BY <1>0 DEF TypeOK, ProcInv, OnPath, AtPlace, BaseIsCurrent
  <2>6. WindowHolds(p)'
    BY <1>0 DEF TypeOK, ProcInv, LockHeld, OnPath, AtPlace, WindowHolds
  <2> QED BY <2>1, <2>2, <2>3, <2>4, <2>5, <2>6 DEF ProcInv
<1>5. ASSUME NEW q \in Proc, q # p PROVE ProcInv(q)'
  <2>1. Holds(p)
    BY <1>0 DEF ProcInv, LockHeld
  <2>2. Untouched(q)
    BY <1>0, <1>5 DEF Untouched, TypeOK
  <2>3. made' >= made /\ prev' \in {Absent, prev, target}
    BY <1>0 DEF TypeOK
  <2>4. /\ pc[q] \notin {"idle", "done"} => window'[q] = window[q] \cup {Current'}
        /\ pc[q] \in {"idle", "done"} => window'[q] = window[q]
    BY <1>0 DEF TypeOK
  <2> QED BY <1>1, <1>5, <2>1, <2>2, <2>3, <2>4, HolderStep
<1> QED BY <1>1, <1>2, <1>3, <1>4, <1>5 DEF IInv

LEMMA CrashKeeps ==
    ASSUME IInv, NEW p \in Proc, Crash(p)
    PROVE IInv'
<1> USE DEF Crash
<1>0. ProcInv(p) /\ TypeOK /\ OneOwner /\ Numbered /\ AckedKept
  BY DEF IInv
<1>1. TypeOK'
  BY <1>0 DEF TypeOK
<1>2. OneOwner' /\ Numbered'
  BY <1>0 DEF OneOwner, Numbered, TypeOK, ProcInv, Bounded
<1>3. AckedKept'
  BY <1>0 DEF AckedKept, TypeOK, Numbered, ProcInv, OnPath, Bounded, TmpMade, AtPlace, BaseIsCurrent
<1>4. ProcInv(p)'
  <2>1. (LockHeld(p) /\ OnPath(p))'
    BY <1>0 DEF TypeOK, ProcInv, LockHeld, OnPath
  <2>2. Bounded(p)'
    BY <1>0 DEF TypeOK, ProcInv, OnPath, Bounded, Numbered
  <2>3. TmpMade(p)'
    BY <1>0 DEF TypeOK, ProcInv, OnPath, Bounded, TmpMade
  <2>4. AtPlace(p)'
    BY <1>0 DEF TypeOK, ProcInv, LockHeld, OnPath, AtPlace
  <2>5. BaseIsCurrent(p)'
    BY <1>0 DEF TypeOK, ProcInv, OnPath, AtPlace, BaseIsCurrent
  <2>6. WindowHolds(p)'
    BY <1>0 DEF TypeOK, ProcInv, LockHeld, OnPath, AtPlace, WindowHolds
  <2> QED BY <2>1, <2>2, <2>3, <2>4, <2>5, <2>6 DEF ProcInv
<1>5. ASSUME NEW q \in Proc, q # p PROVE ProcInv(q)'
  <2>1. CASE owners' = owners
    BY <1>0, <1>5, <2>1, QuietStep DEF Untouched, TypeOK
  <2>2. CASE owners' # owners /\ ~Holds(q)
    <3> USE <2>2, <1>5
    <3>1. CASE ~Holds(q)'
      BY <1>0, <3>1, QuietStep DEF Untouched, TypeOK
    <3>2. CASE Holds(q)'
      BY <1>0, <3>2 DEF OneOwner
    <3> QED BY <3>1, <3>2
  <2>3. CASE owners' # owners /\ Holds(q)
    BY <1>5, <2>3
  <2> QED BY <2>1, <2>2, <2>3
<1> QED BY <1>1, <1>2, <1>3, <1>4, <1>5 DEF IInv

LEMMA OutsideDeleteKeeps ==
    ASSUME IInv, OutsideDelete
    PROVE IInv'
<1> USE DEF OutsideDelete
<1>0. TypeOK /\ OneOwner /\ Numbered /\ \A q \in Proc : ProcInv(q)
  BY DEF IInv
<1>1. TypeOK'
  <2>1. window' \in [Proc -> SUBSET Entry]
    BY <1>0 DEF TypeOK
  <2> QED BY <1>0, <2>1 DEF TypeOK
<1>2. (OneOwner /\ Numbered /\ AckedKept)'
  BY <1>0 DEF OneOwner, Numbered, AckedKept, TypeOK
<1>3. ASSUME NEW q \in Proc PROVE ProcInv(q)'
  <2>0. ProcInv(q)
    BY <1>0
  <2>1. (LockHeld(q) /\ OnPath(q) /\ Bounded(q) /\ TmpMade(q) /\ BaseIsCurrent(q))'
    BY <2>0 DEF ProcInv, LockHeld, OnPath, Bounded, TmpMade, BaseIsCurrent
  <2>2. AtPlace(q)'
    BY <2>0 DEF ProcInv, AtPlace
  <2>3. WindowHolds(q)'
    BY <1>0, <2>0 DEF TypeOK, ProcInv, WindowHolds
  <2> QED BY <2>1, <2>2, <2>3 DEF ProcInv
<1> QED BY <1>1, <1>2, <1>3 DEF IInv

\* A step that changes nothing.
LEMMA StutterKeeps ==
    ASSUME IInv, UNCHANGED vars
    PROVE IInv'
BY DEF vars, IInv, TypeOK, OneOwner, Numbered, AckedKept, ProcInv, LockHeld, OnPath,
       Bounded, TmpMade, AtPlace, BaseIsCurrent, WindowHolds

\* Every step keeps the invariant.
LEMMA NextKeeps ==
    ASSUME IInv, [Next]_vars
    PROVE IInv'
<1>1. CASE UNCHANGED vars
  BY <1>1, StutterKeeps
<1>2. CASE OutsideDelete
  BY <1>2, OutsideDeleteKeeps
<1>3. ASSUME NEW p \in Proc, NEW j \in Jobs, Begin(p, j) PROVE IInv'
  BY <1>3, BeginKeeps
<1>4. ASSUME NEW p \in Proc,
             \/ CheckTarget(p) \/ CheckPrev(p) \/ Grab(p) \/ Busy(p) \/ Unlock(p) \/ Finish(p)
             \/ Crash(p)
      PROVE IInv'
  BY <1>4, CheckTargetKeeps, CheckPrevKeeps, GrabKeeps, BusyKeeps, UnlockKeeps, FinishKeeps,
     CrashKeeps
<1>5. ASSUME NEW p \in Proc, Read(p) \/ WriteTmp(p) \/ FirstPublish(p)
      PROVE IInv'
  BY <1>5, ReadTargetKeeps, ReadPrevKeeps, WriteTmpKeeps, FirstPrevKeeps, FirstLinkKeeps
     DEF Read, FirstPublish
<1>6. ASSUME NEW p \in Proc, Replace(p)
      PROVE IInv'
  BY <1>6, ProbeKeeps, RestoreKeeps, DropPrevKeeps, MoveAsideKeeps, LinkNewKeeps,
     PutBackKeeps, DropBackKeeps, CleanupKeeps DEF Replace
<1> QED BY <1>1, <1>2, <1>3, <1>4, <1>5, <1>6 DEF Next

\* The inductive invariant holds in every reachable state.
THEOREM Invariance == Spec => []IInv
<1>1. Init => IInv
  BY InitInvariant
<1>2. IInv /\ [Next]_vars => IInv'
  BY NextKeeps
<1> QED BY <1>1, <1>2, PTL DEF Spec

-----------------------------------------------------------------------------
\* Type correctness of the store, of every process and of the lock.
THEOREM TypeCorrect == Spec => []TypeOK
<1>1. IInv => TypeOK
  BY DEF IInv
<1> QED BY <1>1, Invariance, PTL

\* saveConfig returns only for edits that no later publish, failure or crash
\* loses, whatever the number of processes and of crashes.
THEOREM AcknowledgedEditsKept == Spec => []AckedKept
<1>1. IInv => AckedKept
  BY DEF IInv
<1> QED BY <1>1, Invariance, PTL

\* readRounds returns a document that was current at some moment of the read.
THEOREM ReadsAreCurrent == Spec => []ReadIsCurrent
<1>1. IInv => ReadIsCurrent
  BY DEF IInv, ProcInv, WindowHolds, ReadIsCurrent
<1> QED BY <1>1, Invariance, PTL

\* readConfigTextIn reports absence, and an update starts from nothing, only
\* when there was no document at some moment of the read.
THEOREM AbsencesAreProven == Spec => []AbsenceIsProven
<1>1. IInv => AbsenceIsProven
  BY DEF IInv, ProcInv, WindowHolds, AbsenceIsProven
<1> QED BY <1>1, Invariance, PTL

\* The only step from "no document" to a document is the migration's first link.
LEMMA CreationIsFirstLink ==
    ASSUME IInv, Next, Current = Absent, Current' # Absent
    PROVE \E p \in Proc : FirstLinked(p)
<1>0. target = Absent /\ prev = Absent
  BY DEF IInv, TypeOK
<1>1. entries' # entries
  BY <1>0
<1>2. ~OutsideDelete
  BY <1>0 DEF OutsideDelete
<1>3. ASSUME NEW p \in Proc, NEW j \in Jobs, Begin(p, j) PROVE FALSE
  BY <1>1, <1>3 DEF Begin
<1>4. ASSUME NEW p \in Proc,
             \/ CheckTarget(p) \/ CheckPrev(p) \/ Grab(p) \/ Busy(p) \/ Unlock(p) \/ Finish(p)
             \/ Crash(p) \/ Read(p) \/ WriteTmp(p) \/ FirstPrev(p) \/ Probe(p)
      PROVE FALSE
  BY <1>1, <1>4 DEF CheckTarget, CheckPrev, Grab, Busy, Unlock, Finish, Crash,
     Read, ReadTarget, ReadPrev, WriteTmp, FirstPrev, Probe
<1>5. ASSUME NEW p \in Proc, DropPrev(p) \/ MoveAside(p) \/ PutBack(p) \/ DropBack(p) \/ Cleanup(p)
      PROVE FALSE
  BY <1>0, <1>5 DEF DropPrev, MoveAside, PutBack, DropBack, Cleanup
<1>6. ASSUME NEW p \in Proc, Restore(p) \/ LinkNew(p) PROVE FALSE
  <2>1. AtPlace(p)
    BY DEF IInv, ProcInv
  <2> QED BY <1>0, <1>6, <2>1 DEF Restore, LinkNew, AtPlace
<1>7. PICK p \in Proc : FirstLink(p)
  BY <1>2, <1>3, <1>4, <1>5, <1>6 DEF Next, FirstPublish, Replace
<1> QED BY <1>0, <1>7 DEF FirstLinked, FirstLink

\* The migration's first link starts from no document at all, even when
\* config.json was deleted while the migration was under way.
LEMMA FirstLinkCreates ==
    ASSUME IInv, IInv', NEW p \in Proc, FirstLinked(p)
    PROVE Current = Absent /\ Current' # Absent
<1>1. Current = Absent
  BY DEF IInv, ProcInv, OnPath, AtPlace, FirstLinked
<1>2. target = Absent
  BY <1>1 DEF IInv, TypeOK
<1> QED BY <1>1, <1>2 DEF FirstLinked

\* The migration alone creates the document, and only where there is none
\* (Issue #81): saveConfig without FIRST_PUBLISH replaces or refuses.
THEOREM MigrationAloneCreates == Spec => OnlyMigrationCreates
<1>1. IInv /\ IInv' /\ [Next]_vars
      => [(Current = Absent /\ Current' # Absent) <=> (\E p \in Proc : FirstLinked(p))]_vars
  BY CreationIsFirstLink, FirstLinkCreates
<1> QED BY <1>1, Invariance, PTL DEF Spec, OnlyMigrationCreates

-----------------------------------------------------------------------------
\* What one crash leaves behind, and what a publisher then makes of it. Two names of one
\* document are only the restorer's; a document without config.json is the crash's.
Ready(p) ==
    /\ pc[p] \in {"restore", "dropPrev"} => crashes = 1
    /\ pc[p] \notin {"putBack", "dropBack"}
    /\ pc[p] = "link" => target = Absent
    /\ pc[p] = "moveAside" /\ seen[p] # Absent => target # Absent
    /\ pc[p] \in {"firstPrev", "firstLink", "probe", "restore", "dropPrev", "moveAside", "link"}
       => target < tmp[p] /\ prev < tmp[p]
    /\ job[p] = "update" /\ seen[p] # Absent => out[p] \notin {"exists", "pending"}
Tidy ==
    /\ target = prev /\ target # Absent => \E p \in owners : pc[p] = "dropPrev"
    /\ target = Absent /\ prev # Absent => crashes = 1 \/ \E p \in owners : pc[p] = "link"
Sane == ~deleted /\ crashes <= 1 /\ Tidy /\ \A p \in Proc : Ready(p)
OneCrash == ~deleted /\ crashes <= 1 => Tidy /\ \A p \in Proc : Ready(p)

\* A step that moves no file, of a process that holds no document in the air.
LEMMA QuietStays ==
    ASSUME IInv, Sane, NEW p \in Proc, UNCHANGED <<target, prev, crashes>>,
           pc[p] \notin {"dropPrev", "link"}, owners \ {p} \subseteq owners',
           \A q \in Proc \ {p} : /\ pc'[q] = pc[q] /\ job'[q] = job[q] /\ seen'[q] = seen[q]
                                 /\ tmp'[q] = tmp[q] /\ out'[q] = out[q],
           Ready(p)'
    PROVE  Tidy' /\ \A q \in Proc : Ready(q)'
<1>1. \A q \in owners : q \in Proc
  BY DEF IInv, TypeOK
<1>2. Tidy'
  BY <1>1 DEF Sane, Tidy
<1>3. \A q \in Proc \ {p} : Ready(q)'
  BY DEF Sane, Ready
<1> QED  BY <1>2, <1>3

\* The holder's step: nobody else is where the files matter.
LEMMA HolderStays ==
    ASSUME IInv, Sane, NEW p \in Proc, Holds(p), crashes' = crashes,
           \A q \in Proc \ {p} : /\ pc'[q] = pc[q] /\ job'[q] = job[q] /\ seen'[q] = seen[q]
                                 /\ tmp'[q] = tmp[q] /\ out'[q] = out[q],
           Ready(p)'
    PROVE  \A q \in Proc : Ready(q)'
<1>1. \A q \in Proc \ {p} : pc[q] \notin Locked
  BY DEF IInv, ProcInv, LockHeld
<1>2. \A q \in Proc \ {p} : Ready(q)'
  BY <1>1 DEF Sane, Ready
<1> QED  BY <1>2

LEMMA OutsideLockStays ==
    ASSUME IInv, Sane, NEW p \in Proc,
           \/ \E j \in Jobs : Begin(p, j)
           \/ CheckTarget(p) \/ CheckPrev(p) \/ Grab(p) \/ Busy(p) \/ Unlock(p) \/ Finish(p)
    PROVE  Tidy' /\ \A q \in Proc : Ready(q)'
<1> USE DEF IInv, TypeOK, ProcInv, OnPath, Sane
<1>1. CASE \E j \in Jobs : Begin(p, j)
  <2>1. Ready(p)'
    BY <1>1 DEF Begin, Entrance, Ready
  <2> QED  BY <1>1, <2>1, QuietStays DEF Begin
<1>2. CASE CheckTarget(p)
  <2>1. Ready(p)'
    BY <1>2 DEF CheckTarget, End, Ready
  <2> QED  BY <1>2, <2>1, QuietStays DEF CheckTarget, End
<1>3. CASE CheckPrev(p)
  <2>1. Ready(p)'
    BY <1>3 DEF CheckPrev, End, Ready
  <2> QED  BY <1>3, <2>1, QuietStays DEF CheckPrev, End
<1>4. CASE Grab(p)
  <2>1. Ready(p)'
    BY <1>4 DEF Grab, Ready
  <2> QED  BY <1>4, <2>1, QuietStays DEF Grab, Lock!Acquire
<1>5. CASE Busy(p)
  <2>1. Ready(p)'
    BY <1>5 DEF Busy, End, Ready
  <2> QED  BY <1>5, <2>1, QuietStays DEF Busy, End
<1>6. CASE Unlock(p)
  <2>1. Ready(p)'
    BY <1>6 DEF Unlock, Ready
  <2> QED  BY <1>6, <2>1, QuietStays DEF Unlock, Lock!Leave
<1>7. CASE Finish(p)
  <2>1. Ready(p)'
    BY <1>7 DEF Finish, Ready
  <2> QED  BY <1>7, <2>1, QuietStays DEF Finish
<1> QED  BY <1>1, <1>2, <1>3, <1>4, <1>5, <1>6, <1>7

LEMMA ReadingStays ==
    ASSUME IInv, Sane, "io" \notin Faults, NEW p \in Proc, Read(p) \/ WriteTmp(p)
    PROVE  Tidy' /\ \A q \in Proc : Ready(q)'
<1> USE DEF IInv, TypeOK, ProcInv, OnPath, Sane
<1>1. CASE ReadTarget(p)
  <2>1. Ready(p)'
    BY <1>1 DEF ReadTarget, Found, End, Ready
  <2> QED  BY <1>1, <2>1, QuietStays DEF ReadTarget, Found, End
<1>2. CASE ReadPrev(p)
  <2>1. Ready(p)'
    BY <1>2 DEF ReadPrev, Found, Exhausted, End, Ready
  <2>2. UNCHANGED <<target, prev, crashes, owners>> /\ pc[p] = "readPrev"
    BY <1>2 DEF ReadPrev
  <2>3. \A q \in Proc \ {p} : /\ pc'[q] = pc[q] /\ job'[q] = job[q] /\ seen'[q] = seen[q]
                               /\ tmp'[q] = tmp[q] /\ out'[q] = out[q]
    BY <1>2 DEF ReadPrev, Found, Exhausted, End
  <2> QED  BY <2>1, <2>2, <2>3, QuietStays
<1>3. CASE WriteTmp(p)
  <2>1. target <= made /\ prev <= made /\ made \in Nat /\ target \in Nat /\ prev \in Nat
    BY DEF Numbered
  <2>2. tmp'[p] = made + 1 /\ pc'[p] \in {"firstPrev", "probe"} /\ UNCHANGED <<target, prev, out, job, seen>>
    BY <1>3 DEF WriteTmp, Fails
  <2>3. Ready(p)'
    BY <2>1, <2>2 DEF Ready
  <2> QED  BY <1>3, <2>3, QuietStays DEF WriteTmp, Fails, End
<1> QED  BY <1>1, <1>2, <1>3 DEF Read

\* A publisher's steps. Files move, in the hold of p.
LEMMA FirstPublishStays ==
    ASSUME IInv, Sane, "io" \notin Faults, NEW p \in Proc, FirstPublish(p)
    PROVE  Tidy' /\ \A q \in Proc : Ready(q)'
<1> USE DEF IInv, TypeOK, ProcInv, OnPath, Sane
<1>1. CASE FirstPrev(p)
  <2>1. Ready(p)'
    BY <1>1 DEF FirstPrev, End, Ready
  <2> QED  BY <1>1, <2>1, QuietStays DEF FirstPrev, End
<1>2. CASE FirstLink(p)
  <2>1. Holds(p) /\ Current = Absent /\ job[p] = "migrate" /\ prev = Absent /\ target = Absent /\ pc[p] = "firstLink"
    BY <1>2 DEF FirstLink, LockHeld, AtPlace
  <2>2. target' # Absent /\ prev' = Absent /\ crashes' = crashes /\ pc'[p] = "unlock"
    BY <1>2, <2>1 DEF FirstLink, Fails, End, Ready
  <2>3. Tidy'
    BY <2>2 DEF Tidy
  <2>4. Ready(p)'
    BY <1>2, <2>1, <2>2 DEF FirstLink, Fails, Ready
  <2> QED  BY <1>2, <2>1, <2>2, <2>3, <2>4, HolderStays DEF FirstLink, Fails, End
<1> QED  BY <1>1, <1>2 DEF FirstPublish

LEMMA ReplaceStays ==
    ASSUME IInv, Sane, "io" \notin Faults, NEW p \in Proc, Replace(p)
    PROVE  Tidy' /\ \A q \in Proc : Ready(q)'
<1> USE DEF IInv, TypeOK, ProcInv, OnPath, Sane
<1>1. /\ Holds(p) /\ p \in owners /\ \A q \in owners : q = p
      /\ job[p] = "update" /\ crashes' = crashes /\ owners' = owners
      /\ target \in Nat /\ prev \in Nat /\ tmp[p] \in Nat
  <2>1. /\ pc[p] \in Publishing \ {"write", "firstPrev", "firstLink"}
        /\ crashes' = crashes /\ owners' = owners
    BY DEF Replace, Probe, Restore, DropPrev, MoveAside, LinkNew, PutBack, DropBack, Cleanup
  <2>2. Holds(p) /\ job[p] = "update"
    BY <2>1 DEF LockHeld
  <2>3. target \in Nat /\ prev \in Nat /\ tmp[p] \in Nat
    OBVIOUS
  <2> QED  BY <2>1, <2>2, <2>3
<1>2. \A q \in Proc \ {p} : /\ pc'[q] = pc[q] /\ job'[q] = job[q] /\ seen'[q] = seen[q]
                            /\ tmp'[q] = tmp[q] /\ out'[q] = out[q]
  BY DEF Replace, Probe, Restore, DropPrev, MoveAside, LinkNew, PutBack, DropBack, Cleanup, Fails, End
<1>3. job'[p] = job[p] /\ seen'[p] = seen[p] /\ tmp'[p] = tmp[p]
  BY DEF Replace, Probe, Restore, DropPrev, MoveAside, LinkNew, PutBack, DropBack, Cleanup
<1>4. pc[p] \in {"probe", "restore", "dropPrev", "moveAside", "link"} => Current = seen[p]
  BY <1>1 DEF BaseIsCurrent
<1>5. CASE Probe(p)
  <2>1. /\ pc[p] = "probe" /\ UNCHANGED <<target, prev>> /\ out'[p] = out[p]
        /\ pc'[p] = IF target = Absent /\ prev # Absent THEN "restore" ELSE "moveAside"
    BY <1>5 DEF Probe
  <2>2. pc'[p] = "restore" => crashes = 1
    BY <1>1, <2>1 DEF Tidy
  <2>3. Ready(p)'
    BY <1>1, <1>3, <1>4, <2>1, <2>2 DEF Ready
  <2> QED  BY <1>1, <1>2, <2>1, <2>3, QuietStays
<1>6. CASE Restore(p)
  <2>1. target = Absent /\ prev # Absent /\ pc[p] = "restore"
    BY <1>1, <1>6 DEF Restore, AtPlace
  <2>2. target' = prev /\ prev' = prev /\ pc'[p] = "dropPrev" /\ out'[p] = out[p]
    BY <1>6, <2>1 DEF Restore, Fails
  <2>3. Ready(p)' /\ Tidy'
    BY <1>1, <1>3, <2>1, <2>2 DEF Ready, Tidy
  <2> QED  BY <1>1, <1>2, <2>3, HolderStays
<1>7. CASE DropPrev(p)
  <2>1. target = prev /\ prev # Absent /\ pc[p] = "dropPrev"
    BY <1>7 DEF DropPrev, AtPlace
  <2>2. target' = target /\ prev' = Absent /\ pc'[p] = "moveAside" /\ out'[p] = out[p]
    BY <1>7 DEF DropPrev, Fails
  <2>3. Ready(p)' /\ Tidy'
    BY <1>1, <1>3, <2>1, <2>2 DEF Ready, Tidy
  <2> QED  BY <1>1, <1>2, <2>3, HolderStays
<1>8. CASE MoveAside(p)
  <2>1. pc[p] = "moveAside"
    BY <1>8 DEF MoveAside
  <2>2. CASE target = Absent
    <3>1. seen[p] = Absent /\ UNCHANGED <<target, prev>> /\ pc'[p] = "unlock"
      BY <1>1, <1>8, <2>1, <2>2 DEF MoveAside, Fails, End, Ready
    <3>2. Ready(p)' /\ Tidy'
      BY <1>1, <1>3, <2>1, <3>1 DEF Ready, Tidy
    <3> QED  BY <1>1, <1>2, <3>2, HolderStays
  <2>3. CASE target # Absent
    <3>1. prev # target
      BY <1>1, <2>1, <2>3 DEF Tidy
    <3>2. prev' = target /\ target' = Absent /\ pc'[p] = "link" /\ out'[p] = out[p]
      BY <1>8, <2>3, <3>1 DEF MoveAside, Fails
    <3>3. Ready(p)' /\ Tidy'
      BY <1>1, <1>3, <2>1, <2>3, <3>2 DEF Ready, Tidy
    <3> QED  BY <1>1, <1>2, <3>3, HolderStays
  <2> QED  BY <2>2, <2>3
<1>9. CASE LinkNew(p)
  <2>1. pc[p] = "link" /\ target = Absent /\ prev # Absent
    BY <1>9 DEF LinkNew, Ready, AtPlace
  <2>2. target' = tmp[p] /\ prev' = prev /\ pc'[p] = "cleanup" /\ out'[p] = out[p]
    BY <1>9, <2>1 DEF LinkNew
  <2>3. prev < tmp[p]
    BY <2>1 DEF Ready
  <2>4. Ready(p)' /\ Tidy'
    BY <1>1, <1>3, <2>1, <2>2, <2>3 DEF Ready, Tidy
  <2> QED  BY <1>1, <1>2, <2>4, HolderStays
<1>10. CASE PutBack(p) \/ DropBack(p)
  BY <1>10 DEF PutBack, DropBack, Ready
<1>11. CASE Cleanup(p)
  <2>1. pc[p] = "cleanup" /\ prev' = Absent /\ target' = target /\ pc'[p] = "unlock" /\ out'[p] = "published"
    BY <1>1, <1>11 DEF Cleanup, End
  <2>2. Ready(p)' /\ Tidy'
    <3>1. target # Absent
      BY <1>11, <2>1 DEF AtPlace, TmpMade
    <3> QED  BY <1>1, <1>3, <2>1, <3>1 DEF Ready, Tidy
  <2> QED  BY <1>1, <1>2, <2>2, HolderStays
<1> QED  BY <1>5, <1>6, <1>7, <1>8, <1>9, <1>10, <1>11 DEF Replace

\* The first crash; after the second nothing is promised.
LEMMA CrashStays ==
    ASSUME IInv, Sane, NEW p \in Proc, Crash(p), crashes' <= 1
    PROVE  Tidy' /\ \A q \in Proc : Ready(q)'
<1> USE DEF IInv, TypeOK, ProcInv, OnPath, Sane
<1>1. crashes = 0 /\ crashes' = 1 /\ UNCHANGED <<target, prev>> /\ owners' = owners \ {p}
  BY DEF Crash
<1>2. \A q \in Proc : pc[q] \notin {"restore", "dropPrev"}
  BY <1>1 DEF Ready
<1>3. Tidy'
  BY <1>1, <1>2 DEF Tidy
<1>4. Ready(p)'
  BY <1>1 DEF Crash, Ready
<1>5. \A q \in Proc \ {p} : Ready(q)'
  BY <1>1, <1>2 DEF Crash, Ready
<1> QED  BY <1>3, <1>4, <1>5

LEMMA OneCrashStep ==
    ASSUME "io" \notin Faults, IInv, OneCrash, [Next]_vars
    PROVE  OneCrash'
<1> SUFFICES ASSUME ~deleted', crashes' <= 1
             PROVE  Tidy' /\ \A p \in Proc : Ready(p)'
  BY DEF OneCrash
<1>1. CASE UNCHANGED vars
  BY <1>1 DEF vars, OneCrash, Tidy, Ready
<1>2. CASE OutsideDelete
  BY <1>2 DEF OutsideDelete
<1>3. ASSUME NEW p \in Proc, Crash(p)
      PROVE  Tidy' /\ \A q \in Proc : Ready(q)'
  <2>1. Sane
    BY <1>3 DEF Crash, Sane, OneCrash, IInv, TypeOK
  <2> QED  BY <1>3, <2>1, CrashStays
<1>4. ASSUME NEW p \in Proc,
             \/ \E j \in Jobs : Begin(p, j)
             \/ CheckTarget(p) \/ CheckPrev(p)
             \/ Grab(p) \/ Busy(p) \/ Unlock(p) \/ Finish(p)
             \/ Read(p) \/ WriteTmp(p) \/ FirstPublish(p) \/ Replace(p)
      PROVE  Tidy' /\ \A q \in Proc : Ready(q)'
  <2>1. crashes' = crashes /\ deleted' = deleted
    BY <1>4 DEF Begin, CheckTarget, CheckPrev, Grab, Busy, Unlock, Finish, Read, ReadTarget, ReadPrev, WriteTmp,
                FirstPublish, FirstPrev, FirstLink, Replace, Probe, Restore, DropPrev, MoveAside, LinkNew,
                PutBack, DropBack, Cleanup
  <2>2. Sane
    BY <2>1 DEF Sane, OneCrash
  <2> QED  BY <1>4, <2>2, OutsideLockStays, ReadingStays, FirstPublishStays, ReplaceStays
<1> QED  BY <1>1, <1>2, <1>3, <1>4 DEF Next

\* "A crash never locks the user out": of one crash, at any step of any of any number of
\* processes, it is true, whatever the user deletes, if file operations do not fail. The
\* run ConfigDoubleCrash shows that it is not true of two.
THEOREM OneCrashNeverLocksOut ==
    ASSUME "io" \notin Faults
    PROVE  Spec => [](crashes <= 1 => CrashNeverLocksOut)
<1>1. Init => OneCrash
  BY DEF Init, OneCrash, Tidy, Ready
<1>2. IInv /\ OneCrash /\ [Next]_vars => OneCrash'
  BY OneCrashStep
<1>3. OneCrash => (crashes <= 1 => CrashNeverLocksOut)
  BY DEF OneCrash, Ready, CrashNeverLocksOut
<1> QED  BY <1>1, <1>2, <1>3, Invariance, PTL DEF Spec
=============================================================================
