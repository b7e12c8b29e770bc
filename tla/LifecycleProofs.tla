-------------------------- MODULE LifecycleProofs --------------------------
EXTENDS Lifecycle, TLAPS

USE RouteAssumption, SecretAssumption

\* A command that ends leaves the invariant intact, whatever its last step did to
\* the stores while it held the lock.
LEMMA Ending ==
    ASSUME IInv, NEW p \in Proc, NEW o \in Outcomes, Quit(p, o), raced' = raced \ {p},
           told' \subseteq Route, silent' \subseteq Route,
           vault' \in [Route -> Secret \cup {NoSecret}],
           exists' \in BOOLEAN, rows' \subseteq Route, cached' \subseteq Route,
           owners = {p} \/ (vault' = vault /\ rows' = rows)
    PROVE  IInv'
<1> USE DEF IInv
<1>1. TypeOK'
  BY DEF TypeOK, Quit, Goto, LetGo, Places, Commands
<1>a. owners = {} \/ \E q \in Proc : owners = {q}
  BY DEF TypeOK, OneHolder
<1>b. owners' = owners \ {p} /\ pc' = [pc EXCEPT ![p] = "idle"]
  BY DEF Quit, Goto, LetGo
<1>2. LockHeld' /\ OneHolder'
  <2>1. OneHolder'
    BY <1>b DEF OneHolder
  <2>2. ASSUME NEW q \in Proc
        PROVE  pc'[q] \in Locked <=> owners' = {q}
    <3>1. CASE q = p
      BY <1>b, <3>1 DEF TypeOK, Locked, Persisting, Removing
    <3>2. CASE q # p
      <4>1. pc'[q] = pc[q] BY <1>b, <3>2 DEF TypeOK
      <4>2. owners = {q} <=> owners' = {q} BY <1>a, <1>b, <3>2
      <4> QED BY <4>1, <4>2 DEF LockHeld
    <3> QED BY <3>1, <3>2
  <2> QED BY <2>1, <2>2 DEF LockHeld
<1>c. ASSUME NEW q \in Proc, q # p
      PROVE  /\ pc'[q] = pc[q] /\ route'[q] = route[q] /\ key'[q] = key[q] /\ cmd'[q] = cmd[q]
             /\ prior'[q] = prior[q] /\ had'[q] = had[q] /\ before'[q] = before[q]
             /\ todo'[q] = todo[q] /\ (q \in raced' <=> q \in raced)
  BY <1>c DEF TypeOK, Quit, Goto
<1>d. pc'[p] = "idle"
  BY <1>b DEF TypeOK
<1>e. ASSUME NEW q \in Proc, pc'[q] \in Locked
      PROVE  q # p /\ vault' = vault /\ rows' = rows
  <2>1. q # p BY <1>d, <1>e DEF Locked, Persisting, Removing
  <2>2. owners = {q} BY <2>1, <1>c, <1>e DEF LockHeld
  <2> QED BY <2>1, <2>2
<1>3. InputsKept'
  BY <1>c, <1>d DEF InputsKept, HasInputs, Persisting, Removing
<1>4. RowsGrounded'
  BY <1>c, <1>e DEF RowsGrounded, RowGrounded, Locked
<1>5. CredentialKnown'
  <2> SUFFICES ASSUME NEW q \in Proc PROVE (q \in raced \/ Knows(q))'
    BY DEF CredentialKnown
  <2>1. CASE pc'[q] \in Locked
    BY <1>c, <1>e, <2>1 DEF CredentialKnown, Knows
  <2>2. CASE pc'[q] \notin Locked
    BY <2>2 DEF Knows, Locked, Persisting, Removing
  <2> QED BY <2>1, <2>2
<1>6. EntryGone'
  <2> SUFFICES ASSUME NEW q \in Proc PROVE PastEntry(q)'
    BY DEF EntryGone
  <2>1. CASE pc'[q] \in Locked
    BY <1>c, <1>e, <2>1 DEF EntryGone, PastEntry
  <2>2. CASE pc'[q] \notin Locked
    BY <2>2 DEF PastEntry, Locked, Removing
  <2> QED BY <2>1, <2>2
<1> QED BY <1>1, <1>2, <1>3, <1>4, <1>5, <1>6

\* A step of p leaves the other processes where they are.
OthersRest(p) == \A q \in Proc \ {p} :
    /\ pc'[q] = pc[q] /\ route'[q] = route[q] /\ key'[q] = key[q] /\ cmd'[q] = cmd[q]
    /\ prior'[q] = prior[q] /\ had'[q] = had[q] /\ before'[q] = before[q]
    /\ todo'[q] = todo[q] /\ (q \in raced => q \in raced')

\* The lock changes hands only with the place of p.
LockMoves(p) ==
    \/ owners' = owners /\ (pc[p] \in Locked <=> pc'[p] \in Locked)
    \/ owners = {} /\ owners' = {p} /\ pc'[p] \in Locked
    \/ owners' = owners \ {p} /\ pc'[p] \notin Locked

\* Without the lock, p changes nothing but a credential, and races its rivals.
StoresMove(p) ==
    \/ owners = {p}
    \/ /\ rows' = rows
       /\ \/ vault' = vault
          \/ /\ vault' = [vault EXCEPT ![route[p]] = key[p]] /\ key[p] # NoSecret
             /\ Rivals(p) \subseteq raced'

\* A command that goes on leaves the invariant intact, if its own part of it holds
\* at its new place.
LEMMA Moving ==
    ASSUME IInv, NEW p \in Proc, OthersRest(p), LockMoves(p), StoresMove(p), TypeOK',
           HasInputs(p)', RowGrounded(p)', (p \in raced \/ Knows(p))', PastEntry(p)'
    PROVE  IInv'
<1> USE DEF IInv
<1>1. owners = {} \/ \E q \in Proc : owners = {q}
  BY DEF TypeOK, OneHolder
<1>2. OneHolder'
  BY <1>1 DEF LockMoves, OneHolder
<1>3. LockHeld'
  <2>1. ASSUME NEW q \in Proc, q # p PROVE pc'[q] \in Locked <=> owners' = {q}
    <3>1. pc'[q] = pc[q] BY <2>1 DEF OthersRest
    <3>2. owners = {q} <=> owners' = {q} 
      <4>1. CASE owners' = owners BY <4>1
      <4>2. CASE owners = {} /\ owners' = {p} BY <4>2, <2>1
      <4>3. CASE owners' = owners \ {p} BY <4>3, <1>1, <2>1
      <4> QED BY <4>1, <4>2, <4>3 DEF LockMoves
    <3> QED BY <3>1, <3>2 DEF LockHeld
  <2>2. pc'[p] \in Locked <=> owners' = {p}
    <3>1. CASE owners' = owners /\ (pc[p] \in Locked <=> pc'[p] \in Locked)
      BY <3>1 DEF LockHeld
    <3>2. CASE owners = {} /\ owners' = {p} /\ pc'[p] \in Locked BY <3>2
    <3>3. CASE owners' = owners \ {p} /\ pc'[p] \notin Locked BY <3>3
    <3> QED BY <3>1, <3>2, <3>3 DEF LockMoves
  <2> QED BY <2>1, <2>2 DEF LockHeld
<1>4. ASSUME NEW q \in Proc, q # p, pc[q] \in Locked
      PROVE  /\ q \in owners /\ rows' = rows
             /\ \A r \in Route : vault[r] # NoSecret => vault'[r] # NoSecret
             /\ q \in raced' \/ route[q] \notin Route \/ vault'[route[q]] = vault[route[q]]
  <2>1. owners = {q} /\ owners # {p} BY <1>4 DEF LockHeld
  <2>2. rows' = rows BY <2>1 DEF StoresMove
  <2>3. CASE vault' = vault BY <2>1, <2>2, <2>3
  <2>4. CASE vault' = [vault EXCEPT ![route[p]] = key[p]] /\ key[p] # NoSecret /\ Rivals(p) \subseteq raced'
    <3>1. \A r \in Route : vault[r] # NoSecret => vault'[r] # NoSecret
      BY <2>4 DEF TypeOK
    <3>2. CASE route[q] = route[p]
      <4>1. q \in Rivals(p) BY <2>1, <1>4, <3>2 DEF Rivals
      <4> QED BY <4>1, <2>1, <2>2, <2>4, <3>1
    <3>3. CASE route[q] # route[p]
      <4>1. route[q] \in Route => vault'[route[q]] = vault[route[q]]
        BY <2>4, <3>3 DEF TypeOK
      <4> QED BY <4>1, <2>1, <2>2, <3>1
    <3> QED BY <3>2, <3>3
  <2> QED BY <2>1, <2>3, <2>4 DEF StoresMove
<1>5. InputsKept'
  BY DEF OthersRest, InputsKept, HasInputs
<1>6. RowsGrounded'
  <2>1. ASSUME NEW q \in Proc, q # p PROVE RowGrounded(q)'
    <3>1. CASE pc[q] \in Locked
      BY <1>4, <2>1, <3>1 DEF OthersRest, RowsGrounded, RowGrounded, InputsKept, HasInputs, TypeOK
    <3>2. CASE pc[q] \notin Locked
      BY <2>1, <3>2 DEF OthersRest, RowGrounded, Locked
    <3> QED BY <3>1, <3>2
  <2> QED BY <2>1 DEF RowsGrounded
<1>7. CredentialKnown'
  <2>1. ASSUME NEW q \in Proc, q # p PROVE (q \in raced \/ Knows(q))'
    <3>1. CASE pc[q] \in Locked /\ q \notin raced'
      <4>1. Knows(q) BY <2>1, <3>1 DEF OthersRest, CredentialKnown
      <4>2. route[q] \in Route => vault'[route[q]] = vault[route[q]] BY <1>4, <2>1, <3>1
      <4>3. pc[q] \in {"check", "probe"} \cup Persisting \cup Removing => route[q] \in Route
        BY DEF InputsKept, HasInputs
      <4> QED BY <2>1, <4>1, <4>2, <4>3 DEF OthersRest, Knows, Persisting, Removing
    <3>2. CASE pc[q] \notin Locked
      BY <2>1, <3>2 DEF OthersRest, Knows, Locked, Persisting, Removing
    <3> QED BY <3>1, <3>2
  <2> QED BY <2>1 DEF CredentialKnown
<1>8. EntryGone'
  <2>1. ASSUME NEW q \in Proc, q # p PROVE PastEntry(q)'
    <3>1. CASE pc[q] \in Locked
      BY <1>4, <2>1, <3>1 DEF OthersRest, EntryGone, PastEntry
    <3>2. CASE pc[q] \notin Locked
      BY <2>1, <3>2 DEF OthersRest, PastEntry, Locked, Removing
    <3> QED BY <3>1, <3>2
  <2> QED BY <2>1 DEF EntryGone
<1> QED BY <1>2, <1>3, <1>5, <1>6, <1>7, <1>8

\* The presence check of the migration.
LEMMA MigrateCheckKeeps ==
    ASSUME IInv, NEW p \in Proc, MigrateCheck(p)
    PROVE  IInv'
<1>1. CASE MigrateCheck(p)
  <2> USE <1>1 DEF Goto, Keep, stores, Unlocked, Plain, Quiet, history, local
  <2>1. TypeOK'
    BY DEF IInv, TypeOK, Places, Commands, Outcomes, MigrateCheck
  <2>2. OthersRest(p)
    BY DEF OthersRest, IInv, TypeOK, MigrateCheck
  <2>3. LockMoves(p)
    BY DEF LockMoves, Locked, Persisting, Removing, IInv, TypeOK, MigrateCheck
  <2>4. StoresMove(p)
    BY DEF StoresMove, MigrateCheck
  <2>5. HasInputs(p)' /\ RowGrounded(p)' /\ (p \in raced \/ Knows(p))' /\ PastEntry(p)'
    BY DEF HasInputs, RowGrounded, Knows, PastEntry, Persisting, Removing, IInv, TypeOK, MigrateCheck, InputsKept, RowsGrounded, CredentialKnown, EntryGone
  <2> QED BY <2>1, <2>2, <2>3, <2>4, <2>5, Moving
<1> QED BY <1>1 DEF MigrateCheck, Outcomes

\* The migration takes the lock, or is refused.
LEMMA MigrateLockKeeps ==
    ASSUME IInv, NEW p \in Proc, MigrateLock(p)
    PROVE  IInv'
<1>1. CASE pc[p] = "migrate" /\ Keep /\ Enter(p) /\ Goto(p, "probeAll") /\ Plain /\ UNCHANGED local
  <2> USE <1>1 DEF Goto, Keep, stores, Unlocked, Plain, Quiet, history, local
  <2>1. TypeOK'
    BY DEF IInv, TypeOK, Places, Commands, Outcomes, Enter, Lock!Acquire
  <2>2. OthersRest(p)
    BY DEF OthersRest, IInv, TypeOK
  <2>3. LockMoves(p)
    BY DEF LockMoves, Locked, Persisting, Removing, IInv, TypeOK, Enter, Lock!Acquire
  <2>4. StoresMove(p)
    BY DEF StoresMove
  <2>5. HasInputs(p)' /\ RowGrounded(p)' /\ (p \in raced \/ Knows(p))' /\ PastEntry(p)'
    BY DEF HasInputs, RowGrounded, Knows, PastEntry, Persisting, Removing, IInv, TypeOK, InputsKept, RowsGrounded, CredentialKnown, EntryGone, Enter, Lock!Acquire
  <2> QED BY <2>1, <2>2, <2>3, <2>4, <2>5, Moving
<1>2. ASSUME NEW o \in Outcomes, End(p, o), Keep, pc[p] # "idle"
      PROVE  IInv'
  BY <1>2, Ending DEF End, Note, IInv, TypeOK, Keep, stores
<1> QED BY <1>1, <1>2 DEF MigrateLock, Outcomes

\* The migration probes the vault.
LEMMA MigrateProbeKeeps ==
    ASSUME IInv, NEW p \in Proc, MigrateProbe(p)
    PROVE  IInv'
<1>1. CASE /\ pc[p] = "probeAll" /\ Keep
             /\ todo' = [todo EXCEPT ![p] = {r \in Shipped : vault[r] # NoSecret}]
             /\ Goto(p, "publish")
             /\ Unlocked /\ Plain /\ UNCHANGED <<cmd, route, key, prior, had>>
  <2> USE <1>1 DEF Goto, Keep, stores, Unlocked, Plain, Quiet, history, local
  <2>1. TypeOK'
    BY DEF IInv, TypeOK, Places, Commands, Outcomes
  <2>2. OthersRest(p)
    BY DEF OthersRest, IInv, TypeOK
  <2>3. LockMoves(p)
    BY DEF LockMoves, Locked, Persisting, Removing, IInv, TypeOK
  <2>4. StoresMove(p)
    BY DEF StoresMove
  <2>5. HasInputs(p)' /\ RowGrounded(p)' /\ (p \in raced \/ Knows(p))' /\ PastEntry(p)'
    BY DEF HasInputs, RowGrounded, Knows, PastEntry, Persisting, Removing, IInv, TypeOK, InputsKept, RowsGrounded, CredentialKnown, EntryGone
  <2> QED BY <2>1, <2>2, <2>3, <2>4, <2>5, Moving
<1>2. ASSUME NEW o \in Outcomes, End(p, o), Keep, pc[p] # "idle"
      PROVE  IInv'
  BY <1>2, Ending DEF End, Note, IInv, TypeOK, Keep, stores
<1> QED BY <1>1, <1>2 DEF MigrateProbe, Outcomes

\* The migration publishes the first document, or fails.
LEMMA MigratePublishKeeps ==
    ASSUME IInv, NEW p \in Proc, MigratePublish(p)
    PROVE  IInv'
<1>1. owners = {p}
  BY DEF MigratePublish, IInv, LockHeld, Locked
<1>2. PICK o \in Outcomes : End(p, o)
  BY DEF MigratePublish, Outcomes
<1>3. vault' = vault /\ exists' \in BOOLEAN /\ rows' \subseteq Route /\ cached' \subseteq Route
  BY DEF MigratePublish, IInv, TypeOK, Keep, stores
<1> QED BY <1>1, <1>2, <1>3, Ending DEF End, Note, IInv, TypeOK

\* A command that stores a credential begins.
LEMMA BeginStoreKeeps ==
    ASSUME IInv, NEW p \in Proc, NEW c \in {"store", "form"}, NEW r \in Route, NEW k \in Secret, BeginStore(p, c, r, k)
    PROVE  IInv'
<1> USE DEF BeginStore, Goto, Keep, stores, Unlocked, Plain, Quiet, history, local
<1>1. TypeOK'
  BY DEF IInv, TypeOK, Places, Commands, Outcomes
<1>2. OthersRest(p)
  BY DEF OthersRest, IInv, TypeOK
<1>3. LockMoves(p)
  BY DEF LockMoves, Locked, Persisting, Removing, IInv, TypeOK, Enter, Lock!Acquire
<1>4. StoresMove(p)
  BY DEF StoresMove
<1>5. HasInputs(p)' /\ RowGrounded(p)' /\ (p \in raced \/ Knows(p))' /\ PastEntry(p)'
  BY DEF HasInputs, RowGrounded, Knows, PastEntry, Persisting, Removing, IInv, TypeOK
<1> QED BY <1>1, <1>2, <1>3, <1>4, <1>5, Moving

\* A command of the lifecycle begins.
LEMMA BeginLockedKeeps ==
    ASSUME IInv, NEW p \in Proc, NEW c \in {"add", "update", "remove"}, NEW r \in Route,
           NEW k \in Secret \cup {NoSecret}, BeginLocked(p, c, r, k)
    PROVE  IInv'
<1> USE DEF BeginLocked, Goto, Keep, stores, Unlocked, Plain, Quiet, history, local
<1>1. TypeOK'
  BY DEF IInv, TypeOK, Places, Commands, Outcomes, Enter, Lock!Acquire
<1>2. OthersRest(p)
  BY DEF OthersRest, IInv, TypeOK
<1>3. LockMoves(p)
  BY DEF LockMoves, Locked, Persisting, Removing, IInv, TypeOK, Enter, Lock!Acquire
<1>4. StoresMove(p)
  BY DEF StoresMove
<1>5. HasInputs(p)' /\ RowGrounded(p)' /\ (p \in raced \/ Knows(p))' /\ PastEntry(p)'
  BY DEF HasInputs, RowGrounded, Knows, PastEntry, Persisting, Removing, IInv, TypeOK
<1> QED BY <1>1, <1>2, <1>3, <1>4, <1>5, Moving

\* A repair begins.
LEMMA BeginRepairKeeps ==
    ASSUME IInv, NEW p \in Proc, BeginRepair(p)
    PROVE  IInv'
<1> USE DEF BeginRepair, Goto, Keep, stores, Unlocked, Plain, Quiet, history, local
<1>0. PICK seen \in SUBSET Shipped : todo' = [todo EXCEPT ![p] = seen]
  OBVIOUS
<1>1. TypeOK'
  <2>1. todo' \in [Proc -> SUBSET Route]
    <3>1. seen \in SUBSET Route OBVIOUS
    <3> QED BY <3>1, <1>0 DEF IInv, TypeOK
  <2> QED BY <2>1 DEF IInv, TypeOK, Places, Commands, Outcomes
<1>2. OthersRest(p)
  BY DEF OthersRest, IInv, TypeOK
<1>3. LockMoves(p)
  BY DEF LockMoves, Locked, Persisting, Removing, IInv, TypeOK, Enter, Lock!Acquire
<1>4. StoresMove(p)
  BY DEF StoresMove
<1>5. HasInputs(p)' /\ RowGrounded(p)' /\ (p \in raced \/ Knows(p))' /\ PastEntry(p)'
  BY DEF HasInputs, RowGrounded, Knows, PastEntry, Persisting, Removing, IInv, TypeOK
<1> QED BY <1>1, <1>2, <1>3, <1>4, <1>5, Moving

\* A credential is stored without the lock.
LEMMA StoreVaultKeeps ==
    ASSUME IInv, NEW p \in Proc, StoreVault(p)
    PROVE  IInv'
<1>1. CASE StoreVault(p) /\ route[p] \in Shipped
  <2> USE <1>1 DEF Goto, Keep, stores, Unlocked, Plain, Quiet, history, local
  <2>1. TypeOK'
    BY DEF IInv, TypeOK, Places, Commands, Outcomes, StoreVault, Note, Rivals
  <2>2. OthersRest(p)
    BY DEF OthersRest, IInv, TypeOK, StoreVault
  <2>3. LockMoves(p)
    BY DEF LockMoves, Locked, Persisting, Removing, IInv, TypeOK, StoreVault
  <2>4. StoresMove(p)
    BY DEF StoresMove, StoreVault, IInv, InputsKept, HasInputs
  <2>5. HasInputs(p)' /\ RowGrounded(p)' /\ (p \in raced \/ Knows(p))' /\ PastEntry(p)'
    BY DEF HasInputs, RowGrounded, Knows, PastEntry, Persisting, Removing, IInv, TypeOK, StoreVault, InputsKept
  <2> QED BY <2>1, <2>2, <2>3, <2>4, <2>5, Moving
<1>2. CASE StoreVault(p) /\ route[p] \notin Shipped
  <2> USE <1>2 DEF Goto, Keep, stores, Unlocked, Plain, Quiet, history, local
  <2>1. TypeOK'
    <3>1. vault' = [vault EXCEPT ![route[p]] = key[p]] /\ key[p] \in Secret \cup {NoSecret}
      BY DEF StoreVault, IInv, TypeOK
    <3>6. vault' \in [Route -> Secret \cup {NoSecret}]
      BY <3>1 DEF IInv, TypeOK
    <3>7. told' \subseteq Route /\ silent' \subseteq Route
      BY DEF StoreVault, Note
    <3>8. Quit(p, "stored")
      BY DEF StoreVault
    <3>2. pc' \in [Proc -> Places] /\ out' \in Outcomes
      BY DEF StoreVault, Quit, IInv, TypeOK, Places, Outcomes
    <3>3. owners' \subseteq Proc /\ raced' \subseteq Proc
      BY DEF StoreVault, Quit, LetGo, Rivals, IInv, TypeOK
    <3>4. /\ cmd' \in [Proc -> Commands \cup {"none"}]
          /\ route' \in [Proc -> Route \cup {NoRoute}]
          /\ had' \in [Proc -> BOOLEAN] /\ todo' \in [Proc -> SUBSET Route]
      BY <3>8 DEF Quit, IInv, TypeOK
    <3>9. /\ key' \in [Proc -> Secret \cup {NoSecret}] /\ prior' \in [Proc -> Secret \cup {NoSecret}]
          /\ before' \in [Proc -> Secret \cup {NoSecret}]
      BY <3>8 DEF Quit, IInv, TypeOK
    <3>5. exists' \in BOOLEAN /\ rows' \subseteq Route /\ cached' \subseteq Route
      BY DEF StoreVault, IInv, TypeOK
    <3> QED BY <3>2, <3>3, <3>4, <3>5, <3>6, <3>7, <3>9 DEF TypeOK
  <2>2. OthersRest(p)
    BY DEF OthersRest, IInv, TypeOK, StoreVault, Quit
  <2>3. LockMoves(p)
    BY DEF LockMoves, Locked, Persisting, Removing, IInv, TypeOK, StoreVault, Quit, LetGo
  <2>4. StoresMove(p)
    BY DEF StoresMove, StoreVault, IInv, InputsKept, HasInputs
  <2>5. HasInputs(p)' /\ RowGrounded(p)' /\ (p \in raced \/ Knows(p))' /\ PastEntry(p)'
    BY DEF HasInputs, RowGrounded, Knows, PastEntry, Persisting, Removing, IInv, TypeOK, StoreVault, Quit, InputsKept
  <2> QED BY <2>1, <2>2, <2>3, <2>4, <2>5, Moving
<1> QED BY <1>1, <1>2 DEF StoreVault, Outcomes

\* A credential cannot be stored.
LEMMA StoreFailsKeeps ==
    ASSUME IInv, NEW p \in Proc, StoreFails(p)
    PROVE  IInv'
BY Ending DEF StoreFails, End, Note, Outcomes, IInv, TypeOK, Keep, stores

\* The attempt to add a row is over, with or without one.
LEMMA AfterRowKeeps ==
    ASSUME IInv, NEW p \in Proc, AfterRow(p), pc[p] \in {"rowLock", "rowProbe", "rowWrite"},
           vault' = vault, exists' \in BOOLEAN, rows' \subseteq Route, cached' \subseteq Route,
           owners = {p} \/ rows' = rows
    PROVE  IInv'
<1>1. CASE cmd[p] = "form"
  BY <1>1, Ending DEF AfterRow, End, Note, Outcomes, IInv, TypeOK
<1>2. CASE cmd[p] # "form"
  <2> USE <1>2 DEF AfterRow, Goto, LetGo, Quiet, local
  <2>1. TypeOK'
    BY DEF Note, IInv, TypeOK, Places, Outcomes
  <2>2. OthersRest(p)
    BY DEF OthersRest, IInv, TypeOK
  <2>3. LockMoves(p)
    BY DEF LockMoves, Locked, Persisting, Removing, IInv, TypeOK
  <2>4. StoresMove(p)
    BY DEF StoresMove
  <2>5. HasInputs(p)' /\ RowGrounded(p)' /\ (p \in raced \/ Knows(p))' /\ PastEntry(p)'
    BY DEF HasInputs, RowGrounded, Knows, PastEntry, Persisting, Removing, IInv, TypeOK
  <2> QED BY <2>1, <2>2, <2>3, <2>4, <2>5, Moving
<1> QED BY <1>1, <1>2

\* The lock for a row, taken or refused.
LEMMA RowLockKeeps ==
    ASSUME IInv, NEW p \in Proc, RowLock(p)
    PROVE  IInv'
<1>1. CASE pc[p] = "rowLock" /\ Keep /\ Enter(p) /\ Goto(p, "rowProbe") /\ Plain /\ UNCHANGED local
  <2> USE <1>1 DEF Goto, Keep, stores, Unlocked, Plain, Quiet, history, local
  <2>1. TypeOK'
    BY DEF IInv, TypeOK, Places, Commands, Outcomes, Enter, Lock!Acquire
  <2>2. OthersRest(p)
    BY DEF OthersRest, IInv, TypeOK
  <2>3. LockMoves(p)
    BY DEF LockMoves, Locked, Persisting, Removing, IInv, TypeOK, Enter, Lock!Acquire
  <2>4. StoresMove(p)
    BY DEF StoresMove
  <2>5. HasInputs(p)' /\ RowGrounded(p)' /\ (p \in raced \/ Knows(p))' /\ PastEntry(p)'
    BY DEF HasInputs, RowGrounded, Knows, PastEntry, Persisting, Removing, IInv, TypeOK, InputsKept, RowsGrounded, CredentialKnown, EntryGone, Enter, Lock!Acquire
  <2> QED BY <2>1, <2>2, <2>3, <2>4, <2>5, Moving
<1>2. CASE pc[p] = "rowLock" /\ Keep /\ AfterRow(p)
  BY <1>2, AfterRowKeeps DEF Keep, stores, IInv, TypeOK
<1> QED BY <1>1, <1>2 DEF RowLock

\* The credential is looked for inside the lock.
LEMMA RowProbeKeeps ==
    ASSUME IInv, NEW p \in Proc, RowProbe(p)
    PROVE  IInv'
<1>1. CASE /\ pc[p] = "rowProbe" /\ Keep /\ vault[route[p]] # NoSecret
             /\ Goto(p, "rowWrite") /\ Unlocked /\ Plain /\ UNCHANGED local
  <2> USE <1>1 DEF Goto, Keep, stores, Unlocked, Plain, Quiet, history, local
  <2>1. TypeOK'
    BY DEF IInv, TypeOK, Places, Commands, Outcomes
  <2>2. OthersRest(p)
    BY DEF OthersRest, IInv, TypeOK
  <2>3. LockMoves(p)
    BY DEF LockMoves, Locked, Persisting, Removing, IInv, TypeOK
  <2>4. StoresMove(p)
    BY DEF StoresMove
  <2>5. HasInputs(p)' /\ RowGrounded(p)' /\ (p \in raced \/ Knows(p))' /\ PastEntry(p)'
    BY DEF HasInputs, RowGrounded, Knows, PastEntry, Persisting, Removing, IInv, TypeOK, InputsKept, RowsGrounded, CredentialKnown, EntryGone
  <2> QED BY <2>1, <2>2, <2>3, <2>4, <2>5, Moving
<1>2. CASE pc[p] = "rowProbe" /\ Keep /\ AfterRow(p)
  BY <1>2, AfterRowKeeps DEF Keep, stores, IInv, TypeOK
<1> QED BY <1>1, <1>2 DEF RowProbe

\* The row is added, or not.
LEMMA RowWriteKeeps ==
    ASSUME IInv, NEW p \in Proc, RowWrite(p)
    PROVE  IInv'
<1>1. owners = {p} /\ route[p] \in Route
  BY DEF RowWrite, IInv, LockHeld, Locked, InputsKept, HasInputs
<1> QED BY <1>1, AfterRowKeeps DEF RowWrite, IInv, TypeOK, Keep, stores

\* The command reads its result off the document.
LEMMA VerifyKeeps ==
    ASSUME IInv, NEW p \in Proc, Verify(p)
    PROVE  IInv'
BY Ending DEF Verify, End, Note, Outcomes, IInv, TypeOK, Keep, stores

\* The repair turns to its next route.
LEMMA NextRowKeeps ==
    ASSUME IInv, NEW p \in Proc, NextRow(p)
    PROVE  IInv'
<1>1. ASSUME NEW r \in todo[p], route' = [route EXCEPT ![p] = r],
             todo' = [todo EXCEPT ![p] = @ \ {r}], Goto(p, "rowLock")
      PROVE  IInv'
  <2>a. r \in Route /\ todo[p] \ {r} \in SUBSET Route BY DEF IInv, TypeOK
  <2> USE <1>1 DEF Goto, Keep, stores, Unlocked, Plain, Quiet, history, local
  <2>1. TypeOK'
    BY <2>a DEF IInv, TypeOK, Places, Commands, Outcomes, NextRow
  <2>2. OthersRest(p)
    BY DEF OthersRest, IInv, TypeOK, NextRow
  <2>3. LockMoves(p)
    BY DEF LockMoves, Locked, Persisting, Removing, IInv, TypeOK, NextRow
  <2>4. StoresMove(p)
    BY DEF StoresMove, NextRow
  <2>5. HasInputs(p)' /\ RowGrounded(p)' /\ (p \in raced \/ Knows(p))' /\ PastEntry(p)'
    BY <2>a DEF HasInputs, RowGrounded, Knows, PastEntry, Persisting, Removing, IInv, TypeOK, NextRow, InputsKept, RowsGrounded, CredentialKnown, EntryGone
  <2> QED BY <2>1, <2>2, <2>3, <2>4, <2>5, Moving
<1>2. CASE todo[p] = {} /\ route' = [route EXCEPT ![p] = NoRoute] /\ Goto(p, "recheck") /\ UNCHANGED todo
  <2> USE <1>2 DEF Goto, Keep, stores, Unlocked, Plain, Quiet, history, local
  <2>1. TypeOK'
    BY DEF IInv, TypeOK, Places, Commands, Outcomes, NextRow
  <2>2. OthersRest(p)
    BY DEF OthersRest, IInv, TypeOK, NextRow
  <2>3. LockMoves(p)
    BY DEF LockMoves, Locked, Persisting, Removing, IInv, TypeOK, NextRow
  <2>4. StoresMove(p)
    BY DEF StoresMove, NextRow
  <2>5. HasInputs(p)' /\ RowGrounded(p)' /\ (p \in raced \/ Knows(p))' /\ PastEntry(p)'
    BY DEF HasInputs, RowGrounded, Knows, PastEntry, Persisting, Removing, IInv, TypeOK, NextRow, InputsKept, RowsGrounded, CredentialKnown, EntryGone
  <2> QED BY <2>1, <2>2, <2>3, <2>4, <2>5, Moving
<1> QED BY <1>1, <1>2 DEF NextRow

\* The repair looks again.
LEMMA RecheckKeeps ==
    ASSUME IInv, NEW p \in Proc, Recheck(p)
    PROVE  IInv'
<1>1. PICK seen \in SUBSET Shipped, o \in Outcomes : Quit(p, o) /\ Note(seen, {})
  BY DEF Recheck, Outcomes
<1> QED BY <1>1, Ending DEF Recheck, Note, IInv, TypeOK, Keep, stores

\* An add looks at what there is.
LEMMA AddCheckKeeps ==
    ASSUME IInv, NEW p \in Proc, AddCheck(p)
    PROVE  IInv'
<1>1. CASE /\ pc[p] = "check" /\ Keep /\ cmd[p] = "add"
             /\ Goto(p, "probe") /\ Unlocked /\ Plain /\ UNCHANGED local
  <2> USE <1>1 DEF Goto, Keep, stores, Unlocked, Plain, Quiet, history, local
  <2>1. TypeOK'
    BY DEF IInv, TypeOK, Places, Commands, Outcomes
  <2>2. OthersRest(p)
    BY DEF OthersRest, IInv, TypeOK
  <2>3. LockMoves(p)
    BY DEF LockMoves, Locked, Persisting, Removing, IInv, TypeOK
  <2>4. StoresMove(p)
    BY DEF StoresMove
  <2>5. HasInputs(p)' /\ RowGrounded(p)' /\ (p \in raced \/ Knows(p))' /\ PastEntry(p)'
    BY DEF HasInputs, RowGrounded, Knows, PastEntry, Persisting, Removing, IInv, TypeOK, InputsKept, RowsGrounded, CredentialKnown, EntryGone
  <2> QED BY <2>1, <2>2, <2>3, <2>4, <2>5, Moving
<1>2. ASSUME NEW o \in Outcomes, End(p, o), Keep, pc[p] # "idle"
      PROVE  IInv'
  BY <1>2, Ending DEF End, Note, IInv, TypeOK, Keep, stores
<1> QED BY <1>1, <1>2 DEF AddCheck, Outcomes

\* An update looks at what there is.
LEMMA UpdateCheckKeeps ==
    ASSUME IInv, NEW p \in Proc, UpdateCheck(p)
    PROVE  IInv'
<1>1. ASSUME NEW s \in {vault[route[p]], NoSecret}, pc[p] = "check", cmd[p] = "update", Keep,
             prior' = [prior EXCEPT ![p] = s], had' = [had EXCEPT ![p] = TRUE], Goto(p, "probe"),
             route[p] \in rows, Unlocked, Plain, UNCHANGED <<cmd, route, key, todo>>
      PROVE  IInv'
  <2> USE <1>1 DEF Goto, Keep, stores, Unlocked, Plain, Quiet, history, local
  <2>1. TypeOK'
    BY DEF IInv, TypeOK, Places, Commands, Outcomes
  <2>2. OthersRest(p)
    BY DEF OthersRest, IInv, TypeOK
  <2>3. LockMoves(p)
    BY DEF LockMoves, Locked, Persisting, Removing, IInv, TypeOK
  <2>4. StoresMove(p)
    BY DEF StoresMove
  <2>5. HasInputs(p)' /\ RowGrounded(p)' /\ (p \in raced \/ Knows(p))' /\ PastEntry(p)'
    BY DEF HasInputs, RowGrounded, Knows, PastEntry, Persisting, Removing, IInv, TypeOK, InputsKept, RowsGrounded, CredentialKnown, EntryGone
  <2> QED BY <2>1, <2>2, <2>3, <2>4, <2>5, Moving
<1>2. ASSUME pc[p] = "check", Keep, End(p, "refused")
      PROVE  IInv'
  BY <1>2, Ending DEF End, Note, Outcomes, IInv, TypeOK, Keep, stores
<1> QED BY <1>1, <1>2 DEF UpdateCheck

\* A removal looks at what there is.
LEMMA RemoveCheckKeeps ==
    ASSUME IInv, NEW p \in Proc, RemoveCheck(p)
    PROVE  IInv'
<1>1. CASE /\ pc[p] = "check" /\ Keep /\ cmd[p] = "remove"
             /\ had' = [had EXCEPT ![p] = route[p] \in rows]
             /\ Goto(p, "removeVault")
             /\ Unlocked /\ Plain /\ UNCHANGED <<cmd, route, key, prior, todo>>
  <2> USE <1>1 DEF Goto, Keep, stores, Unlocked, Plain, Quiet, history, local
  <2>1. TypeOK'
    BY DEF IInv, TypeOK, Places, Commands, Outcomes
  <2>2. OthersRest(p)
    BY DEF OthersRest, IInv, TypeOK
  <2>3. LockMoves(p)
    BY DEF LockMoves, Locked, Persisting, Removing, IInv, TypeOK
  <2>4. StoresMove(p)
    BY DEF StoresMove
  <2>5. HasInputs(p)' /\ RowGrounded(p)' /\ (p \in raced \/ Knows(p))' /\ PastEntry(p)'
    <3>1. pc'[p] = "removeVault" /\ cmd'[p] = "remove" /\ route'[p] = route[p] /\ raced' = raced
      BY DEF IInv, TypeOK
    <3>2. rows' = rows /\ (had'[p] <=> route[p] \in rows)
      BY DEF IInv, TypeOK
    <3>3. route[p] \in Route
      BY DEF IInv, InputsKept, HasInputs
    <3>4. HasInputs(p)'
      BY ONLY <3>1, <3>3 DEF HasInputs, Persisting, Removing
    <3>5. RowGrounded(p)'
      BY ONLY <3>1 DEF RowGrounded
    <3>6. (p \in raced \/ Knows(p))'
      BY ONLY <3>1 DEF Knows, Persisting
    <3>7. PastEntry(p)'
      BY ONLY <3>1, <3>2 DEF PastEntry
    <3> QED  BY <3>4, <3>5, <3>6, <3>7
  <2> QED BY <2>1, <2>2, <2>3, <2>4, <2>5, Moving
<1>2. ASSUME NEW o \in Outcomes, End(p, o), Keep, pc[p] # "idle"
      PROVE  IInv'
  BY <1>2, Ending DEF End, Note, IInv, TypeOK, Keep, stores
<1> QED BY <1>1, <1>2 DEF RemoveCheck, Outcomes

\* The provider answers, and the user chooses.
LEMMA ProbeKeeps ==
    ASSUME IInv, NEW p \in Proc, Probe(p)
    PROVE  IInv'
<1>1. CASE /\ pc[p] = "probe" /\ Keep
             /\ Goto(p, IF key[p] # NoSecret THEN "persistVault" ELSE "persistConfig")
             /\ Unlocked /\ Plain /\ UNCHANGED local
  <2> USE <1>1 DEF Goto, Keep, stores, Unlocked, Plain, Quiet, history, local
  <2>1. TypeOK'
    BY DEF IInv, TypeOK, Places, Commands, Outcomes
  <2>2. OthersRest(p)
    BY DEF OthersRest, IInv, TypeOK
  <2>3. LockMoves(p)
    BY DEF LockMoves, Locked, Persisting, Removing, IInv, TypeOK
  <2>4. StoresMove(p)
    BY DEF StoresMove
  <2>5. HasInputs(p)' /\ RowGrounded(p)' /\ (p \in raced \/ Knows(p))' /\ PastEntry(p)'
    BY DEF HasInputs, RowGrounded, Knows, PastEntry, Persisting, Removing, IInv, TypeOK, InputsKept, RowsGrounded, CredentialKnown, EntryGone
  <2> QED BY <2>1, <2>2, <2>3, <2>4, <2>5, Moving
<1>2. CASE /\ pc[p] = "probe" /\ Keep /\ cmd[p] = "update" /\ Goto(p, "removeVault")
             /\ Unlocked /\ Plain /\ UNCHANGED local
  <2> USE <1>2 DEF Goto, Keep, stores, Unlocked, Plain, Quiet, history, local
  <2>1. TypeOK'
    BY DEF IInv, TypeOK, Places, Commands, Outcomes
  <2>2. OthersRest(p)
    BY DEF OthersRest, IInv, TypeOK
  <2>3. LockMoves(p)
    BY DEF LockMoves, Locked, Persisting, Removing, IInv, TypeOK
  <2>4. StoresMove(p)
    BY DEF StoresMove
  <2>5. HasInputs(p)' /\ RowGrounded(p)' /\ (p \in raced \/ Knows(p))' /\ PastEntry(p)'
    BY DEF HasInputs, RowGrounded, Knows, PastEntry, Persisting, Removing, IInv, TypeOK, InputsKept, RowsGrounded, CredentialKnown, EntryGone
  <2> QED BY <2>1, <2>2, <2>3, <2>4, <2>5, Moving
<1>3. ASSUME NEW o \in Outcomes, End(p, o), Keep, pc[p] # "idle"
      PROVE  IInv'
  BY <1>3, Ending DEF End, Note, IInv, TypeOK, Keep, stores
<1> QED BY <1>1, <1>2, <1>3 DEF Probe, Outcomes

\* The credential is written, or nothing is.
LEMMA PersistVaultKeeps ==
    ASSUME IInv, NEW p \in Proc, PersistVault(p)
    PROVE  IInv'
<1>0. owners = {p} BY DEF PersistVault, IInv, LockHeld, Locked, Persisting
<1>1. CASE /\ pc[p] = "persistVault"
             /\ vault' = [vault EXCEPT ![route[p]] = key[p]] /\ UNCHANGED <<exists, rows, cached>>
             /\ Goto(p, "persistConfig") /\ Note({}, {})
             /\ Unlocked /\ Quiet /\ UNCHANGED <<local, before, raced>>
  <2> USE <1>1 DEF Goto, Keep, stores, Unlocked, Plain, Quiet, history, local
  <2>1. TypeOK'
    BY DEF IInv, TypeOK, Places, Commands, Outcomes, InputsKept, HasInputs, Persisting, Note
  <2>2. OthersRest(p)
    BY DEF OthersRest, IInv, TypeOK
  <2>3. LockMoves(p)
    BY DEF LockMoves, Locked, Persisting, Removing, IInv, TypeOK
  <2>4. StoresMove(p)
    BY <1>0 DEF StoresMove
  <2>5. HasInputs(p)' /\ RowGrounded(p)' /\ (p \in raced \/ Knows(p))' /\ PastEntry(p)'
    BY DEF HasInputs, RowGrounded, Knows, PastEntry, Persisting, Removing, IInv, TypeOK, InputsKept, RowsGrounded, CredentialKnown, EntryGone
  <2> QED BY <2>1, <2>2, <2>3, <2>4, <2>5, Moving
<1>2. ASSUME pc[p] = "persistVault", Keep, End(p, "unstored")
      PROVE  IInv'
  BY <1>2, Ending DEF End, Note, Outcomes, IInv, TypeOK, Keep, stores
<1> QED BY <1>1, <1>2 DEF PersistVault

\* The route is configured, or the credential has to go back.
LEMMA PersistConfigKeeps ==
    ASSUME IInv, NEW p \in Proc, PersistConfig(p)
    PROVE  IInv'
<1>0. owners = {p} /\ route[p] \in Route
  BY DEF PersistConfig, IInv, LockHeld, Locked, Persisting, InputsKept, HasInputs
<1>1. CASE /\ pc[p] = "persistConfig"
             /\ rows' = rows \cup {route[p]} /\ UNCHANGED <<vault, exists, cached>>
             /\ Goto(p, "persistCache") /\ Note({}, {})
             /\ Unlocked /\ Quiet /\ UNCHANGED <<local, before, raced>>
  <2> USE <1>1 DEF Goto, Keep, stores, Unlocked, Plain, Quiet, history, local
  <2>1. TypeOK'
    BY <1>0 DEF IInv, TypeOK, Places, Commands, Outcomes, Note
  <2>2. OthersRest(p)
    BY DEF OthersRest, IInv, TypeOK
  <2>3. LockMoves(p)
    BY DEF LockMoves, Locked, Persisting, Removing, IInv, TypeOK
  <2>4. StoresMove(p)
    BY <1>0 DEF StoresMove
  <2>5. HasInputs(p)' /\ RowGrounded(p)' /\ (p \in raced \/ Knows(p))' /\ PastEntry(p)'
    BY <1>0 DEF HasInputs, RowGrounded, Knows, PastEntry, Persisting, Removing, IInv, TypeOK, InputsKept, RowsGrounded, CredentialKnown, EntryGone
  <2> QED BY <2>1, <2>2, <2>3, <2>4, <2>5, Moving
<1>2. CASE /\ pc[p] = "persistConfig" /\ Keep /\ Goto(p, "rollback") /\ Note({}, {})
             /\ Unlocked /\ Quiet /\ UNCHANGED <<local, before, raced>>
  <2> USE <1>2 DEF Goto, Keep, stores, Unlocked, Plain, Quiet, history, local
  <2>1. TypeOK'
    BY DEF IInv, TypeOK, Places, Commands, Outcomes, Note
  <2>2. OthersRest(p)
    BY DEF OthersRest, IInv, TypeOK
  <2>3. LockMoves(p)
    BY DEF LockMoves, Locked, Persisting, Removing, IInv, TypeOK
  <2>4. StoresMove(p)
    BY <1>0 DEF StoresMove
  <2>5. HasInputs(p)' /\ RowGrounded(p)' /\ (p \in raced \/ Knows(p))' /\ PastEntry(p)'
    BY DEF HasInputs, RowGrounded, Knows, PastEntry, Persisting, Removing, IInv, TypeOK, InputsKept, RowsGrounded, CredentialKnown, EntryGone
  <2> QED BY <2>1, <2>2, <2>3, <2>4, <2>5, Moving
<1> QED BY <1>1, <1>2 DEF PersistConfig

\* The credential goes back.
LEMMA RollbackKeeps ==
    ASSUME IInv, NEW p \in Proc, Rollback(p)
    PROVE  IInv'
<1>1. owners = {p} /\ route[p] \in Route
  BY DEF Rollback, IInv, LockHeld, Locked, Persisting, InputsKept, HasInputs
<1>2. PICK o \in Outcomes : End(p, o)
  BY DEF Rollback, Outcomes
<1>3. vault' \in [Route -> Secret \cup {NoSecret}] /\ UNCHANGED <<exists, rows, cached>>
  BY <1>1 DEF Rollback, IInv, TypeOK
<1> QED BY <1>1, <1>2, <1>3, Ending DEF End, Note, IInv, TypeOK

\* The cached observation of the old entry is dropped.
LEMMA PersistCacheKeeps ==
    ASSUME IInv, NEW p \in Proc, PersistCache(p)
    PROVE  IInv'
<1>1. PICK o \in Outcomes : End(p, o) /\ UNCHANGED <<vault, exists, rows>> /\ cached' \subseteq cached
  BY DEF PersistCache, DropCacheRow, Outcomes
<1> QED BY <1>1, Ending DEF End, Note, IInv, TypeOK

\* The cached observation goes last.
LEMMA RemoveCacheKeeps ==
    ASSUME IInv, NEW p \in Proc, RemoveCache(p)
    PROVE  IInv'
<1>1. PICK o \in Outcomes : End(p, o) /\ UNCHANGED <<vault, exists, rows>> /\ cached' \subseteq cached
  BY DEF RemoveCache, DropCacheRow, Outcomes
<1> QED BY <1>1, Ending DEF End, Note, IInv, TypeOK

\* The credential goes first.
LEMMA RemoveVaultKeeps ==
    ASSUME IInv, NEW p \in Proc, RemoveVault(p)
    PROVE  IInv'
<1>0. owners = {p} BY DEF RemoveVault, IInv, LockHeld, Locked, Removing
<1>a. vault' \in [Route -> Secret \cup {NoSecret}] BY DEF RemoveVault, IInv, TypeOK
  <1> USE DEF Goto, Keep, stores, Unlocked, Plain, Quiet, history, local
<1>1. TypeOK'
  BY <1>a DEF IInv, TypeOK, Places, Commands, Outcomes, RemoveVault, Note
<1>2. OthersRest(p)
  BY DEF OthersRest, IInv, TypeOK, RemoveVault
<1>3. LockMoves(p)
  BY DEF LockMoves, Locked, Persisting, Removing, IInv, TypeOK, RemoveVault
<1>4. StoresMove(p)
  BY <1>0 DEF StoresMove
<1>5. HasInputs(p)' /\ RowGrounded(p)' /\ (p \in raced \/ Knows(p))' /\ PastEntry(p)'
  BY <1>a DEF HasInputs, RowGrounded, Knows, PastEntry, Persisting, Removing, IInv, TypeOK, RemoveVault, InputsKept, RowsGrounded, CredentialKnown, EntryGone
<1> QED BY <1>1, <1>2, <1>3, <1>4, <1>5, Moving

\* The removal looks whether the credential is gone.
LEMMA RemoveProbeKeeps ==
    ASSUME IInv, NEW p \in Proc, RemoveProbe(p)
    PROVE  IInv'
<1>1. CASE /\ pc[p] = "removeProbe" /\ Keep /\ vault[route[p]] = NoSecret
             /\ Removed(p) /\ Unlocked /\ Plain /\ UNCHANGED local
  <2> USE <1>1 DEF Goto, Keep, stores, Unlocked, Plain, Quiet, history, local
  <2>1. TypeOK'
    BY DEF IInv, TypeOK, Places, Commands, Outcomes, Removed
  <2>2. OthersRest(p)
    BY DEF OthersRest, IInv, TypeOK, Removed
  <2>3. LockMoves(p)
    BY DEF LockMoves, Locked, Persisting, Removing, IInv, TypeOK, Removed
  <2>4. StoresMove(p)
    BY DEF StoresMove
  <2>5. HasInputs(p)' /\ RowGrounded(p)' /\ (p \in raced \/ Knows(p))' /\ PastEntry(p)'
    BY DEF HasInputs, RowGrounded, Knows, PastEntry, Persisting, Removing, IInv, TypeOK, Removed, InputsKept, RowsGrounded, CredentialKnown, EntryGone
  <2> QED BY <2>1, <2>2, <2>3, <2>4, <2>5, Moving
<1>2. ASSUME NEW o \in Outcomes, End(p, o), Keep, pc[p] # "idle"
      PROVE  IInv'
  BY <1>2, Ending DEF End, Note, IInv, TypeOK, Keep, stores
<1> QED BY <1>1, <1>2 DEF RemoveProbe, Outcomes

\* The entry goes next, or stays without its key.
LEMMA RemoveConfigKeeps ==
    ASSUME IInv, NEW p \in Proc, RemoveConfig(p)
    PROVE  IInv'
<1>0. owners = {p} /\ route[p] \in Route
  BY DEF RemoveConfig, IInv, LockHeld, Locked, Removing, InputsKept, HasInputs
<1>1. CASE /\ pc[p] = "removeConfig"
             /\ rows' = rows \ {route[p]} /\ UNCHANGED <<vault, exists, cached>>
             /\ Goto(p, "removeCache") /\ Note({}, {})
             /\ Unlocked /\ Quiet /\ UNCHANGED <<local, before, raced>>
  <2> USE <1>1 DEF Goto, Keep, stores, Unlocked, Plain, Quiet, history, local
  <2>1. TypeOK'
    BY DEF IInv, TypeOK, Places, Commands, Outcomes, Note
  <2>2. OthersRest(p)
    BY DEF OthersRest, IInv, TypeOK
  <2>3. LockMoves(p)
    BY DEF LockMoves, Locked, Persisting, Removing, IInv, TypeOK
  <2>4. StoresMove(p)
    BY <1>0 DEF StoresMove
  <2>5. HasInputs(p)' /\ RowGrounded(p)' /\ (p \in raced \/ Knows(p))' /\ PastEntry(p)'
    BY DEF HasInputs, RowGrounded, Knows, PastEntry, Persisting, Removing, IInv, TypeOK, InputsKept, RowsGrounded, CredentialKnown, EntryGone
  <2> QED BY <2>1, <2>2, <2>3, <2>4, <2>5, Moving
<1>2. ASSUME pc[p] = "removeConfig", Keep, End(p, "keyless")
      PROVE  IInv'
  BY <1>2, Ending DEF End, Note, Outcomes, IInv, TypeOK, Keep, stores
<1> QED BY <1>1, <1>2 DEF RemoveConfig

\* A process dies.
LEMMA DieKeeps ==
    ASSUME IInv, NEW p \in Proc, Die(p)
    PROVE  IInv'
BY Ending DEF Die, End, Note, Outcomes, IInv, TypeOK, Keep, stores

\* A collection publishes an observation, which no command relies on.
LEMMA ObserveKeeps ==
    ASSUME IInv, NEW r \in Route, Observe(r)
    PROVE  IInv'
<1> USE DEF Observe, Quiet, local, history
<1>1. TypeOK'
  BY DEF IInv, TypeOK, Outcomes
<1> QED BY <1>1 DEF IInv, LockHeld, OneHolder, InputsKept, HasInputs, RowsGrounded, RowGrounded,
                    CredentialKnown, Knows, EntryGone, PastEntry

\* The user deletes the document, and no credential.
LEMMA OutsideKeeps ==
    ASSUME IInv, Outside
    PROVE  IInv'
<1> USE DEF Outside, Quiet, local
<1>1. TypeOK'
  BY DEF IInv, TypeOK, Note, Outcomes
<1>2. LockHeld' /\ OneHolder'
  BY DEF IInv, LockHeld, OneHolder
<1>3. InputsKept' /\ RowsGrounded'
  BY DEF IInv, InputsKept, HasInputs, RowsGrounded, RowGrounded
<1>4. CredentialKnown'
  BY DEF IInv, CredentialKnown, Knows
<1>5. EntryGone'
  BY DEF IInv, EntryGone, PastEntry
<1> QED BY <1>1, <1>2, <1>3, <1>4, <1>5 DEF IInv

\* The first state satisfies the invariant.
LEMMA StartsRight == Init => IInv
<1> SUFFICES ASSUME Init PROVE IInv  OBVIOUS
<1>1. TypeOK /\ LockHeld /\ OneHolder
  BY DEF Init, TypeOK, Places, Commands, Outcomes, LockHeld, OneHolder, Locked, Persisting, Removing
<1>2. \A p \in Proc : pc[p] = "idle"
  BY DEF Init
<1>3. InputsKept /\ RowsGrounded
  BY ONLY <1>2 DEF InputsKept, HasInputs, RowsGrounded, RowGrounded, Persisting, Removing
<1>4. CredentialKnown /\ EntryGone
  BY ONLY <1>2 DEF CredentialKnown, Knows, EntryGone, PastEntry, Persisting, Removing
<1> QED BY <1>1, <1>3, <1>4 DEF IInv

\* Every step keeps it.
LEMMA StepsKeep == IInv /\ [Next]_vars => IInv'
<1> SUFFICES ASSUME IInv, [Next]_vars PROVE IInv' OBVIOUS
<1>1. ASSUME NEW p \in Proc, Begin(p) PROVE IInv'
  BY <1>1, BeginStoreKeeps, BeginLockedKeeps, BeginRepairKeeps DEF Begin
<1>2. ASSUME NEW p \in Proc, Migrate(p) PROVE IInv'
  BY <1>2, MigrateCheckKeeps, MigrateLockKeeps, MigrateProbeKeeps, MigratePublishKeeps DEF Migrate
<1>3. ASSUME NEW p \in Proc, Store(p) PROVE IInv'
  BY <1>3, StoreVaultKeeps, StoreFailsKeeps, RowLockKeeps, RowProbeKeeps, RowWriteKeeps, VerifyKeeps DEF Store
<1>4. ASSUME NEW p \in Proc, Repair(p) PROVE IInv'
  BY <1>4, NextRowKeeps, RecheckKeeps DEF Repair
<1>5. ASSUME NEW p \in Proc, Validate(p) PROVE IInv'
  BY <1>5, AddCheckKeeps, UpdateCheckKeeps, RemoveCheckKeeps, ProbeKeeps DEF Validate
<1>6. ASSUME NEW p \in Proc, Persist(p) PROVE IInv'
  BY <1>6, PersistVaultKeeps, PersistConfigKeeps, RollbackKeeps, PersistCacheKeeps DEF Persist
<1>7. ASSUME NEW p \in Proc, Remove(p) PROVE IInv'
  BY <1>7, RemoveVaultKeeps, RemoveProbeKeeps, RemoveConfigKeeps, RemoveCacheKeeps DEF Remove
<1>8. CASE UNCHANGED vars
  BY <1>8 DEF vars, IInv, TypeOK, LockHeld, OneHolder, InputsKept, HasInputs, RowsGrounded, RowGrounded,
              CredentialKnown, Knows, EntryGone, PastEntry
<1> QED BY <1>1, <1>2, <1>3, <1>4, <1>5, <1>6, <1>7, <1>8, DieKeeps, ObserveKeeps, OutsideKeeps DEF Next

\* The reports of every command rest on the lock, the inputs and what is known of
\* the credential, in every reachable state.
THEOREM ReportsGrounded == Spec => []IInv
BY StartsRight, StepsKeep, PTL DEF Spec

\* Every variable keeps its type.
THEOREM TypeCorrect == Spec => []TypeOK
<1>1. IInv => TypeOK BY DEF IInv
<1> QED BY <1>1, ReportsGrounded, PTL

-----------------------------------------------------------------------------
\* Only three steps add a row: a store's, the migration's and the lifecycle's.
LEMMA RowsGrow ==
    ASSUME [Next]_vars, NEW r \in rows' \ rows
    PROVE  \E p \in Proc :
              \/ RowWrite(p) /\ r = route[p] /\ vault' = vault
              \/ MigratePublish(p) /\ r \in todo[p]
              \/ PersistConfig(p) /\ r = route[p]
<1> USE DEF Keep, stores
<1>1. ASSUME NEW p \in Proc, Begin(p) PROVE rows' = rows
  BY <1>1 DEF Begin, BeginStore, BeginLocked, BeginRepair
<1>2. ASSUME NEW p \in Proc, Migrate(p) PROVE rows' = rows \/ (MigratePublish(p) /\ rows' = todo[p])
  BY <1>2 DEF Migrate, MigrateCheck, MigrateLock, MigrateProbe, MigratePublish
<1>3. ASSUME NEW p \in Proc, Store(p)
      PROVE  rows' = rows \/ (RowWrite(p) /\ rows' = rows \cup {route[p]} /\ vault' = vault)
  BY <1>3 DEF Store, StoreVault, StoreFails, RowLock, RowProbe, RowWrite, Verify
<1>4. ASSUME NEW p \in Proc, Repair(p) \/ Validate(p) \/ Die(p) PROVE rows' = rows
  BY <1>4 DEF Repair, NextRow, Recheck, Validate, AddCheck, UpdateCheck, RemoveCheck, Probe, Die
<1>5. ASSUME NEW p \in Proc, Persist(p)
      PROVE  rows' = rows \/ (PersistConfig(p) /\ rows' = rows \cup {route[p]})
  BY <1>5 DEF Persist, PersistVault, PersistConfig, Rollback, PersistCache, DropCacheRow
<1>6. ASSUME NEW p \in Proc, Remove(p) PROVE rows' \subseteq rows
  BY <1>6 DEF Remove, RemoveVault, RemoveProbe, RemoveConfig, RemoveCache, DropCacheRow
<1>7. ASSUME (\E s \in Route : Observe(s)) \/ Outside \/ UNCHANGED vars PROVE rows' \subseteq rows
  BY <1>7 DEF Observe, Outside, vars
<1> QED BY <1>1, <1>2, <1>3, <1>4, <1>5, <1>6, <1>7 DEF Next

\* A shipped route's row is published only for a credential that is stored.
THEOREM RowsPublishedRight == Spec => RowsHaveCredentials
<1>1. ASSUME IInv, [Next]_vars
      PROVE  \A r \in Shipped : r \in rows' \ rows => vault[r] # NoSecret
  <2> SUFFICES ASSUME NEW r \in Shipped, r \in rows' \ rows PROVE vault[r] # NoSecret
    OBVIOUS
  <2>1. PICK p \in Proc : \/ RowWrite(p) /\ r = route[p] /\ vault' = vault
                          \/ MigratePublish(p) /\ r \in todo[p]
                          \/ PersistConfig(p) /\ r = route[p]
    BY <1>1, RowsGrow
  <2>2. RowGrounded(p) /\ HasInputs(p)
    BY <1>1 DEF IInv, RowsGrounded, InputsKept
  <2>3. CASE RowWrite(p) /\ r = route[p]
    BY <2>2, <2>3 DEF RowWrite, RowGrounded
  <2>4. CASE MigratePublish(p) /\ r \in todo[p]
    BY <2>2, <2>4 DEF MigratePublish, RowGrounded
  <2>5. ~(PersistConfig(p) /\ r = route[p])
    BY <2>2 DEF PersistConfig, HasInputs, Persisting
  <2> QED BY <2>1, <2>3, <2>4, <2>5
<1> QED BY <1>1, ReportsGrounded, PTL DEF Spec, RowsHaveCredentials

\* The steps behind two reports.
LEMMA ReportedBy ==
    ASSUME IInv, [Next]_vars, NEW p \in Proc, NEW o \in {"removed", "unchanged"}, Ends(p, o)
    PROVE  (RemoveCache(p) /\ o = "removed") \/ (Rollback(p) /\ o = "unchanged")
<1> USE DEF End, Quit, Plain, Quiet
<1>0. out' = o /\ pc[p] # "idle" /\ pc'[p] = "idle"
  BY DEF Ends
<1>1. ASSUME NEW q \in Proc, Begin(q) PROVE FALSE
  BY <1>0, <1>1 DEF Begin, BeginStore, BeginLocked, BeginRepair
<1>2. ASSUME NEW q \in Proc, Migrate(q) PROVE FALSE
  BY <1>0, <1>2 DEF Migrate, MigrateCheck, MigrateLock, MigrateProbe, MigratePublish
<1>3. ASSUME NEW q \in Proc, Store(q) PROVE FALSE
  BY <1>0, <1>3 DEF Store, StoreVault, StoreFails, RowLock, RowProbe, RowWrite, Verify, AfterRow
<1>4. ASSUME NEW q \in Proc, Repair(q) \/ Validate(q) \/ Die(q) PROVE FALSE
  BY <1>0, <1>4 DEF Repair, NextRow, Recheck, Validate, AddCheck, UpdateCheck, RemoveCheck, Probe, Die
<1>5. ASSUME NEW q \in Proc, Persist(q) PROVE Rollback(q) /\ o = "unchanged" /\ pc' = [pc EXCEPT ![q] = "idle"]
  BY <1>0, <1>5 DEF Persist, PersistVault, PersistConfig, Rollback, PersistCache, DropCacheRow, Goto
<1>6. ASSUME NEW q \in Proc, Remove(q) PROVE RemoveCache(q) /\ o = "removed" /\ pc' = [pc EXCEPT ![q] = "idle"]
  BY <1>0, <1>6 DEF Remove, RemoveVault, RemoveProbe, RemoveConfig, RemoveCache, DropCacheRow, Goto
<1>7. ASSUME (\E s \in Route : Observe(s)) \/ Outside \/ UNCHANGED vars PROVE FALSE
  BY <1>0, <1>7 DEF Observe, Outside, vars
<1>8. ASSUME NEW q \in Proc, pc' = [pc EXCEPT ![q] = "idle"] PROVE q = p
  BY <1>0, <1>8 DEF IInv, TypeOK
<1> QED BY <1>1, <1>2, <1>3, <1>4, <1>5, <1>6, <1>7, <1>8 DEF Next

\* A removal that reports success has removed the credential, and the entry of a
\* route of the user's own.
THEOREM RemovalsKept == Spec => RemovalsAreTrue
<1>1. ASSUME IInv, [Next]_vars, NEW p \in Proc, Ends(p, "removed")
      PROVE  /\ p \in raced \/ vault'[route[p]] = NoSecret
             /\ route[p] \notin Shipped => route[p] \notin rows' \cup cached'
  <2>1. RemoveCache(p) BY <1>1, ReportedBy
  <2>2. pc[p] = "removeCache" /\ UNCHANGED <<vault, rows>> /\ cached' = cached \ {route[p]}
    BY <1>1, <2>1 DEF RemoveCache, DropCacheRow, End, Quit, Ends
  <2>3. /\ p \in raced \/ vault[route[p]] = NoSecret
        /\ route[p] \in Route
        /\ route[p] \notin Shipped => route[p] \notin rows
    BY <1>1, <2>2 DEF IInv, CredentialKnown, Knows, EntryGone, PastEntry, InputsKept, HasInputs, Removing
  <2> QED BY <2>2, <2>3
<1>2. IInv /\ [Next]_vars => \A p \in Proc : Ends(p, "removed") =>
          /\ p \in raced \/ vault'[route[p]] = NoSecret
          /\ route[p] \notin Shipped => route[p] \notin rows' \cup cached'
  BY <1>1
<1> QED BY <1>2, ReportsGrounded, PTL DEF Spec, RemovalsAreTrue

\* A failure that says nothing was persisted left the credential as it was.
THEOREM FailuresKept == Spec => FailuresRestore
<1>1. ASSUME IInv, [Next]_vars, NEW p \in Proc, Ends(p, "unchanged")
      PROVE  \/ p \in raced
             \/ vault'[route[p]] = before[p]
             \/ cmd[p] = "add" /\ vault'[route[p]] = NoSecret
  <2>1. Rollback(p) BY <1>1, ReportedBy
  <2>2. /\ p \in raced \/ Knows(p)
        /\ HasInputs(p) /\ vault \in [Route -> Secret \cup {NoSecret}]
    BY <1>1 DEF IInv, TypeOK, CredentialKnown, InputsKept
  <2>3. pc[p] = "rollback" /\ route[p] \in Route /\ cmd[p] \in {"add", "update"}
    BY <2>1, <2>2 DEF Rollback, HasInputs, Persisting
  <2>4. CASE key[p] = NoSecret
    BY <2>1, <2>2, <2>3, <2>4 DEF Rollback, Knows
  <2>5. CASE key[p] # NoSecret
    <3>1. \/ cmd[p] = "add" /\ vault' = [vault EXCEPT ![route[p]] = NoSecret]
          \/ cmd[p] = "update" /\ prior[p] # NoSecret /\ vault' = [vault EXCEPT ![route[p]] = prior[p]]
      BY <1>1, <2>1, <2>3, <2>5 DEF Rollback, End, Quit, Ends
    <3> QED BY <2>2, <2>3, <3>1 DEF Knows, Persisting
  <2> QED BY <2>4, <2>5
<1>2. IInv /\ [Next]_vars => \A p \in Proc : Ends(p, "unchanged") =>
          \/ p \in raced
          \/ vault'[route[p]] = before[p]
          \/ cmd[p] = "add" /\ vault'[route[p]] = NoSecret
  BY <1>1
<1> QED BY <1>2, ReportsGrounded, PTL DEF Spec, FailuresRestore

-----------------------------------------------------------------------------
\* Noted disagreements stay noted for as long as they last.
Remembered == \A r \in told \cup silent : r \in told' \cup silent' \/ Agrees(r)'

\* What the end of a command or a step with a note leaves in the histories.
LEMMA NotesRemember ==
    ASSUME IInv, NEW known, NEW unknown, Note(known, unknown)
    PROVE  /\ Remembered
           /\ \A r \in Route : r \in known \cup unknown => r \in told' \cup silent' \/ Agrees(r)'
BY DEF Note, Remembered, IInv, TypeOK

\* While another process holds the lock nothing it relies on goes away: rows stay,
\* and credentials are only added.
LEMMA HolderSpared ==
    ASSUME IInv, NEW p \in Proc, StoresMove(p), NEW q \in Proc \ {p}, pc[q] \in Locked
    PROVE  rows' = rows /\ \A r \in Route : vault[r] # NoSecret => vault'[r] # NoSecret
<1>1. owners = {q} /\ owners # {p}
  BY DEF IInv, LockHeld
<1> QED BY <1>1 DEF StoresMove, IInv, TypeOK

\* A step of one process leaves the bearings of the others as they are.
LEMMA OthersBearings ==
    ASSUME IInv, AInv, NEW p \in Proc, OthersRest(p), StoresMove(p), Remembered, exists' = exists,
           NEW q \in Proc \ {p}
    PROVE  Bearings(q)'
<1>1. Bearings(q) /\ HasInputs(q)
  BY DEF AInv, AllHaveBearings, IInv, InputsKept
<1>2. CASE pc[q] \in Locked
  <2>1. rows' = rows /\ \A r \in Route : vault[r] # NoSecret => vault'[r] # NoSecret
    BY <1>2, HolderSpared
  <2>2. ASSUME pc[q] \in {"probe"} \cup Persisting
        PROVE  route[q] \in Route \ Shipped
    BY <1>1, <2>2 DEF HasInputs, Persisting
  <2>3. ASSUME pc[q] \in {"probe"} \cup Persisting, vault[route[q]] # NoSecret,
               route[q] \in rows \cup told \cup silent
        PROVE  vault'[route[q]] # NoSecret /\ route[q] \in rows' \cup told' \cup silent'
    BY <2>1, <2>2, <2>3 DEF Remembered, Agrees
  <2>4. todo'[q] \subseteq Shipped /\ (pc'[q] = "publish" => ~exists')
    BY <1>1 DEF Bearings, OthersRest
  <2>5. ASSUME pc[q] \in {"probe", "persistVault", "persistConfig", "rollback"}
        PROVE  /\ cmd[q] = "add" => route[q] \notin rows'
               /\ cmd[q] = "update" /\ key[q] = NoSecret => prior[q] # NoSecret
               /\ cmd[q] = "update" /\ prior[q] # NoSecret =>
                    vault'[route[q]] # NoSecret /\ route[q] \in rows' \cup told' \cup silent'
    BY <1>1, <2>1, <2>3, <2>5 DEF Bearings, Persisting
  <2>6. ASSUME pc[q] \in {"persistConfig", "rollback", "persistCache"}
        PROVE  vault'[route[q]] # NoSecret
    BY <1>1, <2>1, <2>2, <2>6 DEF Bearings, Persisting
  <2>7. ASSUME pc[q] = "persistCache"
        PROVE  route[q] \in rows' \cup told' \cup silent'
    BY <1>1, <2>3, <2>7 DEF Bearings, Persisting
  <2>8. pc'[q] = pc[q] /\ route'[q] = route[q] /\ key'[q] = key[q] /\ cmd'[q] = cmd[q] /\ prior'[q] = prior[q]
    BY DEF OthersRest
  <2> QED BY <1>1, <2>4, <2>5, <2>6, <2>7, <2>8 DEF Bearings
<1>3. CASE pc[q] \notin Locked
  BY <1>1, <1>3 DEF OthersRest, Bearings, Locked, Persisting
<1> QED BY <1>2, <1>3

\* A step that touches no route but its own leaves every route accounted for if it
\* accounts for that one.
LEMMA Accounting ==
    ASSUME IInv, AInv, NEW p \in Proc, OthersRest(p), StoresMove(p), Remembered,
           exists' = exists, NoDocument', Bearings(p)', pc'[p] # "publish",
           \A r \in Route : r # route[p] => vault'[r] = vault[r] /\ (r \in rows' <=> r \in rows),
           \A r \in Route : r = route[p] =>
              \/ Agrees(r)' \/ r \in told' \cup silent' \/ Answers(p, r)'
              \/ (Agrees(r) => Agrees(r)') /\ ~Answers(p, r)
    PROVE  AInv'
<1>1. ASSUME NEW r \in Route PROVE (Answered(r) \/ Awaited(r))'
  <2>1. \A q \in Proc \ {p} : Answers(q, r) => Answers(q, r)'
    BY DEF OthersRest, Answers
  <2>2. \/ Agrees(r)' \/ r \in told' \cup silent' \/ Answers(p, r)'
        \/ (Agrees(r) => Agrees(r)') /\ ~Answers(p, r)
    <3>1. CASE r = route[p] BY <3>1
    <3>2. CASE r # route[p]
      <4>1. Agrees(r) => Agrees(r)' BY <3>2 DEF Agrees
      <4> QED BY <3>2, <4>1 DEF Answers
    <3> QED BY <3>1, <3>2
  <2>3. Awaited(r) => Awaited(r)'
    BY DEF Awaited, OthersRest
  <2>4. r \in told \cup silent => r \in told' \cup silent' \/ Agrees(r)'
    BY DEF Remembered
  <2>5. Answered(r) \/ Awaited(r)
    BY DEF AInv, AllAnswered
  <2> QED BY <2>1, <2>2, <2>3, <2>4, <2>5 DEF Answered
<1>2. AllHaveBearings'
  BY OthersBearings DEF AllHaveBearings
<1> QED BY <1>1, <1>2 DEF AInv, AllAnswered

\* Nothing that others see changes: the usual step of a command that goes on.
LEMMA Onward ==
    ASSUME IInv, AInv, NEW p \in Proc, OthersRest(p), Keep, UNCHANGED <<told, silent>>,
           Bearings(p)', pc'[p] # "publish",
           \A r \in Route : Answers(p, r) => Answers(p, r)' \/ Agrees(r)
    PROVE  AInv'
<1>1. Remembered /\ StoresMove(p) /\ exists' = exists
  BY DEF Remembered, Keep, stores, StoresMove
<1>2. NoDocument'
  BY DEF AInv, NoDocument, Keep, stores
<1>3. \A r \in Route : vault'[r] = vault[r] /\ (r \in rows' <=> r \in rows) /\ (Agrees(r) => Agrees(r)')
  BY DEF Keep, stores, Agrees
<1> QED BY <1>1, <1>2, <1>3, Accounting

\* A command that is over has no bearings.
LEMMA QuitBearings ==
    ASSUME IInv, NEW p \in Proc, NEW o, Quit(p, o)
    PROVE  Bearings(p)' /\ pc'[p] = "idle"
<1>1. pc'[p] = "idle" /\ todo'[p] = {}
  BY DEF Quit, Goto, IInv, TypeOK
<1> QED BY <1>1 DEF Bearings, Persisting

\* The usual end of a command: it reports on what it may have left apart.
LEMMA Reported ==
    ASSUME IInv, AInv, NEW p \in Proc, NEW o, Quit(p, o), raced' = raced \ {p},
           NEW known, NEW unknown, Note(known, unknown), UNCHANGED <<vault, exists, rows>>,
           \A r \in Route : Answers(p, r) => r \in known \cup unknown \/ Agrees(r)
    PROVE  AInv'
<1>1. OthersRest(p)
  BY DEF Quit, Goto, OthersRest, IInv, TypeOK
<1>2. Remembered /\ \A r \in Route : r \in known \cup unknown => r \in told' \cup silent' \/ Agrees(r)'
  BY NotesRemember
<1>3. StoresMove(p) BY DEF StoresMove
<1>4. NoDocument' BY DEF AInv, NoDocument
<1>5. \A r \in Route : Agrees(r) => Agrees(r)' BY DEF Agrees
<1>6. Bearings(p)' /\ pc'[p] = "idle" BY QuitBearings
<1> QED BY <1>1, <1>2, <1>3, <1>4, <1>5, <1>6, Accounting

\* Ends that change no store, by what they report.
LEMMA EndReports ==
    ASSUME IInv, AInv, NEW p \in Proc, NEW o \in Outcomes, End(p, o), UNCHANGED <<vault, exists, rows>>,
           \A r \in Route : Answers(p, r) =>
              o \in Warnings \cup {"submitted"} \/ p \in raced \/ Agrees(r)
    PROVE  AInv'
<1>1. CASE o \in Warnings
  <2>1. Note({route[p]}, {}) BY <1>1 DEF End
  <2>2. \A r \in Route : Answers(p, r) => r \in {route[p]} BY DEF Answers
  <2> QED BY <2>1, <2>2, Reported DEF End
<1>2. CASE o \notin Warnings
  <2> DEFINE unknown == IF o = "submitted" \/ p \in raced THEN {route[p]} ELSE {}
  <2>1. Note({}, unknown) BY <1>2 DEF End
  <2>2. \A r \in Route : Answers(p, r) => r \in unknown \/ Agrees(r) BY <1>2 DEF Answers
  <2> HIDE DEF unknown
  <2> QED BY <2>1, <2>2, Reported DEF End
<1> QED BY <1>1, <1>2

\* Steps that change no store, action by action.
LEMMA BeginsAnswer ==
    ASSUME IInv, AInv, NEW p \in Proc, Begin(p)
    PROVE  AInv'
<1> USE DEF Goto, Keep, stores, Unlocked, Plain, Quiet, history, local
<1>1. Bearings(p)
  BY DEF AInv, AllHaveBearings
<1>2. ASSUME NEW c \in {"store", "form"}, NEW r \in Route, NEW k \in Secret, BeginStore(p, c, r, k)
      PROVE  AInv'
  <2>1. OthersRest(p) BY <1>2 DEF BeginStore, OthersRest, IInv, TypeOK
  <2>2. pc'[p] = "storeVault" /\ cmd'[p] = c /\ todo' = todo
    BY <1>2 DEF BeginStore, IInv, TypeOK
  <2>3. Bearings(p)' BY <1>1, <2>2 DEF Bearings, Persisting
  <2>4. \A s \in Route : ~Answers(p, s) BY <1>2 DEF BeginStore, Answers
  <2> QED BY <1>2, <2>1, <2>2, <2>3, <2>4, Onward DEF BeginStore
<1>3. ASSUME NEW c \in {"add", "update", "remove"}, NEW r \in Route, NEW k \in Secret \cup {NoSecret},
             BeginLocked(p, c, r, k)
      PROVE  AInv'
  <2>1. OthersRest(p) BY <1>3 DEF BeginLocked, OthersRest, IInv, TypeOK
  <2>2. pc'[p] = "check" /\ cmd'[p] = c /\ key'[p] = k /\ todo' = todo /\ (c = "add" => k # NoSecret)
    BY <1>3 DEF BeginLocked, IInv, TypeOK
  <2>3. Bearings(p)' BY <1>1, <2>2 DEF Bearings, Persisting
  <2>4. \A s \in Route : ~Answers(p, s) BY <1>3 DEF BeginLocked, Answers
  <2> QED BY <1>3, <2>1, <2>2, <2>3, <2>4, Onward DEF BeginLocked
<1>4. CASE BeginRepair(p)
  <2>0. PICK seen \in SUBSET Shipped : todo' = [todo EXCEPT ![p] = seen] BY <1>4 DEF BeginRepair
  <2>1. OthersRest(p) BY <1>4, <2>0 DEF BeginRepair, OthersRest, IInv, TypeOK
  <2>2. pc'[p] = "nextRow" /\ cmd'[p] = "repair" /\ todo'[p] = seen BY <1>4, <2>0 DEF BeginRepair, IInv, TypeOK
  <2>3. Bearings(p)' BY <1>1, <2>2 DEF Bearings, Persisting
  <2>4. \A s \in Route : ~Answers(p, s) BY <1>4 DEF BeginRepair, Answers
  <2> QED BY <1>4, <2>1, <2>2, <2>3, <2>4, Onward DEF BeginRepair
<1> QED BY <1>2, <1>3, <1>4 DEF Begin

\* The migration takes in every shipped credential that is there, and publishes a
\* row for each; one stored meanwhile is its storer's to report.
LEMMA MigratesAnswer ==
    ASSUME IInv, AInv, NEW p \in Proc, Migrate(p)
    PROVE  AInv'
<1> USE DEF Goto, Keep, stores, Unlocked, Plain, Quiet, history, local
<1>1. Bearings(p)
  BY DEF AInv, AllHaveBearings
<1>2. ASSUME pc[p] \in {"idle", "migrate", "probeAll", "publish"} PROVE \A s \in Route : ~Answers(p, s)
  BY <1>2 DEF Answers
<1>3. ASSUME NEW o \in Outcomes, End(p, o), Keep, pc[p] \in {"idle", "migrate", "probeAll", "publish"}
      PROVE  AInv'
  BY <1>2, <1>3, EndReports
<1>4. CASE MigrateCheck(p)
  <2>1. OthersRest(p) BY <1>4 DEF MigrateCheck, OthersRest, IInv, TypeOK
  <2>2. pc'[p] = "migrate" BY <1>4 DEF MigrateCheck, IInv, TypeOK
  <2>3. Bearings(p)' BY <1>1, <1>4, <2>2 DEF MigrateCheck, Bearings, Persisting
  <2> QED BY <1>2, <1>4, <2>1, <2>2, <2>3, Onward DEF MigrateCheck
<1>5. CASE pc[p] = "migrate" /\ Keep /\ Enter(p) /\ Goto(p, "probeAll") /\ Plain /\ UNCHANGED local
  <2>1. OthersRest(p) BY <1>5 DEF OthersRest, IInv, TypeOK
  <2>2. pc'[p] = "probeAll" BY <1>5 DEF IInv, TypeOK
  <2>3. Bearings(p)' BY <1>1, <1>5, <2>2 DEF Bearings, Persisting
  <2> QED BY <1>2, <1>5, <2>1, <2>2, <2>3, Onward
<1>6. CASE /\ pc[p] = "probeAll" /\ Keep /\ ~exists
           /\ todo' = [todo EXCEPT ![p] = {r \in Shipped : vault[r] # NoSecret}]
           /\ Goto(p, "publish")
           /\ Unlocked /\ Plain /\ UNCHANGED <<cmd, route, key, prior, had>>
  <2>1. OthersRest(p) BY <1>6 DEF OthersRest, IInv, TypeOK
  <2>2. pc'[p] = "publish" /\ todo'[p] = {r \in Shipped : vault[r] # NoSecret} BY <1>6 DEF IInv, TypeOK
  <2>3. Bearings(p)' BY <1>1, <1>6, <2>2 DEF Bearings, Persisting
  <2>4. AllHaveBearings'
    <3>1. Remembered /\ StoresMove(p) BY <1>6 DEF Remembered, StoresMove
    <3> QED BY <1>6, <2>1, <2>3, <3>1, OthersBearings DEF AllHaveBearings
  <2>5. ASSUME NEW r \in Route PROVE (Answered(r) \/ Awaited(r))'
    <3>1. Answered(r) => Answered(r)'
      <4>1. \A q \in Proc : Answers(q, r) => Answers(q, r)'
        BY <1>2, <1>6, <2>1 DEF OthersRest, Answers
      <4>2. Agrees(r) => Agrees(r)' BY <1>6 DEF Agrees
      <4> QED BY <1>6, <4>1, <4>2 DEF Answered
    <3>2. CASE r \in Shipped /\ vault[r] # NoSecret
      <4>1. ASSUME NEW q \in Proc, pc'[q] = "publish" PROVE r \in todo'[q]
        <5>1. pc[p] \in Locked BY <1>6 DEF Locked
        <5>2. owners = {p} BY <5>1 DEF IInv, LockHeld
        <5>3. CASE q # p
          <6>1. pc[q] \in Locked BY <2>1, <4>1, <5>3 DEF OthersRest, Locked
          <6> QED BY <5>2, <5>3, <6>1 DEF IInv, LockHeld
        <5> QED BY <2>2, <3>2, <5>3
      <4> QED BY <1>6, <3>2, <4>1 DEF Awaited
    <3>3. CASE r \in Shipped /\ vault[r] = NoSecret
      BY <1>6, <3>3 DEF Answered, Agrees
    <3>4. CASE r \notin Shipped
      BY <3>1, <3>4 DEF AInv, AllAnswered, Awaited
    <3> QED BY <3>2, <3>3, <3>4
  <2>6. NoDocument' BY <1>6 DEF AInv, NoDocument
  <2> QED BY <2>4, <2>5, <2>6 DEF AInv, AllAnswered
<1>7. CASE /\ pc[p] = "publish" /\ exists' = TRUE /\ rows' = todo[p] /\ UNCHANGED <<vault, cached>>
           /\ End(p, "migrated")
  <2>1. ~exists /\ rows = {} /\ todo[p] \subseteq Shipped
    BY <1>1, <1>7 DEF Bearings, AInv, NoDocument
  <2>2. OthersRest(p) BY <1>7 DEF End, Quit, OthersRest, IInv, TypeOK
  <2>3. Remembered BY <1>7, NotesRemember DEF End, Warnings
  <2>4. Bearings(p)' BY <1>7, QuitBearings DEF End
  <2>5. ASSUME NEW q \in Proc \ {p} PROVE Bearings(q)'
    <3>1. pc[p] \in Locked BY <1>7 DEF Locked
    <3>2. pc[q] \notin Locked BY <3>1 DEF IInv, LockHeld
    <3> QED BY <2>2, <3>2 DEF AInv, AllHaveBearings, Bearings, OthersRest, Locked, Persisting
  <2>6. ASSUME NEW r \in Route PROVE Answered(r)'
    <3>1. Answered(r) \/ r \in todo[p]
      BY <1>7 DEF AInv, AllAnswered, Awaited
    <3>2. CASE r \in todo[p]
      BY <1>7, <2>1, <3>2 DEF Answered, Agrees
    <3>3. CASE Answered(r) /\ r \notin todo[p]
      <4>1. Agrees(r) => Agrees(r)' BY <1>7, <2>1, <3>3 DEF Agrees
      <4>2. r \in told \cup silent => r \in told' \cup silent' \/ Agrees(r)' BY <2>3 DEF Remembered
      <4>3. \A q \in Proc : Answers(q, r) => Answers(q, r)'
        BY <1>2, <1>7, <2>2 DEF OthersRest, Answers
      <4> QED BY <3>3, <4>1, <4>2, <4>3 DEF Answered
    <3> QED BY <3>1, <3>2, <3>3
  <2> QED BY <1>7, <2>4, <2>5, <2>6 DEF AInv, NoDocument, AllHaveBearings, AllAnswered
<1> QED BY <1>3, <1>4, <1>5, <1>6, <1>7 DEF Migrate, MigrateLock, MigrateProbe, MigratePublish, Outcomes

\* The attempt to add a row is over: a form ends with its known silence, and the
\* other commands go on.
LEMMA AfterRowAnswers ==
    ASSUME IInv, AInv, NEW p \in Proc, AfterRow(p), pc[p] \in {"rowLock", "rowProbe", "rowWrite"},
           vault' = vault, exists' = exists, NoDocument',
           rows' = rows \/ (owners = {p} /\ rows' = rows \cup {route[p]})
    PROVE  AInv'
<1> USE DEF Goto, Quiet, local
<1>1. Bearings(p) /\ route[p] \in Shipped
  BY DEF AInv, AllHaveBearings, Bearings
<1>2. StoresMove(p) BY DEF StoresMove
<1>3. \A r \in Route : (r # route[p] => (r \in rows' <=> r \in rows)) /\ (Agrees(r) => Agrees(r)')
  BY <1>1 DEF Agrees
<1>4. CASE cmd[p] = "form"
  <2>1. OthersRest(p) BY <1>4 DEF AfterRow, End, Quit, OthersRest, IInv, TypeOK
  <2>2. Note({}, {route[p]}) BY <1>4 DEF AfterRow, End, Warnings
  <2>3. /\ Remembered
        /\ \A r \in Route : r = route[p] => r \in told' \cup silent' \/ Agrees(r)'
    BY <2>2, NotesRemember
  <2>4. Bearings(p)' /\ pc'[p] = "idle" BY <1>4, QuitBearings DEF AfterRow, End
  <2> QED BY <1>2, <1>3, <2>1, <2>3, <2>4, Accounting
<1>5. CASE cmd[p] # "form"
  <2>1. OthersRest(p) BY <1>5 DEF AfterRow, OthersRest, IInv, TypeOK
  <2>2. Note({}, {}) BY <1>5 DEF AfterRow
  <2>3. Remembered BY <2>2, NotesRemember
  <2>4. pc'[p] = (IF cmd[p] = "store" THEN "verify" ELSE "nextRow") /\ UNCHANGED local
    BY <1>5 DEF AfterRow, IInv, TypeOK
  <2>a. cmd[p] = "store" \/ (cmd[p] = "repair" /\ pc'[p] = "nextRow")
    BY <1>1, <1>5, <2>4 DEF Bearings
  <2>5. Bearings(p)'
    <3>1. CASE cmd[p] = "store" BY <1>1, <2>4, <3>1 DEF Bearings, Persisting
    <3>2. CASE cmd[p] = "repair" /\ pc'[p] = "nextRow" BY <1>1, <2>4, <3>2 DEF Bearings, Persisting
    <3> QED BY <2>a, <3>1, <3>2
  <2>6. \A r \in Route : Answers(p, r) => Answers(p, r)' BY <1>5, <2>4 DEF Answers
  <2> QED BY <1>2, <1>3, <2>1, <2>3, <2>4, <2>5, <2>6, Accounting
<1> QED BY <1>4, <1>5

\* A credential stored without the lock is answered for by its storer until the
\* row is there or the report is out.
LEMMA StoresAnswer ==
    ASSUME IInv, AInv, NEW p \in Proc, Store(p)
    PROVE  AInv'
<1> USE DEF Goto, Keep, stores, Unlocked, Plain, Quiet, history, local
<1>1. Bearings(p) /\ HasInputs(p)
  BY DEF AInv, AllHaveBearings, IInv, InputsKept
<1>2. CASE StoreVault(p) /\ route[p] \in Shipped
  <2> USE <1>2 DEF StoreVault
  <2>1. OthersRest(p) BY DEF OthersRest, IInv, TypeOK
  <2>2. Note({}, {}) /\ pc'[p] = "rowLock" /\ UNCHANGED local BY DEF IInv, TypeOK
  <2>3. Remembered BY <2>2, NotesRemember
  <2>4. StoresMove(p) BY <1>1 DEF StoresMove, HasInputs
  <2>5. Bearings(p)' BY <1>1, <2>2 DEF Bearings, Persisting
  <2>6. \A r \in Route : r # route[p] => vault'[r] = vault[r] BY DEF IInv, TypeOK
  <2>7. \A r \in Route : r = route[p] => Answers(p, r)' BY <1>1, <2>2 DEF Answers, Bearings
  <2>8. NoDocument' BY DEF AInv, NoDocument
  <2> QED BY <2>1, <2>2, <2>3, <2>4, <2>5, <2>6, <2>7, <2>8, Accounting
<1>3. CASE StoreVault(p) /\ route[p] \notin Shipped
  <2> USE <1>3 DEF StoreVault
  <2>1. OthersRest(p) BY DEF Quit, OthersRest, IInv, TypeOK
  <2>2. Note({}, {route[p]}) OBVIOUS
  <2>3. /\ Remembered
        /\ \A r \in Route : r = route[p] => r \in told' \cup silent' \/ Agrees(r)'
    BY <2>2, NotesRemember
  <2>4. StoresMove(p) BY <1>1 DEF StoresMove, HasInputs
  <2>5. Bearings(p)' /\ pc'[p] = "idle" BY QuitBearings
  <2>6. \A r \in Route : r # route[p] => vault'[r] = vault[r] BY DEF IInv, TypeOK
  <2>8. NoDocument' BY DEF AInv, NoDocument
  <2> QED BY <2>1, <2>3, <2>4, <2>5, <2>6, <2>8, Accounting
<1>4. CASE StoreFails(p)
  <2>1. \A r \in Route : ~Answers(p, r) BY <1>4 DEF StoreFails, Answers
  <2> QED BY <1>4, <2>1, EndReports DEF StoreFails, Outcomes
<1>5. CASE pc[p] = "rowLock" /\ Keep /\ Enter(p) /\ Goto(p, "rowProbe") /\ Plain /\ UNCHANGED local
  <2>1. OthersRest(p) BY <1>5 DEF OthersRest, IInv, TypeOK
  <2>2. pc'[p] = "rowProbe" BY <1>5 DEF IInv, TypeOK
  <2>3. Bearings(p)' BY <1>1, <1>5, <2>2 DEF Bearings, Persisting
  <2>4. \A r \in Route : Answers(p, r) => Answers(p, r)' BY <1>5, <2>2 DEF Answers
  <2> QED BY <1>5, <2>1, <2>2, <2>3, <2>4, Onward
<1>6. CASE /\ pc[p] = "rowProbe" /\ Keep /\ vault[route[p]] # NoSecret
           /\ Goto(p, "rowWrite") /\ Unlocked /\ Plain /\ UNCHANGED local
  <2>1. OthersRest(p) BY <1>6 DEF OthersRest, IInv, TypeOK
  <2>2. pc'[p] = "rowWrite" BY <1>6 DEF IInv, TypeOK
  <2>3. Bearings(p)' BY <1>1, <1>6, <2>2 DEF Bearings, Persisting
  <2>4. \A r \in Route : Answers(p, r) => Answers(p, r)' BY <1>6, <2>2 DEF Answers
  <2> QED BY <1>6, <2>1, <2>2, <2>3, <2>4, Onward
<1>7. CASE pc[p] \in {"rowLock", "rowProbe"} /\ Keep /\ AfterRow(p)
  <2>1. NoDocument' BY <1>7 DEF AInv, NoDocument
  <2> QED BY <1>7, <2>1, AfterRowAnswers
<1>8. CASE RowWrite(p)
  <2>1. owners = {p} BY <1>8 DEF RowWrite, IInv, LockHeld, Locked
  <2>2. NoDocument' BY <1>8 DEF RowWrite, AInv, NoDocument
  <2> QED BY <1>8, <2>1, <2>2, AfterRowAnswers DEF RowWrite
<1>9. CASE Verify(p)
  <2>1. PICK o \in {"stored", "rowless"} : End(p, o) /\ (o = "stored" => route[p] \in rows)
    BY <1>9 DEF Verify
  <2>2. \A r \in Route : Answers(p, r) => o \in Warnings \/ Agrees(r)
    BY <1>1, <1>9, <2>1 DEF Verify, Bearings, Answers, Agrees, Warnings
  <2> QED BY <1>9, <2>1, <2>2, EndReports DEF Verify, Outcomes
<1> QED BY <1>2, <1>3, <1>4, <1>5, <1>6, <1>7, <1>8, <1>9 DEF Store, StoreVault, RowLock, RowProbe

\* A repair answers for nothing, and reports what it sees at its end.
LEMMA RepairsAnswer ==
    ASSUME IInv, AInv, NEW p \in Proc, Repair(p)
    PROVE  AInv'
<1> USE DEF Goto, Keep, stores, Unlocked, Plain, Quiet, history, local
<1>1. Bearings(p)
  BY DEF AInv, AllHaveBearings
<1>2. \A r \in Route : ~Answers(p, r)
  BY DEF Repair, NextRow, Recheck, Answers
<1>3. CASE NextRow(p)
  <2> USE <1>3 DEF NextRow
  <2>1. OthersRest(p) BY DEF OthersRest, IInv, TypeOK
  <2>2. CASE \E r \in todo[p] : /\ route' = [route EXCEPT ![p] = r]
                                /\ todo' = [todo EXCEPT ![p] = @ \ {r}] /\ Goto(p, "rowLock")
    <3>1. pc'[p] = "rowLock" /\ route'[p] \in Shipped /\ todo'[p] \subseteq Shipped
      BY <1>1, <2>2 DEF Bearings, IInv, TypeOK
    <3>2. cmd[p] = "repair" BY <1>1, <1>3 DEF Bearings
    <3>3. Bearings(p)' BY <1>1, <3>1, <3>2 DEF Bearings, Persisting
    <3> QED BY <1>2, <2>1, <3>1, <3>3, Onward
  <2>3. CASE route' = [route EXCEPT ![p] = NoRoute] /\ Goto(p, "recheck") /\ UNCHANGED todo
    <3>1. pc'[p] = "recheck" BY <2>3 DEF IInv, TypeOK
    <3>2. Bearings(p)' BY <1>1, <2>3, <3>1 DEF Bearings, Persisting
    <3> QED BY <1>2, <2>1, <3>1, <3>2, Onward
  <2> QED BY <2>2, <2>3
<1>4. CASE Recheck(p)
  <2>1. PICK seen \in SUBSET Shipped : (\E o : Quit(p, o)) /\ Note(seen, {})
    BY <1>4 DEF Recheck
  <2> QED BY <1>2, <1>4, <2>1, Reported DEF Recheck
<1> QED BY <1>3, <1>4 DEF Repair

\* What the lifecycle finds out before it changes anything becomes its bearings.
LEMMA ValidatesAnswer ==
    ASSUME IInv, AInv, NEW p \in Proc, Validate(p)
    PROVE  AInv'
<1> USE DEF Goto, Keep, stores, Unlocked, Plain, Quiet, history, local
<1>1. Bearings(p) /\ HasInputs(p)
  BY DEF AInv, AllHaveBearings, IInv, InputsKept
<1>2. \A r \in Route : ~Answers(p, r)
  BY DEF Validate, AddCheck, UpdateCheck, RemoveCheck, Probe, Answers
<1>3. ASSUME NEW o \in Outcomes, End(p, o), Keep PROVE AInv'
  BY <1>2, <1>3, EndReports
<1>4. CASE /\ pc[p] = "check" /\ Keep /\ cmd[p] = "add" /\ route[p] \notin rows
           /\ Goto(p, "probe") /\ Unlocked /\ Plain /\ UNCHANGED local
  <2>1. OthersRest(p) BY <1>4 DEF OthersRest, IInv, TypeOK
  <2>2. pc'[p] = "probe" BY <1>4 DEF IInv, TypeOK
  <2>3. Bearings(p)' BY <1>1, <1>4, <2>2 DEF Bearings, Persisting
  <2> QED BY <1>2, <1>4, <2>1, <2>2, <2>3, Onward
<1>5. ASSUME NEW s \in {vault[route[p]], NoSecret}, pc[p] = "check", cmd[p] = "update", Keep,
             route[p] \in rows, key[p] # NoSecret \/ s # NoSecret,
             prior' = [prior EXCEPT ![p] = s], had' = [had EXCEPT ![p] = TRUE], Goto(p, "probe"),
             Unlocked, Plain, UNCHANGED <<cmd, route, key, todo>>
      PROVE  AInv'
  <2>1. OthersRest(p) BY <1>5 DEF OthersRest, IInv, TypeOK
  <2>2. pc'[p] = "probe" /\ prior'[p] = s BY <1>5 DEF IInv, TypeOK
  <2>3. Bearings(p)' BY <1>1, <1>5, <2>2 DEF Bearings, Persisting
  <2> QED BY <1>2, <1>5, <2>1, <2>2, <2>3, Onward
<1>6. CASE /\ pc[p] = "check" /\ Keep /\ cmd[p] = "remove"
           /\ had' = [had EXCEPT ![p] = route[p] \in rows]
           /\ Goto(p, "removeVault")
           /\ Unlocked /\ Plain /\ UNCHANGED <<cmd, route, key, prior, todo>>
  <2>1. OthersRest(p) BY <1>6 DEF OthersRest, IInv, TypeOK
  <2>2. pc'[p] = "removeVault" BY <1>6 DEF IInv, TypeOK
  <2>3. Bearings(p)' BY <1>1, <1>6, <2>2 DEF Bearings, Persisting
  <2> QED BY <1>2, <1>6, <2>1, <2>2, <2>3, Onward
<1>7. CASE /\ pc[p] = "probe" /\ Keep
           /\ Goto(p, IF key[p] # NoSecret THEN "persistVault" ELSE "persistConfig")
           /\ Unlocked /\ Plain /\ UNCHANGED local
  <2>1. OthersRest(p) BY <1>7 DEF OthersRest, IInv, TypeOK
  <2>2. pc'[p] = (IF key[p] # NoSecret THEN "persistVault" ELSE "persistConfig") BY <1>7 DEF IInv, TypeOK
  <2>3. cmd[p] \in {"add", "update"} BY <1>1, <1>7 DEF HasInputs
  <2>4. Bearings(p)' BY <1>1, <1>7, <2>2, <2>3 DEF Bearings, Persisting
  <2> QED BY <1>2, <1>7, <2>1, <2>2, <2>4, Onward
<1>8. CASE /\ pc[p] = "probe" /\ Keep /\ Goto(p, "removeVault") /\ Unlocked /\ Plain /\ UNCHANGED local
  <2>1. OthersRest(p) BY <1>8 DEF OthersRest, IInv, TypeOK
  <2>2. pc'[p] = "removeVault" BY <1>8 DEF IInv, TypeOK
  <2>3. Bearings(p)' BY <1>1, <1>8, <2>2 DEF Bearings, Persisting
  <2> QED BY <1>2, <1>8, <2>1, <2>2, <2>3, Onward
<1>9. CASE AddCheck(p) BY <1>3, <1>4, <1>9 DEF AddCheck, Outcomes
<1>10. CASE UpdateCheck(p)
  <2>1. CASE pc[p] = "check" /\ Keep /\ End(p, "refused") BY <1>3, <2>1 DEF Outcomes
  <2> QED BY <1>5, <1>10, <2>1 DEF UpdateCheck
<1>11. CASE RemoveCheck(p) BY <1>3, <1>6, <1>11 DEF RemoveCheck, Outcomes
<1>12. CASE Probe(p) BY <1>3, <1>7, <1>8, <1>12 DEF Probe, Outcomes
<1> QED BY <1>9, <1>10, <1>11, <1>12 DEF Validate

\* The lifecycle persists a route, or puts its credential back.
LEMMA PersistsAnswer ==
    ASSUME IInv, AInv, NEW p \in Proc, Persist(p)
    PROVE  AInv'
<1> USE DEF Goto, Keep, stores, Unlocked, Quiet, local
<1>1. Bearings(p) /\ HasInputs(p) /\ PastEntry(p)
  BY DEF AInv, AllHaveBearings, IInv, InputsKept, EntryGone
<1>2. pc[p] \in Persisting
  BY DEF Persist, PersistVault, PersistConfig, Rollback, PersistCache, Persisting
<1>3. owners = {p} /\ route[p] \in Route \ Shipped /\ cmd[p] \in {"add", "update"}
  BY <1>1, <1>2 DEF IInv, LockHeld, Locked, HasInputs, Persisting
<1>4. StoresMove(p)
  BY <1>3 DEF StoresMove
<1>5. CASE /\ pc[p] = "persistVault"
           /\ vault' = [vault EXCEPT ![route[p]] = key[p]] /\ UNCHANGED <<exists, rows, cached>>
           /\ Goto(p, "persistConfig") /\ Note({}, {})
           /\ Unlocked /\ Quiet /\ UNCHANGED <<local, before, raced>>
  <2> USE <1>5
  <2>1. OthersRest(p) BY DEF OthersRest, IInv, TypeOK
  <2>2. Remembered BY NotesRemember
  <2>3. pc'[p] = "persistConfig" /\ vault'[route[p]] = key[p] /\ key[p] # NoSecret
    BY <1>1, <1>3 DEF IInv, TypeOK, HasInputs
  <2>4. route[p] \in rows \cup told \cup silent => route[p] \in rows' \cup told' \cup silent'
    BY <1>3, <2>2, <2>3 DEF Remembered, Agrees
  <2>5. Bearings(p)' BY <1>1, <2>3, <2>4 DEF Bearings, Persisting
  <2>6. \A r \in Route : r # route[p] => vault'[r] = vault[r] BY DEF IInv, TypeOK
  <2>7. \A r \in Route : r = route[p] => Answers(p, r)' BY <2>3 DEF Answers
  <2>8. NoDocument' BY DEF AInv, NoDocument
  <2> QED BY <1>4, <2>1, <2>2, <2>3, <2>5, <2>6, <2>7, <2>8, Accounting
<1>6. CASE pc[p] = "persistVault" /\ Keep /\ End(p, "unstored")
  <2>1. \A r \in Route : ~Answers(p, r) BY <1>6 DEF Answers
  <2> QED BY <1>6, <2>1, EndReports DEF Outcomes
<1>7. CASE /\ pc[p] = "persistConfig" /\ exists
           /\ rows' = rows \cup {route[p]} /\ UNCHANGED <<vault, exists, cached>>
           /\ Goto(p, "persistCache") /\ Note({}, {})
           /\ Unlocked /\ Quiet /\ UNCHANGED <<local, before, raced>>
  <2> USE <1>7
  <2>1. OthersRest(p) BY DEF OthersRest, IInv, TypeOK
  <2>2. Remembered BY NotesRemember
  <2>3. pc'[p] = "persistCache" BY DEF IInv, TypeOK
  <2>4. vault[route[p]] # NoSecret BY <1>1 DEF Bearings
  <2>5. Bearings(p)' BY <1>1, <2>3, <2>4 DEF Bearings, Persisting
  <2>6. \A r \in Route : r = route[p] => Agrees(r)' BY <1>3, <2>4 DEF Agrees
  <2>7. NoDocument' BY DEF AInv, NoDocument
  <2> QED BY <1>4, <2>1, <2>2, <2>3, <2>5, <2>6, <2>7, Accounting
<1>8. CASE /\ pc[p] = "persistConfig" /\ Keep /\ Goto(p, "rollback") /\ Note({}, {})
           /\ Unlocked /\ Quiet /\ UNCHANGED <<local, before, raced>>
  <2> USE <1>8
  <2>1. OthersRest(p) BY DEF OthersRest, IInv, TypeOK
  <2>2. Remembered BY NotesRemember
  <2>3. pc'[p] = "rollback" BY DEF IInv, TypeOK
  <2>4. vault[route[p]] # NoSecret BY <1>1 DEF Bearings
  <2>5. route[p] \in rows \cup told \cup silent => route[p] \in rows' \cup told' \cup silent'
    BY <1>3, <2>2, <2>4 DEF Remembered, Agrees
  <2>6. Bearings(p)' BY <1>1, <2>3, <2>4, <2>5 DEF Bearings, Persisting
  <2>7. \A r \in Route : (Answers(p, r) => Answers(p, r)') /\ (Agrees(r) => Agrees(r)')
    BY <2>3 DEF Answers, Agrees
  <2>8. NoDocument' BY DEF AInv, NoDocument
  <2> QED BY <1>4, <2>1, <2>2, <2>3, <2>6, <2>7, <2>8, Accounting
<1>9. CASE Rollback(p)
  <2> USE <1>9 DEF Rollback
  <2>1. PICK o \in {"unchanged", "leftover"} : End(p, o) OBVIOUS
  <2>2. OthersRest(p) BY <2>1 DEF End, Quit, OthersRest, IInv, TypeOK
  <2>3. Remembered BY <2>1, NotesRemember DEF End
  <2>4. Bearings(p)' /\ pc'[p] = "idle" BY <2>1, QuitBearings DEF End
  <2>5. vault[route[p]] # NoSecret BY <1>1 DEF Bearings
  <2>6. \A r \in Route : r # route[p] => vault'[r] = vault[r] BY DEF IInv, TypeOK
  <2>7. NoDocument' BY DEF AInv, NoDocument
  <2>8. ASSUME NEW r \in Route, r = route[p]
        PROVE  \/ Agrees(r)' \/ r \in told' \cup silent'
               \/ (Agrees(r) => Agrees(r)') /\ ~Answers(p, r)
    <3>1. CASE key[p] = NoSecret
      BY <2>8, <3>1 DEF Answers, Agrees
    <3>2. CASE End(p, "leftover")
      <4>1. Note({route[p]}, {}) BY <3>2 DEF End, Warnings
      <4> QED BY <2>8, <4>1, NotesRemember
    <3>3. CASE cmd[p] = "add" /\ vault' = [vault EXCEPT ![route[p]] = NoSecret]
      BY <1>1, <1>3, <2>8, <3>3 DEF Agrees, Bearings, IInv, TypeOK
    <3>4. CASE cmd[p] = "update" /\ prior[p] # NoSecret /\ vault' = [vault EXCEPT ![route[p]] = prior[p]]
      <4>1. r \in rows \cup told \cup silent /\ vault'[r] # NoSecret
        BY <1>1, <2>8, <3>4 DEF Bearings, IInv, TypeOK
      <4> QED BY <1>3, <2>3, <2>8, <4>1 DEF Remembered, Agrees
    <3> QED BY <1>3, <3>1, <3>2, <3>3, <3>4
  <2> QED BY <1>4, <2>2, <2>3, <2>4, <2>6, <2>7, <2>8, Accounting
<1>10. CASE PersistCache(p)
  <2>1. PICK o \in {"persisted", "stale"} : End(p, o) /\ UNCHANGED <<vault, exists, rows>>
    BY <1>10 DEF PersistCache, DropCacheRow
  <2>2. \A r \in Route : ~Answers(p, r) BY <1>10 DEF PersistCache, Answers
  <2> QED BY <2>1, <2>2, EndReports DEF Outcomes
<1> QED BY <1>5, <1>6, <1>7, <1>8, <1>9, <1>10 DEF Persist, PersistVault, PersistConfig

\* The lifecycle removes a route, and answers for it from the credential on.
LEMMA RemovesAnswer ==
    ASSUME IInv, AInv, NEW p \in Proc, Remove(p)
    PROVE  AInv'
<1> USE DEF Goto, Keep, stores, Unlocked, Quiet, local
<1>1. Bearings(p) /\ HasInputs(p) /\ PastEntry(p) /\ (p \in raced \/ Knows(p))
  BY DEF AInv, AllHaveBearings, IInv, InputsKept, EntryGone, CredentialKnown
<1>2. pc[p] \in Removing
  BY DEF Remove, RemoveVault, RemoveProbe, RemoveConfig, RemoveCache, Removing
<1>3. owners = {p} /\ route[p] \in Route
  BY <1>1, <1>2 DEF IInv, LockHeld, Locked, HasInputs
<1>4. StoresMove(p)
  BY <1>3 DEF StoresMove
<1>5. CASE RemoveVault(p)
  <2> USE <1>5 DEF RemoveVault
  <2>1. OthersRest(p) BY DEF OthersRest, IInv, TypeOK
  <2>2. Remembered BY NotesRemember
  <2>3. pc'[p] = "removeProbe" BY DEF IInv, TypeOK
  <2>4. Bearings(p)' BY <1>1, <2>3 DEF Bearings, Persisting
  <2>5. \A r \in Route : r # route[p] => vault'[r] = vault[r] BY DEF IInv, TypeOK
  <2>6. \A r \in Route : r = route[p] => Answers(p, r)' BY <2>3 DEF Answers
  <2>7. NoDocument' BY DEF AInv, NoDocument
  <2> QED BY <1>4, <2>1, <2>2, <2>3, <2>4, <2>5, <2>6, <2>7, Accounting
<1>6. CASE /\ pc[p] = "removeProbe" /\ Keep /\ vault[route[p]] = NoSecret
           /\ Removed(p) /\ Unlocked /\ Plain /\ UNCHANGED local
  <2> USE <1>6 DEF Plain, history
  <2>1. OthersRest(p) BY DEF Removed, OthersRest, IInv, TypeOK
  <2>2. pc'[p] = (IF had[p] /\ route[p] \notin Shipped THEN "removeConfig" ELSE "removeCache")
    BY DEF Removed, IInv, TypeOK
  <2>3. Bearings(p)' BY <1>1, <2>2 DEF Bearings, Persisting
  <2>4. \A r \in Route : Answers(p, r) => Answers(p, r)' \/ Agrees(r)
    BY <1>1, <1>2, <1>3, <2>2 DEF Answers, Agrees, PastEntry
  <2> QED BY <2>1, <2>2, <2>3, <2>4, Onward
<1>7. CASE pc[p] = "removeProbe" /\ Keep /\ End(p, "kept")
  BY <1>7, EndReports DEF Outcomes, Warnings
<1>8. CASE /\ pc[p] = "removeConfig" /\ exists
           /\ rows' = rows \ {route[p]} /\ UNCHANGED <<vault, exists, cached>>
           /\ Goto(p, "removeCache") /\ Note({}, {})
           /\ Unlocked /\ Quiet /\ UNCHANGED <<local, before, raced>>
  <2> USE <1>8
  <2>1. OthersRest(p) BY DEF OthersRest, IInv, TypeOK
  <2>2. Remembered BY NotesRemember
  <2>3. pc'[p] = "removeCache" BY DEF IInv, TypeOK
  <2>4. Bearings(p)' BY <1>1, <2>3 DEF Bearings, Persisting
  <2>5. \A r \in Route : r = route[p] => Answers(p, r)' \/ Agrees(r)'
    BY <1>1, <2>3 DEF Answers, Agrees, Knows, Bearings
  <2>6. NoDocument' BY DEF AInv, NoDocument
  <2> QED BY <1>4, <2>1, <2>2, <2>3, <2>4, <2>5, <2>6, Accounting
<1>9. CASE pc[p] = "removeConfig" /\ Keep /\ End(p, "keyless")
  BY <1>9, EndReports DEF Outcomes, Warnings
<1>10. CASE RemoveCache(p)
  <2>1. PICK o \in {"removed", "stale"} : End(p, o) /\ UNCHANGED <<vault, exists, rows>>
    BY <1>10 DEF RemoveCache, DropCacheRow
  <2>2. \A r \in Route : Answers(p, r) => p \in raced BY <1>10 DEF RemoveCache, Answers
  <2> QED BY <2>1, <2>2, EndReports DEF Outcomes
<1> QED BY <1>5, <1>6, <1>7, <1>8, <1>9, <1>10 DEF Remove, RemoveProbe, RemoveConfig

\* A process that dies is noted as such, for whatever it was at work on.
LEMMA DeathsAnswer ==
    ASSUME IInv, AInv, NEW p \in Proc, Die(p)
    PROVE  AInv'
<1>1. Quit(p, "none") /\ raced' = raced \ {p} /\ Note({route[p]} \cup todo[p], {})
  BY DEF Die
<1>2. \A r \in Route : Answers(p, r) => r \in {route[p]} \cup todo[p]
  BY DEF Answers
<1>3. UNCHANGED <<vault, exists, rows>>
  BY DEF Die, Keep, stores
<1> QED BY <1>1, <1>2, <1>3, Reported

\* A collection's observation is none of the invariant's stores.
LEMMA ObservationsAnswer ==
    ASSUME IInv, AInv, NEW r \in Route, Observe(r)
    PROVE  AInv'
<1>1. UNCHANGED <<vault, exists, rows, pc, local, history>>
  BY DEF Observe
<1> QED BY <1>1 DEF AInv, NoDocument, AllHaveBearings, Bearings, AllAnswered, Answered, Awaited, Agrees,
                    Answers, local, history

\* With the document go the entries of the user's own routes, which are noted; the
\* shipped ones wait for the next migration.
LEMMA OutsideAnswers ==
    ASSUME IInv, AInv, Outside
    PROVE  AInv'
<1>1. /\ exists /\ ~exists' /\ rows' = {} /\ vault' = vault
      /\ UNCHANGED <<pc, cmd, route, key, prior, had, todo, raced>> /\ Note(Route \ Shipped, {})
  BY DEF Outside, local
<1>2. /\ Remembered
      /\ \A r \in Route \ Shipped : r \in told' \cup silent' \/ Agrees(r)'
  BY <1>1, NotesRemember
<1>3. ASSUME NEW p \in Proc PROVE pc[p] # "publish"
  BY <1>1 DEF AInv, AllHaveBearings, Bearings
<1>4. ASSUME NEW p \in Proc PROVE Bearings(p)'
  <2>1. Bearings(p) /\ HasInputs(p)
    BY DEF AInv, AllHaveBearings, IInv, InputsKept
  <2>2. ASSUME pc[p] \in {"probe"} \cup Persisting, vault[route[p]] # NoSecret
        PROVE  route[p] \in told' \cup silent'
    <3>1. route[p] \in Route \ Shipped BY <2>1, <2>2 DEF HasInputs, Persisting
    <3> QED BY <1>1, <1>2, <2>2, <3>1 DEF Agrees
  <2> QED BY <1>1, <1>3, <2>1, <2>2 DEF Bearings, Persisting
<1>5. ASSUME NEW r \in Route PROVE (Answered(r) \/ Awaited(r))'
  <2>1. CASE r \in Shipped BY <1>1, <1>3, <2>1 DEF Awaited
  <2>2. CASE r \notin Shipped BY <1>2, <2>2 DEF Answered
  <2> QED BY <2>1, <2>2
<1> QED BY <1>1, <1>4, <1>5 DEF AInv, NoDocument, AllHaveBearings, AllAnswered

\* The first state has no document, no credential and no command.
LEMMA StartsAnswered == Init => AInv
BY DEF Init, AInv, NoDocument, AllHaveBearings, Bearings, Persisting, AllAnswered, Answered, Awaited, Agrees

\* Every disagreement of vault and configuration is reported, answered for, or
\* waits for the migration, in every reachable state.
THEOREM EveryRouteAnswered == Spec => []AInv
<1>1. ASSUME IInv, AInv, [Next]_vars PROVE AInv'
  <2>1. CASE UNCHANGED vars
    BY <1>1, <2>1 DEF vars, AInv, NoDocument, AllHaveBearings, Bearings, AllAnswered, Answered, Awaited,
                      Agrees, Answers
  <2> QED BY <1>1, <2>1, BeginsAnswer, MigratesAnswer, StoresAnswer, RepairsAnswer, ValidatesAnswer,
             PersistsAnswer, RemovesAnswer, DeathsAnswer, ObservationsAnswer, OutsideAnswers DEF Next
<1>2. IInv /\ AInv /\ [Next]_vars => AInv'
  BY <1>1
<1> QED BY <1>2, StartsAnswered, ReportsGrounded, PTL DEF Spec

\* Vault and configuration agree about every route, but for the disagreements that
\* have been reported, are known to be silent, or are being worked on.
THEOREM StoresInAgreement == Spec => []StoresAgree
<1>1. ASSUME AInv PROVE StoresAgree
  <2> SUFFICES ASSUME exists, NEW r \in Route
               PROVE  Agrees(r) \/ r \in told \cup silent \/ InFlight(r)
    BY DEF StoresAgree
  <2> QED BY <1>1 DEF AInv, AllAnswered, Answered, Awaited, Answers, InFlight
<1>2. AInv => StoresAgree
  BY <1>1
<1> QED BY <1>2, EveryRouteAnswered, PTL
=============================================================================
