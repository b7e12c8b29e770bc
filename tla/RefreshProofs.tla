---------------------------- MODULE RefreshProofs ----------------------------
(***************************************************************************)
(* What holds of the status cache for any routes, workers, revisions, TTL, *)
(* collection length and faults: every row, wherever a copy of it is kept, *)
(* describes the configuration it is tagged with and is stamped within one *)
(* collection of the moment it was fetched; hence what the gate may deny.  *)
(***************************************************************************)
EXTENDS Refresh, TLAPS

\* An absent row is told apart from every row.
LEMMA NoneIsNoRow == None \notin Row
BY DEF None, Row

\* The invariant holds initially, whatever rows an earlier collection left.
LEMMA InitHolds == Init => IInv
<1> SUFFICES ASSUME Init PROVE IInv
    OBVIOUS
<1>1. TypeOK
  <2>1. Earlier \in Row
    BY BoundAssumption, TimeAssumption DEF Earlier, Row, Time, Rev
  <2>2. cache \in Rows /\ NoRows \in Rows
    BY <2>1 DEF Init, Rows, NoRows
  <2>3. Said("skipped") \in Verdicts
    BY DEF Said, Verdicts, Verdict
  <2> QED
    BY <2>2, <2>3, BoundAssumption, TimeAssumption
    DEF Init, TypeOK, Time, Rev, Command, Idle
<1>2. RowsSound
  <2>1. Sound(Earlier) /\ Sound(None)
    BY TimeAssumption DEF Sound, Earlier, None
  <2>2. mut.at # "write"
    BY DEF Init, Idle
  <2> QED
    BY <2>1, <2>2 DEF Init, RowsSound, NoRows
<1>3. WorkerSound
  BY DEF Init, WorkerSound, Collecting, Said
<1>4. CopiesOrdered
  <2>1. mut.at # "write" /\ clock = 0
    BY DEF Init, Idle
  <2>2. \A r \in Route : cache[r] # None => cache[r].at = 0
    BY DEF Init, Earlier
  <2>3. \A w \in Worker : pc[w] # "publish" /\ \A r \in Route : prior[w][r] = None
    BY DEF Init, NoRows
  <2>4. ASSUME NEW r \in Route, cache[r] # None PROVE cache[r].at <= clock
    BY <2>1, <2>2, <2>4
  <2> QED
    BY <2>1, <2>3, <2>4 DEF CopiesOrdered
<1> QED
  BY <1>1, <1>2, <1>3, <1>4 DEF IInv

-----------------------------------------------------------------------------
\* Facts used by several steps.

\* A row built from an observation describes what the worker read and fetched.
LEMMA ObservedIsSound ==
    ASSUME IInv, NEW w \in Worker, NEW r \in Route, pc[w] = "publish",
           snap[w][r] # 0, res[w][r].kind = "seen"
    PROVE  Observed(w, r) \in Row /\ Sound(Observed(w, r))
<1>1. res[w][r] \in Observation
  BY DEF IInv, TypeOK, Verdicts, Observation, Verdict
<1>2. clock \in Time /\ snap[w][r] \in Rev /\ began[w] \in Time
  BY DEF IInv, TypeOK
<1>3. clock <= began[w] + Fan /\ began[w] <= res[w][r].seen
  BY DEF IInv, WorkerSound, Collecting
<1>4. clock <= res[w][r].seen + Fan
  BY <1>1, <1>2, <1>3, TimeAssumption DEF Observation, Time
<1> QED
  BY <1>1, <1>2, <1>4 DEF Observed, Row, Sound, Observation

\* The classified unknown row denies nothing.
LEMMA UnknownIsSound == clock \in Time => Unknown \in Row /\ Sound(Unknown)
BY TimeAssumption, BoundAssumption DEF Unknown, Row, Sound, Time, Rev

\* Every row a publish writes is sound.
LEMMA EntriesAreSound ==
    ASSUME IInv, NEW w \in Worker, NEW r \in Route, pc[w] = "publish"
    PROVE  EntryFor(w, r) \in Row \cup {None} /\ Sound(EntryFor(w, r))
<1>1. Sound(None)
  BY DEF Sound
<1>2. prior[w][r] \in Row \cup {None} /\ Sound(prior[w][r]) /\ clock \in Time
  BY DEF IInv, TypeOK, RowsSound, Rows
<1>3. CASE snap[w][r] = 0
  BY <1>1, <1>3 DEF EntryFor
<1>4. CASE snap[w][r] # 0 /\ res[w][r].kind = "seen"
  BY <1>4, ObservedIsSound DEF EntryFor
<1>5. CASE snap[w][r] # 0 /\ res[w][r].kind # "seen" /\ prior[w][r] # None
  BY <1>5, <1>2 DEF EntryFor
<1>6. CASE snap[w][r] # 0 /\ res[w][r].kind = "failed" /\ prior[w][r] = None
  BY <1>6, <1>2, UnknownIsSound DEF EntryFor
<1>7. CASE snap[w][r] # 0 /\ res[w][r].kind # "seen" /\ res[w][r].kind # "failed"
           /\ prior[w][r] = None
  BY <1>7, <1>1 DEF EntryFor
<1> QED
  BY <1>3, <1>4, <1>5, <1>6, <1>7

\* A worker that forgets its collection keeps only harmless values.
LEMMA ForgetKeeps ==
    ASSUME IInv, NEW w \in Worker, Forget(w), clock' = clock,
           NEW place \in {"idle", "release"}, pc' = [pc EXCEPT ![w] = place],
           place = "release" => owners' = {w},
           \A u \in Worker \ {w} : owners = {u} => owners' = {u}
    PROVE  /\ snap' \in [Worker -> [Route -> Rev]] /\ began' \in [Worker -> Time]
           /\ res' \in [Worker -> [Route -> Observation \cup Verdicts]]
           /\ prior' \in [Worker -> Rows]
           /\ pc' \in [Worker -> {"idle", "acquire", "fetch", "publish", "release"}]
           /\ \A u \in Worker, r \in Route : Sound(prior'[u][r])
           /\ WorkerSound'
<1>1. 0 \in Rev /\ 0 \in Time /\ Said("skipped") \in Verdicts /\ NoRows \in Rows
  BY BoundAssumption, TimeAssumption DEF Rev, Time, Said, Verdicts, Verdict, NoRows, Rows
<1>2. Sound(None)
  BY DEF Sound
<1>3. WorkerSound'
  <2> SUFFICES ASSUME NEW u \in Worker
      PROVE  /\ Collecting(u)' => began'[u] <= clock' /\ clock' <= began'[u] + Fan
             /\ Collecting(u)' \/ pc'[u] = "release" => owners' = {u}
             /\ \A r \in Route : res'[u][r].kind = "seen" =>
                   Collecting(u)' /\ began'[u] <= res'[u][r].seen
             /\ pc'[u] = "publish" => \A r \in Route : res'[u][r].kind # "pending"
    BY DEF WorkerSound
  <2>1. CASE u = w
    BY <2>1 DEF IInv, TypeOK, Forget, Collecting, Said
  <2>2. CASE u # w
    BY <2>2 DEF IInv, TypeOK, WorkerSound, Forget, Collecting
  <2> QED
    BY <2>1, <2>2
<1> QED
  BY <1>1, <1>2, <1>3 DEF IInv, TypeOK, RowsSound, Forget, NoRows

-----------------------------------------------------------------------------
\* One lemma per step.

LEMMA ReadConfigKeeps == ASSUME IInv, NEW w \in Worker, ReadConfig(w) PROVE IInv'
<1>0. CopiesOrdered'
  BY DEF IInv, TypeOK, CopiesOrdered, NotNewer, ReadConfig, Goto
<1>1. TypeOK'
  BY BoundAssumption DEF IInv, TypeOK, ReadConfig, Goto
<1>2. RowsSound'
  BY DEF IInv, RowsSound, ReadConfig
<1>3. WorkerSound'
  BY DEF IInv, TypeOK, WorkerSound, Collecting, ReadConfig, Goto
<1> QED
  BY <1>0, <1>1, <1>2, <1>3 DEF IInv

LEMMA AcquireKeeps == ASSUME IInv, NEW w \in Worker, Acquire(w) PROVE IInv'
<1>0. CopiesOrdered'
  BY DEF IInv, TypeOK, CopiesOrdered, NotNewer, Acquire, Goto
<1>1. PICK p \in [Route -> Verdict] :
        res' = [res EXCEPT ![w] = [r \in Route |-> Said(p[r])]]
  BY DEF Acquire, Plan
<1>2. \A r \in Route : Said(p[r]) \in Verdicts /\ Said(p[r]).kind # "seen"
  BY DEF Said, Verdicts, Verdict
<1>3. owners = {} /\ owners' = {w}
  BY DEF Acquire, Lock!Acquire
<1>4. TypeOK'
  BY <1>1, <1>2, <1>3 DEF IInv, TypeOK, Acquire, Goto
<1>5. RowsSound'
  BY DEF IInv, RowsSound, Acquire
<1>6. WorkerSound'
  <2> SUFFICES ASSUME NEW u \in Worker
      PROVE  /\ Collecting(u)' => began'[u] <= clock' /\ clock' <= began'[u] + Fan
             /\ Collecting(u)' \/ pc'[u] = "release" => owners' = {u}
             /\ \A r \in Route : res'[u][r].kind = "seen" =>
                   Collecting(u)' /\ began'[u] <= res'[u][r].seen
             /\ pc'[u] = "publish" => \A r \in Route : res'[u][r].kind # "pending"
    BY DEF WorkerSound
  <2>1. CASE u = w
    BY <2>1, <1>1, <1>2, <1>3, TimeAssumption
    DEF IInv, TypeOK, Acquire, Goto, Collecting, Time
  <2>2. CASE u # w
    BY <2>2, <1>1, <1>3 DEF IInv, TypeOK, WorkerSound, Acquire, Goto, Collecting
  <2> QED
    BY <2>1, <2>2
<1> QED
  BY <1>0, <1>4, <1>5, <1>6 DEF IInv

LEMMA LoseKeeps == ASSUME IInv, NEW w \in Worker, Lose(w) PROVE IInv'
<1>1. clock' = clock /\ cache' = cache /\ mut' = mut /\ owners' = owners
      /\ pc' = [pc EXCEPT ![w] = "idle"] /\ Forget(w)
  BY DEF Lose, Goto
<1>2. CopiesOrdered'
  BY <1>1 DEF IInv, TypeOK, CopiesOrdered, NotNewer, Forget, NoRows
<1> QED
  BY <1>1, <1>2, ForgetKeeps DEF IInv, TypeOK, RowsSound, Lose

LEMMA FetchKeeps == ASSUME IInv, NEW w \in Worker, NEW r \in Route, Fetch(w, r) PROVE IInv'
<1>1. PICK o \in {Said("failed")} \cup [kind : {"seen"}, state : {"usable", "exhausted"},
                                         seen : {clock}] :
        res' = [res EXCEPT ![w][r] = o]
  BY DEF Fetch
<1>2. o \in Observation \cup Verdicts /\ (o.kind = "seen" => o.seen = clock)
  BY <1>1 DEF IInv, TypeOK, Observation, Verdicts, Verdict, Said
<1>3. TypeOK'
  BY <1>1, <1>2 DEF IInv, TypeOK, Fetch
<1>4. RowsSound'
  BY DEF IInv, RowsSound, Fetch
<1>5. CopiesOrdered'
  BY DEF IInv, CopiesOrdered, NotNewer, Fetch
<1>6. began[w] <= clock
  BY DEF IInv, WorkerSound, Collecting, Fetch
<1>7. WorkerSound'
  BY <1>1, <1>2, <1>6 DEF IInv, TypeOK, WorkerSound, Collecting, Fetch
<1> QED
  BY <1>5, <1>3, <1>4, <1>7 DEF IInv

\* What is read of the cache is as good as the cache: it is all of it, or nothing.
LEMMA ReadIsSound ==
    ASSUME IInv, NEW rows \in ReadCache
    PROVE  /\ rows \in Rows
           /\ \A r \in Route : /\ Sound(rows[r])
                               /\ rows[r] # None => rows[r].at <= clock
                               /\ NotNewer(cache[r], rows[r]) /\ NotNewer(rows[r], cache[r])
                               /\ mut.at = "write" => NotNewer(mut.rows[r], rows[r])
<1>1. CASE rows = cache
  <2>1. \A r \in Route : NotNewer(cache[r], cache[r])
    BY DEF IInv, TypeOK, Rows, Row, NotNewer, Time
  <2> QED
    BY <1>1, <2>1 DEF IInv, TypeOK, RowsSound, CopiesOrdered
<1>2. CASE rows = NoRows
  BY <1>2 DEF NoRows, Rows, Sound, NotNewer
<1> QED
  BY <1>1, <1>2 DEF ReadCache

LEMMA ReadPriorKeeps == ASSUME IInv, NEW w \in Worker, ReadPrior(w) PROVE IInv'
<1> PICK rows \in ReadCache : prior' = [prior EXCEPT ![w] = rows]
  BY DEF ReadPrior
<1>0. CopiesOrdered'
  BY ReadIsSound DEF IInv, TypeOK, CopiesOrdered, NotNewer, ReadPrior, Goto
<1>1. TypeOK'
  BY ReadIsSound DEF IInv, TypeOK, ReadPrior, Goto
<1>2. RowsSound'
  BY ReadIsSound DEF IInv, TypeOK, RowsSound, ReadPrior
<1>3. WorkerSound'
  <2>1. \A r \in Route : res[w][r].kind # "pending"
    BY DEF IInv, TypeOK, ReadPrior, Said, Verdicts, Verdict, Observation
  <2> QED
    BY <2>1 DEF IInv, TypeOK, WorkerSound, Collecting, ReadPrior, Goto
<1> QED
  BY <1>0, <1>1, <1>2, <1>3 DEF IInv

\* A publish leaves each row at least as new as whatever could have been there.
LEMMA PublishedIsNewest ==
    ASSUME IInv, NEW w \in Worker, NEW r \in Route, pc[w] = "publish"
    PROVE  /\ EntryFor(w, r) # None => EntryFor(w, r).at <= clock
           /\ NotNewer(cache[r], EntryFor(w, r))
           /\ mut.at = "write" => NotNewer(mut.rows[r], EntryFor(w, r))
<1>1. prior[w][r] \in Row \cup {None} /\ cache[r] \in Row \cup {None} /\ clock \in Nat
  BY DEF IInv, TypeOK, Rows, Time
<1>2. \/ EntryFor(w, r) = None
      \/ EntryFor(w, r) # None /\ EntryFor(w, r).at = clock
      \/ EntryFor(w, r) = prior[w][r]
  BY DEF EntryFor, Observed, Unknown, None
<1>3. CASE EntryFor(w, r) = None
  BY <1>3 DEF NotNewer
<1>4. CASE EntryFor(w, r) # None /\ EntryFor(w, r).at = clock
  BY <1>1, <1>4 DEF IInv, CopiesOrdered, NotNewer
<1>5. CASE EntryFor(w, r) = prior[w][r]
  BY <1>5 DEF IInv, CopiesOrdered, NotNewer
<1> QED
  BY <1>2, <1>3, <1>4, <1>5

\* The worker lock admits one publisher.
LEMMA NoOtherPublishes ==
    ASSUME IInv, NEW w \in Worker, NEW u \in Worker, pc[w] = "publish", pc[u] = "publish"
    PROVE  u = w
BY DEF IInv, WorkerSound, Collecting

LEMMA PublishKeeps == ASSUME IInv, NEW w \in Worker, Publish(w) PROVE IInv'
<1>1. clock' = clock /\ mut' = mut /\ owners' = owners
      /\ pc' = [pc EXCEPT ![w] = "release"] /\ Forget(w) /\ pc[w] = "publish"
  BY DEF Publish, Goto
<1>2. owners = {w}
  BY <1>1 DEF IInv, WorkerSound, Collecting
<1>3. cache' \in Rows /\ \A r \in Route : Sound(cache'[r])
  BY <1>1, EntriesAreSound DEF IInv, TypeOK, RowsSound, Publish, Rows
<1>4. /\ snap' \in [Worker -> [Route -> Rev]] /\ began' \in [Worker -> Time]
      /\ res' \in [Worker -> [Route -> Observation \cup Verdicts]]
      /\ prior' \in [Worker -> Rows]
      /\ pc' \in [Worker -> {"idle", "acquire", "fetch", "publish", "release"}]
      /\ \A u \in Worker, r \in Route : Sound(prior'[u][r])
      /\ WorkerSound'
  BY <1>1, <1>2, ForgetKeeps
<1>5. CopiesOrdered'
  BY <1>1, <1>2, NoOtherPublishes, PublishedIsNewest
  DEF IInv, TypeOK, CopiesOrdered, Publish, Forget, NoRows, NotNewer
<1> QED
  BY <1>1, <1>3, <1>4, <1>5 DEF IInv, TypeOK, RowsSound, Publish

LEMMA ReleaseKeeps == ASSUME IInv, NEW w \in Worker, Release(w) PROVE IInv'
<1>0. CopiesOrdered'
  BY DEF IInv, TypeOK, CopiesOrdered, NotNewer, Release, Goto
<1>1. owners = {w} /\ owners' = {}
  BY DEF Release, Lock!Leave
<1>2. TypeOK'
  BY <1>1 DEF IInv, TypeOK, Release, Goto
<1>3. RowsSound'
  BY DEF IInv, RowsSound, Release
<1>4. WorkerSound'
  BY <1>1 DEF IInv, TypeOK, WorkerSound, Collecting, Release, Goto
<1> QED
  BY <1>0, <1>2, <1>3, <1>4 DEF IInv

LEMMA CrashKeeps == ASSUME IInv, NEW w \in Worker, Crash(w) PROVE IInv'
<1>1. clock' = clock /\ mut' = mut /\ cache' = cache /\ owners' = owners \ {w}
      /\ pc' = [pc EXCEPT ![w] = "idle"] /\ Forget(w)
  BY DEF Crash, Goto
<1>2. owners = {w}
  BY DEF IInv, WorkerSound, Collecting, Crash
<1>3. CopiesOrdered'
  BY <1>1 DEF IInv, TypeOK, CopiesOrdered, NotNewer, Forget, NoRows
<1> QED
  BY <1>1, <1>2, <1>3, ForgetKeeps DEF IInv, TypeOK, RowsSound, Crash

\* Nothing that can be read of the cache is newer than what a worker is to publish.
LEMMA PriorIsNewest ==
    ASSUME IInv, NEW w \in Worker, pc[w] = "publish", NEW rows \in ReadCache, NEW r \in Route
    PROVE  NotNewer(rows[r], prior[w][r])
<1>1. CASE rows = cache
  BY <1>1 DEF IInv, CopiesOrdered
<1>2. CASE rows = NoRows
  BY <1>2 DEF NoRows, NotNewer
<1> QED
  BY <1>1, <1>2 DEF ReadCache

LEMMA CommandKeeps ==
    ASSUME IInv,
           (\E r \in Route, v \in Rev : Configure(r, v)) \/ ReadRows \/ LeaveRow
    PROVE  IInv'
<1>1. UNCHANGED <<clock, cache, owners, worker>>
  BY DEF Configure, ReadRows, LeaveRow
<1>2. TypeOK'
  <2>1. CASE \E r \in Route, v \in Rev : Configure(r, v)
    BY <2>1, <1>1, BoundAssumption DEF IInv, TypeOK, Configure, Command, worker
  <2>2. CASE ReadRows
    <3>1. mut.route \in Route
      BY <2>2 DEF IInv, TypeOK, ReadRows, Command, Idle
    <3>2. PICK rows \in ReadCache : mut' = [at |-> "write", route |-> mut.route, rows |-> rows]
      BY <2>2 DEF ReadRows
    <3>3. mut' \in Command
      BY <3>1, <3>2, ReadIsSound DEF Command
    <3> QED
      BY <2>2, <3>3, <1>1 DEF IInv, TypeOK, ReadRows, worker
  <2>3. CASE LeaveRow
    BY <2>3, <1>1 DEF IInv, TypeOK, LeaveRow, Command, worker
  <2> QED
    BY <2>1, <2>2, <2>3
<1>3. mut'.at = "write" => mut'.rows \in ReadCache
  BY DEF Configure, ReadRows, LeaveRow, Idle
<1>4. RowsSound'
  BY <1>1, <1>3, ReadIsSound DEF IInv, RowsSound, worker
<1>5. WorkerSound'
  BY <1>1 DEF IInv, WorkerSound, Collecting, worker
<1>6. CopiesOrdered'
  <2>1. \A w \in Worker : pc[w] = "publish" =>
          \A r \in Route : mut'.at = "write" => NotNewer(mut'.rows[r], prior[w][r])
    BY <1>3, PriorIsNewest
  <2> QED
    BY <1>1, <1>3, <2>1, ReadIsSound DEF IInv, CopiesOrdered, worker
<1> QED
  BY <1>2, <1>4, <1>5, <1>6 DEF IInv

LEMMA WriteRowsKeeps == ASSUME IInv, WriteRows PROVE IInv'
<1>1. mut.rows \in Rows /\ mut.route \in Route
  BY DEF IInv, TypeOK, WriteRows, Command, Idle
<1>2. Sound(None)
  BY DEF Sound
<1>3. TypeOK'
  BY <1>1 DEF IInv, TypeOK, WriteRows, Command, Rows, worker
<1>4. RowsSound'
  BY <1>1, <1>2 DEF IInv, RowsSound, WriteRows, Rows, Idle, worker
<1>5. WorkerSound'
  BY DEF IInv, WorkerSound, Collecting, WriteRows, worker
<1>6. CopiesOrdered'
  BY <1>1 DEF IInv, CopiesOrdered, NotNewer, WriteRows, Rows, Idle, worker
<1> QED
  BY <1>3, <1>4, <1>5, <1>6 DEF IInv

LEMMA TickKeeps == ASSUME IInv, Tick PROVE IInv'
<1>0. CopiesOrdered'
  <2>1. \A x \in Time : x <= clock => x <= clock + 1
    BY DEF IInv, TypeOK, Time
  <2>2. /\ \A r \in Route : cache[r] # None => cache[r].at \in Time
        /\ \A r \in Route, w \in Worker : prior[w][r] # None => prior[w][r].at \in Time
        /\ \A r \in Route : mut.at = "write" /\ mut.rows[r] # None => mut.rows[r].at \in Time
    BY DEF IInv, TypeOK, Rows, Row, Command, Idle
  <2> QED
    BY <2>1, <2>2 DEF IInv, CopiesOrdered, NotNewer, Tick, worker
<1>1. TypeOK'
  BY TimeAssumption DEF IInv, TypeOK, Tick, Time, worker
<1>2. RowsSound'
  BY DEF IInv, RowsSound, Tick, worker
<1>3. WorkerSound'
  BY TimeAssumption DEF IInv, TypeOK, WorkerSound, Collecting, Tick, Time, worker
<1> QED
  BY <1>0, <1>1, <1>2, <1>3 DEF IInv

\* A step that changes nothing.
LEMMA StutterKeeps == IInv /\ UNCHANGED vars => IInv'
BY DEF IInv, TypeOK, RowsSound, WorkerSound, CopiesOrdered, Collecting, vars

\* Every step keeps the invariant.
LEMMA NextKeeps == IInv /\ [Next]_vars => IInv'
<1> SUFFICES ASSUME IInv, [Next]_vars PROVE IInv'
    OBVIOUS
<1>1. ASSUME NEW w \in Worker,
             \/ ReadConfig(w) \/ Acquire(w) \/ Lose(w)
             \/ \E r \in Route : Fetch(w, r)
             \/ ReadPrior(w) \/ Publish(w) \/ Release(w) \/ Crash(w)
      PROVE  IInv'
  BY <1>1, ReadConfigKeeps, AcquireKeeps, LoseKeeps, FetchKeeps, ReadPriorKeeps,
     PublishKeeps, ReleaseKeeps, CrashKeeps
<1>2. CASE (\E r \in Route, v \in Rev : Configure(r, v)) \/ ReadRows \/ LeaveRow
  BY <1>2, CommandKeeps
<1>3. CASE WriteRows
  BY <1>3, WriteRowsKeeps
<1>4. CASE Tick
  BY <1>4, TickKeeps
<1>5. CASE UNCHANGED vars
  BY <1>5, StutterKeeps
<1> QED
  BY <1>1, <1>2, <1>3, <1>4, <1>5 DEF Next

-----------------------------------------------------------------------------
\* The inductive invariant holds of every behaviour.
THEOREM Invariance == Spec => []IInv
BY InitHolds, NextKeeps, PTL DEF Spec

\* Every variable keeps its type.
THEOREM TypeCorrect == Spec => []TypeOK
<1>1. IInv => TypeOK
  BY DEF IInv
<1> QED
  BY <1>1, Invariance, PTL

\* Whatever was edited, retained, dropped or rewritten, the gate denies only on
\* an observation of the very configuration it read.
THEOREM DeniesAreGrounded == Spec => []DenyIsGrounded
<1>1. IInv => DenyIsGrounded
  <2> SUFFICES ASSUME IInv, NEW r \in Route, NEW v \in Rev, Denies(cache[r], v)
      PROVE  cache[r].of = v
    BY DEF DenyIsGrounded
  <2>1. cache[r] # None
    BY DEF Denies, None
  <2> QED
    BY <2>1 DEF IInv, RowsSound, Sound, Denies
<1> QED
  BY <1>1, Invariance, PTL

\* The gate never denies on an observation older than the TTL plus the length of
\* one collection.
THEOREM DeniesAreRecent == Spec => []DenyIsRecent
<1>1. IInv => DenyIsRecent
  <2> SUFFICES ASSUME IInv, NEW r \in Route, NEW v \in Rev, Denies(cache[r], v)
      PROVE  clock <= cache[r].seen + Ttl + Fan
    BY DEF DenyIsRecent
  <2>1. cache[r] \in Row /\ cache[r] # None
    BY DEF Denies, None, IInv, TypeOK, Rows
  <2> QED
    BY <2>1, TimeAssumption DEF IInv, TypeOK, RowsSound, Sound, Denies, Row, Time
<1> QED
  BY <1>1, Invariance, PTL

\* No publish loses or ages what the cache knows.
LEMMA StepKeepsFacts ==
    ASSUME IInv, Next, NEW w \in Worker, NEW r \in Route, Publishes(w)
    PROVE  Retains(w, r)
<1>1. Publish(w)
  <2>1. ~(\E s \in Route, v \in Rev : Configure(s, v)) /\ ~ReadRows /\ ~WriteRows /\ ~LeaveRow /\ ~Tick
    BY DEF Publishes, Configure, ReadRows, WriteRows, LeaveRow, Tick, worker
  <2>2. PICK u \in Worker :
          \/ ReadConfig(u) \/ Acquire(u) \/ Lose(u)
          \/ \E s \in Route : Fetch(u, s)
          \/ ReadPrior(u) \/ Publish(u) \/ Release(u) \/ Crash(u)
    BY <2>1 DEF Next
  <2>3. u = w
    BY <2>2 DEF IInv, TypeOK, Publishes, ReadConfig, Acquire, Lose, Fetch, ReadPrior, Publish,
       Release, Crash, Goto
  <2> QED
    BY <2>2, <2>3 DEF IInv, TypeOK, Publishes, ReadConfig, Acquire, Lose, Fetch, ReadPrior,
       Release, Crash, Goto
<1>2. CASE cache' = [s \in Route |-> EntryFor(w, s)]
  <2>1. NotNewer(cache[r], cache'[r])
    BY <1>2, PublishedIsNewest DEF Publishes
  <2>2. snap[w][r] # 0 /\ res[w][r].kind # "skipped" => cache'[r] # None
    <3>1. res[w][r] \in Observation \cup Verdicts /\ res[w][r].kind # "pending"
      BY <1>1 DEF IInv, TypeOK, WorkerSound, Publish
    <3>2. res[w][r].kind \in {"seen", "failed", "skipped"}
      BY <3>1 DEF Observation, Verdicts, Verdict
    <3> QED
      BY <1>2, <3>2 DEF EntryFor, Observed, Unknown, None
  <2>3. prior[w][r] # None /\ snap[w][r] # 0 /\ res[w][r].kind # "seen" => cache'[r] = prior[w][r]
    BY <1>2 DEF EntryFor
  <2> QED
    BY <2>1, <2>2, <2>3 DEF Retains
<1>3. CASE cache' = cache
  BY <1>3 DEF IInv, TypeOK, Rows, Row, Retains, NotNewer, Time
<1> QED
  BY <1>1, <1>2, <1>3 DEF Publish

\* Along every behaviour: a collection's publish brings back no older observation, leaves
\* a row of every route it attempted, and loses none of the rows it found, although it
\* read the cache before others wrote it (lib/collector.js).
THEOREM PublishesKeepFacts == Spec => PublishKeepsFacts
<1>1. IInv /\ [Next]_vars =>
        [\A w \in Worker, r \in Route : Publishes(w) => Retains(w, r)]_vars
  BY StepKeepsFacts
<1> QED
  BY <1>1, Invariance, PTL DEF Spec, PublishKeepsFacts
=============================================================================
