------------------------------- MODULE Refresh -------------------------------
(***************************************************************************)
(* The status cache and everybody who writes or reads it: the collections  *)
(* of lib/collector.js (a manual, SessionStart or gate-spawned refresh, a  *)
(* view, the daemon's interval), which converge on the worker lock; the    *)
(* provider commands of lib/provider-lifecycle.js, which hold the mutation *)
(* lock and drop one row with dropCacheRow; and the dispatch gate of       *)
(* lib/gate.js, which reads a row and may deny on it.  Both locks are the  *)
(* abstract lock of Ownership.  A revision stands for what configRevision  *)
(* hashes, and may come back when an edit is undone.  A row also carries   *)
(* what really happened: the revision it was fetched under and when.       *)
(***************************************************************************)
EXTENDS Naturals

CONSTANTS Route,
          Worker,     \* processes that collect
          MaxRev,     \* revisions of a route's configuration
          Ttl,        \* ttlSeconds
          Fan,        \* bound: time from the worker lock to the publish
          MaxTime,    \* bound: the clock
          MaxEdit,    \* bound: provider commands in a behaviour
          MaxRun,     \* bound: collections in a behaviour
          Faults      \* "io", "crash"

ASSUME TimeAssumption == Ttl \in Nat /\ Fan \in Nat /\ MaxTime \in Nat
ASSUME BoundAssumption == MaxRev \in Nat \ {0} /\ MaxEdit \in Nat /\ MaxRun \in Nat
ASSUME FaultAssumption == Faults \subseteq {"io", "crash"}

Rev == 0 .. MaxRev      \* 0: not configured; on a row: no configRevision
Time == 0 .. MaxTime

None == [kind |-> "none"]
\* What an adapter returned ("usable" stands for everything but "exhausted"), and when.
Observation == [kind : {"seen"}, state : {"usable", "exhausted"}, seen : Time]
\* configRevision (tag), observedAt (at), and what happened (of, seen).
Row == [kind : {"row"}, state : {"usable", "exhausted", "unknown"}, tag : Rev,
        at : Time, of : Rev, seen : Time]
Verdict == {"skipped", "pending", "failed"}
Verdicts == [kind : Verdict]
Said(v) == [kind |-> v]

VARIABLES clock,
          rev,       \* config.json: the revision of each route, 0 when absent
          edits, runs,
          cache,     \* status.json
          owners,    \* the worker lock
          pc, snap,  \* a worker's place, and the configuration it read
          began,     \* when it was granted the lock
          res,       \* per route: its outcome, or what its adapter returned
          prior,     \* the cache it read before publishing
          mut        \* the provider command: its place, route and rows read

vars == <<clock, rev, edits, runs, cache, owners, pc, snap, began, res, prior, mut>>
worker == <<pc, snap, began, res, prior>>

Rows == [Route -> Row \cup {None}]
NoRows == [r \in Route |-> None]
Idle == [at |-> "idle"]
Command == {Idle}
           \cup [at : {"drop"}, route : Route]
           \cup [at : {"write"}, route : Route, rows : Rows]

TypeOK ==
    /\ clock \in Time /\ edits \in 0 .. MaxEdit /\ runs \in 0 .. MaxRun
    /\ rev \in [Route -> Rev]
    /\ cache \in Rows
    /\ owners \subseteq Worker
    /\ pc \in [Worker -> {"idle", "acquire", "fetch", "publish", "release"}]
    /\ snap \in [Worker -> [Route -> Rev]]
    /\ began \in [Worker -> Time]
    /\ res \in [Worker -> [Route -> Observation \cup Verdicts]]
    /\ prior \in [Worker -> Rows]
    /\ mut \in Command

Lock == INSTANCE Ownership WITH Contender <- Worker

Goto(w, place) == pc' = [pc EXCEPT ![w] = place]

\* The row an earlier collection may have left.
Earlier == [kind |-> "row", state |-> "exhausted", tag |-> 1, at |-> 0, of |-> 1, seen |-> 0]

Init ==
    /\ clock = 0 /\ edits = 0 /\ runs = 0
    /\ rev = [r \in Route |-> 1]
    /\ cache \in [Route -> {None, Earlier}]
    /\ owners = {}
    /\ pc = [w \in Worker |-> "idle"]
    /\ snap = [w \in Worker |-> [r \in Route |-> 0]]
    /\ began = [w \in Worker |-> 0]
    /\ res = [w \in Worker |-> [r \in Route |-> Said("skipped")]]
    /\ prior = [w \in Worker |-> NoRows]
    /\ mut = Idle

-----------------------------------------------------------------------------
\* A collection.

\* The configuration is read and confirmed; with no route there is nothing to do.
ReadConfig(w) ==
    /\ pc[w] = "idle" /\ runs < MaxRun
    /\ runs' = runs + 1
    /\ \E r \in Route : rev[r] # 0
    /\ snap' = [snap EXCEPT ![w] = rev]
    /\ Goto(w, "acquire")
    /\ UNCHANGED <<clock, rev, edits, cache, owners, began, res, prior, mut>>

\* planRoutes: a configured route is fetched, or has no credential, or its
\* credential store cannot be read; without one to fetch nothing is collected.
Plan(w) ==
    \E p \in [Route -> Verdict] :
       /\ \A r \in Route : snap[w][r] = 0 => p[r] = "skipped"
       /\ \E r \in Route : p[r] = "pending"
       /\ res' = [res EXCEPT ![w] = [r \in Route |-> Said(p[r])]]

\* The process is done with its collection and forgets it.
Forget(w) ==
    /\ snap' = [snap EXCEPT ![w] = [r \in Route |-> 0]]
    /\ began' = [began EXCEPT ![w] = 0]
    /\ res' = [res EXCEPT ![w] = [r \in Route |-> Said("skipped")]]
    /\ prior' = [prior EXCEPT ![w] = NoRows]

\* Mutated: a worker that loses the lock collects all the same.
AcquireAnyway(w) ==
    /\ pc[w] = "acquire"
    /\ owners' = owners \cup {w}
    /\ Plan(w)
    /\ began' = [began EXCEPT ![w] = clock]
    /\ Goto(w, "fetch")
    /\ UNCHANGED <<clock, rev, edits, runs, cache, snap, prior, mut>>

Acquire(w) ==
    /\ pc[w] = "acquire"
    /\ Lock!Acquire(w)
    /\ Plan(w)
    /\ began' = [began EXCEPT ![w] = clock]
    /\ Goto(w, "fetch")
    /\ UNCHANGED <<clock, rev, edits, runs, cache, snap, prior, mut>>

\* "no-credentials", or "in-progress" or "lock-unavailable": nothing is observed
\* and nothing is published.
Lose(w) ==
    /\ pc[w] = "acquire"
    /\ Goto(w, "idle") /\ Forget(w)
    /\ UNCHANGED <<clock, rev, edits, runs, cache, owners, mut>>

\* The adapters answer in any order, each with a status or an error.
Fetch(w, r) ==
    /\ pc[w] = "fetch"
    /\ res[w][r] = Said("pending")
    /\ \E o \in {Said("failed")} \cup [kind : {"seen"}, state : {"usable", "exhausted"},
                                       seen : {clock}] :
          res' = [res EXCEPT ![w][r] = o]
    /\ UNCHANGED <<clock, rev, edits, runs, cache, owners, pc, snap, began, prior, mut>>

\* readCache: a failed read, or a document that does not parse, is an empty cache.
ReadCache == {cache} \cup (IF "io" \in Faults THEN {NoRows} ELSE {})

ReadPrior(w) ==
    /\ pc[w] = "fetch"
    /\ \A r \in Route : res[w][r] # Said("pending")
    /\ \E rows \in ReadCache : prior' = [prior EXCEPT ![w] = rows]
    /\ Goto(w, "publish")
    /\ UNCHANGED <<clock, rev, edits, runs, cache, owners, snap, began, res, mut>>

\* Mutated: the expiry is written in the place of the observation time.
ObservedAhead(w, r) ==
    [kind |-> "row", state |-> res[w][r].state, tag |-> snap[w][r], at |-> clock + Ttl,
     of |-> snap[w][r], seen |-> res[w][r].seen]

\* entryFor, tagged by attachRevisions with the revision of the configuration
\* this collection read, and stamped when every adapter has answered.
Observed(w, r) ==
    [kind |-> "row", state |-> res[w][r].state, tag |-> snap[w][r], at |-> clock,
     of |-> snap[w][r], seen |-> res[w][r].seen]

\* The classified unknown status of a failed fetch with nothing to keep.
Unknown == [kind |-> "row", state |-> "unknown", tag |-> 0, at |-> clock, of |-> 0, seen |-> clock]

\* Mutated: every row is tagged with the current revision.
EntryTagged(w, r) ==
    CASE snap[w][r] = 0 -> None
      [] snap[w][r] # 0 /\ res[w][r].kind = "seen" -> Observed(w, r)
      [] snap[w][r] # 0 /\ res[w][r].kind # "seen" /\ prior[w][r] # None ->
            [prior[w][r] EXCEPT !.tag = snap[w][r]]
      [] snap[w][r] # 0 /\ res[w][r].kind = "failed" /\ prior[w][r] = None -> Unknown
      [] OTHER -> None
\* Mutated: a failed fetch renews the row it keeps.
EntryRenewed(w, r) ==
    CASE snap[w][r] = 0 -> None
      [] snap[w][r] # 0 /\ res[w][r].kind = "seen" -> Observed(w, r)
      [] snap[w][r] # 0 /\ res[w][r].kind # "seen" /\ prior[w][r] # None ->
            [prior[w][r] EXCEPT !.at = clock]
      [] snap[w][r] # 0 /\ res[w][r].kind = "failed" /\ prior[w][r] = None -> Unknown
      [] OTHER -> None

\* Pass 2: an observed route gets its own row, every other configured route
\* keeps its prior row verbatim, and a route that is not configured gets none.
EntryFor(w, r) ==
    CASE snap[w][r] = 0 -> None
      [] snap[w][r] # 0 /\ res[w][r].kind = "seen" -> Observed(w, r)
      [] snap[w][r] # 0 /\ res[w][r].kind # "seen" /\ prior[w][r] # None -> prior[w][r]
      [] snap[w][r] # 0 /\ res[w][r].kind = "failed" /\ prior[w][r] = None -> Unknown
      [] OTHER -> None

Publish(w) ==
    /\ pc[w] = "publish"
    /\ \/ cache' = [r \in Route |-> EntryFor(w, r)]
       \/ "io" \in Faults /\ UNCHANGED cache
    /\ Goto(w, "release") /\ Forget(w)
    /\ UNCHANGED <<clock, rev, edits, runs, owners, mut>>

Release(w) ==
    /\ pc[w] = "release"
    /\ Lock!Leave(w)
    /\ Goto(w, "idle")
    /\ UNCHANGED <<clock, rev, edits, runs, cache, snap, began, res, prior, mut>>

\* The process dies; its ticket is recovered by its liveness.
Crash(w) ==
    /\ "crash" \in Faults
    /\ pc[w] \in {"fetch", "publish", "release"}
    /\ owners' = owners \ {w}
    /\ Goto(w, "idle") /\ Forget(w)
    /\ UNCHANGED <<clock, rev, edits, runs, cache, mut>>

-----------------------------------------------------------------------------
\* A provider command, under the mutation lock: one at a time.

\* persistRoute or removeWithinLock has published: a new route, an edited or a
\* removed one, or (a rotated key, a built-in) the same configuration.
Configure(r, v) ==
    /\ mut = Idle /\ edits < MaxEdit
    /\ edits' = edits + 1
    /\ rev' = [rev EXCEPT ![r] = v]
    /\ mut' = [at |-> "drop", route |-> r]
    /\ UNCHANGED <<clock, runs, cache, owners, worker>>

\* dropCacheRow reads the whole cache ...
ReadRows ==
    /\ mut.at = "drop"
    /\ \E rows \in ReadCache : mut' = [at |-> "write", route |-> mut.route, rows |-> rows]
    /\ UNCHANGED <<clock, rev, edits, runs, cache, owners, worker>>

\* ... and writes all of it back but the one row.
WriteRows ==
    /\ mut.at = "write"
    /\ cache' = [mut.rows EXCEPT ![mut.route] = None]
    /\ mut' = Idle
    /\ UNCHANGED <<clock, rev, edits, runs, owners, worker>>

\* CACHE_STALE_WARNING, or the process dies: the row stays.
LeaveRow ==
    /\ mut.at \in {"drop", "write"}
    /\ Faults # {}
    /\ mut' = Idle
    /\ UNCHANGED <<clock, rev, edits, runs, cache, owners, worker>>

\* Time passes; requests are bounded, so no collection lasts longer than Fan.
Tick ==
    /\ clock < MaxTime
    /\ \A w \in Worker : pc[w] \in {"fetch", "publish"} => clock < began[w] + Fan
    /\ clock' = clock + 1
    /\ UNCHANGED <<rev, edits, runs, cache, owners, worker, mut>>

Next ==
    \/ \E w \in Worker :
          \/ ReadConfig(w) \/ Acquire(w) \/ Lose(w)
          \/ \E r \in Route : Fetch(w, r)
          \/ ReadPrior(w) \/ Publish(w) \/ Release(w) \/ Crash(w)
    \/ \E r \in Route, v \in Rev : Configure(r, v)
    \/ ReadRows \/ WriteRows \/ LeaveRow
    \/ Tick

Spec == Init /\ [][Next]_vars

-----------------------------------------------------------------------------
\* The gate.

\* Mutated: obsolete rows are trusted.
DeniesObsolete(row, v) ==
    row.kind = "row" /\ v # 0 /\ clock <= row.at + Ttl /\ row.state = "exhausted"

\* decide in "deny" mode, for a gate that read revision v of the route (at
\* whatever moment) and reads the row now.
Denies(row, v) ==
    /\ row.kind = "row" /\ v # 0
    /\ clock <= row.at + Ttl
    /\ row.tag = 0 \/ row.tag = v
    /\ row.state = "exhausted"

\* A deny rests on an exhausted quota that was observed under the very
\* configuration the gate read, whatever was edited, edited back, retained after
\* a failed fetch, dropped or rewritten in between.
DenyIsGrounded == \A r \in Route, v \in Rev : Denies(cache[r], v) => cache[r].of = v

\* A deny rests on an observation no older than the route's TTL plus the length
\* of one collection: failed fetches, retained rows and rewrites of the cache
\* never renew it ("it ages out on its own clock").
DenyIsRecent == \A r \in Route, v \in Rev :
    Denies(cache[r], v) => clock <= cache[r].seen + Ttl + Fan

\* A collection's publish never loses a fact: no row it leaves is from an older
\* observation than the row that was there, although the cache was read before other
\* processes wrote it; a route it attempted has a row afterwards; and a row it found,
\* which nobody has changed since, stays as it is unless the route was observed or is
\* no longer configured ("a sibling's success can never DROP a route's facts ... the
\* prior cache is the floor"). A cache that it could not read is no floor: it counts
\* as empty (cache.js:55), and the rows of the routes it did not observe are gone.
Publishes(w) == pc[w] = "publish" /\ pc'[w] = "release"
NotNewer(row, other) == row # None /\ other # None => row.at <= other.at
Retains(w, r) ==
    /\ NotNewer(cache[r], cache'[r])
    /\ cache[r] # None /\ snap[w][r] # 0 /\ res[w][r].kind # "skipped" => cache'[r] # None
    /\ cache[r] = prior[w][r] /\ snap[w][r] # 0 /\ res[w][r].kind # "seen" /\ cache[r] # None =>
          cache'[r] = cache[r]
PublishKeepsFacts == [][\A w \in Worker, r \in Route : Publishes(w) => Retains(w, r)]_vars

\* "Each surviving row keeps its own stamp; the only row this touches is the one
\* it deletes" (dropCacheRow).
OnlyTheDroppedRow == [][mut.at = "write" /\ cache' # cache /\ mut' = Idle =>
    \A s \in Route \ {mut.route} : cache'[s] = cache[s]]_vars

-----------------------------------------------------------------------------
\* The inductive invariant.

\* What every copy of a row satisfies, wherever it is kept.
Sound(row) == row # None =>
    /\ row.state = "unknown" \/ (row.tag = row.of /\ row.tag # 0)
    /\ row.at <= row.seen + Fan

RowsSound == \A r \in Route :
    /\ Sound(cache[r])
    /\ \A w \in Worker : Sound(prior[w][r])
    /\ mut.at = "write" => Sound(mut.rows[r])

\* No copy that may still be written back is newer than what it would replace.
CopiesOrdered == \A r \in Route :
    /\ cache[r] # None => cache[r].at <= clock
    /\ mut.at = "write" => NotNewer(mut.rows[r], cache[r])
    /\ \A w \in Worker : pc[w] = "publish" =>
          /\ NotNewer(cache[r], prior[w][r])
          /\ mut.at = "write" => NotNewer(mut.rows[r], prior[w][r])
    /\ mut.at = "write" /\ mut.rows[r] # None => mut.rows[r].at <= clock
    /\ \A w \in Worker : prior[w][r] # None => prior[w][r].at <= clock

\* A worker that holds observations was granted the lock, and is not late.
Collecting(w) == pc[w] \in {"fetch", "publish"}
WorkerSound == \A w \in Worker :
    /\ Collecting(w) => began[w] <= clock /\ clock <= began[w] + Fan
    /\ Collecting(w) \/ pc[w] = "release" => owners = {w}
    /\ \A r \in Route : res[w][r].kind = "seen" =>
          Collecting(w) /\ began[w] <= res[w][r].seen
    /\ pc[w] = "publish" => \A r \in Route : res[w][r].kind # "pending"

IInv == TypeOK /\ RowsSound /\ WorkerSound /\ CopiesOrdered
=============================================================================
