# view-limits: a TLA+ model

`view-limits` watches the quotas of LLM plans. A command-line tool (`bin/vl.js`)
stores credentials, configures routes, collects each route's status into a cache,
shows it, and, as a hook, may deny the dispatch of work to a route whose quota is
exhausted. A dashboard daemon collects on an interval. There is no server and no
database: every process on the machine (commands, hooks, form servers, daemons,
detached refreshes) works on the same directory of small files, and what keeps
them from harming each other is a handful of file protocols. Those protocols are
what this directory models, checks with TLC and proves with TLAPS.

## 1. Inventory

| Part | State it keeps | Operations | Who it interacts with |
|---|---|---|---|
| mutation lock (`lib/lock.js`) | ticket files in `provider-mutations/` | acquire, wait, release, recover dead tickets | every writer of `config.json`; strict readers |
| refresh worker lock (`lib/refresh-owner.js`) | ticket files in `refresh-workers/` | acquire (polling), release, recover | every collection |
| dashboard instance lock (`lib/dashboard/instance-lock.js`, `identity.js`) | ticket files in `dashboard-lock/`, with start tokens | acquire (polling), release, recover | the daemon |
| config store (`lib/config.js`) | `config.json`, `config.json.prev`, temporary files | first publish, replace, lock-free read, strict read, presence | all parts |
| status cache (`lib/cache.js`) | `status.json`, the schedule marker | read, publish by rename, throttle | collector, lifecycle, gate, views |
| collector (`lib/collector.js`) | none across runs | plan, acquire, fetch, publish, release | worker lock, vault, adapters, cache |
| gate (`lib/gate.js`, `bin/vl.js gate`) | none | decide, spawn a refresh | config, cache |
| provider lifecycle (`lib/provider-lifecycle.js`) | none across runs | add, update, remove, list, migrate | mutation lock, vault, config, cache |
| vault (`lib/vault.js`) | one secret per route id, Keychain or encrypted file | set, get, remove, probe | lifecycle, setup, collector |
| form server and setup (`bin/vl.js`) | a loopback server, a receipt | serve, submit, skip, abandon, materialise a row | vault, mutation lock |
| dashboard daemon (`lib/dashboard/daemon.js`, `record.js`, `server.js`) | `dashboard.json`, a listener | start, status, stop, shutdown | instance lock, scheduler |
| scheduler (`lib/dashboard/scheduler.js`, `view-runner.js`) | view, last attempt, last good run, run in flight | tick, refresh, stop, snapshot | collector through a child process |
| view model, snapshot (`lib/view-model.js`, `runtime-snapshot.js`, `traycer-adapter.js`, `runtime-sidecar.js`) | `runtime.json`; nothing across runs | collect, snapshot, ask the gate, build, lay out; read the Traycer CLI and fold live sources | collector, cache, gate, CLI processes |
| recommendation, Jev clients (`lib/eligibility.js`, `score-candidates.js`, `recommend.js`, `jev-*.js`) | none | judge, score, rank; readiness gate, catalog check, classifier | the routes of a snapshot; two HTTP services |
| Xiaomi source (`lib/xiaomi-session.js`, `lib/adapters/xiaomi.js`, `setup`, `update`, `remove` in `bin/vl.js`) | two markers in a private directory, the key helper | set up, change profile, remove; the background session | mutation lock, config, cache, Chrome's cookies, two endpoints |
| key helper and bridge (`native/`, `lib/cookies/keychain-bridge.mjs`) | none | suppress prompts, read, report, restore; read frames under two timers | the Keychain, the user |
| adapters, profile schema, installers, page | none or private files | requests, parsing, copying, rendering | read the above |

What is hard, by part:

* **Locks.** Nothing but single file operations is atomic. Contenders list, read,
  number themselves and unlink in any interleaving; processes die at any point and
  leave files; pids are reused. Correct: at most one holder, somebody is elected,
  nobody waits for the dead, no live ticket is removed.
* **Config store.** There is no replace-only rename, so a publish is move aside,
  link, unlink; the user may delete the file in between, a process may die in
  between, and readers take no lock. Correct: acknowledged edits survive, only the
  migration creates the document, readers return a document that was current, and
  absence is reported only when it was true.
* **Cache, collector, gate.** Three kinds of writers under two different locks
  rewrite one file; the configuration changes while a collection runs. Correct: a
  deny rests on an observation of the configuration the gate read, and not on an old
  one; a publish loses no fact.
* **Lifecycle.** Vault, config and cache are three stores without a transaction;
  each step may fail or be the last one before a crash, and the report must say what
  is left. Correct: the report is true, a rerun completes, no orphan secret.
* **Views.** The command reads the cache twice and the clock three times, while others
  publish; live sources settle in any order and CLI processes hang. Correct: a claim
  rests on a current observation, nobody is called eligible whom the gate stops, the result
  does not depend on the order of arrival, and what was not proven is withheld.
* **Recommendation.** Every fact may be missing. Correct: a verdict is true whatever the
  missing facts turn out to be, and no unproven fact raises a score or opens the network path.
* **Form, Xiaomi source, key helper.** Submissions overlap with timers and failing writes; a
  command that asks the user may be denied or killed at any step while a background session
  writes the same markers; frames, streams, exit and timers of a child arrive in any order.
  Correct: what is reported to the agent or the user is what happened, nothing changes before
  the grant, no prompt in the background, and each of them ends.
* **Daemon and scheduler.** Start, stop and crash race through a record file and a
  port that others may take; ticks and refreshes race a run in flight and a stop.

`PROJECT.json` lists every component with what is and is not modelled, and every
hazard at the line where it bites.

## 2. Modules

| Module | What it is | Code |
|---|---|---|
| `Ownership` | what a lock promises: one owner, from a grant to a release or death | the contract of the three lock files |
| `TicketLock` | the ticket protocol, one file operation per step, parameterised for its three copies | `lock.js`, `refresh-owner.js`, `instance-lock.js`, `identity.js` |
| `TicketLockProofs` | its theorems, and that it implements `Ownership` | |
| `ConfigStore` | publishing and reading `config.json`, one file operation per step; uses `Ownership` for the lock | `config.js`, the entrances in `vl.js`, the migration's checks |
| `MCConfigStore`, `ConfigStoreProofs` | TLC instance; theorems | |
| `Refresh` | collections, provider commands and the gate on one status cache; uses `Ownership` for the worker lock | `collector.js`, `cache.js`, `gate.js`, `provider-lifecycle.js` |
| `MCRefresh`, `RefreshProofs` | TLC instance; theorems | |
| `Lifecycle` | every command that stores, rotates or removes a credential, over vault, configuration and cache; uses `Ownership` for the mutation lock | `provider-lifecycle.js`, the credential paths of `vl.js`, `vault.js` |
| `MCLifecycle`, `LifecycleProofs` | TLC instance; theorems | |
| `Dashboard` | the dashboard's daemons and the commands that start, find and stop them, over the record file and the ports; uses `Ownership` for the instance lock | `dashboard/daemon.js`, `record.js`, `server.js`, the run in flight of `scheduler.js`, `dashboard` in `vl.js` |
| `MCDashboard`, `DashboardProofs` | TLC instance; theorems | |
| `Evidence` | the value Unknown, shared by the modules below | |
| `Eligibility` | the registry and `evaluate()`, for a candidate whose facts come and go | `eligibility.js`, `capability-registry.js` |
| `Recommend` | readiness gate, catalog check, classifier, verdicts, scores and order; extends `Eligibility` | `recommend.js`, `score-candidates.js`, `task-profile.js`, `jev-*.js` |
| `View` | one route through `vl view` and `vl report`; publishers and the clock beside it | `viewCmd` in `vl.js`, `view-model.js`, `runtime-snapshot.js`, `gate.js` |
| `Live` | the Traycer reads, the injected sources, their merge and the verdict of the collection | `traycer-adapter.js`, `runtime-snapshot.js`, `runtime-sidecar.js`, `collectView` |
| `EvidenceProofs` | the theorems of `Eligibility`, `Recommend`, `View` and `Live` | |
| `Form` | the credential form's process, its opener, submissions, timers and receipt | `openForm`, `serve` in `vl.js`, `receipts.js` |
| `KeyBridge` | the key helper and the bridge that reads it | `keychain-bridge.mjs`, `native/kh_core.c`, `kh_main.c`, `kh_pipe.c` |
| `Xiaomi` | sessions and the commands that set up, change and remove the source | `xiaomi-session.js`, `adapters/xiaomi.js`, `vl.js` |
| `SecretProofs` | the theorems of `Form`, `KeyBridge` and `Xiaomi` | |
| `Program`, `MCProgram` | a command of the dispatcher runs one of the parts above, or of `Dashboard`; every command ends; TLC instance | `main` in `vl.js` |
| `ProgramProofs` | the theorems of the parts, of the program that runs them | |

### TicketLock

A ticket is one attempt: a uniquely named file and the process behind it. `present`,
`stamped` and `num` are the directory and the JSON in it; `pc` is the attempt's place
in `acquireMutationLock` / `acquireWorker` / `acquireInstanceLock`; `todo` are the
listed entries not yet examined. `Create`, `Stamp`, `List`, `FindDead`/`Reap`,
`Skip`, `Weigh`, `Compare`, `Misread`, `Publish`, `Acquire`, `Refuse`, `Poll`, `Timeout`,
`StorageError` and `Release` are the code's steps in its order; judging an owner dead
and unlinking its ticket are two steps, since anything may happen in between. The
three copies differ in two constants: `Waits` (poll for an un-numbered peer, or
refuse) and `StartTokens` (identity by pid and start token, or by pid). Abstracted:
`readdir` is one step; the liveness check of a live owner and the read of its ticket
are one step; random ids are the order of `Ticket`; a repeated attempt of
`acquireMutationLockWithin` is another ticket.

A peer's ticket that is there and cannot be read (`EIO`, `EMFILE`, a mode that changed) counts as
un-numbered in `lock.js:102` and `instance-lock.js:51`, where `refresh-owner.js:35` gives up: the fault
"read" (`Misread`). Once a contender is numbered this is the safe side. While it chooses, the holder's
number goes unseen: the contender may number itself below the holder, read everything at its second
listing, and hold the lock as well. `missed` records whose ticket an attempt has not seen. So the lock is
exclusive where tickets can be read, and shared otherwise only as `SharedOnlyByMisread` says; TLC
violates `MutualExclusion` under "read" with two attempts and no other fault. The
modules over `Ownership` claim what they claim for an exclusive lock, that is, where tickets can be read.

A start token is local-time text of `ps`, printed under the caller's `TZ` (`identity.js:21`). `Abroad` are the
attempts in another time zone; a ticket of theirs, once it has its document, reads as that of a dead process, and is unlinked
(`Foreign`). The runs and the proofs are about one time zone (`OneZone`); `Dashboard` has what happens otherwise.

### ConfigStore

`target` and `prev` are the directory entries `config.json` and `config.json.prev`;
a document is the set of the edits it contains, so a lost edit shows. `link` and
`rename` have their POSIX meaning, including that `rename` of two links of one file
does nothing. A process performs jobs: a lax read, a strict read, a read-modify-write
(`update`) or the migration. `window` is a history variable: the documents that were
current since a read began. Abstracted: the mutation lock is `Ownership` (which
`TicketLock` is proved to implement where tickets can be read) and may be refused at any time, because
contenders may refuse each other; the content of the document.

### Refresh

A collection reads the configuration, takes the worker lock, plans (`Plan`: each
configured route is fetched, skipped or failed at once), fetches in any order, reads
the prior cache and publishes. A provider command publishes a new revision of a route
and then drops the route's row with a read and a write of the whole cache. `Denies`
is the gate's decision for any revision it may have read at any time. Rows carry,
beside `configRevision` and `observedAt`, two history fields: the revision they were
fetched under and the time of the fetch. `Fan` bounds the time from the lock to the
publish: every request of an adapter has a timeout. Abstracted: a revision is a number
that may come back (an edit undone has the same hash); the one session of the Xiaomi
aliases is a set of independent answers; the verdicts of the plan are chosen when
the lock is granted, since nothing can see them earlier; a custom route's recovery-bounded
expiry only shortens freshness and is left out.

A `status.json` that cannot be read or parsed is an empty cache to `readCache` (`ReadCache`), so a collection or a
command that meets one publishes without the rows it did not see: retained rows of failed and skipped routes vanish.
`PublishKeepsFacts` says what is kept all the same: no older observation comes back, an attempted
route always has a row, and a row that was read and not renewed is published as it was.

### Lifecycle

`vault`, `rows` (with `exists`) and `cached` are the three stores; `pc` is a process's
place in its command. The commands are `store` (`setup <id>`, `update <id>` and the
headless prompt), `form`, `repair` (a bare `setup`), `add`, `update` and `remove`, and the
migration the dispatcher runs first. Each access to a store is one action that may
fail; the vault's answers are lenient (`get`, which takes a failure for absence) or
three-way (`probe`) exactly where the code's are. The lifecycle's commands hold the
mutation lock from their first read to their report; `StoreVault` does not hold it, and
that is where most of the interleavings come from. Histories: `before` (the secret when
the command got the lock), `raced` (somebody else stored one since), `told` and `silent`
(routes left with a credential and no row, or a row and no credential, by a command that
said so or died, and by one that reported success).

Two ways to be silent are known, and the code's comments promise more ("has a credential"
and "configured" "cannot drift apart", `bin/vl.js:560`): a form whose row could not be added
still reports a submission, and a key stored for a custom route while it is being removed
stays without a route. `StoresAgree` names them; everything else must be told.

Abstracted: a command that stores credentials handles one route (the form and the prompt
take a list, one after the other; a bare `setup` also imports native keys, which is a
`store` each); recipes whose own CLI holds the credential (no vault step); what the probe
and the retention choice decide; the overlap of cache rewrites, which is `Refresh`'s
subject; `config.json` is replaced whole (`ConfigStore`).

### Dashboard

One element of `Daemon` is one run of the daemon: its process, instance id and nonce.
`place` is where it is in `runDaemon` and `shutdown`; what it holds (the lock in `owners`,
a port in `listener`, the name in `record`) follows, and `DaemonsSound` says how. A command
knows an instance only by what it read (`seen`) and by what answered it (`confirmed`): between
its steps (read the record, judge the process, ask for the identity, read again, post, wait)
daemons die, are succeeded, and lose their ports to strangers. A reused pid is a dead one unless
`ps` cannot be read. Nothing answers while `runDaemon` publishes and announces, one turn of the
event loop, though the process may be killed in it, before its signal handlers are installed.
`Collect` and `Collected` are the run in flight: a tick or a refresh joins it, and `shutdown` waits
for it. Abstracted: the two identity and status requests are one step, because the second
changes no verdict; the LAN listener may only fail to bind; a stranger that answers 202 to the stop
request is believed by the code and by the model, and the wait that follows still tells the truth;
the record is not deleted by hand; a second `start` of `open` is a `start`.

A daemon or a command may run in the other of two time zones (`abroad`), and then prints another start token for the same
process. A command of another zone calls a live daemon "stale" (`Dead`), a `start` may follow, and a daemon of another zone unlinks the
first one's ticket and holds the lock beside it (`Rob`), after which the record may be lost. `NeverCalledStale` says
that it takes another zone; `RecordKept` and the exclusive lock are claimed while all daemons so far were started in one (`Uniform`).

### View

`step` is where `viewCmd` is: collect, snapshot, read the cache for the gate, ask it, build.
Between any two of them the clock may tick and another process may publish any status under any
revision. `Resource` is `runtime-snapshot.js`, `Freshness`, `Eligibility` and `RouteSchema` are
`view-model.js`, `Decision` is `gate.js`; `Expanded`, `Condensed` and `ReportLine` are what the two
layouts and `vl report` show of a row. A comment in `viewCmd` (`bin/vl.js:2116`) says that
the cache is read once; the snapshot and the gate each read it. `EligibilityFollowsGate` and `ClaimIsCurrent` say why
that does no harm: the stricter of the two reads wins. What a collection leaves of the route depends on how it ended
(`CollectCompleted`, `CollectFailed`, `CollectSkipped`, `CollectLocked`) and on whether the cache could be read and written. A Xiaomi
route's status comes from the session itself: it is shown whatever became of the publish, as pending if another process collects,
and from the cache never.

### Live

A read is one CLI process: it waits for a slot, answers, fails, says too much or is late, is killed, and
is given up if it does not close. The second wave depends on the answers of the first. The injected sources
settle at any time; `FoldSources` folds them in their listed order. A row is its key and its reporter. An answer may
be whole or have invalid rows, of which the section loses those and says so (`Spoilt`); output that is no answer at all is a failed read.

### Eligibility and Recommend

A candidate's facts are learned and forgotten one at a time; the judgement is an operator, and
`JudgedByEvidence` compares it with the judgements over every way in which the unknown facts may turn
out (`Worlds`). An unproven fact raises no score. Of an unproven model a candidate's declared capabilities and family
speak, and they may be worth more than what the registry says of the model it turns out to be; `UnprovenScoresLowest` says that it is they, and
not the missing model, that raise the score. `Recommend` then runs a request through the gate, the catalog and the classifier, which may
fail, be late or say anything. Scores are the code's integers; the tables they are looked up in are data.

### Form

`form` is the serve process, `opener` what `openForm` has concluded, `post` the submissions. Handlers run one
at a time, but a body may be on its way while another settles the form or the abandon timer fires. A
receipt is written whole or not at all; `stored` is what the vault has taken from this form.

### KeyBridge

The helper guards, reads, restores, reports and exits, each with its failures, a frame that cannot be written or
is cut off among them (`ReportFails`); any other helper writes any frames and noise. The bridge reads the pipe in any chunks and concludes at the close of all streams, on a
bad frame, or on one of its timers.

### Xiaomi

A command is a plan, the order of its steps (`Plan`), and each step may be refused or be the last
before a kill. Sessions run beside commands and write the same two markers; the user logs in and out, and
the private directory may lose its mode or vanish, before a step that goes by it (`GoesByPrivate`). A bundle of cookies is its digest.

`setup` and `update` read `config.json` before they ask the user and before they hold the lock (`vl.js:1388`, `1454`), and publish in their hold the profile
(and path) of that read, if none was given (`ProfileFor`, `Begin`, `Document`). So a selection that another command has published since is
overwritten, and one that a removal dropped is back, where the comment at `vl.js:1173` rules out a stale base. `Publishes` claims what is true:
the routes are those of the hold, a profile that was given is saved as given, and the selected profile is left alone if it is still
the one of the early read.

### Program

`command` selects the part that runs; the variables of the others stay as they are, so the reachable
states are the sum of the parts' and each part's own bounds hold. Parts that share files have compositions
of their own (`Refresh`, `Lifecycle`, `ConfigStore` over `Ownership`); what `Program` adds is the one
question that concerns them all, whether the command the user has typed ends (`CommandsEnd`).

## 3. Runs

| Run | Question | Bounds |
|---|---|---|
| `lock_mutation` | who may share the lock, live tickets kept | 3 attempts; crash, pid reuse, failing operations, unreadable tickets |
| `lock_waiting` | implements `Ownership`, order, an election that elects, does every attempt end, do dead tickets block | 3 attempts; start tokens; crash, pid reuse, slow peers; fairness |
| `config_faults` | no acknowledged edit lost, only the migration creates | 2 processes, 3 documents, outside delete, failing operations, 1 crash |
| `config_readers` | reads are current, absence is proven, one crash locks nobody out | 3 processes, 2 rounds, 3 documents, 1 crash |
| `config_double_crash` | *violated*: a crash in the recovery locks everybody out | 2 crashes |
| `config_stale_prev` | *violated*: a stale `.prev` comes back after a delete | 1 crash, 1 delete |
| `refresh` | what may be denied, how old, what a publish keeps | 2 collections, 1 command, 2 routes, 2 revisions, 3 ticks, failing files, crashes |
| `refresh_sibling` | *violated*: dropping a row reverts a sibling's row | 1 collection, 1 command |
| `lifecycle` | do the stores agree unless somebody said otherwise, are reports true | 2 processes, a shipped and a custom route, 2 secrets, every fault |
| `lifecycle_all_clear` | *violated*: "nothing to remove" over a stored secret | as above |
| `dashboard` | is the record kept, whom does a stop reach, are its reports true | 2 daemons, 2 commands at a time, 2 ports, 2 time zones, every fault |
| `commands` | what the view, the live reads, the recommendation, the form, the key helper and the Xiaomi source claim; does every command end, failed starts and shutdowns of the dashboard included | one part at a time: 2 ticks, 2 revisions; 1 tool and 1 injected source, 2 slots; 2 routes, 2 submissions; 3 frames; 2 Xiaomi commands, 2 profiles (one of them given explicitly) and 1 session; 3 known facts, 12 policies, lists of up to 3 candidates; 2 daemons and 1 client; fairness |

Three attempts are the smallest number at which a recoverer, the ticket it removes and
a successor differ, and at which a third contender sees two others in different phases.
Two publishers and one reader give every order of two whole publishes inside one
read, which exhausts two rounds. Two collections, one of which may crash, and a
command give every order of the three writers of the cache; three ticks with a TTL and a
`Fan` of one let a row expire. Two processes give every interleaving of a command that holds the
mutation lock with one that stores a credential without it; one route of each kind and
two secrets tell a restored key from a new one. Processes run any number of commands in
turn, so a crash or a failure is followed by every rerun. Two daemons are a predecessor and its
successor, on one port or on two; of two commands one may stop what the other is about to stop, or
start the successor in between. In `commands`, two ticks and a TTL of two let an entry be fresh at one look at the clock and not at the next, and
an entry that ends at an instant meets that instant; three frames are one more than a good run has; two
submissions are the smallest number that overlap; two Xiaomi commands, one of which may hold the
lock while the other asks its user, and a session give every order of the three writers of the markers.
The lists of `MCProgram` hold each value that the code tells apart. `MCDashboard` uses the symmetry of daemons, commands and ports
in the safety run only, and there takes states for one that differ in nothing a step or a property looks at (`View`: which of the two time zones
is which, a dead daemon that nobody can name any more, a command or a proof that changes no verdict). The proofs remove these bounds for
everything but liveness (section 4 names the theorems that have hypotheses).

**Deadlock** checking is off in the lock runs (all tickets used up), in `commands` (a command ends) and in the refresh
runs (the clock and the number of commands are bounded), where the system may stop.

**Fairness** (`TicketLock!FairSpec`): weak fairness of the steps an attempt takes by
itself and of `Release`, because the code between them is straight-line and a holder
releases in a `finally`; strong fairness of `Timeout`, because the deadline is checked
in every round of the polling. No fairness is assumed of starting, dying or faults.
`Program!Fairness`: one weak fairness of the steps that the running part takes by itself (`ReadSteps`, `FormSteps`,
`KeySteps`, `SourceSteps`): its own code
runs on, its timers fire, its bounded waits end. One for each part is enough because a read, a request, a command or a session has
finitely many of them. The answers of CLI processes, endpoints, the key helper and the browser are not among them: `CommandsEnd` holds though
none ever comes, because each wait has a deadline (the read's and its grace, the form's five minutes and the closing of
idle requests, the bridge's two timers, the request timeouts, the prompt's). And of daemons: weak fairness of what a daemon does by itself (`Advance`) and of
the end of a collection (`Collected`), because `abort()` and the view runner's deadline kill the child
and `attempt()` settles either way. `CommandsEnd` includes `Dashboard!NoneLingers`: no daemon stays in a failed start or in a shutdown. Nothing is assumed of commands, ticks, refreshes or signals: a run
may start again and again, and the shutdown must end all the same.

`lock_waiting` gives the waiting locks their start tokens; without them a reused pid blocks,
which is the known limit of the worker's lock (a reused pid under a dead ticket is taken for
its owner), so that lock's recovery is claimed for crashes only.

## 4. Proofs

All from the specification that the run checks, for every value of the constants that the named
assumptions allow. The assumptions stand in the modules that declare the constants, and TLC evaluates
them in the runs: bounds are numbers, fault names are known ones (`TicketAssumption`, `BoundsAssumption`, `TimeAssumption`, ...), the
registry is one that `createRegistry` accepts and policies and candidates have their shapes (`RegistryAssumption`, `NamesAssumption`,
`RequestAssumption`), cached entries were not observed later than the clock says (`CacheAssumption`), injected sources are a sequence and
none is called "traycer" (`LiveAssumption`), earlier commands left Xiaomi routes only (`XiaomiAssumption`), and the
value Unknown is none of the answers (`FormAssumption`, `KeyAssumption`, `ProgramAssumption`).

* `TicketLockProofs`: `Invariance`, `TypeCorrect`, `SharedByMisreadOnly` (`SharedOnlyByMisread`), `Exclusion` (`MutualExclusion`),
  `HolderOrder`, `LiveTicketsKept`, `Refinement` (`ImplementsOwnership`). Exclusion is
  not inductive: the invariant must say what a contender that got past a peer may rely
  on. `Bakery` says it: the peer has not begun, is over, will still read the passer's
  number (or has read it), is numbered above it, or has failed to read its ticket. The proof covers all faults, a
  `ps` that cannot be read included, which no run has. `Exclusion` and `Refinement` have the hypothesis that tickets can be read ("read" is not
  among the faults), and all but `TypeCorrect` that start tokens are of one time zone (`OneZone`).
  `SomebodyIsElected` (`ElectionNotEmpty`) rests on `RefusedIsBeaten`: who was refused is beaten by a lower ticket, and
  the lowest is beaten by none. Its hypotheses are those of the property: the contenders wait for a peer without a number
  (those of `acquireMutationLock` may all refuse each other), files can be read, and there is a contender.
* `ConfigStoreProofs`: `Invariance`, `TypeCorrect`, `AcknowledgedEditsKept`, `ReadsAreCurrent`,
  `AbsencesAreProven`, `MigrationAloneCreates`. The invariant says, for each place of the lock's
  holder, what the two directory entries are (`AtPlace`), that the base of an edit is still
  the current document until the new one is linked (`BaseIsCurrent`), and for readers
  that whatever they may still return was current since they began (`WindowHolds`). The
  lemmas `QuietStep` and `HolderStep` carry the other processes, so each action's lemma is
  about its own process.
  `OneCrashNeverLocksOut` (`CrashNeverLocksOut`): until a second crash, where file operations do not fail. After one crash the
  two entries name one document only while a restorer is about to drop one of them (`Tidy`), and so every publisher finds what
  its next step needs (`Ready`). The run `config_double_crash` shows that two crashes are too many.
* `RefreshProofs`: `Invariance`, `TypeCorrect`, `DeniesAreGrounded`, `DeniesAreRecent`,
  `PublishesKeepFacts`, all of them also where the cache cannot be read. Rows are copied (into a worker's `prior`, a command's `rows`) and
  written back later, so the invariant speaks of every copy: `RowsSound`, and
  `CopiesOrdered` (no copy that may be written back is newer than what it replaces).
* `LifecycleProofs`: `ReportsGrounded`, `TypeCorrect`, `RowsPublishedRight`
  (`RowsHaveCredentials`), `RemovalsKept` (`RemovalsAreTrue`), `FailuresKept`
  (`FailuresRestore`). A report is true because of what the command knew earlier, so the
  invariant says, for each place, what a command knows about its route's credential unless
  somebody raced it (`Knows`), about its row (`PastEntry`), and that a credential whose row is
  about to be published is there (`RowGrounded`): only the lock's holder removes credentials. The lemmas
  `Ending` and `Moving` carry the other processes over a step that ends a command, or
  moves it on; each action's lemma is then about its own process. `RowsGrow` and `ReportedBy`
  find the step behind a new row and behind a report.
  `StoresInAgreement` (`StoresAgree`) needs more, because it holds of disagreements that nobody has caused yet:
  `EveryRouteAnswered` says that each route agrees, or was told or silent, or a command at work answers for it
  (`Answers`, with what that command has yet to do: `Bearings`), or the migration will add its row (`Awaited`).
* `DashboardProofs`: `Invariance`, `TypeCorrect`, `RecordsKept`, `StopsItsInstance`, `StopsMakeRoom`,
  `ServingNotStale`. `RecordKept` is inductive only with the lock: the unlink takes whatever record
  is there, and `LockHeld` says that nobody else can have published one, in one time zone (`Uniform`). The reports rest on what a command
  knows (`ClientKnows`), and that survives every step of a daemon because daemons only move `Onward`;
  `Bystander` and `Together` use this once for all actions.
* `EvidenceProofs`, of the parts whose claims rest on evidence.
  `EvidenceDecides` (`JudgedByEvidence`): for each of the twelve checks, that the code's rule for what is unknown says "met"
  and "violated" exactly of what holds, and fails, in every world (`EveryCheckIsKnown`); the worlds of a check are described by the
  few facts that it reads. `DormantWithoutEvidence` (`DormantUnlessReady`), `UnprovenNeverHelps` (`UnprovenScoresLowest`, one lemma
  for each scored fact) and `AdviceStandsOnEvidence` (`AdviceIsSound`): the best candidate is the only one of its rank (`OneWins`), because ids
  of a list differ or do not count, and the verdicts on which the list is cut down are those of `EvidenceDecides`.
  `GateIsFollowed` (`EligibilityFollowsGate`), `ClaimsAreCurrent` (`ClaimIsCurrent`), `EverythingIsSaid` (`NothingUnsaid`): the invariant
  `ViewInv` puts the instants of every copy of an observation where the clock has been, and ties the row to one instant.
  `LiveRowsAreListed` (`LastListedWins`) and `LiveFactsAreVerified` (`OnlyVerifiedFacts`): `LiveInv` says that the snapshot is the
  fold of the contributions and that each is the outcome of its own source. What a fold is of any number of sources would take an
  induction; `FoldIs` takes the shortest prefix for which the claim would fail instead, which the well-founded
  order of the numbers gives (`First`), and shows that there is none.
* `SecretProofs`, of the parts to which the user entrusts something.
  `ReceiptIsTrue` (`ReceiptTellsWhatIsStored`): until a submission settles the form nothing is stored, nobody is admitted and
  the only receipt is an abandonment's (`NothingUntilSettled`), and each submission is answered once (`AnsweredOnce`).
  `KeyIsClean` (`KeyOnlyFromCleanRun`) and `HelperIsTrue` (`HelperKeepsItsWord`): `KeyInv` says for each place of the helper what it has
  written, and ties what the bridge believes to how much of it the bridge has read, for any frames, however many.
  `GrantBeforeChange` (`OnlySuccessIsSaved`) rests on `HoldSound`: from taking the lock to giving it up a command is
  the holder and `config.json` is what it read, and `PlanSteps` says where in which plan a step stands. `CountsLive` (`CountsAreLive`) rests on
  `SessionsSound`: what a session has learned by each of its steps (`Learned`) and that a report is supported by it (`Supported`).
* `ProgramProofs`: `EveryCommandIsTrue` and `GrantBeforeEveryChange` carry the last two modules over to `Program`, the
  specification that the run `commands` checks: a step of the program is a step of the part that runs and leaves the
  variables of every other alone (`OnePartSteps`), and a part that does not run has nothing to claim.

Inductive invariants are not checked again by a run; TLC agreed with them, as invariants of the runs of their
modules, before they were proved.

Only model-checked: liveness, that is `AttemptsEnd`, `RecoversFromTheDead` and `CommandsEnd`, because the prover handles neither
fairness nor `ENABLED`. The hypotheses of `SomebodyIsElected`, `Refinement` and `OneCrashNeverLocksOut` are the constants of the runs that
check those properties (`lock_waiting`, `config_readers`): beyond them the code does not promise them.

## 5. Findings

1. `config_double_crash`: see `src/lib/config.js:545`. The recovery of an interrupted
   publish links `.prev` back and then unlinks it; a crash in between leaves two names of
   one file, after which `rename` does nothing and every later publish is refused.
2. `config_stale_prev`: see `src/lib/config.js:564`. A `.prev` left by a crash before
   the last unlink is taken for the document once `config.json` is deleted.
3. `refresh_sibling`: see `src/lib/provider-lifecycle.js:406`. Dropping one row rewrites
   the whole cache without the worker lock and may revert rows a collection has just published.
4. `lifecycle_all_clear`: see `src/lib/provider-lifecycle.js:715`. `remove` decides "nothing to
   remove" from the lenient `vault.get`, so a vault that does not answer yields an all-clear
   over a stored secret whose route is not configured, which is the state that a failed rollback of
   `add` leaves before it asks for exactly this command.

## 6. Not modelled

Still worth a model, in this order:

1. `Scheduler`: the view, the outcome of the last attempt and the observation age of the status
   document, which no failed, contended or skipped run may renew. `Dashboard` has only the run in flight.
2. `tryScheduleRefresh`'s throttle (`lib/cache.js`): harmless, since what it lets through meets at the worker lock.
3. The gate over `Lifecycle`: the text that a removal which cannot write `config.json` leaves "the gate
   fail-open" (`lib/provider-lifecycle.js:779`), though the gate does not look at the vault.
4. `effective-config.js` and the native harnesses' profile rows; the recovery-bounded expiry of custom routes.
5. Theorems of these.

What the models reach, and the properties therefore state with a condition or leave open:

* two holders of the mutation or the instance lock, after a contender failed to read a ticket (`TicketLock!Misread`);
* two dashboards, and a serving one that is called stale, where processes differ in `TZ` (`Dashboard!Rob`, `Dead`);
* rows of failed and skipped routes that vanish because `status.json` could not be read (`Refresh!ReadCache`);
* a Xiaomi profile that another command selected, overwritten by one of an earlier read (`Xiaomi!Document`);
* a candidate of unproven model that scores above one whose model is known, by its own declarations (`Recommend`);
* a session that failed on the key before a setup and writes the suppression marker after that setup has cleared it (`Xiaomi!Suppress` after
  `Unsuppress`); the next setup repairs it.

Left out for good: parsing of arguments and of provider documents, printing, HTTP and SQLite, encryption, installers,
the LAN listener and page rendering. They keep no shared state; their answers are nondeterministic inputs.
