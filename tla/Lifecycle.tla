----------------------------- MODULE Lifecycle -----------------------------
(***************************************************************************)
(* What a command does to the three stores that describe a provider route: *)
(* the vault (one secret per route), the route list of config.json, and    *)
(* the status cache.  There is no transaction over them: each step may     *)
(* fail, the process may end between two steps, and credentials are stored *)
(* (vl.js storeCredential) without the mutation lock under which the       *)
(* lifecycle (lib/provider-lifecycle.js) works.  config.json is replaced   *)
(* whole or not at all (ConfigStore), by the holder of the lock.           *)
(***************************************************************************)
EXTENDS Naturals

CONSTANTS Proc,      \* vl processes: commands and form servers
          Route, NoRoute,
          Shipped,   \* the built-in ones: never deleted from config.json
          Secret, NoSecret,
          Faults     \* "vault": an access to the vault fails or cannot answer;
                     \* "config": config.json cannot be read or written;
                     \* "cache": the cache cannot be written;
                     \* "outside": config.json deleted by the user;
                     \* "crash": a process dies between two steps

ASSUME RouteAssumption == Shipped \subseteq Route /\ NoRoute \notin Route
ASSUME SecretAssumption == NoSecret \notin Secret
ASSUME FaultAssumption == Faults \subseteq {"vault", "config", "cache", "outside", "crash"}

VARIABLES vault,    \* the secret stored for each route
          exists,   \* config.json exists
          rows,     \* the routes configured in it
          cached,   \* the routes with a row in the status cache
          owners,   \* the mutation lock
          pc, cmd,  \* where each process is, and in what command
          route,    \* the route it works on
          key,      \* the new secret it was given, or NoSecret
          prior,    \* the secret it read before rotating
          had,      \* the route was configured when the command looked
          todo,     \* routes still to be given their row
          out,      \* what the command that ended in the last step reported
          before,   \* the route's secret when the command got the lock
          raced,    \* processes on whose route another has stored a secret since
          told,     \* routes left in two minds by a command that said so, or died
          silent    \* routes left in two minds by a command that reported success

stores == <<vault, exists, rows, cached>>
local == <<cmd, route, key, prior, had, todo>>
history == <<before, raced, told, silent>>
vars == <<vault, exists, rows, cached, owners, pc, cmd, route, key, prior, had, todo,
          out, before, raced, told, silent>>

Commands == {"store", "form", "repair", "add", "update", "remove"}
Places == {"idle", "migrate", "probeAll", "publish", "storeVault", "rowLock", "rowProbe", "rowWrite",
           "verify", "nextRow", "recheck", "check", "probe",
           "persistVault", "persistConfig", "rollback", "persistCache",
           "removeVault", "removeProbe", "removeConfig", "removeCache"}
Outcomes == {"none", "present", "pending", "migrated", "refused", "unstored", "stored",
             "rowless", "submitted", "repaired", "unrepaired", "persisted", "unchanged",
             "leftover", "kept", "keyless", "removed", "nothing", "stale"}

TypeOK ==
    /\ vault \in [Route -> Secret \cup {NoSecret}]
    /\ exists \in BOOLEAN
    /\ rows \subseteq Route /\ cached \subseteq Route
    /\ owners \subseteq Proc
    /\ pc \in [Proc -> Places]
    /\ cmd \in [Proc -> Commands \cup {"none"}]
    /\ route \in [Proc -> Route \cup {NoRoute}]
    /\ key \in [Proc -> Secret \cup {NoSecret}]
    /\ prior \in [Proc -> Secret \cup {NoSecret}]
    /\ had \in [Proc -> BOOLEAN]
    /\ todo \in [Proc -> SUBSET Route]
    /\ out \in Outcomes
    /\ before \in [Proc -> Secret \cup {NoSecret}]
    /\ raced \subseteq Proc
    /\ told \subseteq Route /\ silent \subseteq Route

Lock == INSTANCE Ownership WITH Contender <- Proc

Init ==
    /\ vault = [r \in Route |-> NoSecret]
    /\ exists = FALSE /\ rows = {} /\ cached = {}
    /\ owners = {}
    /\ pc = [p \in Proc |-> "idle"] /\ cmd = [p \in Proc |-> "none"]
    /\ route = [p \in Proc |-> NoRoute]
    /\ key = [p \in Proc |-> NoSecret] /\ prior = [p \in Proc |-> NoSecret]
    /\ had = [p \in Proc |-> FALSE] /\ todo = [p \in Proc |-> {}]
    /\ out = "none"
    /\ before = [p \in Proc |-> NoSecret] /\ raced = {}
    /\ told = {} /\ silent = {}

-----------------------------------------------------------------------------
\* A shipped route that has a credential is configured; any other route has a
\* credential exactly when it is configured.
Agrees(r) == IF r \in Shipped THEN vault[r] # NoSecret => r \in rows
                              ELSE vault[r] # NoSecret <=> r \in rows

\* Which disagreements are known of, and which were made in silence; both end
\* when the stores agree again.
Note(known, unknown) ==
    /\ told' = {r \in (told \cup known) \cap Route : ~Agrees(r)'}
    /\ silent' = {r \in (silent \cup unknown) \cap Route : ~Agrees(r)'}

Goto(p, place) == pc' = [pc EXCEPT ![p] = place]

\* A step that leaves the stores, the lock, or the histories alone.
Keep == UNCHANGED stores
Unlocked == UNCHANGED owners
Quiet == out' = "none"
Plain == Quiet /\ UNCHANGED history

Enter(p) == Lock!Acquire(p)
LetGo(p) == owners' = owners \ {p}

\* Outcomes that tell the user what is left to do.
Warnings == {"rowless", "unrepaired", "leftover", "kept", "keyless"}

\* The command is over: it lets go of the lock and forgets its inputs.
Quit(p, outcome) ==
    /\ Goto(p, "idle")
    /\ LetGo(p)
    /\ cmd' = [cmd EXCEPT ![p] = "none"]
    /\ route' = [route EXCEPT ![p] = NoRoute]
    /\ key' = [key EXCEPT ![p] = NoSecret]
    /\ prior' = [prior EXCEPT ![p] = NoSecret]
    /\ had' = [had EXCEPT ![p] = FALSE]
    /\ todo' = [todo EXCEPT ![p] = {}]
    /\ out' = outcome
    /\ before' = [before EXCEPT ![p] = NoSecret]

\* It ends with a report about its route.
End(p, outcome) ==
    /\ Quit(p, outcome)
    /\ raced' = raced \ {p}
    /\ IF outcome \in Warnings THEN Note({route[p]}, {})
       ELSE Note({}, IF outcome = "submitted" \/ p \in raced THEN {route[p]} ELSE {})

-----------------------------------------------------------------------------
\* A command begins.  The dispatcher runs the one-time migration before a
\* command that finds no document; it is a run of its own here, since anything may
\* happen between its end and the command's first read.  Of the commands that
\* write config.json none goes on while the migration has to be retried, so each
\* begins with a document.

MigrateCheck(p) ==
    /\ pc[p] = "idle" /\ ~exists
    /\ Goto(p, "migrate")
    /\ Keep /\ Unlocked /\ Plain /\ UNCHANGED local

MigrateLock(p) ==
    /\ pc[p] = "migrate"
    /\ Keep
    /\ \/ Enter(p) /\ Goto(p, "probeAll") /\ Plain /\ UNCHANGED local
       \/ End(p, "pending")

\* Mutated: a vault that cannot answer is taken for an empty one.
MigrateProbeLenient(p) ==
    /\ pc[p] = "probeAll"
    /\ Keep
    /\ \E seen \in SUBSET {r \in Shipped : vault[r] # NoSecret} :
          /\ "vault" \in Faults \/ seen = {r \in Shipped : vault[r] # NoSecret}
          /\ todo' = [todo EXCEPT ![p] = seen]
    /\ Goto(p, "publish")
    /\ Unlocked /\ Plain /\ UNCHANGED <<cmd, route, key, prior, had>>

\* Absence is checked again under the lock; every shipped route is probed, and
\* one answer that is neither present nor absent ends the migration.
MigrateProbe(p) ==
    /\ pc[p] = "probeAll"
    /\ Keep
    /\ \/ /\ ~exists
          /\ todo' = [todo EXCEPT ![p] = {r \in Shipped : vault[r] # NoSecret}]
          /\ Goto(p, "publish")
          /\ Unlocked /\ Plain /\ UNCHANGED <<cmd, route, key, prior, had>>
       \/ exists /\ End(p, "present")
       \/ ~exists /\ "vault" \in Faults /\ End(p, "pending")

\* Mutated: the route the command is about is configured along with the others.
MigratePublishOwn(p) ==
    /\ pc[p] = "publish"
    /\ exists' = TRUE /\ rows' = todo[p] \cup {route[p]} /\ UNCHANGED <<vault, cached>>
    /\ End(p, "migrated")

MigratePublish(p) ==
    /\ pc[p] = "publish"
    /\ \/ /\ exists' = TRUE /\ rows' = todo[p] /\ UNCHANGED <<vault, cached>>
          /\ End(p, "migrated")
       \/ "config" \in Faults /\ Keep /\ End(p, "pending")

\* A command that stores a credential has read that the route is configured, or
\* shipped; a form has when it starts to listen, long before it is submitted.
BeginStore(p, c, r, k) ==
    /\ pc[p] = "idle" /\ exists
    /\ r \in rows \cup Shipped
    /\ cmd' = [cmd EXCEPT ![p] = c]
    /\ route' = [route EXCEPT ![p] = r]
    /\ key' = [key EXCEPT ![p] = k]
    /\ Goto(p, "storeVault")
    /\ Keep /\ Unlocked /\ Plain /\ UNCHANGED <<prior, had, todo>>

\* The lifecycle's commands hold the lock from before their first read to their
\* report, the probe of the provider included.  Refused the lock, they end at
\* once and change nothing.
BeginLocked(p, c, r, k) ==
    /\ pc[p] = "idle" /\ exists
    /\ c \in {"add", "update"} => r \notin Shipped
    /\ (k = NoSecret) => c # "add"
    /\ (k # NoSecret) => c # "remove"
    /\ Enter(p) /\ Goto(p, "check")
    /\ cmd' = [cmd EXCEPT ![p] = c]
    /\ route' = [route EXCEPT ![p] = r]
    /\ key' = [key EXCEPT ![p] = k]
    /\ before' = [before EXCEPT ![p] = vault[r]]
    /\ Keep /\ Quiet /\ UNCHANGED <<prior, had, todo, raced, told, silent>>

-----------------------------------------------------------------------------
\* storeCredential: setup and update with a key, the headless prompt, the form.

\* Processes that hold the lock for a command on the same route.
Rivals(p) == {q \in owners \ {p} : route[q] = route[p]}

\* The vault write, without the lock; only a shipped route is owed a row.
StoreVault(p) ==
    /\ pc[p] = "storeVault"
    /\ vault' = [vault EXCEPT ![route[p]] = key[p]]
    /\ UNCHANGED <<exists, rows, cached>>
    /\ raced' = raced \cup Rivals(p)
    /\ IF route[p] \in Shipped
       THEN Goto(p, "rowLock") /\ Unlocked /\ Note({}, {}) /\ Quiet /\ UNCHANGED <<local, before>>
       ELSE Quit(p, "stored") /\ Note({}, {route[p]})

StoreFails(p) ==
    /\ pc[p] = "storeVault" /\ "vault" \in Faults
    /\ Keep /\ End(p, "unstored")

-----------------------------------------------------------------------------
\* materializeBuiltInRoute: a shipped route's row, under the lock.

\* Back to the caller, with or without a row.
AfterRow(p) ==
    IF cmd[p] = "form" THEN End(p, "submitted")
    ELSE /\ Goto(p, IF cmd[p] = "store" THEN "verify" ELSE "nextRow")
         /\ LetGo(p) /\ Note({}, {})
         /\ Quiet /\ UNCHANGED <<local, before, raced>>

RowLock(p) ==
    /\ pc[p] = "rowLock"
    /\ Keep
    /\ \/ Enter(p) /\ Goto(p, "rowProbe") /\ Plain /\ UNCHANGED local
       \/ AfterRow(p)

\* Mutated: the credential is not looked for again inside the lock.
RowProbeNever(p) ==
    /\ pc[p] = "rowProbe"
    /\ Keep /\ Goto(p, "rowWrite") /\ Unlocked /\ Plain /\ UNCHANGED local

RowProbe(p) ==
    /\ pc[p] = "rowProbe"
    /\ Keep
    /\ \/ /\ vault[route[p]] # NoSecret
          /\ Goto(p, "rowWrite") /\ Unlocked /\ Plain /\ UNCHANGED local
       \/ vault[route[p]] = NoSecret /\ AfterRow(p)
       \/ "vault" \in Faults /\ AfterRow(p)

RowWrite(p) ==
    /\ pc[p] = "rowWrite"
    /\ \/ /\ exists
          /\ rows' = rows \cup {route[p]} /\ UNCHANGED <<vault, exists, cached>>
       \/ (~exists \/ "config" \in Faults) /\ Keep
    /\ AfterRow(p)

\* requireRowAfterStore: success is read off the document, not assumed; without a
\* document the command ends with an error.
Verify(p) ==
    /\ pc[p] = "verify"
    /\ Keep
    /\ End(p, IF route[p] \in rows THEN "stored" ELSE "rowless")

\* Shipped routes with a credential and no row, as far as the vault answers.
Rowless(seen) ==
    LET there == {r \in Shipped \ rows : vault[r] # NoSecret}
    IN  seen = there \/ ("vault" \in Faults /\ seen \in SUBSET there)

\* Bare setup: give every route that lacks its row one, then look again.
BeginRepair(p) ==
    /\ pc[p] = "idle" /\ exists
    /\ cmd' = [cmd EXCEPT ![p] = "repair"]
    /\ \E seen \in SUBSET Shipped : Rowless(seen) /\ todo' = [todo EXCEPT ![p] = seen]
    /\ Goto(p, "nextRow")
    /\ Keep /\ Unlocked /\ Plain /\ UNCHANGED <<route, key, prior, had>>

NextRow(p) ==
    /\ pc[p] = "nextRow"
    /\ Keep /\ Unlocked /\ Plain
    /\ \/ \E r \in todo[p] :
             /\ route' = [route EXCEPT ![p] = r]
             /\ todo' = [todo EXCEPT ![p] = @ \ {r}]
             /\ Goto(p, "rowLock")
       \/ /\ todo[p] = {}
          /\ route' = [route EXCEPT ![p] = NoRoute]
          /\ Goto(p, "recheck")
          /\ UNCHANGED todo
    /\ UNCHANGED <<cmd, key, prior, had>>

Recheck(p) ==
    /\ pc[p] = "recheck"
    /\ Keep
    /\ raced' = raced \ {p}
    /\ \E seen \in SUBSET Shipped :
          /\ Rowless(seen)
          /\ Quit(p, IF exists /\ seen = {} THEN "repaired" ELSE "unrepaired")
          /\ Note(seen, {})

-----------------------------------------------------------------------------
\* What the lifecycle looks at before it changes anything.

\* A collision, a configuration that cannot be read, a vault that cannot be
\* written, or invalid input.
AddCheck(p) ==
    /\ pc[p] = "check" /\ cmd[p] = "add"
    /\ Keep
    /\ \/ route[p] \notin rows /\ Goto(p, "probe") /\ Unlocked /\ Plain /\ UNCHANGED local
       \/ /\ route[p] \in rows \/ Faults \cap {"vault", "config"} # {}
          /\ End(p, "refused")

\* An unknown route is refused; so is an update without a new key when the
\* present one cannot be read.
UpdateCheck(p) ==
    /\ pc[p] = "check" /\ cmd[p] = "update"
    /\ Keep
    /\ \/ /\ route[p] \in rows
          /\ \E s \in {vault[route[p]], NoSecret} :
                /\ s = vault[route[p]] \/ "vault" \in Faults
                /\ key[p] # NoSecret \/ s # NoSecret
                /\ prior' = [prior EXCEPT ![p] = s]
          /\ had' = [had EXCEPT ![p] = TRUE]
          /\ Goto(p, "probe") /\ Unlocked /\ Plain /\ UNCHANGED <<cmd, route, key, todo>>
       \/ /\ \/ route[p] \notin rows
             \/ key[p] = NoSecret /\ vault[route[p]] = NoSecret
             \/ Faults \cap {"vault", "config"} # {}
          /\ End(p, "refused")

\* Nothing configured, nothing cached, nothing readable in the vault.
RemoveCheck(p) ==
    /\ pc[p] = "check" /\ cmd[p] = "remove"
    /\ Keep
    /\ \/ /\ route[p] \in rows \cup cached \/ vault[route[p]] # NoSecret
          /\ had' = [had EXCEPT ![p] = route[p] \in rows]
          /\ Goto(p, "removeVault")
          /\ Unlocked /\ Plain /\ UNCHANGED <<cmd, route, key, prior, todo>>
       \/ /\ route[p] \notin rows \cup cached
          /\ vault[route[p]] = NoSecret \/ "vault" \in Faults
          /\ End(p, "nothing")

\* The provider's answer and the retention choice: keep the route, clear it (an
\* update removes what there is), or change nothing.
Probe(p) ==
    /\ pc[p] = "probe"
    /\ Keep
    /\ \/ /\ \/ Goto(p, IF key[p] # NoSecret THEN "persistVault" ELSE "persistConfig")
             \/ cmd[p] = "update" /\ Goto(p, "removeVault")
          /\ Unlocked /\ Plain /\ UNCHANGED local
       \/ End(p, "refused")

\* persistRoute: vault, then configuration, then cache.
PersistVault(p) ==
    /\ pc[p] = "persistVault"
    /\ \/ /\ vault' = [vault EXCEPT ![route[p]] = key[p]] /\ UNCHANGED <<exists, rows, cached>>
          /\ Goto(p, "persistConfig")
          /\ Note({}, {})
          /\ Unlocked /\ Quiet /\ UNCHANGED <<local, before, raced>>
       \/ "vault" \in Faults /\ Keep /\ End(p, "unstored")

PersistConfig(p) ==
    /\ pc[p] = "persistConfig"
    /\ \/ /\ exists
          /\ rows' = rows \cup {route[p]} /\ UNCHANGED <<vault, exists, cached>>
          /\ Goto(p, "persistCache")
       \/ /\ ~exists \/ "config" \in Faults
          /\ Keep /\ Goto(p, "rollback")
    /\ Note({}, {})
    /\ Unlocked /\ Quiet /\ UNCHANGED <<local, before, raced>>

\* Mutated: a rotated key is left in place.
RollbackNever(p) ==
    /\ pc[p] = "rollback"
    /\ Keep /\ End(p, "unchanged")

\* The credential goes back to what it was: removed if the route is new and the
\* probe proves it, the previous one if it could be read.
Rollback(p) ==
    /\ pc[p] = "rollback"
    /\ UNCHANGED <<exists, rows, cached>>
    /\ LET back == IF cmd[p] = "add" THEN NoSecret ELSE prior[p]
       IN  \/ /\ key[p] = NoSecret
              /\ UNCHANGED vault /\ End(p, "unchanged")
           \/ /\ key[p] # NoSecret /\ (cmd[p] = "add" \/ back # NoSecret)
              /\ vault' = [vault EXCEPT ![route[p]] = back]
              /\ End(p, "unchanged")
           \/ /\ key[p] # NoSecret
              /\ "vault" \in Faults \/ (cmd[p] = "update" /\ back = NoSecret)
              /\ UNCHANGED vault /\ End(p, "leftover")
           \/ /\ key[p] # NoSecret /\ cmd[p] = "add" /\ "vault" \in Faults
              /\ vault' = [vault EXCEPT ![route[p]] = NoSecret]
              /\ End(p, "leftover")

\* dropCacheRow; a failure downgrades the report to a warning.
DropCacheRow(p, outcome) ==
    /\ UNCHANGED <<vault, exists, rows>>
    /\ \/ cached' = cached \ {route[p]} /\ End(p, outcome)
       \/ "cache" \in Faults /\ UNCHANGED cached /\ End(p, "stale")

PersistCache(p) == pc[p] = "persistCache" /\ DropCacheRow(p, "persisted")

-----------------------------------------------------------------------------
\* removeWithinLock: credential, then configuration, then cache.

RemoveVault(p) ==
    /\ pc[p] = "removeVault"
    /\ UNCHANGED <<exists, rows, cached>>
    /\ \/ vault' = [vault EXCEPT ![route[p]] = NoSecret]
       \/ "vault" \in Faults /\ UNCHANGED vault
    /\ Goto(p, "removeProbe")
    /\ Note({}, {})
    /\ Unlocked /\ Quiet /\ UNCHANGED <<local, before, raced>>

Removed(p) ==
    Goto(p, IF had[p] /\ route[p] \notin Shipped THEN "removeConfig" ELSE "removeCache")

\* Mutated: a secret that cannot be read is taken to be gone.
RemoveProbeLenient(p) ==
    /\ pc[p] = "removeProbe"
    /\ Keep
    /\ \/ /\ vault[route[p]] = NoSecret \/ "vault" \in Faults
          /\ Removed(p) /\ Unlocked /\ Plain /\ UNCHANGED local
       \/ vault[route[p]] # NoSecret /\ End(p, "kept")

\* Only a probe that answers "absent" proves that the secret is gone.
RemoveProbe(p) ==
    /\ pc[p] = "removeProbe"
    /\ Keep
    /\ \/ /\ vault[route[p]] = NoSecret
          /\ Removed(p) /\ Unlocked /\ Plain /\ UNCHANGED local
       \/ /\ vault[route[p]] # NoSecret \/ "vault" \in Faults
          /\ End(p, "kept")

RemoveConfig(p) ==
    /\ pc[p] = "removeConfig"
    /\ \/ /\ exists
          /\ rows' = rows \ {route[p]} /\ UNCHANGED <<vault, exists, cached>>
          /\ Goto(p, "removeCache")
          /\ Note({}, {})
          /\ Unlocked /\ Quiet /\ UNCHANGED <<local, before, raced>>
       \/ /\ ~exists \/ "config" \in Faults
          /\ Keep /\ End(p, "keyless")

RemoveCache(p) == pc[p] = "removeCache" /\ DropCacheRow(p, "removed")

-----------------------------------------------------------------------------
\* Around the commands.

\* The process dies, or exits because the configuration it is about to rewrite
\* can no longer be read (readUserConfig): no rollback, no report.
Die(p) ==
    /\ pc[p] # "idle"
    /\ "crash" \in Faults \/ ("config" \in Faults /\ pc[p] \in {"persistConfig", "removeConfig"})
    /\ Keep
    /\ Quit(p, "none")
    /\ raced' = raced \ {p}
    /\ Note({route[p]} \cup todo[p], {})

\* A collection publishes an observation of a configured route.
Observe(r) ==
    /\ r \in rows
    /\ cached' = cached \cup {r}
    /\ Quiet /\ UNCHANGED <<vault, exists, rows, owners, pc, local, history>>

\* The user deletes config.json: routes of their own go with it.
Outside ==
    /\ "outside" \in Faults
    /\ exists
    /\ exists' = FALSE /\ rows' = {} /\ UNCHANGED <<vault, cached>>
    /\ Note(Route \ Shipped, {})
    /\ Quiet /\ UNCHANGED <<owners, pc, local, before, raced>>

Begin(p) ==
    \/ \E c \in {"store", "form"}, r \in Route, k \in Secret : BeginStore(p, c, r, k)
    \/ \E c \in {"add", "update", "remove"}, r \in Route, k \in Secret \cup {NoSecret} :
          BeginLocked(p, c, r, k)
    \/ BeginRepair(p)
Migrate(p) == MigrateCheck(p) \/ MigrateLock(p) \/ MigrateProbe(p) \/ MigratePublish(p)
Store(p) == StoreVault(p) \/ StoreFails(p) \/ RowLock(p) \/ RowProbe(p) \/ RowWrite(p) \/ Verify(p)
Repair(p) == NextRow(p) \/ Recheck(p)
Validate(p) == AddCheck(p) \/ UpdateCheck(p) \/ RemoveCheck(p) \/ Probe(p)
Persist(p) == PersistVault(p) \/ PersistConfig(p) \/ Rollback(p) \/ PersistCache(p)
Remove(p) == RemoveVault(p) \/ RemoveProbe(p) \/ RemoveConfig(p) \/ RemoveCache(p)

Next ==
    \/ \E p \in Proc : Begin(p) \/ Migrate(p) \/ Store(p) \/ Repair(p)
                        \/ Validate(p) \/ Persist(p) \/ Remove(p) \/ Die(p)
    \/ \E r \in Route : Observe(r)
    \/ Outside

Spec == Init /\ [][Next]_vars

-----------------------------------------------------------------------------
\* p ends its command with this report.
Ends(p, outcome) == pc[p] # "idle" /\ pc'[p] = "idle" /\ out' = outcome

\* A command is at work on the route.
InFlight(r) == \E p \in Proc : route[p] = r \/ r \in todo[p]

\* Vault and configuration agree about every route, unless a command is at work
\* on it, or one has said that it left them apart, or died; or one of the two
\* known silent cases: a form's credential whose row could not be added, and a
\* key stored while its route was being removed.  So a migration or a repair
\* never leaves a credential behind unnoticed ("has a credential" and
\* "configured", vl.js storeCredential).
StoresAgree == exists =>
    \A r \in Route : Agrees(r) \/ r \in told \cup silent \/ InFlight(r)

\* A shipped route's row is published only for a credential that is stored right
\* now, whatever a concurrent removal does.
RowsHaveCredentials ==
    [][\A r \in Shipped : r \in rows' \ rows => vault[r] # NoSecret]_vars

\* "Removed" means removed: the credential is provably gone, and so is the entry
\* of a route of the user's own, unless a key was stored without the lock
\* meanwhile.
RemovalsAreTrue ==
    [][\A p \in Proc : Ends(p, "removed") =>
          /\ p \in raced \/ vault'[route[p]] = NoSecret
          /\ route[p] \notin Shipped => route[p] \notin rows' \cup cached']_vars

\* A failed command that says nothing was persisted left the credential as it
\* was when the command got the lock; a failed rotation keeps the working key.
FailuresRestore ==
    [][\A p \in Proc : Ends(p, "unchanged") =>
          \/ p \in raced
          \/ vault'[route[p]] = before[p]
          \/ cmd[p] = "add" /\ vault'[route[p]] = NoSecret]_vars

-----------------------------------------------------------------------------
\* The inductive invariant of the reports, part by part.

\* Places that only the holder of the mutation lock reaches.
Persisting == {"persistVault", "persistConfig", "rollback", "persistCache"}
Removing == {"removeVault", "removeProbe", "removeConfig", "removeCache"}
Locked == {"probeAll", "publish", "rowProbe", "rowWrite", "check", "probe"}
          \cup Persisting \cup Removing

\* The lock's holder is in one of them, and whoever is in one holds it.
LockHeld == \A p \in Proc : pc[p] \in Locked <=> owners = {p}
OneHolder == \A p, q \in owners : p = q

\* A command has the route, and where it writes it the secret, it was given.
HasInputs(p) ==
    /\ pc[p] \in {"storeVault", "rowLock", "rowProbe", "rowWrite", "check", "probe"}
                 \cup Persisting \cup Removing => route[p] \in Route
    /\ pc[p] \in {"storeVault", "persistVault"} => key[p] # NoSecret
    /\ pc[p] \in {"probe"} \cup Persisting => cmd[p] \in {"add", "update"}
    /\ pc[p] = "probe" /\ cmd[p] = "update" => had[p]
    /\ pc[p] \in {"check", "probe"} \cup Persisting /\ cmd[p] # "remove" => route[p] \notin Shipped
InputsKept == \A p \in Proc : HasInputs(p)

\* A credential that a process is about to publish a row for is there: nobody
\* but the lock's holder ever removes one.
RowGrounded(p) ==
    /\ pc[p] = "rowWrite" => vault[route[p]] # NoSecret
    /\ pc[p] = "publish" => \A r \in todo[p] : vault[r] # NoSecret
RowsGrounded == \A p \in Proc : RowGrounded(p)

\* What a command holds about its route's credential is still so, unless another
\* process has stored one.
Knows(p) ==
    /\ pc[p] \in {"check", "probe", "persistVault"} => vault[route[p]] = before[p]
    /\ pc[p] \in {"persistConfig", "rollback"} /\ key[p] = NoSecret => vault[route[p]] = before[p]
    /\ pc[p] \in {"probe"} \cup Persisting /\ cmd[p] = "update" => prior[p] \in {before[p], NoSecret}
    /\ pc[p] \in {"removeConfig", "removeCache"} => vault[route[p]] = NoSecret
CredentialKnown == \A p \in Proc : p \in raced \/ Knows(p)

\* A removal that is past the configuration has left no entry of its own there.
PastEntry(p) == route[p] \in Route \ Shipped =>
    /\ pc[p] \in Removing /\ ~had[p] => route[p] \notin rows
    /\ pc[p] = "removeCache" => route[p] \notin rows
EntryGone == \A p \in Proc : PastEntry(p)

IInv == TypeOK /\ LockHeld /\ OneHolder /\ InputsKept /\ RowsGrounded /\ CredentialKnown /\ EntryGone

\* The inductive invariant of StoresAgree, on top of it.  p has changed a store of
\* route r and is on its way to a report that will say so if they disagree.  A
\* repair is not: it may pass over a route that could not be given its row.
Answers(p, r) ==
    /\ route[p] = r
    /\ \/ pc[p] \in {"rowLock", "rowProbe", "rowWrite", "verify"} /\ cmd[p] \in {"store", "form"}
       \/ pc[p] \in {"persistConfig", "rollback"} /\ key[p] # NoSecret
       \/ pc[p] \in {"removeProbe", "removeConfig"}
       \/ pc[p] = "removeCache" /\ p \in raced

Answered(r) == Agrees(r) \/ r \in told \cup silent \/ \E p \in Proc : Answers(p, r)

\* Without a document a shipped route's credential waits for the migration, which
\* has seen it once it is about to publish.
Awaited(r) == r \in Shipped /\ ~exists /\ \A p \in Proc : pc[p] = "publish" => r \in todo[p]
AllAnswered == \A r \in Route : Answered(r) \/ Awaited(r)

\* A command that persists a route is the only one that could disturb it: the
\* credential is there once written, and the entry it may fall back to has not
\* gone without a word.
Bearings(p) ==
    /\ todo[p] \subseteq Shipped
    /\ pc[p] = "publish" => ~exists
    /\ pc[p] = "storeVault" => cmd[p] \in {"store", "form"}
    /\ pc[p] = "nextRow" => cmd[p] = "repair"
    /\ pc[p] \in {"rowLock", "rowProbe", "rowWrite", "verify"} =>
          route[p] \in Shipped /\ cmd[p] \in {"store", "form", "repair"}
    /\ pc[p] = "removeConfig" => route[p] \notin Shipped
    /\ pc[p] \in {"check", "probe"} \cup Persisting /\ cmd[p] = "add" => key[p] # NoSecret
    /\ pc[p] \in {"probe", "persistVault", "persistConfig", "rollback"} =>
          /\ cmd[p] = "add" => route[p] \notin rows
          /\ cmd[p] = "update" /\ key[p] = NoSecret => prior[p] # NoSecret
          /\ cmd[p] = "update" /\ prior[p] # NoSecret =>
                vault[route[p]] # NoSecret /\ route[p] \in rows \cup told \cup silent
    /\ pc[p] \in {"persistConfig", "rollback", "persistCache"} => vault[route[p]] # NoSecret
    /\ pc[p] = "persistCache" => route[p] \in rows \cup told \cup silent
AllHaveBearings == \A p \in Proc : Bearings(p)
NoDocument == ~exists => rows = {}

AInv == NoDocument /\ AllHaveBearings /\ AllAnswered

-----------------------------------------------------------------------------
\* A removal that reports that there is nothing to remove leaves no secret: the
\* result "errs towards still present rather than towards a false all-clear" (the
\* comment of credentialGone), whatever the vault could not answer.
NothingMeansNothing ==
    [][\A p \in Proc : Ends(p, "nothing") =>
          \/ vault'[route[p]] = NoSecret
          \/ \E q \in Proc \ {p} : route[q] = route[p]]_vars
=============================================================================
