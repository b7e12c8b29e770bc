----------------------------- MODULE ConfigStore -----------------------------
(***************************************************************************)
(* How config.json is published and read (lib/config.js), one file         *)
(* operation per step: config.json and config.json.prev are directory      *)
(* entries that link(2), rename(2) and unlink(2) move; readers take no     *)
(* lock; publishers hold the provider mutation lock, which is taken here   *)
(* as the abstract lock of Ownership (TicketLock implements it).  A        *)
(* document is the set of the edits it contains, so that a lost edit       *)
(* shows.  Outside the protocol stand the user, who may delete             *)
(* config.json, and crashes between any two steps.                         *)
(***************************************************************************)
EXTENDS Naturals

CONSTANTS Proc,      \* vl processes: CLI commands, form servers, daemons
          Rounds,    \* READ_ROUNDS: config.json then .prev, this many times
          MaxDoc,    \* bound: documents written in a behaviour
          MaxCrash,  \* bound: crashes in a behaviour
          Faults     \* "outside": config.json deleted by the user;
                     \* "io": a file operation of a publisher fails

ASSUME RoundsAssumption == Rounds \in Nat \ {0}
ASSUME BoundsAssumption == MaxDoc \in Nat /\ MaxCrash \in Nat
ASSUME FaultAssumption == Faults \subseteq {"outside", "io"}

Doc == 1 .. MaxDoc
Absent == 0
Entry == Doc \cup {Absent}

VARIABLES target,   \* the file config.json names
          prev,     \* the file config.json.prev names
          made,     \* documents written to a temporary file so far
          edits,    \* the edits each document contains
          acked,    \* edits whose saveConfig returned
          owners,   \* the mutation lock
          pc, job,  \* where each process is, and in what
          round,    \* its read round
          seen,     \* the document it read, or Absent
          tmp,      \* the document it wrote to its temporary file
          out,      \* how its job ended
          window,   \* documents that were current since its read began
          crashes,
          deleted   \* config.json has been deleted from outside

entries == <<target, prev>>
store == <<made, edits, acked>>
local == <<job, round, seen, tmp, out>>
vars == <<target, prev, made, edits, acked, owners, pc, job, round, seen, tmp, out,
          window, crashes, deleted>>
env == <<crashes, deleted>>

Jobs == {"lax", "strict", "update", "migrate"}
Publishing == {"write", "firstPrev", "firstLink", "probe", "restore", "dropPrev",
               "moveAside", "link", "putBack", "dropBack", "cleanup"}
Reading == {"readTarget", "readPrev"}
Places == {"idle", "check", "checkPrev", "lock", "recheck", "recheckPrev", "unlock", "done"}
          \cup Publishing \cup Reading
Outcomes == {"none", "document", "absent", "inconclusive", "present", "busy",
             "published", "exists", "pending", "failed"}

TypeOK ==
    /\ target \in Entry /\ prev \in Entry
    /\ made \in 0 .. MaxDoc
    /\ edits \in [Doc -> SUBSET Doc]
    /\ acked \subseteq Doc
    /\ owners \subseteq Proc
    /\ pc \in [Proc -> Places]
    /\ job \in [Proc -> Jobs \cup {"none"}]
    /\ round \in [Proc -> 0 .. Rounds]
    /\ seen \in [Proc -> Entry] /\ tmp \in [Proc -> Entry]
    /\ out \in [Proc -> Outcomes]
    /\ window \in [Proc -> SUBSET Entry]
    /\ crashes \in 0 .. MaxCrash /\ deleted \in BOOLEAN

Lock == INSTANCE Ownership WITH Contender <- Proc

\* The document as every reader defines it: config.json, else .prev.
Current == IF target # Absent THEN target ELSE prev

Holds(p) == owners = {p}

Goto(p, place) == pc' = [pc EXCEPT ![p] = place]

\* Every reader in progress gets to have seen what the step makes current.
Witness == window' = [p \in Proc |->
    IF pc[p] \in {"idle", "done"} THEN window[p] ELSE window[p] \cup {Current'}]

\* A step that changes no file.
Files == UNCHANGED <<target, prev, window>>

Init ==
    /\ target = Absent /\ prev = Absent
    /\ made = 0 /\ acked = {}
    /\ edits = [d \in Doc |-> {}]
    /\ owners = {}
    /\ pc = [p \in Proc |-> "idle"] /\ job = [p \in Proc |-> "none"]
    /\ round = [p \in Proc |-> 0]
    /\ seen = [p \in Proc |-> Absent] /\ tmp = [p \in Proc |-> Absent]
    /\ out = [p \in Proc |-> "none"]
    /\ window = [p \in Proc |-> {}]
    /\ crashes = 0 /\ deleted = FALSE

-----------------------------------------------------------------------------
\* A job begins: a read, a read-modify-write, or the migration's pre-check.

\* Mutated: an update reads before it takes the lock.
EntranceUnlocked(j) == IF j = "migrate" THEN "check" ELSE "readTarget"

Entrance(j) == CASE j = "update" -> "lock" [] j = "migrate" -> "check" [] OTHER -> "readTarget"

Begin(p, j) ==
    /\ pc[p] = "idle"
    /\ Goto(p, Entrance(j))
    /\ job' = [job EXCEPT ![p] = j]
    /\ round' = [round EXCEPT ![p] = 1]
    /\ window' = [window EXCEPT ![p] = {Current}]
    /\ UNCHANGED <<entries, store, owners, seen, tmp, out, env>>

\* The job is decided: let go of the lock if it is held.
End(p, outcome) ==
    /\ Goto(p, IF Holds(p) THEN "unlock" ELSE "done")
    /\ out' = [out EXCEPT ![p] = outcome]

\* configPresence: two looks, before the lock and again under it.
CheckTarget(p) ==
    /\ pc[p] \in {"check", "recheck"}
    /\ IF target # Absent
       THEN End(p, "present")
       ELSE Goto(p, IF pc[p] = "check" THEN "checkPrev" ELSE "recheckPrev") /\ UNCHANGED out
    /\ Files /\ UNCHANGED <<store, owners, job, round, seen, tmp, env>>

CheckPrev(p) ==
    /\ pc[p] \in {"checkPrev", "recheckPrev"}
    /\ IF prev # Absent
       THEN End(p, "present")
       ELSE Goto(p, IF pc[p] = "checkPrev" THEN "lock" ELSE "write") /\ UNCHANGED out
    /\ Files /\ UNCHANGED <<store, owners, job, round, seen, tmp, env>>

\* Mutated: the migration does not look again under the lock.
GrabTrusting(p) ==
    /\ pc[p] = "lock"
    /\ job[p] # "strict" => made < MaxDoc
    /\ Lock!Acquire(p)
    /\ Goto(p, IF job[p] = "migrate" THEN "write" ELSE "readTarget")
    /\ Files /\ UNCHANGED <<store, local, env>>

Grab(p) ==
    /\ pc[p] = "lock"
    /\ job[p] # "strict" => made < MaxDoc
    /\ Lock!Acquire(p)
    /\ Goto(p, IF job[p] = "migrate" THEN "recheck" ELSE "readTarget")
    /\ Files /\ UNCHANGED <<store, local, env>>

\* Refused: somebody holds the lock, or contenders collided.  A strict reader
\* has waited LOCK_WAIT_MS and gives up without an answer.
Busy(p) ==
    /\ pc[p] = "lock"
    /\ End(p, IF job[p] = "strict" THEN "inconclusive" ELSE "busy")
    /\ Files /\ UNCHANGED <<store, owners, job, round, seen, tmp, env>>

Unlock(p) ==
    /\ pc[p] = "unlock"
    /\ Lock!Leave(p)
    /\ Goto(p, "done")
    /\ Files /\ UNCHANGED <<store, local, env>>

Finish(p) ==
    /\ pc[p] = "done"
    /\ Goto(p, "idle")
    /\ job' = [job EXCEPT ![p] = "none"]
    /\ round' = [round EXCEPT ![p] = 0]
    /\ seen' = [seen EXCEPT ![p] = Absent]
    /\ tmp' = [tmp EXCEPT ![p] = Absent]
    /\ out' = [out EXCEPT ![p] = "none"]
    /\ window' = [window EXCEPT ![p] = {}]
    /\ UNCHANGED <<entries, store, owners, env>>

-----------------------------------------------------------------------------
\* Reading: config.json, then .prev, up to Rounds times, without a lock.

Found(p, doc) ==
    /\ seen' = [seen EXCEPT ![p] = doc]
    /\ IF job[p] = "update"
       THEN Goto(p, "write") /\ UNCHANGED out
       ELSE End(p, "document")

\* Mutated: a reader looks at .prev first.
ReadTargetLast(p) ==
    /\ pc[p] = "readTarget"
    /\ CASE prev # Absent -> Found(p, prev)
         [] prev = Absent /\ target # Absent -> Found(p, target)
         [] OTHER -> Goto(p, "readPrev") /\ UNCHANGED <<seen, out>>
    /\ Files /\ UNCHANGED <<store, owners, job, round, tmp, env>>

ReadTarget(p) ==
    /\ pc[p] = "readTarget"
    /\ IF target # Absent
       THEN Found(p, target)
       ELSE Goto(p, "readPrev") /\ UNCHANGED <<seen, out>>
    /\ Files /\ UNCHANGED <<store, owners, job, round, tmp, env>>

\* Mutated: a strict reader takes its exhausted rounds for absence.
ExhaustedAbsent(p) ==
    \/ /\ Holds(p) \/ job[p] = "strict"
       /\ IF job[p] = "update" THEN Goto(p, "write") /\ UNCHANGED out
                               ELSE End(p, "absent")
    \/ /\ ~Holds(p) /\ job[p] = "lax"
       /\ End(p, "inconclusive")

\* Every round missed.  Under the lock that proves absence; a strict reader
\* takes the lock for one more round; a lax one cannot tell.
Exhausted(p) ==
    \/ /\ Holds(p)
       /\ IF job[p] = "update" THEN Goto(p, "write") /\ UNCHANGED out
                               ELSE End(p, "absent")
    \/ /\ ~Holds(p) /\ job[p] = "strict"
       /\ Goto(p, "lock") /\ UNCHANGED out
    \/ /\ ~Holds(p) /\ job[p] = "lax"
       /\ End(p, "inconclusive")

\* Mutated: one round too many.
ReadPrevAgain(p) ==
    /\ pc[p] = "readPrev"
    /\ IF prev # Absent
       THEN Found(p, prev) /\ UNCHANGED round
       ELSE /\ UNCHANGED seen
            /\ IF round[p] <= Rounds
               THEN /\ round' = [round EXCEPT ![p] = @ + 1]
                    /\ Goto(p, "readTarget") /\ UNCHANGED out
               ELSE Exhausted(p) /\ UNCHANGED round
    /\ Files /\ UNCHANGED <<store, owners, job, tmp, env>>

ReadPrev(p) ==
    /\ pc[p] = "readPrev"
    /\ IF prev # Absent
       THEN Found(p, prev) /\ UNCHANGED round
       ELSE /\ UNCHANGED seen
            /\ IF round[p] < Rounds
               THEN /\ round' = [round EXCEPT ![p] = @ + 1]
                    /\ Goto(p, "readTarget") /\ UNCHANGED out
               ELSE Exhausted(p) /\ UNCHANGED round
    /\ Files /\ UNCHANGED <<store, owners, job, tmp, env>>

-----------------------------------------------------------------------------
\* saveConfig, under the lock.

\* A file operation of the publisher fails: EIO, EACCES, no hard links.
Fails(p) == "io" \in Faults /\ End(p, "failed")

WriteTmp(p) ==
    /\ pc[p] = "write"
    /\ \/ /\ made' = made + 1
          /\ tmp' = [tmp EXCEPT ![p] = made + 1]
          /\ edits' = [edits EXCEPT ![made + 1] =
                 {made + 1} \cup (IF seen[p] = Absent THEN {} ELSE edits[seen[p]])]
          /\ Goto(p, IF job[p] = "migrate" THEN "firstPrev" ELSE "probe")
          /\ UNCHANGED out
       \/ Fails(p) /\ UNCHANGED <<made, tmp, edits>>
    /\ Files /\ UNCHANGED <<acked, owners, job, round, seen, env>>

\* The first publish, the migration's: create-only.
FirstPrev(p) ==
    /\ pc[p] = "firstPrev"
    /\ IF prev # Absent
       THEN End(p, "exists")
       ELSE Goto(p, "firstLink") /\ UNCHANGED out
    /\ Files /\ UNCHANGED <<store, owners, job, round, seen, tmp, env>>

FirstLink(p) ==
    /\ pc[p] = "firstLink"
    /\ \/ /\ target = Absent
          /\ target' = tmp[p] /\ acked' = acked \cup {tmp[p]}
          /\ End(p, "published")
       \/ target # Absent /\ End(p, "exists") /\ UNCHANGED <<target, acked>>
       \/ Fails(p) /\ UNCHANGED <<target, acked>>
    /\ UNCHANGED <<prev, made, edits, owners, job, round, seen, tmp, env>>
    /\ Witness

\* Mutated: a .prev left by a crash is not restored.
ProbeNever(p) ==
    /\ pc[p] = "probe"
    /\ Goto(p, "moveAside")
    /\ Files /\ UNCHANGED <<store, owners, local, env>>

\* Every other publish replaces what is there.
Probe(p) ==
    /\ pc[p] = "probe"
    /\ Goto(p, IF target = Absent /\ prev # Absent THEN "restore" ELSE "moveAside")
    /\ Files /\ UNCHANGED <<store, owners, local, env>>

\* link(.prev, config.json): both names are one file until .prev is unlinked.
Restore(p) ==
    /\ pc[p] = "restore"
    /\ \/ /\ target' = Current
          /\ Goto(p, "dropPrev") /\ UNCHANGED out
       \/ Fails(p) /\ UNCHANGED target
    /\ UNCHANGED <<prev, store, owners, job, round, seen, tmp, env>>
    /\ Witness

DropPrev(p) ==
    /\ pc[p] = "dropPrev"
    /\ \/ prev' = Absent /\ Goto(p, "moveAside") /\ UNCHANGED out
       \/ Fails(p) /\ UNCHANGED prev
    /\ UNCHANGED <<target, store, owners, job, round, seen, tmp, env>>
    /\ Witness

\* Mutated: a missing config.json does not stop the publish.
MoveAsideLax(p) ==
    /\ pc[p] = "moveAside"
    /\ Goto(p, "link") /\ UNCHANGED out
    /\ prev' = IF target = Absent THEN prev ELSE target
    /\ target' = IF prev = target THEN target ELSE Absent
    /\ UNCHANGED <<store, owners, job, round, seen, tmp, env>>
    /\ Witness

\* rename(config.json, .prev), the proof that there is something to replace.
\* When the two names are links to one file, rename(2) does nothing and
\* succeeds.
MoveAside(p) ==
    /\ pc[p] = "moveAside"
    /\ \/ target = Absent /\ End(p, "pending") /\ UNCHANGED entries
       \/ /\ target # Absent
          /\ prev' = target
          /\ target' = IF prev = target THEN target ELSE Absent
          /\ Goto(p, "link") /\ UNCHANGED out
       \/ Fails(p) /\ UNCHANGED entries
    /\ UNCHANGED <<store, owners, job, round, seen, tmp, env>>
    /\ Witness

LinkNew(p) ==
    /\ pc[p] = "link"
    /\ \/ target = Absent /\ target' = tmp[p] /\ Goto(p, "cleanup") /\ UNCHANGED out
       \/ /\ target # Absent
          /\ Goto(p, "putBack") /\ out' = [out EXCEPT ![p] = "exists"] /\ UNCHANGED target
       \/ /\ "io" \in Faults
          /\ Goto(p, "putBack") /\ out' = [out EXCEPT ![p] = "failed"] /\ UNCHANGED target
    /\ UNCHANGED <<prev, store, owners, job, round, seen, tmp, env>>
    /\ Witness

\* The new document could not be linked: put the previous one back, best effort.
PutBack(p) ==
    /\ pc[p] = "putBack"
    /\ \/ /\ target = Absent /\ prev # Absent
          /\ target' = prev /\ Goto(p, "dropBack") /\ UNCHANGED out
       \/ /\ target # Absent \/ prev = Absent \/ "io" \in Faults
          /\ End(p, out[p]) /\ UNCHANGED target
    /\ UNCHANGED <<prev, store, owners, job, round, seen, tmp, env>>
    /\ Witness

DropBack(p) ==
    /\ pc[p] = "dropBack"
    /\ prev' = Absent \/ ("io" \in Faults /\ prev' = prev)
    /\ End(p, out[p])
    /\ UNCHANGED <<target, store, owners, job, round, seen, tmp, env>>
    /\ Witness

\* Drop the moved-aside document, best effort; the publish has succeeded.
Cleanup(p) ==
    /\ pc[p] = "cleanup"
    /\ prev' = Absent \/ ("io" \in Faults /\ prev' = prev)
    /\ acked' = acked \cup {tmp[p]}
    /\ End(p, "published")
    /\ UNCHANGED <<target, made, edits, owners, job, round, seen, tmp, env>>
    /\ Witness

-----------------------------------------------------------------------------
\* Outside the protocol.

\* The process dies; its ticket is recovered by its liveness (TicketLock).
Crash(p) ==
    /\ crashes < MaxCrash
    /\ pc[p] \notin {"idle", "done"}
    /\ crashes' = crashes + 1
    /\ owners' = owners \ {p}
    /\ Goto(p, "done")
    /\ out' = [out EXCEPT ![p] = "none"]
    /\ Files /\ UNCHANGED <<store, job, round, seen, tmp, deleted>>

\* The user deletes config.json.
OutsideDelete ==
    /\ "outside" \in Faults
    /\ target # Absent
    /\ target' = Absent /\ deleted' = TRUE
    /\ UNCHANGED <<prev, store, owners, pc, local, crashes>>
    /\ Witness

Read(p) == ReadTarget(p) \/ ReadPrev(p)
FirstPublish(p) == FirstPrev(p) \/ FirstLink(p)
Replace(p) == Probe(p) \/ Restore(p) \/ DropPrev(p) \/ MoveAside(p) \/ LinkNew(p)
              \/ PutBack(p) \/ DropBack(p) \/ Cleanup(p)

Next ==
    \/ \E p \in Proc :
          \/ \E j \in Jobs : Begin(p, j)
          \/ CheckTarget(p) \/ CheckPrev(p)
          \/ Grab(p) \/ Busy(p) \/ Unlock(p) \/ Finish(p)
          \/ Read(p) \/ WriteTmp(p) \/ FirstPublish(p) \/ Replace(p)
          \/ Crash(p)
    \/ OutsideDelete

Spec == Init /\ [][Next]_vars

-----------------------------------------------------------------------------
\* An edit whose saveConfig returned is in the document from then on, through
\* later publishes, failed ones, crashes at any step and recoveries; only the
\* user's own deletion of config.json ends that.
AckedKept == ~deleted /\ acked # {} => Current # Absent /\ acked \subseteq edits[Current]

\* A document comes into being only by the migration's first publish, and the
\* migration publishes only where there is none: every other publisher replaces
\* (Issue #81, R3-1), even if config.json is deleted under it at any moment.
FirstLinked(p) == pc[p] = "firstLink" /\ target' # target
OnlyMigrationCreates ==
    [][(Current = Absent /\ Current' # Absent) <=> (\E p \in Proc : FirstLinked(p))]_vars

\* A document that a reader returns was the current one at some moment of the
\* read, although whole publishes complete between its two looks.
ReadIsCurrent == \A p \in Proc : out[p] = "document" => seen[p] \in window[p]

\* A strict read reports absence, and a read-modify-write starts from an empty
\* document, only if there was none at some moment of the read: N publishes
\* that exhaust the reader's rounds are not taken for absence.
AbsenceIsProven == \A p \in Proc :
    out[p] = "absent" \/ (job[p] = "update" /\ pc[p] = "write" /\ seen[p] = Absent)
        => Absent \in window[p]

\* "A crash between the two steps leaves only .prev; the next publisher restores
\* it (create-only) and proceeds, so a crash never locks the user out": an update
\* of a document that nobody deleted is not refused.
CrashNeverLocksOut == \A p \in Proc :
    job[p] = "update" /\ seen[p] # Absent /\ ~deleted => out[p] \notin {"exists", "pending"}

\* "[A stale .prev] never counts as present once config.json is gone": when no
\* publish is in flight, deleting config.json leaves no document.
DeleteIsFinal ==
    [][owners = {} /\ owners' = {} /\ target # Absent /\ target' = Absent
          => Current' = Absent]_vars

-----------------------------------------------------------------------------
\* The inductive invariant: what the lock and the order of the file operations
\* guarantee at each place of a publisher and of a reader.

\* Places that are reached only with the lock held.
Locked == Publishing \cup {"recheck", "recheckPrev", "unlock"}

LockHeld(p) ==
    pc[p] \in Locked \/ (job[p] = "update" /\ pc[p] \in Reading) => Holds(p)

\* Every job walks its own path.
OnPath(p) ==
    /\ pc[p] \in {"check", "checkPrev", "recheck", "recheckPrev", "firstPrev", "firstLink"}
       => job[p] = "migrate"
    /\ pc[p] \in Publishing \ {"write", "firstPrev", "firstLink"} => job[p] = "update"
    /\ pc[p] \in Reading => job[p] \in {"lax", "strict", "update"}
    /\ pc[p] = "write" => job[p] \in {"update", "migrate"}
    /\ pc[p] = "lock" => job[p] \in {"strict", "update", "migrate"}
    /\ pc[p] \in {"idle", "check", "checkPrev", "lock", "recheck", "recheckPrev"} \cup Reading
       => seen[p] = Absent /\ out[p] = "none"

\* Documents are numbered in the order they are written, one per lock hold.
Bounded(p) ==
    /\ seen[p] <= made /\ tmp[p] <= made
    /\ pc[p] \in {"write", "recheck", "recheckPrev"} \/ (job[p] = "update" /\ pc[p] \in Reading)
       => made < MaxDoc
Numbered ==
    /\ target <= made /\ prev <= made
    /\ \A d \in acked : d <= made

\* What a publisher wrote contains its own edit and all of its base.
TmpMade(p) == pc[p] \in Publishing \ {"write"} =>
    /\ tmp[p] \in Doc /\ tmp[p] \in edits[tmp[p]]
    /\ seen[p] # Absent => edits[seen[p]] \subseteq edits[tmp[p]]

\* The directory at each place of the process that holds the lock.  Only an
\* outside delete can take config.json away from under it.
AtPlace(p) ==
    /\ Holds(p) /\ pc[p] \in {"recheckPrev", "readPrev"} => target = Absent
    /\ job[p] = "migrate" /\ pc[p] \in {"write", "firstPrev", "firstLink"} => Current = Absent
    /\ pc[p] \in {"restore", "dropPrev", "link"} => prev # Absent
    /\ pc[p] = "restore" => target = Absent
    /\ pc[p] \in {"dropPrev", "dropBack"} => target = prev \/ (deleted /\ target = Absent)
    /\ pc[p] = "dropBack" /\ ~deleted => target # Absent
    /\ pc[p] = "cleanup" /\ ~deleted => target = tmp[p]

\* Until it links, a publisher replaces the very document its edit started from.
BaseIsCurrent(p) ==
    /\ job[p] = "update" /\ ~deleted
    /\ pc[p] \in {"write", "probe", "restore", "dropPrev", "moveAside", "link"}
    => Current = seen[p]

\* A read in progress has in its window what it may still return.
WindowHolds(p) ==
    /\ pc[p] \notin {"idle", "done"} => Current \in window[p]
    /\ pc[p] = "readPrev" => prev = Absent \/ prev \in window[p]
    /\ out[p] = "document" => seen[p] \in window[p]
    /\ \/ out[p] = "absent"
       \/ job[p] = "update" /\ pc[p] = "write" /\ seen[p] = Absent
       => Absent \in window[p]

ProcInv(p) ==
    /\ LockHeld(p) /\ OnPath(p) /\ Bounded(p) /\ TmpMade(p)
    /\ AtPlace(p) /\ BaseIsCurrent(p) /\ WindowHolds(p)

\* The lock as Ownership promises it.
OneOwner == \A p, q \in owners : p = q

IInv == TypeOK /\ OneOwner /\ Numbered /\ AckedKept /\ \A p \in Proc : ProcInv(p)
=============================================================================
