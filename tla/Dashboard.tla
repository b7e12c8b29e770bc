----------------------------- MODULE Dashboard -----------------------------
(***************************************************************************)
(* The dashboard daemons of one data directory and the commands that        *)
(* start, find and stop them (lib/dashboard/daemon.js, record.js,           *)
(* server.js, the collection loop of scheduler.js, `vl.js dashboard`).      *)
(* One element of Daemon is one run of the daemon process: its instance id, *)
(* its nonce and its start token.  The commands know a daemon only through  *)
(* the record file dashboard.json and whatever answers at the port it names.*)
(* The instance lock is Ownership, which TicketLock implements.             *)
(***************************************************************************)
EXTENDS Naturals

CONSTANTS Daemon, Client, Port,
          None, Stranger,
          Faults     \* "crash": a daemon dies at any point;
                     \* "reuse": its pid is given to another process;
                     \* "ps": a start token cannot be read;
                     \* "zone": a command runs in another time zone (TZ);
                     \* "lost": a request fails or is not answered in time;
                     \* "slow": a deadline passes;
                     \* "io": the record, the log or a port cannot be used;
                     \* "stranger": other programs listen on the ports

ASSUME DaemonAssumption == None \notin Daemon /\ Stranger \notin Daemon /\ None # Stranger
ASSUME ClientAssumption == Client \cap Daemon = {}
ASSUME PortAssumption == None \notin Port
ASSUME FaultAssumption ==
    Faults \subseteq {"crash", "reuse", "ps", "zone", "lost", "slow", "io", "stranger"}

VARIABLES place,      \* where each daemon is in runDaemon ... shutdown
          port,       \* the port it has bound
          owners,     \* the instance lock
          listener,   \* who listens on each port
          record,     \* the instance that dashboard.json names
          collecting, \* daemons whose collection is running
          reused,     \* dead daemons whose pid belongs to another process
          ready,      \* daemons that wrote a good line to their ready channel
          at, cmd,    \* where each client is, and in what command
          seen,       \* the instance in the record it read, or that it spawned
          sure,       \* clients for whom that instance's process is the recorded one
          confirmed,  \* the instance that answered the client with its identity
          abandoned,  \* daemons whose start was reported as failed
          abroad,     \* commands and daemons that run in the other time zone
          out         \* what a client concluded in the last step

daemons == <<place, port, owners, listener, record, collecting, reused, ready>>
clients == <<at, cmd, seen, sure, confirmed, abandoned, abroad>>
vars == <<place, port, owners, listener, record, collecting, reused, ready,
          at, cmd, seen, sure, confirmed, abandoned, abroad, out>>

\* No signal handler is installed yet, and no record answered for.
Unready == {"starting", "binding", "recording", "announcing", "failing"}
\* shutdown() has begun.
Ending == {"draining", "closing", "unlisting", "unlinking", "releasing", "leaving"}
Places == {"unborn", "serving", "gone"} \cup Unready \cup Ending
Listening == {"recording", "announcing", "serving", "draining", "closing"}
Published == {"announcing", "serving", "draining", "closing", "unlisting", "unlinking"}
Holding == {"binding", "recording", "releasing"} \cup Published
\* The collection loop is over for good.
Drained == Ending \ {"draining"}

Commands == {"none", "status", "stop", "start"}
Asking == {"classify", "identify", "reread", "post", "wait"}
ClientPlaces == {"idle", "read", "spawn", "ready"} \cup Asking
Verdicts == {"stopped", "corrupt", "stale", "unverified", "running"}
Outcomes == Verdicts \cup {"none", "not-running", "record-changed", "stop-refused",
                           "stop-timeout", "ended", "started", "failed", "not-spawned"}

TypeOK ==
    /\ place \in [Daemon -> Places]
    /\ port \in [Daemon -> Port \cup {None}]
    /\ owners \subseteq Daemon
    /\ listener \in [Port -> Daemon \cup {None, Stranger}]
    /\ record \in Daemon \cup {None}
    /\ collecting \subseteq Daemon
    /\ reused \subseteq Daemon
    /\ ready \subseteq Daemon
    /\ at \in [Client -> ClientPlaces]
    /\ cmd \in [Client -> Commands]
    /\ seen \in [Client -> Daemon \cup {None}]
    /\ sure \subseteq Client
    /\ confirmed \in [Client -> Daemon \cup {None}]
    /\ abandoned \subseteq Daemon
    /\ abroad \subseteq Daemon \cup Client
    /\ out \in (Client \cup {None}) \X Outcomes

Nothing == <<None, "none">>
ClientsRest == UNCHANGED clients /\ out' = Nothing

Lock == INSTANCE Ownership WITH Contender <- Daemon

\* Two processes that print the start token of a process differently: it is local
\* time, and identity.js passes TZ on to ps.
Foreign(q, d) == (q \in abroad) # (d \in abroad)

Alive(d) == place[d] \notin {"unborn", "gone"}
\* The event loop serves requests: not while runDaemon publishes and announces.
Answers(d) == place[d] \in {"serving", "draining"}

Init ==
    /\ place = [d \in Daemon |-> "unborn"]
    /\ port = [d \in Daemon |-> None]
    /\ Lock!Init
    /\ listener = [p \in Port |-> None]
    /\ record = None
    /\ collecting = {}
    /\ reused = {}
    /\ ready = {}
    /\ at = [c \in Client |-> "idle"]
    /\ cmd = [c \in Client |-> "none"]
    /\ seen = [c \in Client |-> None]
    /\ sure = {}
    /\ confirmed = [c \in Client |-> None]
    /\ abandoned = {}
    /\ abroad = {}
    /\ out = Nothing

-----------------------------------------------------------------------------
\* The daemon, from its spawn to serving.

\* The ports without d's listeners.
WithoutListener(d) == [p \in Port |-> IF listener[p] = d THEN None ELSE listener[p]]

\* The holders' tickets carry tokens of the other time zone, so the contender takes
\* their owners for dead and unlinks them; one of those, contending at the same
\* time, may do the same to its ticket.
Rob(d) ==
    /\ owners # {}
    /\ \A e \in owners : Foreign(d, e)
    /\ owners' \in {{d}, {}}

GrantLock(d) ==
    /\ place[d] = "starting"
    /\ Lock!Acquire(d) \/ Rob(d)
    /\ place' = [place EXCEPT ![d] = "binding"]
    /\ UNCHANGED <<port, listener, record, collecting, reused, ready>> /\ ClientsRest

\* held or indeterminate: another contender, or a dead one's ticket that cannot
\* be judged; no-identity; storage-error.
RefuseLock(d) ==
    /\ place[d] = "starting"
    /\ (\E e \in Daemon \ {d} : Alive(e)) \/ Faults \cap {"ps", "io"} # {}
    /\ place' = [place EXCEPT ![d] = "failing"]
    /\ UNCHANGED <<port, owners, listener, record, collecting, reused, ready>> /\ ClientsRest

Bind(d) ==
    /\ place[d] = "binding"
    /\ \E p \in Port :
        /\ listener[p] = None
        /\ listener' = [listener EXCEPT ![p] = d]
        /\ port' = [port EXCEPT ![d] = p]
    /\ place' = [place EXCEPT ![d] = "recording"]
    /\ UNCHANGED <<owners, record, collecting, reused, ready>> /\ ClientsRest

\* release() removes its own ticket, if it is still there.
GiveBack(d) == owners' = owners \ {d}

\* fail(): a port that is taken, the LAN listener, the LAN token or the record's
\* file refused; the listeners are closed and the lock is released.
Fail(d) ==
    /\ \/ place[d] = "binding" /\ ("io" \in Faults \/ \E p \in Port : listener[p] # None)
       \/ place[d] = "recording" /\ "io" \in Faults
    /\ place' = [place EXCEPT ![d] = "failing"]
    /\ listener' = WithoutListener(d)
    /\ GiveBack(d)
    /\ UNCHANGED <<port, record, collecting, reused, ready>> /\ ClientsRest

\* The failure is written to the ready channel; exit(1).
ReportFailure(d) ==
    /\ place[d] = "failing"
    /\ place' = [place EXCEPT ![d] = "gone"]
    /\ UNCHANGED <<port, owners, listener, record, collecting, reused, ready>> /\ ClientsRest

Publish(d) ==
    /\ place[d] = "recording"
    /\ record' = d
    /\ place' = [place EXCEPT ![d] = "announcing"]
    /\ UNCHANGED <<port, owners, listener, collecting, reused, ready>> /\ ClientsRest

\* onReady: signal handlers, the ready line; then the first collection.
Announce(d) ==
    /\ place[d] = "announcing"
    /\ ready' = ready \cup {d}
    /\ collecting' = collecting \cup {d}
    /\ place' = [place EXCEPT ![d] = "serving"]
    /\ UNCHANGED <<port, owners, listener, record, reused>> /\ ClientsRest

-----------------------------------------------------------------------------
\* The collection loop.

\* Mutated: a stopping scheduler still starts what a refresh asks for.
CollectStopping(d) ==
    /\ Answers(d)
    /\ d \notin collecting
    /\ collecting' = collecting \cup {d}
    /\ UNCHANGED <<place, port, owners, listener, record, reused, ready>> /\ ClientsRest

\* A tick, or the page's refresh: joins the run in flight, and starts nothing
\* once the scheduler has been stopped.
Collect(d) ==
    /\ place[d] = "serving"
    /\ d \notin collecting
    /\ collecting' = collecting \cup {d}
    /\ UNCHANGED <<place, port, owners, listener, record, reused, ready>> /\ ClientsRest

\* The view's process has ended: by itself, killed by its deadline or by abort();
\* it is in a group of its own and outlives a daemon that crashes.
Collected(d) ==
    /\ d \in collecting
    /\ collecting' = collecting \ {d}
    /\ UNCHANGED <<place, port, owners, listener, record, reused, ready>> /\ ClientsRest

-----------------------------------------------------------------------------
\* shutdown(), begun by a signal, an uncaught error or an authorised request.

Signal(d) ==
    /\ place[d] = "serving"
    /\ place' = [place EXCEPT ![d] = "draining"]
    /\ UNCHANGED <<port, owners, listener, record, collecting, reused, ready>> /\ ClientsRest

\* Mutated: the run in flight is not waited for.
DrainNever(d) ==
    /\ place[d] = "draining"
    /\ place' = [place EXCEPT ![d] = "closing"]
    /\ UNCHANGED <<port, owners, listener, record, collecting, reused, ready>> /\ ClientsRest

Drain(d) ==
    /\ place[d] = "draining"
    /\ d \notin collecting
    /\ place' = [place EXCEPT ![d] = "closing"]
    /\ UNCHANGED <<port, owners, listener, record, collecting, reused, ready>> /\ ClientsRest

\* Mutated: the lock is released before the record is removed.
CloseReleasing(d) ==
    /\ place[d] = "closing"
    /\ listener' = WithoutListener(d)
    /\ owners' = owners \ {d}
    /\ place' = [place EXCEPT ![d] = "unlisting"]
    /\ UNCHANGED <<port, record, collecting, reused, ready>> /\ ClientsRest

Close(d) ==
    /\ place[d] = "closing"
    /\ listener' = WithoutListener(d)
    /\ place' = [place EXCEPT ![d] = "unlisting"]
    /\ UNCHANGED <<port, owners, record, collecting, reused, ready>> /\ ClientsRest

\* removeRecordIf: the record is read, and unlinked if it named this instance;
\* the unlink takes whatever is there by then, and may fail.
CheckRecord(d) ==
    /\ place[d] = "unlisting"
    /\ \/ record = d /\ place' = [place EXCEPT ![d] = "unlinking"]
       \/ /\ record # d \/ "io" \in Faults
          /\ place' = [place EXCEPT ![d] = "releasing"]
    /\ UNCHANGED <<port, owners, listener, record, collecting, reused, ready>> /\ ClientsRest

Unlink(d) ==
    /\ place[d] = "unlinking"
    /\ \/ record' = None
       \/ "io" \in Faults /\ record' = record
    /\ place' = [place EXCEPT ![d] = "releasing"]
    /\ UNCHANGED <<port, owners, listener, collecting, reused, ready>> /\ ClientsRest

Release(d) ==
    /\ place[d] = "releasing"
    /\ GiveBack(d)
    /\ place' = [place EXCEPT ![d] = "leaving"]
    /\ UNCHANGED <<port, listener, record, collecting, reused, ready>> /\ ClientsRest

Exit(d) ==
    /\ place[d] = "leaving"
    /\ place' = [place EXCEPT ![d] = "gone"]
    /\ UNCHANGED <<port, owners, listener, record, collecting, reused, ready>> /\ ClientsRest

\* The process is gone: the system closes its sockets, and its ticket is a dead
\* one, which the next contender removes.
Dies(d) ==
    /\ place' = [place EXCEPT ![d] = "gone"]
    /\ listener' = WithoutListener(d)
    /\ owners' = owners \ {d}

Crash(d) ==
    /\ "crash" \in Faults
    /\ Alive(d)
    /\ Dies(d)
    /\ UNCHANGED <<port, record, collecting, reused, ready>> /\ ClientsRest

ReusePid(d) ==
    /\ "reuse" \in Faults
    /\ place[d] = "gone"
    /\ reused' = reused \cup {d}
    /\ UNCHANGED <<place, port, owners, listener, record, collecting, ready>> /\ ClientsRest

\* Another program comes to a port that the record or a command names (nobody asks
\* at another), or leaves it.
Occupy(p) ==
    /\ "stranger" \in Faults
    /\ \/ /\ listener[p] = None
          /\ \E d \in ({record} \cup {seen[c] : c \in Client}) \ {None} : port[d] = p
          /\ listener' = [listener EXCEPT ![p] = Stranger]
       \/ listener[p] = Stranger /\ listener' = [listener EXCEPT ![p] = None]
    /\ UNCHANGED <<place, port, owners, record, collecting, reused, ready>> /\ ClientsRest

-----------------------------------------------------------------------------
\* status: what can be said about the instance that the record names.

Goto(c, s) == at' = [at EXCEPT ![c] = s]
Report(c, o) == out' = <<c, o>>
Quietly == out' = Nothing

\* The command ends with a report; what it knew matters no more.
Finish(c, o) ==
    /\ Goto(c, "idle")
    /\ Report(c, o)
    /\ cmd' = [cmd EXCEPT ![c] = "none"]
    /\ seen' = [seen EXCEPT ![c] = None]
    /\ confirmed' = [confirmed EXCEPT ![c] = None]
    /\ sure' = sure \ {c}
    /\ abroad' = abroad \ {c}

\* What each command does with the verdict: stop goes on with a running instance
\* only (see Identify), start unless it is running or could not be verified.
Conclude(c, v) ==
    \/ /\ cmd[c] # "start" \/ v \in {"running", "unverified"}
       /\ Finish(c, v)
    \/ /\ cmd[c] = "start" /\ v \notin {"running", "unverified"}
       /\ Goto(c, "spawn")
       /\ Report(c, v)
       /\ seen' = [seen EXCEPT ![c] = None]
       /\ sure' = sure \ {c}
       /\ UNCHANGED <<cmd, confirmed, abroad>>

Begin(c) ==
    /\ at[c] = "idle"
    /\ abroad' = abroad \/ ("zone" \in Faults /\ abroad' = abroad \cup {c})
    /\ \E k \in Commands \ {"none"} : cmd' = [cmd EXCEPT ![c] = k]
    /\ Goto(c, "read")
    /\ Quietly
    /\ UNCHANGED <<seen, sure, confirmed, abandoned, daemons>>

ReadRecord(c) ==
    /\ at[c] = "read"
    /\ \/ record = None /\ Conclude(c, "stopped")
       \/ "io" \in Faults /\ Conclude(c, "corrupt")
       \/ /\ record # None
          /\ seen' = [seen EXCEPT ![c] = record]
          /\ Goto(c, "classify") /\ Quietly
          /\ UNCHANGED <<cmd, sure, confirmed, abroad>>
    /\ UNCHANGED <<abandoned, daemons>>

\* identity.classify as q runs it: no such process, or one whose start token reads
\* otherwise than the recorded one, is dead; a token that cannot be read proves nothing.
Dead(q, d) == place[d] = "gone" \/ (Alive(d) /\ Foreign(q, d))
Same(q, d) == Alive(d) /\ ~Foreign(q, d)
Unreadable(d) == "ps" \in Faults /\ (Alive(d) \/ d \in reused)

\* Mutated: a process whose start token cannot be read counts as dead.
ClassifyDead(c) ==
    /\ at[c] = "classify"
    /\ \/ (Dead(c, seen[c]) \/ Unreadable(seen[c])) /\ Conclude(c, "stale")
       \/ /\ Same(c, seen[c])
          /\ Goto(c, "identify") /\ Quietly
          /\ sure' = sure \cup {c}
          /\ UNCHANGED <<cmd, seen, confirmed, abroad>>
    /\ UNCHANGED <<abandoned, daemons>>

Classify(c) ==
    /\ at[c] = "classify"
    /\ \/ Dead(c, seen[c]) /\ Conclude(c, "stale")
       \/ /\ \/ Same(c, seen[c]) /\ sure' = sure \cup {c}
             \/ Unreadable(seen[c]) /\ sure' = sure \ {c}
          /\ Goto(c, "identify") /\ Quietly
          /\ UNCHANGED <<cmd, seen, confirmed, abroad>>
    /\ UNCHANGED <<abandoned, daemons>>

\* Who listens at the address that the record read by c names.
Answering(c) == listener[port[seen[c]]]

\* GET /api/identity, compared with the record's instance id and pid.  The
\* GET /api/status that follows changes no verdict.
Identify(c) ==
    /\ at[c] = "identify"
    /\ \/ Answering(c) = None /\ Conclude(c, "stale")
       \/ "lost" \in Faults /\ Conclude(c, "unverified")
       \/ /\ Answering(c) = Stranger \/ Answering(c) \in Daemon \ {seen[c]}
          /\ Conclude(c, "stale")
       \/ /\ Answering(c) = seen[c] /\ Answers(seen[c])
          /\ \/ /\ c \in sure /\ cmd[c] = "stop"
                /\ Goto(c, "reread")
                /\ confirmed' = [confirmed EXCEPT ![c] = seen[c]]
                /\ Report(c, "running")
                /\ sure' = sure \ {c}
                /\ UNCHANGED <<cmd, seen, abroad>>
             \/ c \in sure /\ cmd[c] # "stop" /\ Conclude(c, "running")
             \/ c \notin sure /\ Conclude(c, "unverified")
    /\ UNCHANGED <<abandoned, daemons>>

-----------------------------------------------------------------------------
\* stop: ask the verified instance, then wait for it to be gone.

Reread(c) ==
    /\ at[c] = "reread"
    /\ \/ /\ record # seen[c] \/ "io" \in Faults
          /\ Finish(c, "record-changed")
       \/ /\ record = seen[c]
          /\ Goto(c, "post") /\ Quietly
          /\ UNCHANGED <<cmd, seen, sure, confirmed, abroad>>
    /\ UNCHANGED <<abandoned, daemons>>

\* The request is served: the nonce is this instance's; once the response is
\* sent, shutdown() begins, if it has not.
StopServed(d) ==
    /\ Answers(d)
    /\ place' = [place EXCEPT ![d] = "draining"]
    /\ UNCHANGED <<port, owners, listener, record, collecting, reused, ready>>

Waiting(c) ==
    /\ Goto(c, "wait") /\ Quietly
    /\ UNCHANGED <<cmd, seen, sure, confirmed, abroad>>

\* Mutated: a request without an answer counts as accepted.
PostHopeful(c) ==
    /\ at[c] = "post"
    /\ \/ Answering(c) = seen[c] /\ StopServed(seen[c]) /\ Waiting(c)
       \/ "lost" \in Faults /\ Waiting(c) /\ UNCHANGED daemons
    /\ UNCHANGED abandoned

\* Mutated: the daemon does not compare the nonce with its own.
PostUnchecked(c) ==
    /\ at[c] = "post"
    /\ Answering(c) \in Daemon
    /\ StopServed(Answering(c))
    /\ Waiting(c)
    /\ UNCHANGED abandoned

\* POST /api/stop with the record's nonce.  A daemon with another nonce answers
\* 401, a stranger may answer anything, and an answer may be lost.
Post(c) ==
    /\ at[c] = "post"
    /\ \/ /\ Answering(c) = seen[c] /\ StopServed(seen[c])
          /\ Waiting(c) \/ ("lost" \in Faults /\ Finish(c, "stop-refused"))
       \/ /\ Answering(c) # seen[c] \/ "lost" \in Faults
          /\ Finish(c, "stop-refused")
          /\ UNCHANGED daemons
       \/ Answering(c) = Stranger /\ Waiting(c) /\ UNCHANGED daemons
    /\ UNCHANGED abandoned

\* Mutated: the record's removal is taken for the end of the daemon.
AwaitRecordGone(c) ==
    /\ at[c] = "wait"
    /\ record # seen[c]
    /\ Finish(c, "ended")
    /\ UNCHANGED <<abandoned, daemons>>

\* A round of the polling in which the process is found dead and the record does
\* not name it (or cannot be read).  The two reads are one step: what is gone stays so.
AwaitGone(c) ==
    /\ at[c] = "wait"
    /\ Dead(c, seen[c])
    /\ record # seen[c] \/ "io" \in Faults
    /\ Finish(c, "ended")
    /\ UNCHANGED <<abandoned, daemons>>

StopTimeout(c) ==
    /\ "slow" \in Faults
    /\ at[c] = "wait"
    /\ Finish(c, "stop-timeout")
    /\ UNCHANGED <<abandoned, daemons>>

-----------------------------------------------------------------------------
\* start: spawn a daemon, with the command's own environment (and TZ), and wait for
\* its ready line.

Spawn(c) ==
    /\ at[c] = "spawn"
    /\ \E d \in Daemon :
        /\ place[d] = "unborn"
        /\ place' = [place EXCEPT ![d] = "starting"]
        /\ seen' = [seen EXCEPT ![c] = d]
        /\ abroad' = IF c \in abroad THEN abroad \cup {d} ELSE abroad
    /\ Goto(c, "ready") /\ Quietly
    /\ UNCHANGED <<cmd, sure, confirmed, abandoned,
                   port, owners, listener, record, collecting, reused, ready>>

\* The log cannot be opened, or the process not be spawned.  (Also the bound on
\* the number of daemons a run has.)
SpawnFails(c) ==
    /\ at[c] = "spawn"
    /\ "io" \in Faults \/ \A d \in Daemon : place[d] # "unborn"
    /\ Finish(c, "not-spawned")
    /\ UNCHANGED <<abandoned, daemons>>

\* The ready line, or the end of the channel or of the process without one.
AwaitReady(c) ==
    /\ at[c] = "ready"
    /\ \/ seen[c] \in ready /\ Finish(c, "started") /\ UNCHANGED abandoned
       \/ /\ seen[c] \notin ready /\ place[seen[c]] = "gone"
          /\ Finish(c, "failed")
          /\ abandoned' = abandoned \cup {seen[c]}
    /\ UNCHANGED daemons

\* Mutated: a start that waited too long reports it and leaves.
ReadyTimeoutOnly(c) ==
    /\ "slow" \in Faults
    /\ at[c] = "ready"
    /\ Finish(c, "failed")
    /\ abandoned' = abandoned \cup {seen[c]}
    /\ UNCHANGED daemons

\* SIGTERM: the default action until the handlers are installed.
Terminated(d) ==
    \/ place[d] \in Unready /\ Dies(d)
    \/ /\ place[d] = "serving"
       /\ place' = [place EXCEPT ![d] = "draining"]
       /\ UNCHANGED <<listener, owners>>
    \/ place[d] \in Ending \cup {"gone"} /\ UNCHANGED <<place, listener, owners>>

\* The ready line was not read in time, although it may have been written since.
ReadyTimeout(c) ==
    /\ "slow" \in Faults
    /\ at[c] = "ready"
    /\ Terminated(seen[c])
    /\ Finish(c, "failed")
    /\ abandoned' = abandoned \cup {seen[c]}
    /\ UNCHANGED <<port, record, collecting, reused, ready>>

-----------------------------------------------------------------------------
\* What a daemon does by itself once it has begun.
Advance(d) ==
    \/ GrantLock(d) \/ RefuseLock(d) \/ Bind(d) \/ Fail(d) \/ ReportFailure(d)
    \/ Publish(d) \/ Announce(d)
    \/ Drain(d) \/ Close(d) \/ CheckRecord(d) \/ Unlink(d) \/ Release(d) \/ Exit(d)

Status(c) == Begin(c) \/ ReadRecord(c) \/ Classify(c) \/ Identify(c)
Stop(c) == Reread(c) \/ Post(c) \/ AwaitGone(c) \/ StopTimeout(c)
Start(c) == Spawn(c) \/ SpawnFails(c) \/ AwaitReady(c) \/ ReadyTimeout(c)

Next ==
    \/ \E d \in Daemon : Advance(d) \/ Collect(d) \/ Collected(d) \/ Signal(d)
                         \/ Crash(d) \/ ReusePid(d)
    \/ \E p \in Port : Occupy(p)
    \/ \E c \in Client : Status(c) \/ Stop(c) \/ Start(c)

Spec == Init /\ [][Next]_vars

\* A daemon's code runs on by itself, and a collection ends (abort() kills it,
\* and so does its deadline).  Nothing is assumed of clients, signals or faults.
Fairness == \A d \in Daemon : WF_vars(Advance(d)) /\ WF_vars(Collected(d))

FairSpec == Spec /\ Fairness

-----------------------------------------------------------------------------
\* Every daemon so far was started in one time zone.
Uniform == \A d, e \in Daemon :
    place[d] # "unborn" /\ place[e] # "unborn" => ~Foreign(d, e)

\* The record of a daemon that serves is never lost, not even to the shutdown
\* or the failed start of another: stop and status always find it.  "The record
\* goes BEFORE the lock, so a successor ... can never find (or lose) a record of
\* ours" (lib/dashboard/daemon.js).  Daemons of two time zones take the lock
\* from each other, and then nothing protects the record.
RecordKept == Uniform => \A d \in Daemon : place[d] \in Published => record = d

\* A client's request shuts down the instance that answered this client with its
\* identity, or nothing: not a successor that has come to listen on the same port
\* since, whatever happened between the status, the re-read and the request.
StopsOnlyConfirmed ==
    [][\A c \in Client, d \in Daemon :
          /\ at[c] = "post" /\ at'[c] # "post"
          /\ place[d] = "serving" /\ place'[d] # "serving"
          => d = confirmed[c]]_vars

\* When stop reports success, the instance holds nothing a successor needs: its
\* process is gone, and with it the lock and the port.
StopMakesRoom ==
    [][\A c \in Client : out' = <<c, "ended">> =>
          /\ place[seen[c]] = "gone"
          /\ seen[c] \notin owners
          /\ \A p \in Port : listener[p] # seen[c]]_vars

\* A daemon that serves is never called stale (which tells start to replace it),
\* though its process cannot be judged, requests are lost and ports change hands:
\* none but a command of another time zone does so, for which its token is wrong.
NeverCalledStale ==
    [][\A c \in Client :
          /\ out' = <<c, "stale">>
          /\ place[seen[c]] \in {"announcing", "serving", "draining", "closing"}
          => Foreign(c, seen[c])]_vars

\* A daemon whose start was reported as failed does not stay, and a shutdown that
\* has begun ends, though refreshes keep arriving.
NoneLingers == \A d \in Daemon : /\ place[d] # "draining"
                               /\ d \in abandoned => place[d] = "gone"

-----------------------------------------------------------------------------
\* The inductive invariant, part by part.

\* A ticket is that of a daemon whose place says so; in one time zone, such a
\* daemon has its ticket.
LockHeld ==
    /\ \A d \in owners : place[d] \in Holding
    /\ Uniform => \A d \in Daemon : place[d] \in Holding => owners = {d}

OneHolder == owners = {} \/ \E d \in Daemon : owners = {d}

\* A daemon listens on the port it bound, from the bind to the close.
ListenerPlaced ==
    /\ \A d \in Daemon : place[d] \in Listening => port[d] \in Port /\ listener[port[d]] = d
    /\ \A p \in Port, d \in Daemon : listener[p] = d => place[d] \in Listening

\* Nothing is collected once the loop is over.
LoopOver == \A d \in Daemon : place[d] \in Drained => d \notin collecting

\* The record has been published, some time ago perhaps.
Recorded == {"announcing", "serving", "gone"} \cup Ending

RecordPlaced == \A d \in Daemon :
    record = d => port[d] \in Port /\ place[d] \in Recorded

\* What a client has read of an instance.
ClientKnows(c) ==
    /\ at[c] \in Asking => seen[c] \in Daemon /\ port[seen[c]] \in Port
                           /\ place[seen[c]] \in Recorded
    /\ at[c] = "ready" => seen[c] \in Daemon /\ place[seen[c]] # "unborn"
    /\ at[c] \in {"reread", "post"} => confirmed[c] = seen[c]
    \* A verified process is one whose token reads the same.
    /\ c \in sure /\ at[c] = "identify" => ~Foreign(c, seen[c])
    /\ at[c] \in {"reread", "post", "wait"} => ~Foreign(c, seen[c])
    \* An accepted request has begun a shutdown.
    /\ at[c] = "wait" => place[seen[c]] \in Ending \cup {"gone"}

\* The strengthening of RecordKept and of the action properties that every step
\* preserves: the daemons' part, and what the commands may rely on.
DaemonsSound == LockHeld /\ OneHolder /\ ListenerPlaced /\ LoopOver /\ RecordPlaced /\ RecordKept

IInv ==
    /\ TypeOK
    /\ DaemonsSound
    /\ \A c \in Client : ClientKnows(c)
=============================================================================
