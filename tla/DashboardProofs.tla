-------------------------- MODULE DashboardProofs ---------------------------
EXTENDS Dashboard, TLAPS

USE DaemonAssumption, ClientAssumption, PortAssumption
USE DEF Places, Unready, Ending, Listening, Published, Holding, Drained, Recorded, Alive

\* No daemon loses what a client knows of it: its port, that it was recorded, that
\* it is on its way out, that it was spawned and in which time zone.
Onward == \A d \in Daemon :
    /\ place[d] \in Recorded => place'[d] \in Recorded /\ port'[d] = port[d]
    /\ place[d] \in Ending \cup {"gone"} => place'[d] \in Ending \cup {"gone"}
    /\ place[d] # "unborn" => place'[d] # "unborn" /\ (d \in abroad' <=> d \in abroad)

\* The variables that an action of a daemon may change stay within their types.
DaemonTypes ==
    /\ place \in [Daemon -> Places]
    /\ port \in [Daemon -> Port \cup {None}]
    /\ owners \subseteq Daemon
    /\ listener \in [Port -> Daemon \cup {None, Stranger}]
    /\ record \in Daemon \cup {None}
    /\ collecting \subseteq Daemon
    /\ reused \subseteq Daemon
    /\ ready \subseteq Daemon

\* No daemon moves to another time zone.
SameZones == \A d \in Daemon : d \in abroad' <=> d \in abroad

LEMMA UniformBefore ==
    ASSUME Onward, Uniform'
    PROVE  Uniform
BY DEF Onward, Uniform, Foreign

LEMMA StartKeeps ==
    ASSUME DaemonTypes, DaemonsSound, SameZones, NEW d \in Daemon,
           GrantLock(d) \/ RefuseLock(d) \/ Bind(d) \/ ReportFailure(d)
    PROVE  DaemonTypes' /\ DaemonsSound' /\ Onward
<1> USE DEF DaemonTypes, DaemonsSound
<1>1. DaemonTypes'
  BY DEF GrantLock, RefuseLock, Bind, ReportFailure, Lock!Acquire, Rob
<1>2. Onward
  BY DEF GrantLock, RefuseLock, Bind, ReportFailure, Onward, SameZones
<1>3. Uniform' => Uniform
  BY <1>2, UniformBefore
<1>4. LockHeld' /\ OneHolder'
  <2>1. OneHolder'
    BY DEF GrantLock, RefuseLock, Bind, ReportFailure, Lock!Acquire, Rob, OneHolder
  <2>2. \A e \in owners' : place'[e] \in Holding
    BY DEF GrantLock, RefuseLock, Bind, ReportFailure, Lock!Acquire, Rob, LockHeld
  \* In one time zone no ticket is taken for a dead one's.
  <2>3. Uniform /\ GrantLock(d) => Lock!Acquire(d)
    BY DEF GrantLock, Rob, Uniform, LockHeld
  <2>4. ASSUME Uniform', NEW e \in Daemon, place'[e] \in Holding PROVE owners' = {e}
    <3>1. CASE GrantLock(d)
      BY <1>3, <2>3, <2>4, <3>1 DEF GrantLock, Lock!Acquire, LockHeld
    <3>2. CASE RefuseLock(d) \/ Bind(d) \/ ReportFailure(d)
      BY <1>3, <2>4, <3>2 DEF RefuseLock, Bind, ReportFailure, LockHeld
    <3> QED BY <3>1, <3>2
  <2> QED BY <2>1, <2>2, <2>4 DEF LockHeld
<1>5. ListenerPlaced'
  BY DEF GrantLock, RefuseLock, Bind, ReportFailure, ListenerPlaced
<1>6. LoopOver'
  BY DEF GrantLock, RefuseLock, Bind, ReportFailure, LoopOver
<1>7. RecordPlaced' /\ RecordKept'
  BY <1>3 DEF GrantLock, RefuseLock, Bind, ReportFailure, RecordPlaced, RecordKept
<1> QED BY <1>1, <1>4, <1>5, <1>6, <1>7, <1>2

LEMMA ServeKeeps ==
    ASSUME DaemonTypes, DaemonsSound, SameZones, NEW d \in Daemon,
           Publish(d) \/ Announce(d) \/ Collect(d) \/ Collected(d) \/ Signal(d) \/ ReusePid(d)
    PROVE  DaemonTypes' /\ DaemonsSound' /\ Onward
<1> USE DEF DaemonTypes, DaemonsSound
<1>1. DaemonTypes'
  BY DEF Publish, Announce, Collect, Collected, Signal, ReusePid
<1>2. Onward
  BY DEF Publish, Announce, Collect, Collected, Signal, ReusePid, Onward, SameZones
<1>3. Uniform' => Uniform
  BY <1>2, UniformBefore
<1>4. LockHeld' /\ OneHolder'
  BY <1>3 DEF Publish, Announce, Collect, Collected, Signal, ReusePid, LockHeld, OneHolder
<1>5. ListenerPlaced'
  BY DEF Publish, Announce, Collect, Collected, Signal, ReusePid, ListenerPlaced
<1>6. LoopOver'
  BY DEF Publish, Announce, Collect, Collected, Signal, ReusePid, LoopOver
<1>7. RecordPlaced'
  BY DEF Publish, Announce, Collect, Collected, Signal, ReusePid, RecordPlaced, ListenerPlaced
<1>8. RecordKept'
  BY <1>3 DEF Publish, Announce, Collect, Collected, Signal, ReusePid, RecordKept, LockHeld
<1> QED BY <1>1, <1>4, <1>5, <1>6, <1>7, <1>8, <1>2

LEMMA ShutdownKeeps ==
    ASSUME DaemonTypes, DaemonsSound, SameZones, NEW d \in Daemon,
           Drain(d) \/ Close(d) \/ CheckRecord(d) \/ Unlink(d) \/ Release(d) \/ Exit(d)
    PROVE  DaemonTypes' /\ DaemonsSound' /\ Onward
<1> USE DEF DaemonTypes, DaemonsSound
<1>1. DaemonTypes'
  BY DEF Drain, Close, CheckRecord, Unlink, Release, Exit, WithoutListener, GiveBack
<1>2. Onward
  BY DEF Drain, Close, CheckRecord, Unlink, Release, Exit, Onward, SameZones
<1>3. Uniform' => Uniform
  BY <1>2, UniformBefore
<1>4. LockHeld' /\ OneHolder'
  BY <1>3 DEF Drain, Close, CheckRecord, Unlink, Release, Exit, GiveBack, LockHeld, OneHolder
<1>5. ListenerPlaced'
  BY DEF Drain, Close, CheckRecord, Unlink, Release, Exit, WithoutListener, ListenerPlaced
<1>6. LoopOver'
  BY DEF Drain, Close, CheckRecord, Unlink, Release, Exit, LoopOver
<1>7. RecordPlaced'
  BY DEF Drain, Close, CheckRecord, Unlink, Release, Exit, RecordPlaced
\* In one time zone only the lock's holder unlinks: what it unlinks is nobody else's.
<1>8. RecordKept'
  BY <1>3 DEF Drain, Close, CheckRecord, Unlink, Release, Exit, RecordKept, LockHeld
<1> QED BY <1>1, <1>4, <1>5, <1>6, <1>7, <1>8, <1>2

\* The process ends before its time: a failed start, a crash, a SIGTERM.
LEMMA EndKeeps ==
    ASSUME DaemonTypes, DaemonsSound, SameZones, NEW d \in Daemon, NEW s \in {"failing", "gone"},
           place' = [place EXCEPT ![d] = s],
           s = "failing" => place[d] \in {"binding", "recording"},
           place[d] # "unborn",
           listener' = WithoutListener(d),
           owners' = owners \ {d},
           UNCHANGED <<port, record, collecting, reused, ready>>
    PROVE  DaemonTypes' /\ DaemonsSound' /\ Onward
<1> USE DEF DaemonTypes, DaemonsSound
<1>1. DaemonTypes'
  BY DEF WithoutListener
<1>2. Onward
  BY DEF Onward, SameZones
<1>3. Uniform' => Uniform
  BY <1>2, UniformBefore
<1>4. LockHeld' /\ OneHolder'
  BY <1>3 DEF LockHeld, OneHolder
<1>5. ListenerPlaced'
  BY DEF WithoutListener, ListenerPlaced
<1>6. LoopOver' /\ RecordPlaced' /\ RecordKept'
  BY <1>3 DEF LoopOver, RecordPlaced, RecordKept
<1> QED BY <1>1, <1>4, <1>5, <1>6, <1>2

LEMMA OccupyKeeps ==
    ASSUME DaemonTypes, DaemonsSound, SameZones, NEW p \in Port, Occupy(p)
    PROVE  DaemonTypes' /\ DaemonsSound' /\ Onward
<1>1. Onward
  BY DEF Occupy, Onward, SameZones
<1>2. Uniform' => Uniform
  BY <1>1, UniformBefore
<1> QED BY <1>1, <1>2 DEF DaemonTypes, DaemonsSound, Occupy, LockHeld, OneHolder, ListenerPlaced,
                          LoopOver, RecordPlaced, RecordKept

\* A daemon that serves begins its shutdown, or goes on with it.
LEMMA DrainingKeeps ==
    ASSUME DaemonTypes, DaemonsSound, SameZones, NEW d \in Daemon,
           place[d] \in {"serving", "draining"}, place' = [place EXCEPT ![d] = "draining"],
           UNCHANGED <<port, owners, listener, record, collecting, reused, ready>>
    PROVE  DaemonTypes' /\ DaemonsSound' /\ Onward
<1>1. Onward
  BY DEF DaemonTypes, Onward, SameZones
<1>2. Uniform' => Uniform
  BY <1>1, UniformBefore
<1>3. LockHeld' /\ RecordKept'
  BY <1>2 DEF DaemonTypes, DaemonsSound, LockHeld, RecordKept
<1> QED BY <1>1, <1>3 DEF DaemonTypes, DaemonsSound, OneHolder, ListenerPlaced, LoopOver, RecordPlaced

LEMMA RestKeeps ==
    ASSUME DaemonTypes, DaemonsSound, SameZones, UNCHANGED daemons
    PROVE  DaemonTypes' /\ DaemonsSound' /\ Onward
<1>1. Onward
  BY DEF daemons, Onward, SameZones
<1>2. Uniform' => Uniform
  BY <1>1, UniformBefore
<1> QED BY <1>1, <1>2 DEF DaemonTypes, DaemonsSound, daemons, LockHeld, OneHolder, ListenerPlaced,
                          LoopOver, RecordPlaced, RecordKept

LEMMA TerminatedKeeps ==
    ASSUME DaemonTypes, DaemonsSound, SameZones, NEW d \in Daemon, Terminated(d),
           UNCHANGED <<port, record, collecting, reused, ready>>
    PROVE  DaemonTypes' /\ DaemonsSound' /\ Onward
<1>1. CASE Dies(d) /\ place[d] \in Unready
  BY <1>1, EndKeeps DEF Dies
<1>2. CASE place[d] = "serving" /\ place' = [place EXCEPT ![d] = "draining"] /\ UNCHANGED <<listener, owners>>
  BY <1>2, DrainingKeeps
<1>3. CASE UNCHANGED <<place, listener, owners>>
  BY <1>3, RestKeeps DEF daemons
<1> QED BY <1>1, <1>2, <1>3 DEF Terminated

LEMMA SpawnKeeps ==
    ASSUME DaemonTypes, DaemonsSound, NEW d \in Daemon, place[d] = "unborn",
           place' = [place EXCEPT ![d] = "starting"],
           \A e \in Daemon \ {d} : e \in abroad' <=> e \in abroad,
           UNCHANGED <<port, owners, listener, record, collecting, reused, ready>>
    PROVE  DaemonTypes' /\ DaemonsSound' /\ Onward
<1>1. Onward
  BY DEF DaemonTypes, Onward
<1>2. Uniform' => Uniform
  BY <1>1, UniformBefore
<1>3. LockHeld' /\ RecordKept'
  BY <1>2 DEF DaemonTypes, DaemonsSound, LockHeld, RecordKept
<1> QED BY <1>1, <1>3 DEF DaemonTypes, DaemonsSound, OneHolder, ListenerPlaced, LoopOver, RecordPlaced

-----------------------------------------------------------------------------
\* The commands.

ClientTypes ==
    /\ at \in [Client -> ClientPlaces]
    /\ cmd \in [Client -> Commands]
    /\ seen \in [Client -> Daemon \cup {None}]
    /\ sure \subseteq Client
    /\ confirmed \in [Client -> Daemon \cup {None}]
    /\ abandoned \subseteq Daemon
    /\ abroad \subseteq Daemon \cup Client
    /\ out \in (Client \cup {None}) \X Outcomes

LEMMA Types == TypeOK <=> DaemonTypes /\ ClientTypes
BY DEF TypeOK, DaemonTypes, ClientTypes

\* A step of c leaves what another client knows alone, and its time zone.
Untouched(q) ==
    /\ at'[q] = at[q] /\ seen'[q] = seen[q] /\ confirmed'[q] = confirmed[q]
    /\ q \in sure' <=> q \in sure
    /\ q \in abroad' <=> q \in abroad

LEMMA Bystander ==
    ASSUME NEW q \in Client, DaemonTypes, ClientTypes, ClientKnows(q), Onward, Untouched(q)
    PROVE  ClientKnows(q)'
<1>1. /\ at[q] \in Asking => seen[q] \in Daemon /\ port'[seen[q]] \in Port /\ place'[seen[q]] \in Recorded
      /\ at[q] = "ready" => seen[q] \in Daemon /\ place'[seen[q]] # "unborn"
      /\ at[q] = "wait" => place'[seen[q]] \in Ending \cup {"gone"}
  BY DEF DaemonTypes, ClientTypes, ClientKnows, Onward, Asking
<1>2. at[q] \in Asking => (Foreign(q, seen[q])' <=> Foreign(q, seen[q]))
  BY DEF ClientKnows, Onward, Untouched, Foreign
<1> QED BY <1>1, <1>2 DEF ClientKnows, Untouched, Asking, Foreign

\* All of the invariant, once the daemons' part and the mover's are there.
LEMMA Together ==
    ASSUME IInv, DaemonTypes', ClientTypes', DaemonsSound', Onward,
           \A q \in Client : Untouched(q) \/ ClientKnows(q)'
    PROVE  IInv'
<1>1. TypeOK'
  BY DEF TypeOK, DaemonTypes, ClientTypes
<1>2. \A q \in Client : ClientKnows(q)'
  BY Bystander, Types DEF IInv
<1> QED BY <1>1, <1>2 DEF IInv

LEMMA ClientsStand ==
    ASSUME ClientTypes, ClientsRest
    PROVE  ClientTypes' /\ \A q \in Client : Untouched(q)
BY DEF ClientTypes, ClientsRest, clients, Nothing, Outcomes, Untouched

LEMMA FinishKeeps ==
    ASSUME ClientTypes, NEW c \in Client, NEW o \in Outcomes, Finish(c, o),
           abandoned' \subseteq Daemon
    PROVE  /\ ClientTypes' /\ SameZones
           /\ \A q \in Client : Untouched(q) \/ ClientKnows(q)'
<1>1. ClientTypes'
  BY DEF ClientTypes, Finish, Goto, Report, ClientPlaces, Commands
<1>2. ClientKnows(c)'
  BY DEF ClientTypes, ClientKnows, Finish, Goto, Asking
<1>3. \A q \in Client \ {c} : Untouched(q)
  BY DEF ClientTypes, Untouched, Finish, Goto
<1>4. SameZones
  BY DEF SameZones, Finish
<1> QED BY <1>1, <1>2, <1>3, <1>4

LEMMA ConcludeKeeps ==
    ASSUME ClientTypes, NEW c \in Client, NEW v \in Verdicts, Conclude(c, v),
           UNCHANGED abandoned
    PROVE  /\ ClientTypes' /\ SameZones
           /\ \A q \in Client : Untouched(q) \/ ClientKnows(q)'
<1>1. v \in Outcomes
  BY DEF Outcomes
<1>2. CASE Finish(c, v)
  BY <1>1, <1>2, FinishKeeps DEF ClientTypes
<1>3. CASE /\ Goto(c, "spawn")
           /\ Report(c, v)
           /\ seen' = [seen EXCEPT ![c] = None]
           /\ sure' = sure \ {c}
           /\ UNCHANGED <<cmd, confirmed, abroad>>
  <2>1. ClientTypes'
    BY <1>1, <1>3 DEF ClientTypes, Goto, Report, ClientPlaces
  <2>2. ClientKnows(c)'
    BY <1>3 DEF ClientTypes, ClientKnows, Goto, Asking
  <2>3. \A q \in Client \ {c} : Untouched(q)
    BY <1>3 DEF ClientTypes, Untouched, Goto
  <2> QED BY <1>3, <2>1, <2>2, <2>3 DEF SameZones
<1> QED BY <1>2, <1>3 DEF Conclude

\* A command goes on to s, with d in mind; it reports nothing.
GoesOn(c, s, d) ==
    /\ Goto(c, s) /\ Quietly
    /\ cmd' \in [Client -> Commands]
    /\ seen' = [seen EXCEPT ![c] = d]
    /\ sure' \subseteq Client
    /\ \A q \in Client \ {c} : q \in sure' <=> q \in sure
    /\ abroad' \subseteq Daemon \cup Client
    /\ \A q \in Client \ {c} : q \in abroad' <=> q \in abroad
    /\ confirmed' = confirmed
    /\ abandoned' = abandoned

\* What its new place promises it to know.
Knowing(c, s, d) ==
    /\ s \in Asking => d \in Daemon /\ port'[d] \in Port /\ place'[d] \in Recorded
    /\ s = "ready" => d \in Daemon /\ place'[d] # "unborn"
    /\ s \in {"reread", "post"} => confirmed[c] = d
    /\ s \in {"reread", "post", "wait"} => ~Foreign(c, d)'
    /\ s = "identify" /\ c \in sure' => ~Foreign(c, d)'
    /\ s = "wait" => place'[d] \in Ending \cup {"gone"}

LEMMA GoOnKeeps ==
    ASSUME ClientTypes, NEW c \in Client, NEW s \in ClientPlaces, NEW d \in Daemon \cup {None},
           GoesOn(c, s, d), Knowing(c, s, d)
    PROVE  /\ ClientTypes'
           /\ \A q \in Client : Untouched(q) \/ ClientKnows(q)'
<1>1. ClientTypes'
  BY DEF ClientTypes, GoesOn, Goto, Quietly, Nothing, Outcomes
<1>2. ClientKnows(c)'
  BY DEF ClientTypes, ClientKnows, GoesOn, Knowing, Goto, Asking, Foreign
<1>3. \A q \in Client \ {c} : Untouched(q)
  BY DEF ClientTypes, Untouched, GoesOn, Goto
<1> QED BY <1>1, <1>2, <1>3

\* Every step of a status leaves the daemons alone.
LEMMA StatusKeeps ==
    ASSUME IInv, NEW c \in Client, Status(c)
    PROVE  IInv'
<1> USE Types
<1>0. SameZones
  BY DEF Status, Begin, ReadRecord, Classify, Identify, Conclude, Finish, SameZones
<1>1. DaemonTypes' /\ DaemonsSound' /\ Onward
  BY <1>0, RestKeeps DEF IInv, Status, Begin, ReadRecord, Classify, Identify
<1>2. UNCHANGED <<abandoned, daemons>> /\ ClientTypes /\ DaemonTypes /\ ClientKnows(c)
  BY DEF IInv, Status, Begin, ReadRecord, Classify, Identify
<1>3. ASSUME NEW v \in Verdicts, Conclude(c, v) PROVE IInv'
  BY <1>1, <1>2, <1>3, ConcludeKeeps, Together
<1>4. CASE Begin(c)
  <2>1. seen' = [seen EXCEPT ![c] = seen[c]] /\ seen[c] \in Daemon \cup {None}
    BY <1>2, <1>4 DEF Begin, ClientTypes
  <2>2. cmd' \in [Client -> Commands] /\ sure' \subseteq Client
    BY <1>2, <1>4 DEF Begin, ClientTypes
  <2>3. GoesOn(c, "read", seen[c]) /\ Knowing(c, "read", seen[c])
    BY <1>2, <1>4, <2>1, <2>2 DEF ClientTypes, GoesOn, Knowing, Begin, Asking
  <2> QED BY <1>1, <1>2, <2>1, <2>3, GoOnKeeps, Together DEF ClientPlaces
<1>5. CASE ReadRecord(c)
  <2>1. CASE /\ record # None
             /\ seen' = [seen EXCEPT ![c] = record]
             /\ Goto(c, "classify") /\ Quietly
             /\ UNCHANGED <<cmd, sure, confirmed, abroad>>
    <3>1. record \in Daemon /\ port'[record] \in Port /\ place'[record] \in Recorded
      BY <1>2, <2>1 DEF IInv, DaemonsSound, RecordPlaced, DaemonTypes, daemons
    <3>2. cmd' \in [Client -> Commands] /\ sure' \subseteq Client
      BY <1>2, <2>1 DEF ClientTypes
    <3>3. GoesOn(c, "classify", record) /\ Knowing(c, "classify", record)
      BY <1>2, <2>1, <3>1, <3>2 DEF ClientTypes, GoesOn, Knowing
    <3> QED BY <1>1, <1>2, <3>1, <3>3, GoOnKeeps, Together DEF ClientPlaces, Asking
  <2> QED BY <1>3, <1>5, <2>1 DEF ReadRecord, Verdicts
<1>6. CASE Classify(c)
  <2>1. CASE /\ Goto(c, "identify") /\ Quietly
             /\ \/ Same(c, seen[c]) /\ sure' = sure \cup {c}
                \/ Unreadable(seen[c]) /\ sure' = sure \ {c}
             /\ UNCHANGED <<cmd, seen, confirmed, abroad>>
    <3>1. seen[c] \in Daemon /\ port'[seen[c]] \in Port /\ place'[seen[c]] \in Recorded
      BY <1>2, <1>6 DEF Classify, ClientKnows, Asking, daemons
    <3>2. cmd' \in [Client -> Commands] /\ seen' = [seen EXCEPT ![c] = seen[c]]
      BY <1>2, <2>1 DEF ClientTypes
    <3>3. /\ sure' \subseteq Client /\ abroad' \subseteq Daemon \cup Client
          /\ \A q \in Client \ {c} : (q \in sure' <=> q \in sure) /\ (q \in abroad' <=> q \in abroad)
      BY <1>2, <2>1 DEF ClientTypes
    <3>4. c \in sure' => ~Foreign(c, seen[c])'
      BY <2>1 DEF Same, Foreign
    <3>5. GoesOn(c, "identify", seen[c]) /\ Knowing(c, "identify", seen[c])
      BY <1>2, <2>1, <3>1, <3>2, <3>3, <3>4 DEF GoesOn, Knowing, Foreign
    <3> QED BY <1>1, <1>2, <3>1, <3>5, GoOnKeeps, Together DEF ClientPlaces, Asking
  <2> QED BY <1>3, <1>6, <2>1 DEF Classify, Verdicts
<1>7. CASE Identify(c)
  <2>1. CASE /\ c \in sure
             /\ Goto(c, "reread")
             /\ confirmed' = [confirmed EXCEPT ![c] = seen[c]]
             /\ Report(c, "running")
             /\ sure' = sure \ {c}
             /\ UNCHANGED <<cmd, seen, abroad>>
    <3>1. seen[c] \in Daemon /\ port'[seen[c]] \in Port /\ place'[seen[c]] \in Recorded
      BY <1>2, <1>7 DEF Identify, ClientKnows, Asking, daemons
    <3>2. ClientTypes'
      BY <1>2, <2>1 DEF ClientTypes, Goto, Report, ClientPlaces, Asking, Outcomes, Verdicts
    <3>3. ClientKnows(c)'
      BY <1>2, <1>7, <2>1, <3>1 DEF ClientTypes, ClientKnows, Identify, Foreign, Goto, Asking
    <3>4. \A q \in Client \ {c} : Untouched(q)
      BY <1>2, <2>1 DEF ClientTypes, Untouched, Goto
    <3> QED BY <1>1, <3>2, <3>3, <3>4, Together
  <2> QED BY <1>3, <1>7, <2>1 DEF Identify, Verdicts
<1> QED BY <1>4, <1>5, <1>6, <1>7 DEF Status

LEMMA StopKeeps ==
    ASSUME IInv, NEW c \in Client, Stop(c)
    PROVE  IInv'
<1> USE Types
<1>0. SameZones
  BY DEF Stop, Reread, Post, Waiting, AwaitGone, StopTimeout, Finish, SameZones
<1>1. UNCHANGED abandoned /\ ClientTypes /\ DaemonTypes /\ DaemonsSound /\ ClientKnows(c)
  BY DEF IInv, Stop, Reread, Post, AwaitGone, StopTimeout
<1>2. seen[c] \in Daemon /\ port[seen[c]] \in Port /\ place[seen[c]] \in Recorded
  BY <1>1 DEF Stop, Reread, Post, AwaitGone, StopTimeout, ClientKnows, Asking
<1>3. ASSUME NEW o \in Outcomes, Finish(c, o), DaemonTypes' /\ DaemonsSound' /\ Onward
      PROVE IInv'
  BY <1>1, <1>3, FinishKeeps, Together DEF ClientTypes
<1>4. CASE UNCHANGED daemons /\ \E o \in Outcomes : Finish(c, o)
  BY <1>0, <1>1, <1>3, <1>4, RestKeeps
<1>5. CASE Reread(c)
  <2>1. CASE /\ Goto(c, "post") /\ Quietly
             /\ UNCHANGED <<cmd, seen, sure, confirmed, abroad>>
    <3>1. /\ DaemonTypes' /\ DaemonsSound' /\ Onward
          /\ confirmed[c] = seen[c] /\ ~Foreign(c, seen[c])
      BY <1>0, <1>1, <1>5, RestKeeps DEF Reread, ClientKnows
    <3>2. cmd' \in [Client -> Commands] /\ sure' \subseteq Client /\ seen' = [seen EXCEPT ![c] = seen[c]]
      BY <1>1, <2>1 DEF ClientTypes
    <3>3. port'[seen[c]] \in Port /\ place'[seen[c]] \in Recorded
      BY <1>2, <1>5 DEF Reread, daemons
    <3>4. GoesOn(c, "post", seen[c]) /\ Knowing(c, "post", seen[c])
      BY <1>1, <1>2, <2>1, <3>1, <3>2, <3>3 DEF ClientTypes, GoesOn, Knowing, Foreign
    <3> QED BY <1>1, <1>2, <3>1, <3>4, GoOnKeeps, Together DEF ClientPlaces, Asking
  <2> QED BY <1>4, <1>5, <2>1 DEF Reread, Outcomes
<1>6. CASE Post(c)
  \* Whoever has accepted the request: the instance itself begins its shutdown; a
  \* stranger has its port, so it has closed its listener long since.
  <2>1. ASSUME Waiting(c), DaemonTypes' /\ DaemonsSound' /\ Onward,
               place'[seen[c]] \in Ending \cup {"gone"}
        PROVE IInv'
    <3>1. cmd' \in [Client -> Commands] /\ sure' \subseteq Client /\ seen' = [seen EXCEPT ![c] = seen[c]]
      BY <1>1, <2>1 DEF ClientTypes, Waiting
    <3>2. port'[seen[c]] \in Port /\ place'[seen[c]] \in Recorded
      BY <1>2, <2>1 DEF Onward
    <3>3. GoesOn(c, "wait", seen[c]) /\ Knowing(c, "wait", seen[c])
      BY <1>1, <1>2, <1>6, <2>1, <3>1, <3>2
         DEF ClientTypes, ClientKnows, GoesOn, Knowing, Foreign, Post, Waiting
    <3> QED BY <1>1, <1>2, <2>1, <3>3, GoOnKeeps, Together DEF ClientPlaces, Asking
  <2>2. CASE Answering(c) = seen[c] /\ StopServed(seen[c])
    <3>1. DaemonTypes' /\ DaemonsSound' /\ Onward
      BY <1>0, <1>1, <1>2, <2>2, DrainingKeeps DEF StopServed, Answers
    <3>2. place'[seen[c]] = "draining"
      BY <1>1, <1>2, <2>2 DEF StopServed, DaemonTypes
    <3>3. CASE Waiting(c)
      BY <2>1, <3>1, <3>2, <3>3
    <3>4. CASE Finish(c, "stop-refused")
      BY <1>3, <3>1, <3>4 DEF Outcomes
    <3> QED BY <1>6, <1>4, <2>1, <2>2, <3>1, <3>3, <3>4 DEF Post, Outcomes
  <2>3. CASE Answering(c) = Stranger /\ Waiting(c) /\ UNCHANGED daemons
    <3>1. place[seen[c]] \notin Listening
      BY <1>1, <1>2, <2>3 DEF Answering, DaemonsSound, ListenerPlaced
    <3>2. place'[seen[c]] \in Ending \cup {"gone"}
      BY <1>2, <2>3, <3>1 DEF daemons
    <3> QED BY <1>0, <1>1, <2>1, <2>3, <3>2, RestKeeps
  <2> QED BY <1>4, <1>6, <2>2, <2>3 DEF Post, Outcomes
<1> QED BY <1>4, <1>5, <1>6 DEF Stop, AwaitGone, StopTimeout, Outcomes

LEMMA StartCommandKeeps ==
    ASSUME IInv, NEW c \in Client, Start(c)
    PROVE  IInv'
<1> USE Types
<1>1. ClientTypes /\ DaemonTypes /\ DaemonsSound /\ ClientKnows(c)
  BY DEF IInv
<1>2. ASSUME NEW o \in Outcomes, Finish(c, o), DaemonTypes' /\ DaemonsSound' /\ Onward,
             abandoned' \subseteq Daemon
      PROVE IInv'
  BY <1>1, <1>2, FinishKeeps, Together
<1>3. CASE Spawn(c)
  <2>1. PICK d \in Daemon : /\ place[d] = "unborn"
                            /\ place' = [place EXCEPT ![d] = "starting"]
                            /\ seen' = [seen EXCEPT ![c] = d]
                            /\ abroad' = IF c \in abroad THEN abroad \cup {d} ELSE abroad
    BY <1>3 DEF Spawn
  <2>2. /\ abroad' \subseteq Daemon \cup Client
        /\ \A e \in Daemon \ {d} : e \in abroad' <=> e \in abroad
        /\ \A q \in Client : q \in abroad' <=> q \in abroad
    BY <1>1, <2>1 DEF ClientTypes
  <2>3. DaemonTypes' /\ DaemonsSound' /\ Onward
    BY <1>1, <1>3, <2>1, <2>2, SpawnKeeps DEF Spawn
  <2>4. cmd' \in [Client -> Commands] /\ sure' \subseteq Client /\ place'[d] # "unborn"
    BY <1>1, <1>3, <2>1 DEF ClientTypes, DaemonTypes, Spawn
  <2>5. GoesOn(c, "ready", d) /\ Knowing(c, "ready", d)
    BY <1>1, <1>3, <2>1, <2>4, <2>2 DEF GoesOn, Knowing, Spawn, Asking
  <2> QED BY <1>1, <2>3, <2>5, GoOnKeeps, Together DEF ClientPlaces
<1>4. CASE SpawnFails(c)
  <2>1. SameZones /\ abandoned' \subseteq Daemon
    BY <1>1, <1>4 DEF SpawnFails, Finish, SameZones, ClientTypes
  <2> QED BY <1>1, <1>2, <1>4, <2>1, RestKeeps DEF SpawnFails, Outcomes
<1>5. CASE AwaitReady(c)
  <2>1. abandoned' \subseteq Daemon
    BY <1>1, <1>5 DEF AwaitReady, ClientTypes, ClientKnows
  <2>2. SameZones
    BY <1>5 DEF AwaitReady, Finish, SameZones
  <2> QED BY <1>1, <1>2, <1>5, <2>1, <2>2, RestKeeps DEF AwaitReady, Outcomes
<1>6. CASE ReadyTimeout(c)
  <2>1. seen[c] \in Daemon
    BY <1>1, <1>6 DEF ReadyTimeout, ClientKnows
  <2>2. abandoned' \subseteq Daemon
    BY <1>1, <1>6, <2>1 DEF ReadyTimeout, ClientTypes
  <2>3. SameZones
    BY <1>6 DEF ReadyTimeout, Finish, SameZones
  <2>4. DaemonTypes' /\ DaemonsSound' /\ Onward
    BY <1>1, <1>6, <2>1, <2>3, TerminatedKeeps DEF ReadyTimeout
  <2> QED BY <1>2, <1>6, <2>2, <2>4 DEF ReadyTimeout, Outcomes
<1> QED BY <1>3, <1>4, <1>5, <1>6 DEF Start

\* The actions of the daemons and of their surroundings.
Surroundings ==
    \/ \E d \in Daemon : Advance(d) \/ Collect(d) \/ Collected(d) \/ Signal(d)
                         \/ Crash(d) \/ ReusePid(d)
    \/ \E p \in Port : Occupy(p)

LEMMA DaemonStepKeeps ==
    ASSUME IInv, Surroundings
    PROVE  IInv'
<1>1. DaemonTypes /\ ClientTypes /\ DaemonsSound
  BY Types DEF IInv
<1>2. ClientsRest
  BY DEF Surroundings, Advance, GrantLock, RefuseLock, Bind, Fail, ReportFailure, Publish, Announce,
         Collect, Collected, Signal, Drain, Close, CheckRecord, Unlink, Release, Exit, Crash,
         ReusePid, Occupy
<1>3. SameZones
  BY <1>2 DEF ClientsRest, clients, SameZones
<1> SUFFICES DaemonTypes' /\ DaemonsSound' /\ Onward
  BY <1>1, <1>2, ClientsStand, Together
<1>4. ASSUME NEW d \in Daemon, Fail(d) PROVE DaemonTypes' /\ DaemonsSound' /\ Onward
  <2>1. owners' = owners \ {d}
    BY <1>4 DEF Fail, GiveBack
  <2> QED BY <1>1, <1>3, <1>4, <2>1, EndKeeps DEF Fail
<1>5. ASSUME NEW d \in Daemon, Crash(d) PROVE DaemonTypes' /\ DaemonsSound' /\ Onward
  BY <1>1, <1>3, <1>5, EndKeeps DEF Crash, Dies
<1> QED BY <1>1, <1>3, <1>4, <1>5, StartKeeps, ServeKeeps, ShutdownKeeps, OccupyKeeps
        DEF Surroundings, Advance

-----------------------------------------------------------------------------
LEMMA InitHolds == Init => IInv
BY DEF Init, Uniform, Lock!Init, IInv, TypeOK, DaemonsSound, LockHeld, OneHolder, ListenerPlaced, LoopOver,
       RecordPlaced, RecordKept, ClientKnows, Nothing, Outcomes, ClientPlaces, Commands, Asking

LEMMA StepKeeps == IInv /\ [Next]_vars => IInv'
<1> SUFFICES ASSUME IInv, [Next]_vars PROVE IInv'
  OBVIOUS
<1>1. CASE UNCHANGED vars
  BY <1>1 DEF vars, IInv, TypeOK, DaemonsSound, LockHeld, OneHolder, ListenerPlaced, LoopOver,
              RecordPlaced, RecordKept, Uniform, Foreign, ClientKnows
<1>2. CASE Surroundings
  BY <1>2, DaemonStepKeeps
<1>3. ASSUME NEW c \in Client, Status(c) \/ Stop(c) \/ Start(c) PROVE IInv'
  BY <1>3, StatusKeeps, StopKeeps, StartCommandKeeps
<1> QED BY <1>1, <1>2, <1>3 DEF Next, Surroundings

\* For any daemons, commands, ports and faults: what the daemons hold matches their
\* places, and what a command knows of an instance remains true.
THEOREM Invariance == Spec => []IInv
BY InitHolds, StepKeeps, PTL DEF Spec

\* Every variable keeps its type.
THEOREM TypeCorrect == Spec => []TypeOK
<1>1. IInv => TypeOK
  BY DEF IInv
<1> QED BY <1>1, Invariance, PTL

\* A serving daemon's record is never lost to another daemon's shutdown or start, as
\* long as every daemon was started in one time zone.
THEOREM RecordsKept == Spec => []RecordKept
<1>1. IInv => RecordKept
  BY DEF IInv, DaemonsSound
<1> QED BY <1>1, Invariance, PTL

\* A stop request shuts down the instance that the command has confirmed, or none.
THEOREM StopsItsInstance == Spec => StopsOnlyConfirmed
<1>1. IInv /\ [Next]_vars
      => [\A c \in Client, d \in Daemon :
             /\ at[c] = "post" /\ at'[c] # "post"
             /\ place[d] = "serving" /\ place'[d] # "serving"
             => d = confirmed[c]]_vars
  <2> SUFFICES ASSUME IInv, Next, NEW c \in Client, NEW d \in Daemon,
                      at[c] = "post", at'[c] # "post",
                      place[d] = "serving", place'[d] # "serving"
               PROVE  d = confirmed[c]
    BY DEF vars
  <2>1. ClientTypes /\ DaemonTypes /\ ClientKnows(c)
    BY Types DEF IInv
  <2>2. ~Surroundings
    <3> SUFFICES ASSUME Surroundings PROVE FALSE
      OBVIOUS
    <3>1. ClientsRest
      BY DEF Surroundings, Advance, GrantLock, RefuseLock, Bind, Fail, ReportFailure, Publish,
             Announce, Collect, Collected, Signal, Drain, Close, CheckRecord, Unlink, Release,
             Exit, Crash, ReusePid, Occupy
    <3> QED BY <3>1 DEF ClientsRest, clients
  <2>3. PICK q \in Client : Status(q) \/ Stop(q) \/ Start(q)
    BY <2>2 DEF Next, Surroundings
  <2>4. at' = [at EXCEPT ![q] = at'[q]]
    BY <2>1, <2>3 DEF ClientTypes, Status, Begin, ReadRecord, Classify, Identify, Conclude, Finish,
                      Goto, Stop, Reread, Post, Waiting, AwaitGone, StopTimeout,
                      Start, Spawn, SpawnFails, AwaitReady, ReadyTimeout
  <2>5. q = c
    BY <2>1, <2>4 DEF ClientTypes
  <2>6. Post(c)
    BY <2>3, <2>5 DEF Status, Begin, ReadRecord, Classify, Identify, Stop, Reread, AwaitGone,
                      StopTimeout, Start, Spawn, SpawnFails, AwaitReady, ReadyTimeout
  <2>7. confirmed[c] = seen[c]
    BY <2>1 DEF ClientKnows
  <2> QED BY <2>1, <2>6, <2>7 DEF Post, StopServed, daemons, DaemonTypes
<1> QED BY <1>1, Invariance, PTL DEF Spec, StopsOnlyConfirmed

\* What a command reports, and the action that reports it.
LEMMA Reporter ==
    ASSUME IInv, Next, NEW c \in Client, NEW o \in {"ended", "stale"}, out' = <<c, o>>
    PROVE  \/ o = "ended" /\ AwaitGone(c)
           \/ o = "stale" /\ (Classify(c) \/ Identify(c))
<1>1. out' # Nothing
  BY DEF Nothing
<1>2. ~Surroundings
  BY <1>1 DEF Surroundings, Advance, GrantLock, RefuseLock, Bind, Fail, ReportFailure, Publish,
              Announce, Collect, Collected, Signal, Drain, Close, CheckRecord, Unlink, Release,
              Exit, Crash, ReusePid, Occupy, ClientsRest
<1>3. PICK q \in Client : Status(q) \/ Stop(q) \/ Start(q)
  BY <1>2 DEF Next, Surroundings
<1>4. CASE Status(q)
  BY <1>1, <1>4 DEF Status, Begin, ReadRecord, Classify, Identify, Conclude, Finish, Report, Quietly
<1>5. CASE Stop(q)
  BY <1>1, <1>5 DEF Stop, Reread, Post, Waiting, AwaitGone, StopTimeout, Finish, Report, Quietly
<1>6. CASE Start(q)
  BY <1>1, <1>6 DEF Start, Spawn, SpawnFails, AwaitReady, ReadyTimeout, Finish, Report, Quietly
<1> QED BY <1>3, <1>4, <1>5, <1>6

\* A stop that reports success leaves nothing of its instance in a successor's way.
THEOREM StopsMakeRoom == Spec => StopMakesRoom
<1>1. IInv /\ [Next]_vars
      => [\A c \in Client : out' = <<c, "ended">> =>
             /\ place[seen[c]] = "gone"
             /\ seen[c] \notin owners
             /\ \A p \in Port : listener[p] # seen[c]]_vars
  <2> SUFFICES ASSUME IInv, Next, NEW c \in Client, out' = <<c, "ended">>
               PROVE  /\ place[seen[c]] = "gone"
                      /\ seen[c] \notin owners
                      /\ \A p \in Port : listener[p] # seen[c]
    BY DEF vars
  <2>1. AwaitGone(c)
    BY Reporter
  \* Dead is gone: the command could verify the process when it asked it to stop.
  <2>2. seen[c] \in Daemon /\ place[seen[c]] = "gone"
    BY <2>1 DEF IInv, ClientKnows, Asking, AwaitGone, Dead
  <2>3. seen[c] \notin owners
    BY <2>2 DEF IInv, DaemonsSound, LockHeld, OneHolder
  <2>4. \A p \in Port : listener[p] # seen[c]
    BY <2>2 DEF IInv, DaemonsSound, ListenerPlaced
  <2> QED BY <2>2, <2>3, <2>4
<1> QED BY <1>1, Invariance, PTL DEF Spec, StopMakesRoom

\* No command calls a serving daemon stale but one of another time zone.
THEOREM ServingNotStale == Spec => NeverCalledStale
<1>1. IInv /\ [Next]_vars
      => [\A c \in Client :
             /\ out' = <<c, "stale">>
             /\ place[seen[c]] \in {"announcing", "serving", "draining", "closing"}
             => Foreign(c, seen[c])]_vars
  <2> SUFFICES ASSUME IInv, Next, NEW c \in Client, out' = <<c, "stale">>,
                      place[seen[c]] \in {"announcing", "serving", "draining", "closing"}
               PROVE  Foreign(c, seen[c])
    BY DEF vars
  <2>1. Classify(c) \/ Identify(c)
    BY Reporter
  <2>2. seen[c] \in Daemon /\ port[seen[c]] \in Port
    BY <2>1 DEF IInv, ClientKnows, Asking, Classify, Identify
  <2>3. CASE Classify(c)
    BY <2>3 DEF Classify, Conclude, Dead, Quietly, Nothing
  <2>4. CASE Identify(c)
    \* The instance does not listen on the port it has bound.
    <3>1. Answering(c) # seen[c]
      BY <2>4, <2>2 DEF Identify, Conclude, Finish, Report
    <3> QED BY <2>2, <3>1 DEF Answering, IInv, DaemonsSound, ListenerPlaced
  <2> QED BY <2>1, <2>3, <2>4
<1> QED BY <1>1, Invariance, PTL DEF Spec, NeverCalledStale
=============================================================================
