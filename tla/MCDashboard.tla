---------------------------- MODULE MCDashboard ----------------------------
EXTENDS Dashboard, TLC

\* Neither daemons nor clients nor ports have an order.
Symmetry == Permutations(Daemon) \cup Permutations(Client) \cup Permutations(Port)

\* The daemons that a command may still ask about, and judge.
Named == {record} \cup {seen[c] : c \in Client}
Judged == {record} \cup {seen[c] : c \in {q \in Client : at[q] = "classify"}}
\* The processes that have a time zone.
Running == {d \in Daemon : place[d] # "unborn"} \cup {c \in Client : at[c] # "idle"}
\* What c asks about answers nobody any more.
Silent(c) == place[seen[c]] \in Drained \cup {"gone"}
\* A verdict of "running" is out of c's reach, so status and stop end alike.
Hopeless(c) ==
    \/ at[c] \in {"classify", "identify"} /\ (Silent(c) \/ Foreign(c, seen[c]))
    \/ at[c] = "identify" /\ c \notin sure

\* States that differ in nothing a step or a property looks at are one: the last
\* report, the failed starts, what a dead daemon that nobody can name has had, a ready
\* line nobody waits for, a command or a proof that changes no verdict, and which of
\* the two time zones is which.
View == <<place, owners, listener, record, at, seen, confirmed,
          [c \in Client |-> IF cmd[c] = "status" /\ Hopeless(c) THEN "stop" ELSE cmd[c]],
          {c \in sure : ~Silent(c)},
          [d \in Daemon |-> IF Alive(d) \/ d \in Named THEN port[d] ELSE None],
          {d \in collecting : Alive(d)},
          reused \cap Judged,
          ready \cap {seen[c] : c \in {q \in Client : at[q] = "ready"}},
          {abroad, Running \ abroad}>>
=============================================================================
