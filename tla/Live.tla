-------------------------------- MODULE Live ---------------------------------
(***************************************************************************)
(* The live reads of `vl view` and `vl snapshot --refresh`:                *)
(* lib/traycer-adapter.js runs the Traycer CLI a few reads at a time, each *)
(* under a deadline; runLiveSources() in lib/runtime-snapshot.js runs it   *)
(* beside the injected sources and folds what they say over what           *)
(* lib/runtime-sidecar.js has cached; collectView() in lib/collector.js    *)
(* judges the whole by what this run read.                                 *)
(*                                                                         *)
(* Abstracted: a row is its key and who reported it; the facts in a row    *)
(* and their timestamps are left out, and so is the wire format.           *)
(***************************************************************************)
EXTENDS Evidence, Naturals, Sequences, FiniteSets

CONSTANTS Tools,         \* PROFILE_HARNESSES, in the order they are asked
          Queries,       \* caller context and launch environment
          Sources,       \* the injected sources, as listed
          Replied,       \* what one of them may give
          Sidecars,      \* what runtime.json may hold
          Externals,     \* what the collection of the external routes came to
          MaxConcurrent

VARIABLES query,
          waiting,  \* reads that no worker has taken
          child,    \* the CLI processes
          result,   \* what each read came to
          phase,    \* of the Traycer read, and of the snapshot after it
          said,     \* what each injected source gave
          arrived,  \* sources in the order they settled
          sidecar, external,
          snap,     \* the snapshot: rows, caller, diagnostics
          verdict   \* collectView()'s outcome
liveVars == <<query, waiting, child, result, phase, said, arrived, sidecar, external, snap, verdict>>

Agents == <<"agents">>
Catalog == <<"harnesses">>
Profiles(t) == <<"profiles", t>>
Limits(t) == <<"limits", t>>
ToolSet == {Tools[i] : i \in DOMAIN Tools}
SourceNames == {Sources[i] : i \in DOMAIN Sources}
Wave == <<Agents, Catalog>> \o [i \in DOMAIN Tools |-> Profiles(Tools[i])]
Read == {Agents, Catalog} \cup {Profiles(t) : t \in ToolSet} \cup {Limits(t) : t \in ToolSet}

\* What a read that succeeds says; when it is not whole, some rows are invalid.
\* The agents' read has the host of the caller's own row, else of a local agent.
AgentsData == [is : {"ok"}, caller : {"me", "other"}, host : {"self", "local", "none"}, whole : BOOLEAN]
CatalogData == [is : {"ok"}, whole : BOOLEAN]
ProfilesData == [is : {"ok"}, lastUsed : BOOLEAN, whole : BOOLEAN]
LimitsData == [is : {"ok"}, whole : {TRUE}]
DataOf(r) == CASE r = Agents -> AgentsData
               [] r = Catalog -> CatalogData
               [] r[1] = "profiles" -> ProfilesData
               [] OTHER -> LimitsData

Outcomes == AgentsData \cup CatalogData \cup ProfilesData \cup LimitsData \cup [is : {"missing", "failed", "timeout"}]

\* The outcomes that make a native verdict "failed"; output that cannot be used is a
\* failure as an exit code is.
FailureCodes == {"timeout", "failed", "live-source-failed", "live-source-malformed"}

\* No source is called as Traycer is; runtime.json has codes of its own, none of a
\* failed read (lib/runtime-sidecar.js).
ASSUME LiveAssumption ==
    /\ Sources \in Seq(SourceNames) /\ Tools \in Seq(ToolSet)
    /\ "traycer" \notin SourceNames
    /\ \A s \in Sidecars : s.diags \cap FailureCodes = {}
    /\ Unknown \notin Outcomes \cup Replied

Over(new, old) == [k \in DOMAIN new \cup DOMAIN old |-> IF k \in DOMAIN new THEN new[k] ELSE old[k]]
NoRows == <<>>
Empty == [rows |-> NoRows, caller |-> NoRows, diags |-> {}]

-----------------------------------------------------------------------------
\* The ids asked about: the launch environment's before the supplied ones.
QueryAgent == IF query.envAgent # Unknown THEN query.envAgent ELSE query.agent
QueryEpic == IF query.envEpic # Unknown THEN query.envEpic ELSE query.epic
Disagree(a, b) == a # Unknown /\ b # Unknown /\ a # b
SuppliedMismatch == Disagree(query.envAgent, query.agent) \/ Disagree(query.envEpic, query.epic)

Live == {r \in Read : child[r] \in {"running", "overflowed", "timedOut"}}
ReadsEnded(reads) == \A r \in reads : result[r] # Unknown
Ok(r) == result[r] # Unknown /\ result[r].is = "ok"
FailedAs == {result[r].is : r \in {q \in Read : result[q] # Unknown}} \ {"ok"}

LiveInit ==
    /\ query \in Queries /\ sidecar = Unknown /\ external = Unknown
    /\ waiting = <<>>
    /\ child = [r \in Read |-> "none"]
    /\ result = [r \in Read |-> Unknown]
    /\ phase = "start"
    /\ said = [s \in SourceNames |-> Unknown]
    /\ arrived = <<>>
    /\ snap = Empty /\ verdict = Unknown

Start ==
    /\ phase = "start"
    /\ IF Unknown \in {QueryAgent, QueryEpic}
       THEN phase' = "read" /\ UNCHANGED waiting
       ELSE phase' = "wave 1" /\ waiting' = Wave
    /\ UNCHANGED <<query, child, result, said, arrived, sidecar, external, snap, verdict>>

\* A worker of the pool takes the next read.
TakeRead ==
    /\ waiting # <<>> /\ Cardinality(Live) < MaxConcurrent
    /\ child' = [child EXCEPT ![Head(waiting)] = "running"]
    /\ waiting' = Tail(waiting)
    /\ UNCHANGED <<query, result, phase, said, arrived, sidecar, external, snap, verdict>>

Conclude(r, outcome) ==
    /\ child' = [child EXCEPT ![r] = "gone"]
    /\ result' = [result EXCEPT ![r] = outcome]
    /\ UNCHANGED <<query, waiting, phase, said, arrived, sidecar, external, snap, verdict>>

Became(r, state) ==
    /\ child' = [child EXCEPT ![r] = state]
    /\ UNCHANGED <<query, waiting, result, phase, said, arrived, sidecar, external, snap, verdict>>

\* The process ends by itself, or could not be started.
Answer(r) ==
    /\ child[r] = "running"
    /\ \E outcome \in DataOf(r) \cup [is : {"missing", "failed"}] : Conclude(r, outcome)

\* Mutated: no deadline for a process that is being killed.
DeadlineOfRunning(r) == child[r] = "running" /\ Became(r, "timedOut")

\* A process that says too much is killed; one that is late is killed.
Overflow(r) == child[r] = "running" /\ Became(r, "overflowed")
Deadline(r) == child[r] \in {"running", "overflowed"} /\ Became(r, "timedOut")

\* A killed process is seen to end, or, if it was late, is not waited for longer.
Closed(r) ==
    \/ child[r] = "overflowed" /\ Conclude(r, [is |-> "failed"])
    \/ child[r] = "timedOut" /\ Conclude(r, [is |-> "timeout"])
GraceEnds(r) == child[r] = "timedOut" /\ Conclude(r, [is |-> "timeout"])

\* The host that catalog rows are keyed by.
Host == \/ Ok(Agents) /\ result[Agents].host # "none"
        \/ query.host # Unknown

\* The rate limits of the profile that each tool used last.
NextWave ==
    /\ phase = "wave 1" /\ ReadsEnded({Wave[i] : i \in DOMAIN Wave})
    /\ phase' = "wave 2"
    /\ waiting' = SelectSeq([i \in DOMAIN Tools |-> Limits(Tools[i])],
                      LAMBDA r : Host /\ Ok(Profiles(r[2])) /\ result[Profiles(r[2])].lastUsed)
    /\ UNCHANGED <<query, child, result, said, arrived, sidecar, external, snap, verdict>>

WavesEnd ==
    /\ phase = "wave 2" /\ waiting = <<>> /\ Live = {}
    /\ phase' = "read"
    /\ UNCHANGED <<query, waiting, child, result, said, arrived, sidecar, external, snap, verdict>>

\* Traycer's promise and those of the injected sources settle in any order.
TraycerSettles ==
    /\ phase = "read"
    /\ phase' = "settled" /\ arrived' = Append(arrived, "traycer")
    /\ UNCHANGED <<query, waiting, child, result, said, sidecar, external, snap, verdict>>

SourceSettles(s) ==
    /\ said[s] = Unknown
    /\ \E reply \in Replied : said' = [said EXCEPT ![s] = reply]
    /\ arrived' = Append(arrived, s)
    /\ UNCHANGED <<query, waiting, child, result, phase, sidecar, external, snap, verdict>>

-----------------------------------------------------------------------------
\* What readTraycerRuntime() returns: each section from its own read.
\* Mutated: the ids that the caller supplied are not compared.
ConfirmedByCli == Ok(Agents) /\ result[Agents].caller = QueryAgent
Verified == Ok(Agents) /\ result[Agents].caller = QueryAgent /\ ~SuppliedMismatch
From(keys) == [k \in keys |-> "traycer"]

TraycerRows ==
    From((IF Ok(Agents) /\ query.envEpic # Unknown
          THEN {<<"session", "peer">>, <<"harness", "in use">>}
               \cup (IF result[Agents].host = "self" THEN {<<"session", "self">>} ELSE {})
          ELSE {})
         \cup (IF Ok(Catalog) /\ Host THEN {<<"harness", "catalog">>} ELSE {})
         \cup (IF Host THEN {<<"profile", t>> : t \in {u \in ToolSet : Ok(Profiles(u))}} ELSE {}))

TraycerCaller ==
    From(IF ~Verified THEN {} ELSE {"agentId"} \cup (IF result[Agents].host = "self" THEN {"harness"} ELSE {}))

\* Sections of which only the valid rows are kept; rows without a host are not looked at.
Spoilt == {r \in Read : Ok(r) /\ ~result[r].whole /\ (r = Agents \/ Host)}

TraycerDiags ==
    IF Unknown \in {QueryAgent, QueryEpic} THEN {"live-reads-unavailable"} ELSE
    FailedAs
    \cup (IF Spoilt # {} THEN {"failed"} ELSE {})
    \cup (IF SuppliedMismatch \/ (Ok(Agents) /\ ~Verified) THEN {"traycer-caller-mismatch"} ELSE {})
    \cup (IF Verified /\ result[Agents].host # "self" THEN {"traycer-caller-row-absent"} ELSE {})
    \cup (IF Ok(Agents) /\ query.envEpic = Unknown THEN {"traycer-epic-unverified"} ELSE {})
    \cup (IF ~Host /\ \E r \in {Catalog} \cup {Profiles(t) : t \in ToolSet} : Ok(r)
          THEN {"traycer-host-unresolved"} ELSE {})

\* A source that throws or returns no object leaves a diagnostic and nothing else.
Contribution(s) ==
    IF s = "traycer" THEN [rows |-> TraycerRows, caller |-> TraycerCaller, diags |-> TraycerDiags]
    ELSE IF said[s].is # "ok" THEN [Empty EXCEPT !.diags = {"live-source-" \o said[s].is}]
    ELSE [rows |-> [k \in said[s].rows |-> s], caller |-> [k \in said[s].caller |-> s],
                   diags |-> said[s].diags]

\* Mutated: folded in the order in which they settle.
AsTheySettle == arrived

\* runLiveSources() folds in the order of the list, Traycer last.
Listed == Append(Sources, "traycer")
Overlay(c, acc) == [rows   |-> Over(c.rows, acc.rows), caller |-> Over(c.caller, acc.caller),
                    diags  |-> acc.diags \cup c.diags]
Fold(order) ==
    LET acc[n \in 0 .. Len(order)] ==
            IF n = 0 THEN Empty ELSE Overlay(Contribution(order[n]), acc[n - 1])
    IN acc[Len(order)]

\* getRuntimeSnapshot() reads runtime.json now, and lays live rows over its rows.
FoldSources ==
    /\ phase = "settled" /\ \A s \in DOMAIN said : said[s] # Unknown
    /\ sidecar' \in Sidecars
    /\ \E live \in {Fold(Listed)} :
          snap' = [rows |-> Over(live.rows, [k \in sidecar'.rows |-> "cache"]), caller |-> live.caller,
                   diags |-> live.diags \cup sidecar'.diags]
    /\ phase' = "judge"
    /\ UNCHANGED <<query, waiting, child, result, said, arrived, external, verdict>>

-----------------------------------------------------------------------------
\* classifyNative(): a failure code, else a missing CLI, else rows that this run
\* read; rows of the cache prove nothing.
RowsRead == UNION {DOMAIN Contribution(Listed[i]).rows : i \in DOMAIN Listed}
Native ==
    IF snap.diags \cap FailureCodes # {} THEN "failed"
    ELSE IF "missing" \in snap.diags THEN "unavailable"
    ELSE IF RowsRead # {} THEN "completed"
    ELSE "unknown"

\* applyNativeVerdict()
WithNative(ext, native) ==
    CASE ext.outcome = "no-credentials" /\ native = "failed" /\ ext.routes -> "failed"
      [] ext.outcome = "no-credentials" /\ native = "completed" -> "completed"
      [] ext.outcome = "completed" /\ native = "failed" -> "partial"
      [] OTHER -> ext.outcome

Judge ==
    /\ phase = "judge"
    /\ external' \in Externals \* decided before the reads began, and independent of them
    /\ verdict' = WithNative(external', Native)
    /\ phase' = "done"
    /\ UNCHANGED <<query, waiting, child, result, said, arrived, sidecar, snap>>

LiveNext ==
    \/ Start \/ TakeRead \/ NextWave \/ WavesEnd \/ TraycerSettles \/ FoldSources \/ Judge
    \/ \E r \in Read : Answer(r) \/ Overflow(r) \/ Deadline(r) \/ Closed(r) \/ GraceEnds(r)
    \/ \E s \in DOMAIN said : SourceSettles(s)

-----------------------------------------------------------------------------
\* "the authoritative runtime source wins same-key rows and per-field caller
\* overlay conflicts" and "cache-only rows survive untouched"
\* (lib/runtime-snapshot.js:14,531): in whatever order the sources settle, a row
\* or a caller's field is that of the last listed source that reports it.
LastListedWins == phase \in {"judge", "done"} =>
    LET order == Append(Sources, "traycer")
        Reporters(k, part) == {i \in DOMAIN order : k \in DOMAIN Contribution(order[i])[part]}
        LastOf(ps) == order[CHOOSE i \in ps : \A j \in ps : j <= i]
    IN /\ DOMAIN snap.rows = RowsRead \cup sidecar.rows
       /\ \A k \in DOMAIN snap.rows :
              snap.rows[k] = IF k \in RowsRead THEN LastOf(Reporters(k, "rows")) ELSE "cache"
       /\ \A k \in DOMAIN snap.caller : snap.caller[k] = LastOf(Reporters(k, "caller"))

\* What is unproven is withheld, and what failed takes nothing else with it:
\* caller facts come from Traycer only if the CLI confirms the very agent that
\* the launch environment and the caller name; sessions only for an epic of the
\* launch environment; each section that was read and can be keyed is there, if not
\* whole; a verdict of success rests on rows of this run, and on no failed read and
\* no invalid row.
OnlyVerifiedFacts == phase = "done" =>
    LET mine == {k \in DOMAIN snap.rows : snap.rows[k] = "traycer"}
    IN /\ (\E k \in DOMAIN snap.caller : snap.caller[k] = "traycer") =>
              /\ result[Agents].caller = QueryAgent
              /\ query.envAgent \in {Unknown, QueryAgent} /\ query.agent \in {Unknown, QueryAgent}
              /\ query.envEpic = Unknown \/ query.epic \in {Unknown, query.envEpic}
       /\ {<<"session", "peer">>, <<"session", "self">>} \cap mine # {} => query.envEpic # Unknown
       /\ \A t \in ToolSet : Ok(Profiles(t)) /\ (query.host # Unknown) => <<"profile", t>> \in mine
       /\ verdict = "completed" => /\ FailedAs \subseteq {"missing"} /\ Spoilt = {}
                                   /\ external.outcome = "completed" \/ RowsRead # {}
       /\ external.outcome = "completed" /\ verdict # "completed" =>
              \/ FailedAs \ {"missing"} # {} \/ Spoilt # {}
              \/ \E s \in DOMAIN said : said[s].is # "ok" \/ said[s].diags \cap FailureCodes # {}
=============================================================================
