-------------------------------- MODULE View ---------------------------------
(***************************************************************************)
(* `vl view` and one configured route: viewCmd() in bin/vl.js over         *)
(* lib/runtime-snapshot.js, lib/view-model.js and the decision of          *)
(* lib/gate.js. The command reads its configuration once, collects, takes  *)
(* a snapshot of the cache, reads the cache AGAIN for the gate's decision, *)
(* and looks at the clock at each step; other processes publish meanwhile. *)
(*                                                                         *)
(* Abstracted: an instant is a tick, or Unknown when it is missing or not  *)
(* a strict ISO timestamp; a revision stands for the options it hashes; a  *)
(* window is what can be computed from it; wording, labels and money are   *)
(* left out.                                                               *)
(***************************************************************************)
EXTENDS Evidence, Naturals, Sequences

CONSTANTS Entries,   \* what status.json may hold of the route at the start
          Statuses,  \* what a provider may be observed to be
          Routes,    \* the route as configured: provider, refused, revision
          Revisions, \* revisions that other processes may publish under
          Ttl,       \* ticks a cached observation is good for
          LiveTtl,   \* ticks a Xiaomi observation is shown for
          MaxClock   \* bound: ticks

VARIABLES clock, route, entry,
          step,       \* where viewCmd() is
          collection, \* what this run's collection did with the route
          live,       \* the Xiaomi status that is shown instead of the cached row
          resource,   \* the route's row of the snapshot
          gated,      \* the entry that the gate is asked about
          asked,      \* and the instant it is asked at
          view        \* the route's row of the view schema
viewVars == <<clock, route, entry, step, collection, live, resource, gated, asked, view>>

Absent == [kind |-> "none"]
States == {"healthy", "constrained", "exhausted", "unknown"}
Capacity == {"healthy", "constrained"}
Refusals == {"built-in-endpoint-refused", "unknown-region"}
Published == {"quota-list-empty", "cached-state-absent", "no-cached-observation"} \* of VIEW_REASON_CODES

\* A window: both counts, counts of no limit, a percentage alone, or nothing.
WindowKinds == {"counted", "limitless", "percent", "bare"}

Kinds == {"none", "junk", "statusless", "record"}
Instant == Nat \cup {Unknown}
Timed(e, now) == e.kind \in Kinds /\ (e.kind = "record" =>
    /\ e.observed \in Instant /\ e.until \in Instant /\ e.status.windows \in Seq(WindowKinds)
    /\ e.observed # Unknown => e.observed <= now)

\* Unknown is no instant and no state; the cache holds nothing that was observed
\* later than the clock says.
ASSUME CacheAssumption ==
    /\ Unknown \notin Nat \cup States
    /\ Ttl \in Nat /\ LiveTtl \in Nat
    /\ \A e \in Entries : Timed(e, 1)
    /\ \A s \in Statuses : s.windows \in Seq(WindowKinds)

\* An observation of the provider as a writer stores it.
Observed(status, ttl, revision) ==
    [kind |-> "record", status |-> status, observed |-> clock, until |-> clock + ttl,
     revision |-> revision]

-----------------------------------------------------------------------------
\* lib/gate.js: an entry of another revision is obsolete; one without is not.
Obsolete(e) == e.kind \in {"record", "statusless"} /\ e.revision # Unknown
               /\ e.revision # route.revision

GateFresh(e, now) == e.kind \in {"record", "statusless"} /\ e.until # Unknown /\ now <= e.until

Decision(e, now) ==
    IF route.refused THEN "allow"
    ELSE IF ~GateFresh(e, now) \/ Obsolete(e) THEN "refresh"
    ELSE IF e.kind = "record" /\ e.status.state = "exhausted" THEN "deny" ELSE "allow"

-----------------------------------------------------------------------------
\* lib/runtime-snapshot.js: what a cached entry is evidence of.
NoResource(reason) ==
    [state |-> Unknown, why |-> reason, windows |-> <<>>, balance |-> FALSE, basis |-> Unknown,
     reason |-> Unknown, reauth |-> Unknown, error |-> FALSE, observed |-> Unknown,
     until |-> Unknown, stale |-> FALSE]

Resource(e) ==
    CASE e.kind = "none" -> NoResource("no-cached-observation")
      [] e.kind \in {"junk", "statusless"} -> NoResource("cached-state-absent")
      [] OTHER ->
         [state |-> e.status.state,
          why |-> IF e.status.state = Unknown THEN "cached-state-absent" ELSE Unknown,
          windows |-> e.status.windows, balance |-> e.status.balance, basis |-> e.status.basis,
          reason |-> e.status.reason, reauth |-> e.status.reauth, error |-> e.status.error,
          observed |-> e.observed, until |-> e.until,
          stale |-> e.until # Unknown /\ clock > e.until]

\* A normal render strips every cached Xiaomi row and shows what was read live,
\* stamped when the cache is read for the snapshot.
Shown == IF route.provider = "xiaomi" THEN Observed(live, LiveTtl, Unknown) ELSE entry

-----------------------------------------------------------------------------
\* Mutated: fresh up to and including the last instant, as the gate has it.
FreshnessOfGate(r, now) ==
    IF r.until = Unknown THEN [is |-> "unknown", codes |-> {"freshness-unproven"}]
    ELSE IF r.until < now THEN [is |-> "stale", codes |-> {"stale-observation"}]
    ELSE [is |-> "fresh", codes |-> {}]

\* lib/view-model.js: freshnessOf() and stateFor().
Freshness(r, now) ==
    IF Obsolete(gated) THEN [is |-> "unknown", codes |-> {"config-revision-obsolete"}]
    ELSE IF r.until = Unknown THEN [is |-> "unknown", codes |-> {"freshness-unproven"}]
    ELSE IF r.until <= now THEN [is |-> "stale", codes |-> {"stale-observation"}]
    ELSE IF r.observed = Unknown THEN [is |-> "unknown", codes |-> {"freshness-unproven"}]
    ELSE [is |-> "fresh", codes |-> {}]

\* Mutated: the gate's plain allow taken for capacity.
EligibilityOfAllow(freshness, state) ==
    IF gated.kind \in {"none", "junk"} THEN [is |-> "unresolved", codes |-> {"no-fresh-observation"}]
    ELSE IF Decision(gated, asked) = "deny" THEN [is |-> "ineligible", codes |-> {"fresh-exhausted"}]
    ELSE IF Decision(gated, asked) = "refresh" THEN [is |-> "unresolved", codes |-> {"no-fresh-observation"}]
    ELSE [is |-> "eligible", codes |-> {}]

\* eligibilityFromGate(): never looser than the gate, nor than what is shown.
Eligibility(freshness, state) ==
    LET decision == Decision(gated, asked)
        says == IF gated.kind = "record" THEN gated.status.state ELSE Unknown
    IN IF gated.kind \in {"none", "junk"} THEN [is |-> "unresolved", codes |-> {"no-fresh-observation"}]
       ELSE IF decision = "deny" THEN [is |-> "ineligible", codes |-> {"fresh-exhausted"}]
       ELSE IF decision = "refresh" THEN [is |-> "unresolved", codes |-> {"no-fresh-observation"}]
       ELSE IF says \notin Capacity THEN [is |-> "unresolved", codes |-> {"state-unknown"}]
       ELSE IF freshness # "fresh" THEN [is |-> "unresolved", codes |-> {"no-fresh-observation"}]
       ELSE IF state \notin Capacity THEN [is |-> "unresolved", codes |-> {"state-unknown"}]
       ELSE [is |-> "eligible", codes |-> {}]

HasRatio(w) == w \in {"counted", "percent"}
HasCounts(w) == w \in {"counted", "limitless"}

BasisOf(r) ==
    IF r.basis \in {"token-count", "quota-window", "balance", "none"} THEN r.basis
    ELSE IF r.balance THEN "balance"
    ELSE IF \E i \in DOMAIN r.windows : r.windows[i] = "counted" THEN "quota-window"
    ELSE "none"

\* Mutated: any reason that an adapter declares.
StateReasonDeclared(r) == IF r.why # Unknown THEN r.why ELSE r.reason

\* The reason a route has no state: the snapshot's, else the adapter's, if it is
\* one that the view publishes.
StateReason(r) ==
    IF r.why # Unknown THEN r.why ELSE IF r.reason \in Published THEN r.reason ELSE Unknown

\* buildRouteSchema()
RouteSchema(r, now) ==
    LET freshness == Freshness(r, now)
        state == IF freshness.is = "fresh" /\ r.state \in States THEN r.state ELSE "unknown"
        eligibility == Eligibility(freshness.is, state)
        why == StateReason(r)
        When(condition, code) == IF condition THEN {code} ELSE {}
    IN [kind |-> "row", state |-> state, freshness |-> freshness.is,
        eligibility |-> eligibility.is, windows |-> r.windows, balance |-> r.balance,
        basis |-> BasisOf(r), reauth |-> r.reauth, error |-> r.error, why |-> why,
        refusal |-> IF r.reason \in Refusals THEN r.reason ELSE Unknown,
        collection |-> collection,
        codes |-> freshness.codes \cup eligibility.codes
            \cup When(r.state \notin States \cup {Unknown}, "invalid-state")
            \cup When(state = "unknown" /\ why \in Published, why)
            \cup When(state = "unknown" /\ r.windows = <<>> /\ why = Unknown
                      /\ collection = "completed", "no-windows-reported")
            \cup When(r.reauth # Unknown, "reauth-required")
            \cup When(r.reauth = "unsafe", "reauth-url-invalid")
            \cup When(collection = "failed", "collection-failed")
            \cup When(collection = "pending", "collection-pending")]

-----------------------------------------------------------------------------
\* The two text layouts: the rows of a route, each what it shows of what.
Bar(v, i) == v.state # "unknown" /\ HasRatio(v.windows[i])

WindowRow(v, i) ==
    IF Bar(v, i) THEN {<<i, "bar">>}
    ELSE IF HasCounts(v.windows[i]) THEN {<<i, "counts">>}
    ELSE IF HasRatio(v.windows[i]) THEN {<<i, "percent">>}
    ELSE {}

WindowRows(v) == UNION {WindowRow(v, i) : i \in DOMAIN v.windows}
Measurements(v) == WindowRows(v) \cup (IF v.balance THEN {<<0, "balance">>} ELSE {})

\* viewNote(): the one thing that is said of a route.
Note(v) ==
    IF v.reauth # Unknown THEN "reauth"
    ELSE IF v.state = "unknown" /\ v.basis = "token-count" THEN "undetermined"
    ELSE IF v.error THEN "error"
    ELSE IF v.why # Unknown THEN v.why
    ELSE Unknown

Expanded(v) == Measurements(v) \cup (IF Note(v) = Unknown THEN {} ELSE {<<0, Note(v)>>})
Condensed(v) == IF Measurements(v) = {} THEN {<<0, "no measurement">>} ELSE Measurements(v)

\* renderRouteText(): `vl report` shows the cached state whatever its age, and
\* says when it is stale.
ReportQuota(r) ==
    CASE r.balance -> {<<0, "balance">>}
      [] OTHER -> {<<i, IF r.windows[i] = "counted" THEN "percent" ELSE "counts">> : i \in DOMAIN r.windows}

ReportNote(r) ==
    IF r.state \notin {Unknown, "unknown"} THEN Unknown
    ELSE IF route.provider = "xiaomi" /\ r.reauth # Unknown THEN "reauth"
    ELSE IF r.error THEN "error"
    ELSE r.why

ReportLine(r) ==
    [state |-> IF r.state = Unknown THEN "unknown" ELSE r.state,
     quota |-> ReportQuota(r), note |-> ReportNote(r), stale |-> r.stale]

-----------------------------------------------------------------------------
ViewInit ==
    /\ clock = 1 /\ route \in Routes /\ entry \in Entries
    /\ step = "collect"
    /\ collection = "none" /\ live = Absent
    /\ resource = Absent /\ gated = Absent /\ asked = 0 /\ view = Absent

Tick ==
    /\ step # "done" /\ clock < MaxClock
    /\ clock' = clock + 1
    /\ UNCHANGED <<route, entry, step, collection, live, resource, gated, asked, view>>

\* A cached Xiaomi observation has expired when it is written.
CacheTtl == IF route.provider = "xiaomi" THEN 0 ELSE Ttl

\* unknownStatus(), errorStatus() and pendingStatus()
Unread == [state |-> "unknown", windows |-> <<>>, balance |-> FALSE, basis |-> Unknown,
           reason |-> Unknown, reauth |-> Unknown, error |-> TRUE]

\* Another process collects, under the configuration it has read.
PublishElsewhere ==
    /\ step \in {"collect", "snapshot", "gate"} \* the cache is read once more
    /\ entry' \in {Observed(s, CacheTtl, rev) : s \in Statuses, rev \in Revisions}
                 \cup {Observed(Unread, CacheTtl, Unknown), Absent}
    /\ UNCHANGED <<clock, route, step, collection, live, resource, gated, asked, view>>

\* The collection decides on the route, publishes one of these entries for it (its
\* own, unchanged, where nothing is published) and hands on the Xiaomi status.
Collect(outcome, status, entries) ==
    /\ step = "collect"
    /\ collection' = outcome
    /\ live' = IF route.provider = "xiaomi" THEN status ELSE Absent
    /\ entry' \in entries
    /\ step' = "snapshot"
    /\ UNCHANGED <<clock, route, resource, gated, asked, view>>

\* The route is observed: completed, also when the cache cannot be written.
CollectCompleted ==
    \E s \in Statuses : Collect("completed", s, {entry, Observed(s, CacheTtl, route.revision)})

\* The fetch fails, or the vault cannot be read: the earlier entry stays, and
\* where none could be read, an unknown one of no revision is published.
CollectFailed == Collect("failed", Unread, {entry, Observed(Unread, CacheTtl, Unknown)})

\* Not eligible: the earlier entry stays, and one that could not be read is gone
\* once the other routes are published.
CollectSkipped ==
    /\ route.provider # "xiaomi" \* eligible by its configuration
    /\ Collect("skipped", Unread, {entry, Absent})

\* Another process holds the worker lock, or it cannot be taken.
CollectLocked == \E outcome \in {"pending", "failed"} : Collect(outcome, Unread, {entry})

Snapshot ==
    /\ step = "snapshot"
    /\ resource' = Resource(Shown)
    /\ step' = "gate"
    /\ UNCHANGED <<clock, route, entry, collection, live, gated, asked, view>>

ReadForGate ==
    /\ step = "gate"
    /\ gated' = entry
    /\ step' = "ask"
    /\ UNCHANGED <<clock, route, entry, collection, live, resource, asked, view>>

AskGate ==
    /\ step = "ask"
    /\ asked' = clock
    /\ step' = "build"
    /\ UNCHANGED <<clock, route, entry, collection, live, resource, gated, view>>

BuildView ==
    /\ step = "build"
    /\ view' = RouteSchema(resource, clock)
    /\ step' = "done"
    /\ UNCHANGED <<clock, route, entry, collection, live, resource, gated, asked>>

ViewNext ==
    \/ Tick \/ PublishElsewhere \/ CollectCompleted \/ CollectFailed
    \/ CollectSkipped \/ CollectLocked
    \/ Snapshot \/ ReadForGate \/ AskGate \/ BuildView

ViewSpec == ViewInit /\ [][ViewNext]_viewVars

-----------------------------------------------------------------------------
Done == step = "done"

\* "the eligibility is never looser than the gate's decision"
\* (lib/view-model.js:915), though the two look at different reads of the cache
\* and at different instants: what is called eligible could be dispatched to
\* without a refresh when it is shown, and shows capacity; what is called
\* ineligible is denied; whoever the gate denies is called ineligible.
EligibilityFollowsGate == Done =>
    /\ view.eligibility = "eligible" =>
           /\ Decision(gated, asked) = "allow"
           /\ {view.state, gated.status.state} \subseteq Capacity
           /\ resource.observed <= clock /\ clock < resource.until
    /\ view.eligibility = "ineligible" <=> Decision(gated, asked) = "deny"

\* A state is claimed only on a proven, unexpired observation, whose own state it
\* is; an obsolete one only if another process published between the two reads.
\* `vl report`, made of the same snapshot, shows that state and calls it current.
ClaimIsCurrent == Done /\ view.state # "unknown" =>
    /\ resource.state = view.state
    /\ resource.observed # Unknown
    /\ resource.observed <= clock /\ clock < resource.until
    /\ ~Obsolete(gated)
    /\ ReportLine(resource).state = view.state /\ ~ReportLine(resource).stale

\* "`unknown` never appears unexplained" (lib/view-model.js:651), and both
\* layouts list every measurement, with a bar where a state is claimed and only
\* there: an unknown route names a reason, after a completed collection one that
\* says more than that; a failed or pending collection is always said.
NothingUnsaid == Done =>
    /\ view.state = "unknown" =>
           /\ view.codes # {}
           /\ collection = "completed" /\ view.windows = <<>> => view.codes # {"state-unknown"}
    /\ collection \in {"failed", "pending"} =>
           view.codes \cap {"collection-failed", "collection-pending"} # {}
    /\ Condensed(view) # {}
    /\ \A rows \in {Expanded(view), Condensed(view)} :
           /\ \A i \in DOMAIN view.windows : HasRatio(view.windows[i]) \/ HasCounts(view.windows[i]) =>
                  \E form \in {"bar", "counts", "percent"} : <<i, form>> \in rows
           /\ view.balance => <<0, "balance">> \in rows
           /\ (\E i \in DOMAIN view.windows : <<i, "bar">> \in rows) =>
                  view.state # "unknown" /\ clock < resource.until
=============================================================================
