----------------------------- MODULE Recommend ------------------------------
(***************************************************************************)
(* lib/recommend.js with task-profile.js, jev-readiness.js, jev-client.js, *)
(* jev-openrouter.js and score-candidates.js: one recommendation. The      *)
(* classifier (Jev) is asked only behind the readiness gate; the network   *)
(* may fail, stall or answer anything; what it says may colour the task's  *)
(* profile, and nothing else.                                              *)
(*                                                                         *)
(* Abstracted: ids are numbers in the order of their names; the five       *)
(* dimensions that no score reads are one; a confidence is in tenths; the  *)
(* reasons of a score and the wire format are left out.                    *)
(***************************************************************************)
EXTENDS Eligibility, Sequences

CONSTANTS Requests, \* what is asked: candidates, policy, task, evidence, Jev's configuration
          Replies,  \* what the classifier may answer
          Item      \* the items of the readiness gate

VARIABLES request,
          stage,     \* where recommend() is
          verified,  \* the configured model is known to give structured output
          contacted, \* endpoints the network was used for
          profile,   \* the task profile: a value, or why there is none
          jev,       \* status of the classification
          suggested, \* the candidate the classifier suggests, and what became of it
          verdicts,  \* id |-> verdict
          eligible,  \* positions in the list of candidates
          advice     \* the recommended id
askedVars == <<request, stage>>
jevVars == <<verified, contacted, profile, jev>>
recommendVars == <<request, stage, verified, contacted, profile, jev, suggested,
                   verdicts, eligible, advice>>

Nothing == 0 \* no id
OfferShape(c) == /\ DOMAIN c = Fact \cup {"id", "fresh", "cost", "speed"}
                 /\ CandidateShape(c) /\ c.id \in Nat \ {Nothing}

ASSUME RequestAssumption ==
    /\ Route # {} /\ Unknown # "fresh"
    /\ \A r \in Requests :
           /\ r.policy = Unknown \/ PolicyShape(r.policy)
           /\ r.list \in Seq({r.list[i] : i \in DOMAIN r.list})
           /\ \A i \in DOMAIN r.list : OfferShape(r.list[i])
           /\ r.readiness \in Seq({r.readiness[k] : k \in DOMAIN r.readiness})
           /\ {r.prefs.cost, r.prefs.speed, r.clock} \subseteq BOOLEAN

-----------------------------------------------------------------------------
\* The task profile.
Vocabulary == [taskKind     |-> {"code", "review", "mixed"},
               reasoning    |-> {"low", "deep"},
               verification |-> {"none", "independent-review"},
               others       |-> {"stated"}]
Dimension == DOMAIN Vocabulary

\* dimensionFact(): a value, or "absent", or "invalid" (outside the vocabulary).
FactOf(values) == [d \in Dimension |->
    IF values[d] \in Vocabulary[d] \cup {"absent"} THEN values[d] ELSE "invalid"]

Resolved(values, d) == values[d] \in Vocabulary[d]

\* buildProfile() on two layers: the last known value wins; where there is none,
\* the last reason that says more than absence.
Layered(low, high) == [d \in Dimension |->
    IF Resolved(high, d) \/ (~Resolved(low, d) /\ high[d] # "absent") THEN high[d] ELSE low[d]]

FallbackProfile(r) == Layered(FactOf(r.defaults), FactOf(r.task))

\* validateClassifierResponse(): every dimension, or nothing.
ValidResponse(reply) ==
    /\ \A d \in Dimension : Resolved(FactOf(reply.profile), d)
    /\ reply.confidence \in 0 .. 10
    /\ reply.suggestion >= Nothing

-----------------------------------------------------------------------------
\* Mutated: the last record of an item counts.
LastVerdict(items, i) ==
    LET at == {k \in DOMAIN items : items[k].id = i}
    IN IF at = {} THEN "blocking" ELSE items[CHOOSE k \in at : \A l \in at : k >= l].verdict

\* evaluateReadiness(): the first record of an item counts, a verdict out of the
\* vocabulary blocks, so does an item that is missing; further items count too.
ItemVerdict(items, i) ==
    LET at == {k \in DOMAIN items : items[k].id = i}
    IN IF at = {} THEN "blocking" ELSE items[CHOOSE k \in at : \A l \in at : k <= l].verdict

NothingBlocks(items) ==
    /\ \A i \in Item : ItemVerdict(items, i) = "pass"
    /\ \A k \in DOMAIN items : items[k].id \notin Item => items[k].verdict = "pass"

GateOpen == NothingBlocks(request.readiness) /\ verified

\* makeJevTransport(): none without a model and an https base.
Transport(r) == r.model /\ r.base = "https"

\* What is demanded when nobody says: a policy that is missing or no object, and
\* what `vl recommend` starts from.
StrictPolicy == [forbidRoutes |-> {}, forbidProfiles |-> {}, forbidModels |-> {},
                 forbidHarnesses |-> {}, models |-> {}, harnesses |-> {}, taskCaps |-> {},
                 execCaps |-> {}, skills |-> {}, route |-> TRUE, usableRoute |-> TRUE,
                 otherFamily |-> FALSE, subject |-> [family |-> Unknown, model |-> Unknown]]
PolicyOf(r) == IF r.policy = Unknown THEN StrictPolicy ELSE r.policy

-----------------------------------------------------------------------------
\* Scoring: a dimension gives 0 to 1000, and 0 when it is unresolved.
Round(a, b) == (2 * a + b) \div (2 * b)

NeededCaps(p) ==
    (CASE p["taskKind"] = "code" -> {"code"} [] p["taskKind"] = "review" -> {"review"}
       [] OTHER -> {"code", "tool-use"}) \cup
    (IF p["reasoning"] = "deep" THEN {"reasoning"} ELSE {}) \cup
    (IF p["verification"] = "independent-review" THEN {"review"} ELSE {})

TaskFit(c, p) ==
    LET caps == IF Registered(Models, c.model) THEN ListedCaps(Models, c.model) ELSE c.taskCaps
    IN IF ~Resolved(p, "taskKind") \/ caps = Unknown THEN 0
       ELSE Round(1000 * Cardinality(NeededCaps(p) \cap caps), Cardinality(NeededCaps(p)))

\* Mutated: who says nothing is taken for the caller's own.
AffinityAssumed(c, caller) ==
    CASE Unknown \in {caller.harness, c.harness} -> 1000
      [] Canonical(Harnesses, c.harness) = Canonical(Harnesses, caller.harness) -> 1000
      [] OTHER -> 300

HarnessAffinity(c, caller) ==
    IF Unknown \in {caller.harness, c.harness} THEN 0
    ELSE IF Canonical(Harnesses, c.harness) = Canonical(Harnesses, caller.harness) THEN 1000
    ELSE 300

ResourcePressure(c, clock) ==
    LET full == IF c.route = Unknown THEN 0
                ELSE IF c.state = "healthy" THEN 1000
                ELSE IF c.state = "constrained" THEN 400
                ELSE 0
    IN IF ~clock \/ c.fresh = "fresh" THEN full ELSE Round(full, 2)

CostTier == [low |-> 1000, medium |-> 500, high |-> 100]
SpeedTier == [fast |-> 1000, standard |-> 600, slow |-> 200]
TierOf(tiers, value) == IF value = Unknown \/ value \notin DOMAIN tiers THEN Unknown ELSE tiers[value]

CostSpeed(c, prefs) ==
    LET cost == TierOf(CostTier, c.cost)
        speed == TierOf(SpeedTier, c.speed)
    IN IF ~prefs.cost /\ ~prefs.speed THEN 1000
       ELSE IF prefs.cost /\ cost = Unknown THEN 0
       ELSE IF prefs.speed /\ speed = Unknown THEN 0
       ELSE IF prefs.cost /\ prefs.speed THEN Round(cost + speed, 2)
       ELSE IF prefs.cost THEN cost ELSE speed

Continuity(c, caller) ==
    IF caller.profile = Unknown /\ caller.account = Unknown THEN 0
    ELSE IF c.profile = Unknown THEN 0
    ELSE IF c.profile \in {caller.profile, caller.account} THEN 1000
    ELSE 200

ReviewIndependence(c, p) ==
    IF ~p.otherFamily THEN 1000
    ELSE IF DifferentFamily(FamilyOf(c.model, c.family), SubjectFamily(p.subject)) = "met"
         THEN 1000 ELSE 0

Score(c, r, p) ==
    4 * TaskFit(c, p) + 2 * HarnessAffinity(c, r.caller) + 3 * ResourcePressure(c, r.clock)
    + CostSpeed(c, r.prefs) + 2 * Continuity(c, r.caller) + ReviewIndependence(c, PolicyOf(r))

\* The order of scoreCandidates(): score, then id.
Outranks(c, d, r, p) ==
    \/ Score(c, r, p) > Score(d, r, p)
    \/ Score(c, r, p) = Score(d, r, p) /\ c.id < d.id

-----------------------------------------------------------------------------
RecommendInit ==
    /\ request \in Requests
    /\ stage = "verify"
    /\ verified = (request.verification = "verified")
    /\ contacted = {}
    /\ profile = FallbackProfile(request)
    /\ jev = "dormant"
    /\ suggested = [id |-> Nothing, disposition |-> "none"]
    /\ verdicts = <<>>
    /\ eligible = {}
    /\ advice = Nothing

\* The catalog is asked only when every item passes and nobody said what it says.
VerifySkipped ==
    /\ stage = "verify"
    /\ request.verification # "undefined" \/ ~NothingBlocks(request.readiness)
    /\ stage' = "gate"
    /\ UNCHANGED <<request, jevVars, suggested, verdicts, eligible, advice>>

VerifyAsked ==
    /\ stage = "verify"
    /\ request.verification = "undefined" /\ NothingBlocks(request.readiness)
    /\ IF Transport(request) /\ request.catalog
       THEN contacted' = {"catalog"} /\ verified' \in BOOLEAN \* any failure is unverified
       ELSE UNCHANGED <<contacted, verified>>
    /\ stage' = "gate"
    /\ UNCHANGED <<request, profile, jev, suggested, verdicts, eligible, advice>>

GateClosed ==
    /\ stage = "gate" /\ ~GateOpen
    /\ stage' = "evaluate"
    /\ UNCHANGED <<request, jevVars, suggested, verdicts, eligible, advice>>

\* classify() cannot be asked, or is asked and fails, times out, or is not believed.
ClassifyFailed ==
    /\ stage = "gate" /\ GateOpen
    /\ contacted' = contacted \cup (IF Transport(request) THEN {"classify"} ELSE {})
    /\ jev' = "unavailable"
    /\ stage' = "evaluate"
    /\ UNCHANGED <<request, verified, profile, suggested, verdicts, eligible, advice>>

Classified(reply) ==
    /\ stage = "gate" /\ GateOpen /\ Transport(request)
    /\ ValidResponse(reply) /\ reply.confidence >= request.floor
    /\ contacted' = contacted \cup {"classify"}
    /\ jev' = "applied"
    /\ profile' = FactOf(reply.profile)
    /\ suggested' = [id |-> reply.suggestion, disposition |-> "none"]
    /\ stage' = "evaluate"
    /\ UNCHANGED <<request, verified, verdicts, eligible, advice>>

Duplicated(list, i) == \E j \in DOMAIN list : j # i /\ list[j].id = list[i].id

\* Mutated: the first of an id is taken.
VerdictOfFirst(list, i, p) ==
    IF \E j \in 1 .. i - 1 : list[j].id = list[i].id THEN "ineligible" ELSE Verdict(list[i], p)

\* Every candidate that shares its id is rejected unseen; the verdicts are kept by id.
VerdictOf(list, i, p) == IF Duplicated(list, i) THEN "ineligible" ELSE Verdict(list[i], p)

Evaluate ==
    /\ stage = "evaluate"
    /\ verdicts' = [id \in {c.id : c \in {request.list[i] : i \in DOMAIN request.list}} |->
                       VerdictOf(request.list,
                                 CHOOSE i \in DOMAIN request.list : request.list[i].id = id,
                                 PolicyOf(request))]
    /\ eligible' = {i \in DOMAIN request.list :
                       VerdictOf(request.list, i, PolicyOf(request)) = "eligible"}
    /\ stage' = "suggest"
    /\ UNCHANGED <<request, jevVars, suggested, advice>>

\* A suggestion is looked up among the verdicts, and is advisory at most.
Suggest ==
    /\ stage = "suggest"
    /\ suggested' = [suggested EXCEPT !.disposition =
           IF suggested.id = Nothing THEN "none"
           ELSE IF suggested.id \notin DOMAIN verdicts THEN "unknown candidate"
           ELSE IF verdicts[suggested.id] # "eligible" THEN "ineligible"
           ELSE "advisory"]
    /\ stage' = "score"
    /\ UNCHANGED <<request, jevVars, verdicts, eligible, advice>>

Best == {i \in eligible : \A j \in eligible \ {i} :
             Outranks(request.list[i], request.list[j], request, profile)}

Rank ==
    /\ stage = "score"
    /\ advice' = IF eligible = {} THEN Nothing ELSE request.list[CHOOSE i \in Best : TRUE].id
    /\ stage' = "done"
    /\ UNCHANGED <<request, jevVars, suggested, verdicts, eligible>>

RecommendNext ==
    \/ VerifySkipped \/ VerifyAsked \/ GateClosed
    \/ ClassifyFailed \/ (\E reply \in Replies : Classified(reply))
    \/ Evaluate \/ Suggest \/ Rank

-----------------------------------------------------------------------------
Offered == {request.list[i] : i \in DOMAIN request.list}

\* Fit whatever is true of what is not known.
SurelyFit(c) == LET worlds == Worlds(c, PolicyOf(request))
                IN \A k \in DOMAIN worlds : worlds[k] = {TRUE}

\* The recommended candidate is the only one of its id, is surely fit, and no
\* other such candidate ranks above it; nobody is recommended only when no
\* candidate is fit. Whatever the classifier said (lib/recommend.js:5).
AdviceIsSound == stage = "done" =>
    LET fit == {i \in DOMAIN request.list :
                    ~Duplicated(request.list, i) /\ SurelyFit(request.list[i])}
    IN /\ advice = Nothing <=> fit = {}
       /\ advice # Nothing => \E i \in fit : /\ request.list[i].id = advice
              /\ \A j \in fit \ {i} : Outranks(request.list[i], request.list[j], request, profile)

\* "the Jev network path stays dormant" (lib/jev-readiness.js:20): the classifier
\* is contacted only when the evidence covers every item, no record in it is
\* anything but a pass that was first to speak for its item, and the model is
\* verified; the catalog, only on the same evidence.
DormantUnlessReady == contacted # {} =>
    LET items == request.readiness
    IN /\ Item \subseteq {items[k].id : k \in DOMAIN items}
       /\ \A k \in DOMAIN items :
              items[k].verdict # "pass" => \E l \in 1 .. k - 1 : items[l].id = items[k].id
                                                                 /\ items[k].id \in Item
       /\ "classify" \in contacted => verified
       /\ request.model /\ request.base = "https"

\* What a fact of a candidate may turn out to be: the facts that a score reads.
ScoredFacts == [model |-> Model, harness |-> Harness, profile |-> Profile, route |-> Route,
                family |-> Family, taskCaps |-> SUBSET Capability,
                state |-> {"healthy", "constrained", "exhausted"}, fresh |-> {"fresh", "stale"},
                cost |-> DOMAIN CostTier, speed |-> DOMAIN SpeedTier]

\* The capabilities and the family that a candidate declares speak for its model as
\* long as no registered model says otherwise.
Undeclared(c) == [c EXCEPT !.taskCaps = Unknown, !.family = Unknown]

\* "never becomes an implicit score" (lib/score-candidates.js:15): a candidate
\* that leaves a fact unproven scores no more than with any value of it. The
\* model alone has stand-ins: what a candidate of no proven model scores above
\* one of a registered model is due to what it declares itself, never to the model
\* being unproven, and against an unregistered one it neither gains nor loses.
UnprovenScoresLowest == request # Unknown => \A c \in Offered : \A f \in DOMAIN ScoredFacts :
    c[f] = Unknown => \A v \in ScoredFacts[f] :
        LET proven == Score([c EXCEPT ![f] = v], request, profile)
        IN IF f # "model" THEN Score(c, request, profile) <= proven
           ELSE IF Registered(Models, v) THEN Score(Undeclared(c), request, profile) <= proven
           ELSE Score(c, request, profile) = proven
=============================================================================
