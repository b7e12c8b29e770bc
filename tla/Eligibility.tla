---------------------------- MODULE Eligibility ----------------------------
(***************************************************************************)
(* lib/eligibility.js and lib/capability-registry.js: is a candidate fit   *)
(* for what a policy demands? evaluate() is pure, but what it is asked     *)
(* about changes from one snapshot to the next: a fact is observed, or its *)
(* observation is gone. The state is the candidate as it is known now; the *)
(* judgement is an operator on it.                                         *)
(*                                                                         *)
(* Abstracted: names are as norm() leaves them; the scope and the text of  *)
(* a reason; the several capabilities or skills of one demand are one      *)
(* check, violated if one of them is.                                      *)
(***************************************************************************)
EXTENDS Evidence, Naturals, FiniteSets

CONSTANTS Model, Harness, Profile, Route, Family, \* names
          Capability, Skill,
          Families,   \* family id |-> [aliases]
          Models,     \* model id |-> [aliases, family, caps]
          Harnesses,  \* harness id |-> [aliases, caps, skills]
          Policies,   \* the policies a candidate is judged by
          Elsewhere,  \* a name that no policy mentions
          MaxFacts    \* bound: facts known of a candidate

VARIABLES candidate, policy
eligibilityVars == <<candidate, policy>>

-----------------------------------------------------------------------------
\* The registry: ids and aliases name one entry each, or createRegistry throws.
WellFormed(section) == \A i, j \in DOMAIN section : i # j =>
    /\ j \notin section[i].aliases
    /\ section[i].aliases \cap section[j].aliases = {}

Entry(section, name) ==
    {id \in DOMAIN section : name = id \/ name \in section[id].aliases}

\* canonicalFamilyId(n) || n, and the like
Canonical(section, name) ==
    IF Entry(section, name) = {} THEN name ELSE CHOOSE id \in Entry(section, name) : TRUE

Registered(section, name) == name # Unknown /\ Entry(section, name) # {}

EntryOf(section, name) == section[Canonical(section, name)]

ASSUME RegistryAssumption ==
    /\ WellFormed(Families) /\ WellFormed(Models) /\ WellFormed(Harnesses)
    /\ \A m \in DOMAIN Models : Entry(Families, Models[m].family) # {}
    /\ MaxFacts \in Nat

PolicyShape(p) ==
    /\ p.forbidRoutes \subseteq Route /\ p.forbidRoutes # Route
    /\ p.forbidProfiles \subseteq Profile
    /\ p.forbidModels \subseteq Model /\ p.models \subseteq Model
    /\ p.forbidHarnesses \subseteq Harness /\ p.harnesses \subseteq Harness
    /\ p.taskCaps \subseteq Capability /\ p.execCaps \subseteq Capability /\ p.skills \subseteq Skill
    /\ {p.route, p.usableRoute, p.otherFamily} \subseteq BOOLEAN
    /\ p.subject.family \in Family \cup {Unknown} /\ p.subject.model \in Model \cup {Unknown}

\* Elsewhere is nobody's name; a policy leaves a route.
ASSUME NamesAssumption ==
    /\ Elsewhere \notin Model \cup Harness \cup Profile \cup Family
    /\ \A section \in {Families, Models, Harnesses} : Entry(section, Elsewhere) = {}
    /\ Unknown \notin {"healthy", "constrained", "exhausted", "other", "available", "unavailable"}
    /\ Unknown \notin Route /\ "none" \notin Route
    /\ Family # {} /\ \A m \in DOMAIN Models : Models[m].family \in Family
    /\ \A p \in Policies : PolicyShape(p)

-----------------------------------------------------------------------------
\* A candidate's facts and what a fact may say. "other" is a value outside the
\* vocabulary ('false', '', 0): known, and evidence of nothing.
Facts == [model     |-> Model,
          harness   |-> Harness,
          available |-> {"available", "unavailable", "other"},
          profile   |-> Profile,
          family    |-> Family,
          skills    |-> SUBSET Skill,
          taskCaps  |-> SUBSET Capability,
          execCaps  |-> SUBSET Capability,
          route     |-> Route,
          state     |-> {"healthy", "constrained", "exhausted", "other"}]
Fact == DOMAIN Facts
CandidateShape(c) == \A f \in Fact : c[f] \in Facts[f] \cup {Unknown}
Known(c) == {f \in Fact : c[f] # Unknown}

\* All the names of what a fact identifies.
NameSet(section, name) ==
    {name} \cup (IF Registered(section, name)
                 THEN {Canonical(section, name)} \cup EntryOf(section, name).aliases
                 ELSE {})

\* The family a candidate, or the subject of a review, is proven to be of.
FamilyOf(model, declared) ==
    IF Registered(Models, model) THEN Canonical(Families, EntryOf(Models, model).family)
    ELSE IF declared # Unknown THEN Canonical(Families, declared)
    ELSE Unknown

\* A review's subject is judged by its declared family first.
SubjectFamily(subject) ==
    IF subject.family # Unknown THEN Canonical(Families, subject.family)
    ELSE FamilyOf(subject.model, Unknown)

-----------------------------------------------------------------------------
\* A check is met, violated or unproven.
Judged(violated, met) == IF violated THEN "violated" ELSE IF met THEN "met" ELSE "unproven"

AllOf(judgements) == Judged("violated" \in judgements, judgements \subseteq {"met"})

\* A forbid list and an allowlist make the identity required.
Forbids(list, fact, names) ==
    Judged(fact # Unknown /\ names \cap list # {}, list = {} \/ fact # Unknown)
Allows(list, fact, names) ==
    Judged(list # {} /\ fact # Unknown /\ names \cap list = {}, list = {} \/ fact # Unknown)

\* The entry of a registered name is the whole list; a declared list proves
\* presence only.
HasCapability(cap, registered, listed, declared) ==
    IF registered THEN Judged(cap \notin listed, TRUE)
    ELSE Judged(FALSE, declared # Unknown /\ cap \in declared)

\* Mutated: one source's silence is absence.
SkillListed(skill, registered, listed, declared) ==
    LET present == (registered /\ skill \in listed) \/ (declared # Unknown /\ skill \in declared)
    IN Judged(~present /\ (registered \/ declared # Unknown), present)

\* Skills are installed per agent: any source proves one, absence needs both.
HasSkill(skill, registered, listed, declared) ==
    LET present == (registered /\ skill \in listed) \/ (declared # Unknown /\ skill \in declared)
    IN Judged(~present /\ registered /\ declared # Unknown, present)

ListedCaps(section, name) == IF Registered(section, name) THEN EntryOf(section, name).caps ELSE {}
ListedSkills(name) == IF Registered(Harnesses, name) THEN EntryOf(Harnesses, name).skills ELSE {}

DifferentFamily(mine, subjects) ==
    Judged(mine # Unknown /\ subjects # Unknown /\ mine = subjects,
           mine # Unknown /\ subjects # Unknown)

HarnessDemanded(p) == p.harnesses # {} \/ p.execCaps # {}
RouteDemanded(p) == p.route \/ p.forbidRoutes # {}

Checks(c, p) ==
    [routeForbidden   |-> Judged(c.route \in p.forbidRoutes, ~RouteDemanded(p) \/ c.route # Unknown),
     profileForbidden |-> Forbids(p.forbidProfiles, c.profile, {c.profile}),
     modelForbidden   |-> Forbids(p.forbidModels, c.model, NameSet(Models, c.model)),
     harnessForbidden |-> Forbids(p.forbidHarnesses, c.harness, NameSet(Harnesses, c.harness)),
     routeState       |-> Judged(c.state = "exhausted",
                                 ~p.usableRoute \/ c.state \in {"healthy", "constrained"}),
     harnessAvailable |-> Judged(c.available = "unavailable",
                                 ~HarnessDemanded(p) \/ c.available = "available"),
     modelAllowed     |-> Allows(p.models, c.model, NameSet(Models, c.model)),
     harnessAllowed   |-> Allows(p.harnesses, c.harness, NameSet(Harnesses, c.harness)),
     taskCaps         |-> AllOf({HasCapability(cap, Registered(Models, c.model),
                                     ListedCaps(Models, c.model), c.taskCaps) : cap \in p.taskCaps}),
     execCaps         |-> AllOf({HasCapability(cap, Registered(Harnesses, c.harness),
                                     ListedCaps(Harnesses, c.harness), c.execCaps) : cap \in p.execCaps}),
     skills           |-> AllOf({HasSkill(skill, Registered(Harnesses, c.harness),
                                     ListedSkills(c.harness), c.skills) : skill \in p.skills}),
     family           |-> IF p.otherFamily
                          THEN DifferentFamily(FamilyOf(c.model, c.family), SubjectFamily(p.subject))
                          ELSE "met"]

Reasons(c, p) == LET found == Checks(c, p) IN {k \in DOMAIN found : found[k] # "met"}

\* evaluate(): a violated constraint outranks everything, unproven is neither.
Verdict(c, p) ==
    LET found == {Checks(c, p)[k] : k \in Reasons(c, p)}
    IN IF "violated" \in found THEN "ineligible"
       ELSE IF found # {} THEN "unresolved" ELSE "eligible"

-----------------------------------------------------------------------------
\* A snapshot that knows one more fact of the candidate.
Observe(f) ==
    /\ candidate[f] = Unknown
    /\ Cardinality(Known(candidate)) < MaxFacts
    /\ \E v \in Facts[f] : candidate' = [candidate EXCEPT ![f] = v]
    /\ UNCHANGED policy

Nobody == [f \in Fact |-> Unknown]

EligibilityInit == candidate = Nobody /\ policy \in Policies
EligibilityNext == \E f \in Fact : Observe(f)

-----------------------------------------------------------------------------
\* What may be true of a candidate, given what is known of it: for each check,
\* whether it holds in each world that the evidence leaves open. Names are
\* compared by what they identify, sets of capabilities and skills grow from what
\* is declared, and a demand nobody makes is given the benefit of the doubt.
MayBe(fact, universe) == IF fact = Unknown THEN universe ELSE {fact}
Says(fact, universe) == MayBe(IF fact = "other" THEN Unknown ELSE fact, universe)

Mentions(section, list, name) == \E l \in list : Canonical(section, l) = Canonical(section, name)

LeftOut(section, list, fact, universe) ==
    {~Mentions(section, list, m) : m \in MayBe(fact, universe \cup {Elsewhere})}
LetIn(section, list, fact, universe) ==
    {list # {} => Mentions(section, list, m) : m \in MayBe(fact, universe \cup {Elsewhere})}
Enough(needed, sets) == {needed \subseteq s : s \in sets}

CapsOf(section, name, declared) ==
    IF Registered(section, name) THEN {EntryOf(section, name).caps}
    ELSE {s \in SUBSET Capability : declared # Unknown => declared \subseteq s}

SkillsOf(harness, declared) ==
    {s \cup t : s \in IF Registered(Harnesses, harness) THEN {EntryOf(Harnesses, harness).skills}
                      ELSE SUBSET Skill,
                t \in MayBe(declared, SUBSET Skill)}

FamiliesOf(known) == MayBe(known, {Canonical(Families, f) : f \in Family} \cup {Elsewhere})

Strangers(demanded, mine, theirs) ==
    {demanded => pair[1] # pair[2] : pair \in mine \X theirs}

Permitted(p, r) == r \notin p.forbidRoutes /\ (RouteDemanded(p) => r # "none")

Worlds(c, p) ==
    [routeForbidden   |-> {Permitted(p, r) : r \in MayBe(c.route, Route \cup {"none"})},
     profileForbidden |-> {x \notin p.forbidProfiles : x \in MayBe(c.profile, Profile \cup {Elsewhere})},
     modelForbidden   |-> LeftOut(Models, p.forbidModels, c.model, Model),
     harnessForbidden |-> LeftOut(Harnesses, p.forbidHarnesses, c.harness, Harness),
     routeState       |-> {s # "exhausted" : s \in Says(c.state,
                               IF p.usableRoute THEN {"healthy", "exhausted"} ELSE {"healthy"})},
     harnessAvailable |-> {a = "available" : a \in Says(c.available,
                               IF HarnessDemanded(p) THEN {"available", "unavailable"}
                               ELSE {"available"})},
     modelAllowed     |-> LetIn(Models, p.models, c.model, Model),
     harnessAllowed   |-> LetIn(Harnesses, p.harnesses, c.harness, Harness),
     taskCaps         |-> Enough(p.taskCaps, CapsOf(Models, c.model, c.taskCaps)),
     execCaps         |-> Enough(p.execCaps, CapsOf(Harnesses, c.harness, c.execCaps)),
     skills           |-> Enough(p.skills, SkillsOf(c.harness, c.skills)),
     family           |-> Strangers(p.otherFamily, FamiliesOf(FamilyOf(c.model, c.family)),
                                    FamiliesOf(SubjectFamily(p.subject)))]

\* "unresolved is never collapsed into eligible or ineligible, and a capability
\* or identity is never guessed" (lib/eligibility.js:16): a check is met if it
\* holds whatever is true, violated if it fails whatever is true, and unproven
\* if the evidence leaves both open.
JudgedByEvidence == policy # Unknown =>
    LET worlds == Worlds(candidate, policy)
        judged == Checks(candidate, policy)
    IN \A k \in DOMAIN worlds : /\ judged[k] = "met" <=> worlds[k] = {TRUE}
                                /\ judged[k] = "violated" <=> worlds[k] = {FALSE}
=============================================================================
