--------------------------- MODULE EvidenceProofs ----------------------------
(***************************************************************************)
(* What the program says rests on evidence: for any candidates, policies,  *)
(* replies and weights, any cached entries, routes, statuses and lifetimes,*)
(* any sources and outcomes, in any order.                                 *)
(*                                                                         *)
(* The gate: a candidate is judged by evidence alone. EveryCheckIsKnown:   *)
(* each of the twelve checks says met, or violated, exactly if every world *)
(* that what is known leaves possible does.                                *)
(*                                                                         *)
(* The advice: one fact more never scores lower (UnprovenFact), but for    *)
(* the model, in whose place a candidate may declare facts (UnprovenModel);*)
(* the best candidate is the only one of its rank (OneWins), and what is   *)
(* advised follows from the judgements of this run (RecommendInv).         *)
(*                                                                         *)
(* The view claims only what is current, hides nothing, and calls nobody   *)
(* eligible whom the gate would not let through. ViewInv: what was put into*)
(* the snapshot has instants where the clock has been, and what it calls   *)
(* stale is older than the clock; the row is made of it at one instant.    *)
(*                                                                         *)
(* The live snapshot holds of a route the row that the last listed source  *)
(* gave of it, and verified facts only. LiveInv: what the snapshot is made *)
(* of is the fold of the contributions, each the outcome of its own source;*)
(* FoldIs and AllFolded say what the fold is, by the first prefix for which*)
(* it would be anything else.                                              *)
(***************************************************************************)
EXTENDS Recommend, View, Live, FiniteSetTheorems, SequenceTheorems, WellFoundedInduction, TLAPS

-----------------------------------------------------------------------------
\* Induction: a set of numbers has a first one; a bounded one has a last.
LEMMA First ==
    ASSUME NEW T, T \subseteq Nat, T # {}
    PROVE  \E m \in T : \A n \in T : m <= n
<1>1. PICK m \in T : \A n \in T : ~ (<<n, m>> \in OpToRel(<, Nat))
  BY NatLessThanWellFounded, WFMin
<1>2. ASSUME NEW n \in T, n < m
      PROVE  FALSE
  <2>1. <<n, m>> \in Nat \X Nat /\ <<n, m>>[1] < <<n, m>>[2]
    BY <1>2
  <2>2. <<n, m>> \in OpToRel(<, Nat)
    BY <2>1 DEF OpToRel
  <2> QED  BY <1>1, <2>2
<1> QED  BY <1>2

LEMMA Last ==
    ASSUME NEW N \in Nat, NEW T, T \subseteq 1 .. N, T # {}
    PROVE  \E m \in T : \A n \in T : n <= m
<1> DEFINE Rest == {N - n : n \in T}
<1>1. PICK r \in Rest : \A s \in Rest : r <= s
  <2>1. Rest \subseteq Nat /\ Rest # {}
    <3>1. \A n \in T : N - n \in Nat
      OBVIOUS
    <3> QED  BY <3>1
  <2> HIDE DEF Rest
  <2> QED  BY <2>1, First
<1>2. PICK m \in T : r = N - m
  OBVIOUS
<1>3. ASSUME NEW n \in T
      PROVE  n <= m
  <2>1. N - m <= N - n /\ m \in 1 .. N /\ n \in 1 .. N
    BY <1>1, <1>2
  <2> QED  BY <2>1
<1> QED  BY <1>3

-----------------------------------------------------------------------------
\* The gate.
Certain(j, w) == (j = "met" <=> w = {TRUE}) /\ (j = "violated" <=> w = {FALSE})

LEMMA CertainIf ==
    ASSUME NEW j, NEW w, w \subseteq BOOLEAN, w # {},
           j = "met" => FALSE \notin w,
           j = "violated" => TRUE \notin w,
           j \notin {"met", "violated"} => TRUE \in w /\ FALSE \in w
    PROVE  Certain(j, w)
<1>1. CASE j = "met"
  <2>1. w = {TRUE}
    BY <1>1
  <2>2. w # {FALSE} /\ j # "violated"
    BY <1>1, <2>1
  <2> QED  BY <1>1, <2>1, <2>2 DEF Certain
<1>2. CASE j = "violated"
  <2>1. w = {FALSE}
    BY <1>2
  <2>2. w # {TRUE} /\ j # "met"
    BY <1>2, <2>1
  <2> QED  BY <1>2, <2>1, <2>2 DEF Certain
<1>3. CASE j \notin {"met", "violated"}
  <2>1. w # {TRUE} /\ w # {FALSE}
    BY <1>3
  <2> QED  BY <1>3, <2>1 DEF Certain
<1> QED  BY <1>1, <1>2, <1>3

LEMMA JudgedIs ==
    ASSUME NEW v \in BOOLEAN, NEW m \in BOOLEAN
    PROVE  /\ Judged(v, m) = "violated" <=> v
           /\ Judged(v, m) = "met" <=> ~v /\ m
           /\ Judged(v, m) \notin {"met", "violated"} <=> ~v /\ ~m
BY DEF Judged

-----------------------------------------------------------------------------
\* Names are compared by what they identify.
LEMMA EntryIsOne ==
    ASSUME NEW section, WellFormed(section), NEW name, NEW i \in Entry(section, name)
    PROVE  Entry(section, name) = {i} /\ Canonical(section, name) = i
<1>1. ASSUME NEW j \in Entry(section, name)
      PROVE  j = i
  BY <1>1 DEF Entry, WellFormed
<1>2. Entry(section, name) = {i}
  BY <1>1
<1> QED  BY <1>2 DEF Canonical

LEMMA SameName ==
    ASSUME NEW section, WellFormed(section), NEW n, NEW l, n # Unknown
    PROVE  l \in NameSet(section, n) <=> Canonical(section, l) = Canonical(section, n)
<1>1. CASE Entry(section, n) = {}
  <2>1. NameSet(section, n) = {n} /\ Canonical(section, n) = n
    BY <1>1 DEF NameSet, Registered, Canonical
  <2>2. ASSUME Canonical(section, l) = n, l # n
        PROVE  FALSE
    <3>1. PICK i : i \in Entry(section, l)
      BY <2>2 DEF Canonical
    <3>2. i = n
      BY <3>1, <2>2, EntryIsOne
    <3> QED  BY <3>1, <3>2, <1>1 DEF Entry
  <2> QED  BY <2>1, <2>2
<1>2. ASSUME NEW i \in Entry(section, n)
      PROVE  l \in NameSet(section, n) <=> Canonical(section, l) = Canonical(section, n)
  <2>1. Canonical(section, n) = i
    BY <1>2, EntryIsOne
  <2>2. NameSet(section, n) = {n, i} \cup section[i].aliases
    BY <2>1, <1>2 DEF NameSet, Registered, EntryOf
  <2>3. l \in NameSet(section, n) => i \in Entry(section, l)
    BY <2>2, <1>2 DEF Entry
  <2>4. i \in Entry(section, l) => l \in NameSet(section, n)
    BY <2>2 DEF Entry
  <2>5. i \in Entry(section, l) => Canonical(section, l) = i
    BY EntryIsOne
  <2>6. ASSUME Canonical(section, l) = i
        PROVE  i \in Entry(section, l)
    <3>1. CASE Entry(section, l) = {}
      BY <3>1, <2>6, <1>2 DEF Canonical, Entry
    <3>2. CASE Entry(section, l) # {}
      BY <3>2, <2>6, EntryIsOne
    <3> QED  BY <3>1, <3>2
  <2> QED  BY <2>1, <2>3, <2>4, <2>5, <2>6
<1> QED  BY <1>1, <1>2

LEMMA ElsewhereIsNobody ==
    ASSUME NEW section, WellFormed(section), Entry(section, Elsewhere) = {},
           NEW list, Elsewhere \notin list
    PROVE  ~ Mentions(section, list, Elsewhere)
<1>1. SUFFICES ASSUME NEW l \in list, Canonical(section, l) = Canonical(section, Elsewhere)
               PROVE  FALSE
  BY DEF Mentions
<1>2. Canonical(section, l) = Elsewhere
  BY <1>1 DEF Canonical
<1>3. Entry(section, l) # {}
  BY <1>2, <1>1 DEF Canonical
<1>4. PICK i : i \in Entry(section, l)
  BY <1>3
<1>5. i = Elsewhere
  BY <1>2, <1>4, EntryIsOne
<1> QED  BY <1>4, <1>5 DEF Entry

\* What a list of names forbids or allows.
LEMMA ListIsKnown ==
    ASSUME NEW section, WellFormed(section), Entry(section, Elsewhere) = {},
           NEW universe, NEW list, list \subseteq universe, Elsewhere \notin universe,
           NEW fact \in universe \cup {Unknown}
    PROVE  /\ Certain(Forbids(list, fact, NameSet(section, fact)),
                      LeftOut(section, list, fact, universe))
           /\ Certain(Allows(list, fact, NameSet(section, fact)),
                      LetIn(section, list, fact, universe))
<1> DEFINE Forbidding == LeftOut(section, list, fact, universe)
           Allowing == LetIn(section, list, fact, universe)
<1>1. CASE fact # Unknown
  <2>1. Forbidding = {~Mentions(section, list, fact)}
    BY <1>1 DEF MayBe, LeftOut
  <2>2. Allowing = {list # {} => Mentions(section, list, fact)}
    BY <1>1 DEF MayBe, LetIn
  <2>3. Mentions(section, list, fact) <=> NameSet(section, fact) \cap list # {}
    BY <1>1, SameName DEF Mentions
  <2>4. Forbids(list, fact, NameSet(section, fact)) =
            IF Mentions(section, list, fact) THEN "violated" ELSE "met"
    BY <1>1, <2>3 DEF Forbids, Judged
  <2>5. Allows(list, fact, NameSet(section, fact)) =
            IF list # {} => Mentions(section, list, fact) THEN "met" ELSE "violated"
    BY <1>1, <2>3 DEF Allows, Judged
  <2>6. ASSUME NEW b \in BOOLEAN
        PROVE  Certain(IF b THEN "met" ELSE "violated", {b})
    BY DEF Certain
  <2>7. ASSUME NEW b \in BOOLEAN
        PROVE  Certain(IF b THEN "violated" ELSE "met", {~b})
    BY DEF Certain
  <2> QED  BY <2>1, <2>2, <2>4, <2>5, <2>6, <2>7 DEF Mentions
<1>2. CASE fact = Unknown /\ list = {}
  <2>1. \A m : ~Mentions(section, list, m)
    BY <1>2 DEF Mentions
  <2>2. Forbidding = {TRUE} /\ Allowing = {TRUE}
    BY <1>2, <2>1 DEF MayBe, LeftOut, LetIn
  <2>3. /\ Forbids(list, fact, NameSet(section, fact)) = "met"
        /\ Allows(list, fact, NameSet(section, fact)) = "met"
    BY <1>2 DEF Forbids, Allows, Judged
  <2> QED  BY <2>2, <2>3 DEF Certain
<1>3. CASE fact = Unknown /\ list # {}
  <2>1. PICK l \in list : Mentions(section, list, l)
    BY <1>3 DEF Mentions
  <2>2. ~Mentions(section, list, Elsewhere)
    BY ElsewhereIsNobody
  <2>3. l \in MayBe(fact, universe \cup {Elsewhere}) /\ Elsewhere \in MayBe(fact, universe \cup {Elsewhere})
    BY <1>3, <2>1 DEF MayBe
  <2>4. TRUE \in Forbidding /\ FALSE \in Forbidding
    BY <2>1, <2>2, <2>3 DEF LeftOut
  <2>5. TRUE \in Allowing /\ FALSE \in Allowing
    BY <1>3, <2>1, <2>2, <2>3 DEF LetIn
  <2>6. /\ Forbids(list, fact, NameSet(section, fact)) = "unproven"
        /\ Allows(list, fact, NameSet(section, fact)) = "unproven"
    BY <1>3 DEF Forbids, Allows, Judged
  <2> HIDE DEF Forbidding, Allowing
  <2>7. Forbidding # {TRUE} /\ Forbidding # {FALSE} /\ Allowing # {TRUE} /\ Allowing # {FALSE}
    BY <2>4, <2>5
  <2>8. Certain("unproven", Forbidding) /\ Certain("unproven", Allowing)
    BY <2>7 DEF Certain
  <2> QED  BY <2>6, <2>8 DEF Forbidding, Allowing
<1> QED  BY <1>1, <1>2, <1>3

-----------------------------------------------------------------------------
\* The checks, one by one.
LEMMA RouteIsKnown ==
    ASSUME NEW c, CandidateShape(c), NEW p, PolicyShape(p)
    PROVE  Certain(Judged(c.route \in p.forbidRoutes, ~RouteDemanded(p) \/ c.route # Unknown),
                   {Permitted(p, r) : r \in MayBe(c.route, Route \cup {"none"})})
<1> DEFINE judged == Judged(c.route \in p.forbidRoutes, ~RouteDemanded(p) \/ c.route # Unknown)
           open == {Permitted(p, r) : r \in MayBe(c.route, Route \cup {"none"})}
<1>1. c.route \in Route \cup {Unknown}
  BY DEF CandidateShape, Fact, Facts
<1>2. /\ p.forbidRoutes \subseteq Route /\ p.forbidRoutes # Route
  BY DEF PolicyShape
<1>3. SUFFICES Certain(judged, open)
  OBVIOUS
<1>4. CASE c.route # Unknown
  <2>1. open = {c.route \notin p.forbidRoutes}
    <3>1. Permitted(p, c.route) = (c.route \notin p.forbidRoutes)
      BY <1>1, <1>4, NamesAssumption DEF Permitted
    <3>2. open = {Permitted(p, c.route)}
      BY <1>4 DEF MayBe
    <3> QED  BY <3>1, <3>2
  <2>2. judged = IF c.route \in p.forbidRoutes THEN "violated" ELSE "met"
    BY <1>4 DEF Judged
  <2> HIDE DEF judged, open
  <2> QED  BY <2>1, <2>2 DEF Certain
<1>5. CASE c.route = Unknown /\ RouteDemanded(p)
  <2>1. PICK r \in Route : r \notin p.forbidRoutes
    BY <1>2
  <2>2. Permitted(p, r) = TRUE /\ Permitted(p, "none") = FALSE
    BY <2>1, <1>5, NamesAssumption DEF Permitted
  <2>3. r \in MayBe(c.route, Route \cup {"none"}) /\ "none" \in MayBe(c.route, Route \cup {"none"})
    BY <2>1, <1>5 DEF MayBe
  <2>4. TRUE \in open /\ FALSE \in open
    BY <2>2, <2>3
  <2>5. judged = "unproven"
    BY <1>2, <1>5, NamesAssumption DEF Judged
  <2>6. open # {TRUE} /\ open # {FALSE}
    BY <2>4
  <2> HIDE DEF judged, open
  <2> QED  BY <2>5, <2>6 DEF Certain
<1>6. CASE c.route = Unknown /\ ~RouteDemanded(p)
  <2>1. p.forbidRoutes = {}
    BY <1>6 DEF RouteDemanded
  <2>2. \A r : Permitted(p, r)
    BY <1>6, <2>1 DEF Permitted
  <2>3. "none" \in MayBe(c.route, Route \cup {"none"})
    BY <1>6 DEF MayBe
  <2>4. open = {TRUE}
    BY <2>2, <2>3
  <2>5. judged = "met"
    BY <1>6, <2>1 DEF Judged
  <2> HIDE DEF judged, open
  <2> QED  BY <2>4, <2>5 DEF Certain
<1> QED  BY <1>4, <1>5, <1>6

LEMMA ProfileIsKnown ==
    ASSUME NEW c, CandidateShape(c), NEW p, PolicyShape(p)
    PROVE  Certain(Forbids(p.forbidProfiles, c.profile, {c.profile}),
                   {x \notin p.forbidProfiles : x \in MayBe(c.profile, Profile \cup {Elsewhere})})
<1> DEFINE left == {x \notin p.forbidProfiles : x \in MayBe(c.profile, Profile \cup {Elsewhere})}
           found == Forbids(p.forbidProfiles, c.profile, {c.profile})
<1>1. p.forbidProfiles \subseteq Profile
  BY DEF PolicyShape
<1>2. SUFFICES Certain(found, left)
  OBVIOUS
<1>3. CASE c.profile # Unknown
  <2>1. left = {c.profile \notin p.forbidProfiles}
    BY <1>3 DEF MayBe
  <2>2. found = IF c.profile \in p.forbidProfiles THEN "violated" ELSE "met"
    BY <1>3 DEF Forbids, Judged
  <2> HIDE DEF left, found
  <2> QED  BY <2>1, <2>2 DEF Certain
<1>4. CASE c.profile = Unknown /\ p.forbidProfiles = {}
  <2>1. Elsewhere \in MayBe(c.profile, Profile \cup {Elsewhere})
    BY <1>4 DEF MayBe
  <2>2. left = {TRUE}
    BY <1>4, <2>1
  <2>3. found = "met"
    BY <1>4 DEF Forbids, Judged
  <2> HIDE DEF left, found
  <2> QED  BY <2>2, <2>3 DEF Certain
<1>5. CASE c.profile = Unknown /\ p.forbidProfiles # {}
  <2>1. PICK x \in p.forbidProfiles : x \in Profile
    BY <1>5, <1>1
  <2>2. {x, Elsewhere} \subseteq MayBe(c.profile, Profile \cup {Elsewhere}) /\ Elsewhere \notin p.forbidProfiles
    BY <2>1, <1>5, <1>1, NamesAssumption DEF MayBe
  <2>3. TRUE \in left /\ FALSE \in left
    BY <2>1, <2>2
  <2>4. left # {TRUE} /\ left # {FALSE}
    BY <2>3
  <2>5. found = "unproven"
    BY <1>5 DEF Forbids, Judged
  <2> HIDE DEF left, found
  <2> QED  BY <2>4, <2>5 DEF Certain
<1> QED  BY <1>3, <1>4, <1>5, Zenon

LEMMA IdentitiesAreKnown ==
    ASSUME NEW c, CandidateShape(c), NEW p, PolicyShape(p)
    PROVE  /\ Certain(Forbids(p.forbidModels, c.model, NameSet(Models, c.model)),
                      LeftOut(Models, p.forbidModels, c.model, Model))
           /\ Certain(Allows(p.models, c.model, NameSet(Models, c.model)),
                      LetIn(Models, p.models, c.model, Model))
           /\ Certain(Forbids(p.forbidHarnesses, c.harness, NameSet(Harnesses, c.harness)),
                      LeftOut(Harnesses, p.forbidHarnesses, c.harness, Harness))
           /\ Certain(Allows(p.harnesses, c.harness, NameSet(Harnesses, c.harness)),
                      LetIn(Harnesses, p.harnesses, c.harness, Harness))
<1>1. c.model \in Model \cup {Unknown} /\ c.harness \in Harness \cup {Unknown}
  BY DEF CandidateShape, Fact, Facts
<1>2. /\ WellFormed(Models) /\ Entry(Models, Elsewhere) = {} /\ Elsewhere \notin Model
      /\ WellFormed(Harnesses) /\ Entry(Harnesses, Elsewhere) = {} /\ Elsewhere \notin Harness
  BY NamesAssumption, RegistryAssumption
<1>3. /\ p.forbidModels \subseteq Model /\ p.models \subseteq Model
      /\ p.forbidHarnesses \subseteq Harness /\ p.harnesses \subseteq Harness
  BY DEF PolicyShape
<1> QED  BY <1>1, <1>2, <1>3, ListIsKnown

LEMMA StateIsKnown ==
    ASSUME NEW c, CandidateShape(c), NEW p, PolicyShape(p)
    PROVE  Certain(Judged(c.state = "exhausted",
                          ~p.usableRoute \/ c.state \in {"healthy", "constrained"}),
                   {s # "exhausted" : s \in Says(c.state,
                        IF p.usableRoute THEN {"healthy", "exhausted"} ELSE {"healthy"})})
<1> DEFINE open == {s # "exhausted" : s \in Says(c.state,
                        IF p.usableRoute THEN {"healthy", "exhausted"} ELSE {"healthy"})}
           judged == Judged(c.state = "exhausted",
                            ~p.usableRoute \/ c.state \in {"healthy", "constrained"})
<1>1. SUFFICES Certain(judged, open)
  OBVIOUS
<1>2. c.state \in {"healthy", "constrained", "exhausted", "other", Unknown}
  BY DEF CandidateShape, Fact, Facts
<1>3. CASE c.state = "exhausted"
  <2>1. judged = "violated" /\ open = {FALSE}
    BY <1>3, NamesAssumption DEF Judged, Says, MayBe
  <2> HIDE DEF judged, open
  <2> QED  BY <2>1 DEF Certain
<1>4. CASE c.state \in {"healthy", "constrained"}
  <2>1. judged = "met" /\ open = {TRUE}
    BY <1>4, NamesAssumption DEF Judged, Says, MayBe
  <2> HIDE DEF judged, open
  <2> QED  BY <2>1 DEF Certain
<1>5. CASE c.state \in {"other", Unknown} /\ ~p.usableRoute
  <2>1. judged = "met" /\ open = {TRUE}
    BY <1>5, NamesAssumption DEF Judged, Says, MayBe
  <2> HIDE DEF judged, open
  <2> QED  BY <2>1 DEF Certain
<1>6. CASE c.state \in {"other", Unknown} /\ p.usableRoute
  <2>1. judged = "unproven" /\ TRUE \in open /\ FALSE \in open
    BY <1>6, NamesAssumption DEF Judged, Says, MayBe
  <2>2. open # {TRUE} /\ open # {FALSE}
    BY <2>1
  <2> HIDE DEF judged, open
  <2> QED  BY <2>1, <2>2 DEF Certain
<1> QED  BY <1>2, <1>3, <1>4, <1>5, <1>6, Zenon

LEMMA AvailabilityIsKnown ==
    ASSUME NEW c, CandidateShape(c), NEW p, PolicyShape(p)
    PROVE  Certain(Judged(c.available = "unavailable",
                          ~HarnessDemanded(p) \/ c.available = "available"),
                   {a = "available" : a \in Says(c.available,
                        IF HarnessDemanded(p) THEN {"available", "unavailable"}
                        ELSE {"available"})})
<1> DEFINE open == {a = "available" : a \in Says(c.available,
                        IF HarnessDemanded(p) THEN {"available", "unavailable"}
                        ELSE {"available"})}
           judged == Judged(c.available = "unavailable",
                            ~HarnessDemanded(p) \/ c.available = "available")
<1>1. SUFFICES Certain(judged, open)
  OBVIOUS
<1>2. c.available \in {"available", "unavailable", "other", Unknown}
  BY DEF CandidateShape, Fact, Facts
<1>3. CASE c.available = "unavailable"
  <2>1. judged = "violated" /\ open = {FALSE}
    BY <1>3, NamesAssumption DEF Judged, Says, MayBe
  <2> HIDE DEF judged, open
  <2> QED  BY <2>1 DEF Certain
<1>4. CASE c.available = "available"
  <2>1. judged = "met" /\ open = {TRUE}
    BY <1>4, NamesAssumption DEF Judged, Says, MayBe
  <2> HIDE DEF judged, open
  <2> QED  BY <2>1 DEF Certain
<1>5. CASE c.available \in {"other", Unknown} /\ ~HarnessDemanded(p)
  <2>1. judged = "met" /\ open = {TRUE}
    BY <1>5, NamesAssumption DEF Judged, Says, MayBe
  <2> HIDE DEF judged, open
  <2> QED  BY <2>1 DEF Certain
<1>6. CASE c.available \in {"other", Unknown} /\ HarnessDemanded(p)
  <2>1. judged = "unproven" /\ TRUE \in open /\ FALSE \in open
    BY <1>6, NamesAssumption DEF Judged, Says, MayBe
  <2>2. open # {TRUE} /\ open # {FALSE}
    BY <2>1
  <2> HIDE DEF judged, open
  <2> QED  BY <2>1, <2>2 DEF Certain
<1> QED  BY <1>2, <1>3, <1>4, <1>5, <1>6, Zenon

-----------------------------------------------------------------------------
\* Several demands are one check: violated if one of them is.
LEMMA AllOfIs ==
    ASSUME NEW J, J \subseteq {"violated", "met", "unproven"}
    PROVE  /\ "violated" \in J => AllOf(J) = "violated"
           /\ "violated" \notin J /\ J \subseteq {"met"} => AllOf(J) = "met"
           /\ "violated" \notin J /\ ~(J \subseteq {"met"}) => AllOf(J) = "unproven"
BY DEF AllOf, Judged

LEMMA CapabilitiesAreKnown ==
    ASSUME NEW section, NEW name, NEW needed, needed \subseteq Capability,
           NEW declared \in (SUBSET Capability) \cup {Unknown}
    PROVE  Certain(AllOf({HasCapability(cap, Registered(section, name),
                              ListedCaps(section, name), declared) : cap \in needed}),
                   Enough(needed, CapsOf(section, name, declared)))
<1> DEFINE J == {HasCapability(cap, Registered(section, name),
                               ListedCaps(section, name), declared) : cap \in needed}
           open == Enough(needed, CapsOf(section, name, declared))
<1>1. J \subseteq {"violated", "met", "unproven"}
  BY DEF HasCapability, Judged
<1>2. SUFFICES Certain(AllOf(J), open)
  OBVIOUS
<1>3. CASE Registered(section, name)
  <2> DEFINE caps == EntryOf(section, name).caps
  <2>1. open = {needed \subseteq caps}
    BY <1>3 DEF CapsOf, Enough
  <2>2. J = {IF cap \in caps THEN "met" ELSE "violated" : cap \in needed}
    BY <1>3 DEF HasCapability, ListedCaps, Judged
  <2> HIDE DEF J, open, caps
  <2>3. CASE needed \subseteq caps
    <3>1. open = {TRUE} /\ J \subseteq {"met"}
      BY <2>1, <2>2, <2>3
    <3>2. AllOf(J) = "met"
      BY <3>1, AllOfIs
    <3> QED  BY <3>1, <3>2 DEF Certain
  <2>4. CASE ~(needed \subseteq caps)
    <3>1. open = {FALSE} /\ "violated" \in J
      BY <2>1, <2>2, <2>4
    <3>2. AllOf(J) = "violated"
      BY <3>1, <1>1, AllOfIs
    <3> QED  BY <3>1, <3>2 DEF Certain
  <2> QED  BY <2>3, <2>4
<1>4. CASE ~Registered(section, name)
  <2> DEFINE least == IF declared = Unknown THEN {} ELSE declared
  <2>1. CapsOf(section, name, declared) =
            {s \in SUBSET Capability : declared # Unknown => declared \subseteq s}
    BY <1>4 DEF CapsOf
  <2>2. least \in CapsOf(section, name, declared) /\ Capability \in CapsOf(section, name, declared)
    <3>1. least \subseteq Capability /\ (declared # Unknown => declared \subseteq least)
      OBVIOUS
    <3>2. declared # Unknown => declared \subseteq Capability
      OBVIOUS
    <3> HIDE DEF least
    <3> QED  BY <2>1, <3>1, <3>2
  <2>3. \A s \in CapsOf(section, name, declared) : least \subseteq s
    BY <2>1
  <2>4. J = {IF cap \in least THEN "met" ELSE "unproven" : cap \in needed}
    BY <1>4 DEF HasCapability, Judged
  <2> HIDE DEF J, open, least
  <2>5. CASE needed \subseteq least
    <3>1. open = {TRUE}
      BY <2>2, <2>3, <2>5 DEF open, Enough
    <3>2. J \subseteq {"met"}
      BY <2>4, <2>5
    <3>3. AllOf(J) = "met"
      BY <3>2, AllOfIs
    <3> QED  BY <3>1, <3>3 DEF Certain
  <2>6. CASE ~(needed \subseteq least)
    <3>1. TRUE \in open /\ FALSE \in open
      BY <2>2, <2>6 DEF open, Enough
    <3>2. "unproven" \in J /\ "violated" \notin J
      BY <2>4, <2>6
    <3>3. AllOf(J) = "unproven"
      BY <3>2, <1>1, AllOfIs
    <3>4. open # {TRUE} /\ open # {FALSE}
      BY <3>1
    <3> QED  BY <3>3, <3>4 DEF Certain
  <2> QED  BY <2>5, <2>6
<1> QED  BY <1>3, <1>4

LEMMA SkillsAreKnown ==
    ASSUME NEW harness, NEW needed, needed \subseteq Skill,
           NEW declared \in (SUBSET Skill) \cup {Unknown}
    PROVE  Certain(AllOf({HasSkill(skill, Registered(Harnesses, harness),
                              ListedSkills(harness), declared) : skill \in needed}),
                   Enough(needed, SkillsOf(harness, declared)))
<1> DEFINE R == Registered(Harnesses, harness)
           listed == IF R THEN EntryOf(Harnesses, harness).skills ELSE {}
           told == IF declared # Unknown THEN declared ELSE {}
           J == {HasSkill(skill, R, ListedSkills(harness), declared) : skill \in needed}
           open == Enough(needed, SkillsOf(harness, declared))
<1>1. J \subseteq {"violated", "met", "unproven"}
  BY DEF HasSkill, Judged
<1>2. SUFFICES Certain(AllOf(J), open)
  OBVIOUS
<1>3. J = {IF skill \in listed \cup told THEN "met"
           ELSE IF R /\ declared # Unknown THEN "violated" ELSE "unproven" : skill \in needed}
  BY DEF HasSkill, Judged, ListedSkills
<1>4. told \subseteq Skill
  OBVIOUS
<1>5. SkillsOf(harness, declared) =
          {s \cup t : s \in IF R THEN {listed} ELSE SUBSET Skill,
                      t \in IF declared # Unknown THEN {told} ELSE SUBSET Skill}
  BY DEF SkillsOf, MayBe
<1>6. R \/ listed = {}
  OBVIOUS
<1>7. declared # Unknown \/ told = {}
  OBVIOUS
<1> HIDE DEF R, listed, told, J
<1>8. \A u \in SkillsOf(harness, declared) : listed \cup told \subseteq u
  BY <1>5, <1>6, <1>7
<1>9. listed \cup told \in SkillsOf(harness, declared)
  <2>1. listed \in IF R THEN {listed} ELSE SUBSET Skill
    BY <1>6
  <2>2. told \in IF declared # Unknown THEN {told} ELSE SUBSET Skill
    BY <1>7
  <2> QED  BY <1>5, <2>1, <2>2
<1>10. CASE needed \subseteq listed \cup told
  <2>1. \A u \in SkillsOf(harness, declared) : needed \subseteq u
    BY <1>8, <1>10
  <2>2. open = {TRUE}
    BY <1>9, <2>1 DEF Enough
  <2>3. J \subseteq {"met"}
    BY <1>3, <1>10
  <2>4. AllOf(J) = "met"
    BY <2>3, AllOfIs
  <2> HIDE DEF open
  <2> QED  BY <2>2, <2>4 DEF Certain
<1>11. CASE ~(needed \subseteq listed \cup told) /\ R /\ declared # Unknown
  <2>1. SkillsOf(harness, declared) = {listed \cup told}
    BY <1>5, <1>11
  <2>2. open = {FALSE}
    BY <2>1, <1>11 DEF Enough
  <2>3. "violated" \in J
    BY <1>3, <1>11
  <2>4. AllOf(J) = "violated"
    BY <2>3, <1>1, AllOfIs
  <2> HIDE DEF open
  <2> QED  BY <2>2, <2>4 DEF Certain
<1>12. CASE ~(needed \subseteq listed \cup told) /\ ~(R /\ declared # Unknown)
  <2>1. \E u \in SkillsOf(harness, declared) : needed \subseteq u
    <3>1. CASE ~R
      <4>1. Skill \in (IF R THEN {listed} ELSE SUBSET Skill)
            /\ told \in IF declared # Unknown THEN {told} ELSE SUBSET Skill
        BY <3>1, <1>4
      <4>2. Skill \cup told \in SkillsOf(harness, declared)
        BY <4>1, <1>5
      <4> QED  BY <4>2
    <3>2. CASE declared = Unknown
      <4>1. listed \in (IF R THEN {listed} ELSE SUBSET Skill)
            /\ Skill \in IF declared # Unknown THEN {told} ELSE SUBSET Skill
        BY <3>2, <1>6
      <4>2. listed \cup Skill \in SkillsOf(harness, declared)
        BY <4>1, <1>5
      <4> QED  BY <4>2
    <3> QED  BY <3>1, <3>2, <1>12
  <2>2. TRUE \in open /\ FALSE \in open
    BY <1>9, <1>12, <2>1 DEF Enough
  <2>3. "unproven" \in J /\ "violated" \notin J
    BY <1>3, <1>12
  <2>4. AllOf(J) = "unproven"
    BY <2>3, <1>1, AllOfIs
  <2> HIDE DEF open
  <2>5. open # {TRUE} /\ open # {FALSE}
    BY <2>2
  <2> QED  BY <2>4, <2>5 DEF Certain
<1> QED  BY <1>10, <1>11, <1>12

-----------------------------------------------------------------------------
\* A family is known by its canonical name, and there is more than one.
LEMMA FamilyIsOne ==
    ASSUME NEW model \in Model \cup {Unknown}, NEW declared \in Family \cup {Unknown}
    PROVE  FamilyOf(model, declared) \in {Canonical(Families, f) : f \in Family} \cup {Unknown}
<1>1. CASE Registered(Models, model)
  <2>1. PICK i : i \in Entry(Models, model)
    BY <1>1 DEF Registered
  <2>2. i \in DOMAIN Models /\ EntryOf(Models, model) = Models[i]
    BY <2>1, RegistryAssumption, EntryIsOne DEF Entry, EntryOf
  <2>3. Models[i].family \in Family
    BY <2>2, NamesAssumption
  <2> QED  BY <1>1, <2>2, <2>3 DEF FamilyOf
<1>2. CASE ~Registered(Models, model)
  BY <1>2 DEF FamilyOf
<1> QED  BY <1>1, <1>2

LEMMA FamiliesAreApart ==
    \A f \in Family : Canonical(Families, f) # Elsewhere
<1>1. SUFFICES ASSUME NEW f \in Family, Canonical(Families, f) = Elsewhere
               PROVE  FALSE
  OBVIOUS
<1>2. f # Elsewhere
  BY NamesAssumption
<1>3. PICK i : i \in Entry(Families, f)
  BY <1>1, <1>2 DEF Canonical
<1>4. i = Elsewhere
  BY <1>1, <1>3, RegistryAssumption, EntryIsOne
<1>5. Elsewhere \in Entry(Families, Elsewhere)
  BY <1>3, <1>4 DEF Entry
<1> QED  BY <1>5, NamesAssumption

LEMMA FamilyIsKnown ==
    ASSUME NEW c, CandidateShape(c), NEW p, PolicyShape(p)
    PROVE  Certain(IF p.otherFamily
                   THEN DifferentFamily(FamilyOf(c.model, c.family), SubjectFamily(p.subject))
                   ELSE "met",
                   Strangers(p.otherFamily, FamiliesOf(FamilyOf(c.model, c.family)),
                             FamiliesOf(SubjectFamily(p.subject))))
<1> DEFINE mine == FamilyOf(c.model, c.family)
           theirs == SubjectFamily(p.subject)
           Names == {Canonical(Families, f) : f \in Family}
           judged == IF p.otherFamily THEN DifferentFamily(mine, theirs) ELSE "met"
           open == Strangers(p.otherFamily, FamiliesOf(mine), FamiliesOf(theirs))
<1>1. SUFFICES Certain(judged, open)
  OBVIOUS
<1>2. mine \in Names \cup {Unknown}
  <2>1. c.model \in Model \cup {Unknown} /\ c.family \in Family \cup {Unknown}
    BY DEF CandidateShape, Fact, Facts
  <2> QED  BY <2>1, FamilyIsOne
<1>3. theirs \in Names \cup {Unknown}
  <2>1. p.subject.model \in Model \cup {Unknown} /\ p.subject.family \in Family \cup {Unknown}
    BY DEF PolicyShape
  <2>2. FamilyOf(p.subject.model, Unknown) \in Names \cup {Unknown}
    BY <2>1, FamilyIsOne
  <2> HIDE DEF Names
  <2>3. p.subject.family # Unknown => Canonical(Families, p.subject.family) \in Names
    BY <2>1 DEF Names
  <2> QED  BY <2>2, <2>3 DEF SubjectFamily
<1>4. /\ FamiliesOf(mine) = IF mine = Unknown THEN Names \cup {Elsewhere} ELSE {mine}
      /\ FamiliesOf(theirs) = IF theirs = Unknown THEN Names \cup {Elsewhere} ELSE {theirs}
  BY DEF FamiliesOf, MayBe
<1>5. PICK n \in Names : n # Elsewhere
  BY NamesAssumption, FamiliesAreApart
<1>6. Elsewhere \notin Names
  BY FamiliesAreApart
<1>7. p.otherFamily \in BOOLEAN
  BY DEF PolicyShape
<1> HIDE DEF mine, theirs, Names
<1>8. FamiliesOf(mine) # {} /\ FamiliesOf(theirs) # {}
  BY <1>4
<1>9. CASE ~p.otherFamily
  <2>1. PICK f \in FamiliesOf(mine), s \in FamiliesOf(theirs) : TRUE
    BY <1>8
  <2>2. open = {TRUE}
    <3>1. <<f, s>> \in FamiliesOf(mine) \X FamiliesOf(theirs)
      OBVIOUS
    <3> QED  BY <1>9, <3>1 DEF Strangers
  <2>3. judged = "met"
    BY <1>9
  <2> HIDE DEF open, judged
  <2> QED  BY <2>2, <2>3 DEF Certain
<1>10. CASE p.otherFamily /\ mine # Unknown /\ theirs # Unknown
  <2>1. FamiliesOf(mine) \X FamiliesOf(theirs) = {<<mine, theirs>>}
    BY <1>4, <1>10
  <2>2. open = {mine # theirs}
    <3>1. <<mine, theirs>>[1] = mine /\ <<mine, theirs>>[2] = theirs
      OBVIOUS
    <3>2. open = {TRUE => <<mine, theirs>>[1] # <<mine, theirs>>[2]}
      BY <1>10, <2>1 DEF Strangers
    <3> QED  BY <3>1, <3>2
  <2>3. judged = IF mine = theirs THEN "violated" ELSE "met"
    BY <1>10 DEF DifferentFamily, Judged
  <2> HIDE DEF open, judged
  <2> QED  BY <2>2, <2>3 DEF Certain
<1>11. CASE p.otherFamily /\ (mine = Unknown \/ theirs = Unknown)
  <2>1. PICK f \in FamiliesOf(mine), s \in FamiliesOf(theirs) : f # s
    BY <1>2, <1>3, <1>4, <1>5, <1>6, <1>11
  <2>2. PICK g \in FamiliesOf(mine), t \in FamiliesOf(theirs) : g = t
    BY <1>2, <1>3, <1>4, <1>5, <1>11
  <2>3. {<<f, s>>, <<g, t>>} \subseteq FamiliesOf(mine) \X FamiliesOf(theirs)
    OBVIOUS
  <2>4. <<f, s>>[1] # <<f, s>>[2] /\ <<g, t>>[1] = <<g, t>>[2]
    BY <2>1, <2>2
  <2>5. TRUE \in open /\ FALSE \in open
    BY <1>11, <2>3, <2>4 DEF Strangers
  <2>6. judged = "unproven"
    BY <1>11 DEF DifferentFamily, Judged
  <2> HIDE DEF open, judged
  <2>7. open # {TRUE} /\ open # {FALSE}
    BY <2>5
  <2> QED  BY <2>6, <2>7 DEF Certain
<1> QED  BY <1>7, <1>9, <1>10, <1>11

-----------------------------------------------------------------------------
\* Every check of a candidate, and the verdict.
LEMMA EveryCheckIsKnown ==
    ASSUME NEW c, CandidateShape(c), NEW p, PolicyShape(p), NEW k \in DOMAIN Worlds(c, p)
    PROVE  Certain(Checks(c, p)[k], Worlds(c, p)[k])
<1>1. /\ c.model \in Model \cup {Unknown} /\ c.harness \in Harness \cup {Unknown}
      /\ c.taskCaps \in (SUBSET Capability) \cup {Unknown}
      /\ c.execCaps \in (SUBSET Capability) \cup {Unknown}
      /\ c.skills \in (SUBSET Skill) \cup {Unknown}
  BY DEF CandidateShape, Fact, Facts
<1>2. p.taskCaps \subseteq Capability /\ p.execCaps \subseteq Capability /\ p.skills \subseteq Skill
  BY DEF PolicyShape
<1>3. k \in {"routeForbidden", "profileForbidden", "modelForbidden", "harnessForbidden",
             "routeState", "harnessAvailable", "modelAllowed", "harnessAllowed",
             "taskCaps", "execCaps", "skills", "family"}
  BY DEF Worlds
<1>4. CASE k = "routeForbidden"
  <2>1. Checks(c, p).routeForbidden =
            Judged(c.route \in p.forbidRoutes, ~RouteDemanded(p) \/ c.route # Unknown)
    BY DEF Checks
  <2>2. Worlds(c, p).routeForbidden =
            {Permitted(p, r) : r \in MayBe(c.route, Route \cup {"none"})}
    BY DEF Worlds
  <2>3. Certain(Judged(c.route \in p.forbidRoutes, ~RouteDemanded(p) \/ c.route # Unknown),
                {Permitted(p, r) : r \in MayBe(c.route, Route \cup {"none"})})
    BY RouteIsKnown
  <2>4. Certain(Checks(c, p).routeForbidden, Worlds(c, p).routeForbidden)
    BY <2>1, <2>2, <2>3, Zenon
  <2> QED  BY <1>4, <2>4
<1>5. CASE k = "profileForbidden"
  <2>1. Checks(c, p).profileForbidden = Forbids(p.forbidProfiles, c.profile, {c.profile})
    BY DEF Checks
  <2>2. Worlds(c, p).profileForbidden =
            {x \notin p.forbidProfiles : x \in MayBe(c.profile, Profile \cup {Elsewhere})}
    BY DEF Worlds
  <2>3. Certain(Forbids(p.forbidProfiles, c.profile, {c.profile}),
                {x \notin p.forbidProfiles : x \in MayBe(c.profile, Profile \cup {Elsewhere})})
    BY ProfileIsKnown
  <2>4. Certain(Checks(c, p).profileForbidden, Worlds(c, p).profileForbidden)
    BY <2>1, <2>2, <2>3, Zenon
  <2> QED  BY <1>5, <2>4
<1>6. CASE k \in {"modelForbidden", "modelAllowed"}
  <2>1. Checks(c, p).modelForbidden = Forbids(p.forbidModels, c.model, NameSet(Models, c.model))
    BY DEF Checks
  <2>2. Worlds(c, p).modelForbidden = LeftOut(Models, p.forbidModels, c.model, Model)
    BY DEF Worlds
  <2>3. Checks(c, p).modelAllowed = Allows(p.models, c.model, NameSet(Models, c.model))
    BY DEF Checks
  <2>4. Worlds(c, p).modelAllowed = LetIn(Models, p.models, c.model, Model)
    BY DEF Worlds
  <2> QED  BY <1>6, <2>1, <2>2, <2>3, <2>4, IdentitiesAreKnown
<1>7. CASE k \in {"harnessForbidden", "harnessAllowed"}
  <2>1. Checks(c, p).harnessForbidden =
            Forbids(p.forbidHarnesses, c.harness, NameSet(Harnesses, c.harness))
    BY DEF Checks
  <2>2. Worlds(c, p).harnessForbidden = LeftOut(Harnesses, p.forbidHarnesses, c.harness, Harness)
    BY DEF Worlds
  <2>3. Checks(c, p).harnessAllowed = Allows(p.harnesses, c.harness, NameSet(Harnesses, c.harness))
    BY DEF Checks
  <2>4. Worlds(c, p).harnessAllowed = LetIn(Harnesses, p.harnesses, c.harness, Harness)
    BY DEF Worlds
  <2> QED  BY <1>7, <2>1, <2>2, <2>3, <2>4, IdentitiesAreKnown
<1>8. CASE k = "routeState"
  <2>1. Checks(c, p).routeState =
            Judged(c.state = "exhausted", ~p.usableRoute \/ c.state \in {"healthy", "constrained"})
    BY DEF Checks
  <2>2. Worlds(c, p).routeState = {s # "exhausted" : s \in Says(c.state,
            IF p.usableRoute THEN {"healthy", "exhausted"} ELSE {"healthy"})}
    BY DEF Worlds
  <2> QED  BY <1>8, <2>1, <2>2, StateIsKnown
<1>9. CASE k = "harnessAvailable"
  <2>1. Checks(c, p).harnessAvailable =
            Judged(c.available = "unavailable", ~HarnessDemanded(p) \/ c.available = "available")
    BY DEF Checks
  <2>2. Worlds(c, p).harnessAvailable = {a = "available" : a \in Says(c.available,
            IF HarnessDemanded(p) THEN {"available", "unavailable"} ELSE {"available"})}
    BY DEF Worlds
  <2> QED  BY <1>9, <2>1, <2>2, AvailabilityIsKnown
<1>10. CASE k = "taskCaps"
  <2>1. Checks(c, p).taskCaps = AllOf({HasCapability(cap, Registered(Models, c.model),
            ListedCaps(Models, c.model), c.taskCaps) : cap \in p.taskCaps})
    BY DEF Checks
  <2>2. Worlds(c, p).taskCaps = Enough(p.taskCaps, CapsOf(Models, c.model, c.taskCaps))
    BY DEF Worlds
  <2>3. Certain(AllOf({HasCapability(cap, Registered(Models, c.model),
                    ListedCaps(Models, c.model), c.taskCaps) : cap \in p.taskCaps}),
                Enough(p.taskCaps, CapsOf(Models, c.model, c.taskCaps)))
    BY <1>1, <1>2, CapabilitiesAreKnown
  <2> QED  BY <1>10, <2>1, <2>2, <2>3
<1>11. CASE k = "execCaps"
  <2>1. Checks(c, p).execCaps = AllOf({HasCapability(cap, Registered(Harnesses, c.harness),
            ListedCaps(Harnesses, c.harness), c.execCaps) : cap \in p.execCaps})
    BY DEF Checks
  <2>2. Worlds(c, p).execCaps = Enough(p.execCaps, CapsOf(Harnesses, c.harness, c.execCaps))
    BY DEF Worlds
  <2>3. Certain(AllOf({HasCapability(cap, Registered(Harnesses, c.harness),
                    ListedCaps(Harnesses, c.harness), c.execCaps) : cap \in p.execCaps}),
                Enough(p.execCaps, CapsOf(Harnesses, c.harness, c.execCaps)))
    BY <1>1, <1>2, CapabilitiesAreKnown
  <2> QED  BY <1>11, <2>1, <2>2, <2>3
<1>12. CASE k = "skills"
  <2>1. Checks(c, p).skills = AllOf({HasSkill(skill, Registered(Harnesses, c.harness),
            ListedSkills(c.harness), c.skills) : skill \in p.skills})
    BY DEF Checks
  <2>2. Worlds(c, p).skills = Enough(p.skills, SkillsOf(c.harness, c.skills))
    BY DEF Worlds
  <2>3. Certain(AllOf({HasSkill(skill, Registered(Harnesses, c.harness),
                    ListedSkills(c.harness), c.skills) : skill \in p.skills}),
                Enough(p.skills, SkillsOf(c.harness, c.skills)))
    BY <1>1, <1>2, SkillsAreKnown
  <2> QED  BY <1>12, <2>1, <2>2, <2>3
<1>13. CASE k = "family"
  <2>1. Checks(c, p).family =
            IF p.otherFamily
            THEN DifferentFamily(FamilyOf(c.model, c.family), SubjectFamily(p.subject))
            ELSE "met"
    BY DEF Checks
  <2>2. Worlds(c, p).family =
            Strangers(p.otherFamily, FamiliesOf(FamilyOf(c.model, c.family)),
                      FamiliesOf(SubjectFamily(p.subject)))
    BY DEF Worlds
  <2> QED  BY <1>13, <2>1, <2>2, FamilyIsKnown
<1> QED  BY <1>3, <1>4, <1>5, <1>6, <1>7, <1>8, <1>9, <1>10, <1>11, <1>12, <1>13

LEMMA VerdictIsSure ==
    ASSUME NEW c, CandidateShape(c), NEW p, PolicyShape(p)
    PROVE  Verdict(c, p) = "eligible" <=> \A k \in DOMAIN Worlds(c, p) : Worlds(c, p)[k] = {TRUE}
<1>1. DOMAIN Worlds(c, p) = DOMAIN Checks(c, p)
  BY DEF Worlds, Checks
<1>2. \A k \in DOMAIN Worlds(c, p) : Checks(c, p)[k] = "met" <=> Worlds(c, p)[k] = {TRUE}
  BY EveryCheckIsKnown DEF Certain
<1>3. Verdict(c, p) = "eligible" <=> Reasons(c, p) = {}
  BY DEF Verdict
<1>4. Reasons(c, p) = {k \in DOMAIN Checks(c, p) : Checks(c, p)[k] # "met"}
  BY DEF Reasons
<1> QED  BY <1>1, <1>2, <1>3, <1>4

-----------------------------------------------------------------------------
EligibilityType == policy \in Policies /\ CandidateShape(candidate) /\ DOMAIN candidate = Fact

LEMMA ObserveKeeps ==
    ASSUME EligibilityType, NEW f \in Fact, Observe(f)
    PROVE  EligibilityType'
<1>1. PICK v \in Facts[f] : candidate' = [candidate EXCEPT ![f] = v]
  BY DEF Observe
<1>2. policy' = policy /\ DOMAIN candidate' = Fact
  BY <1>1 DEF Observe, EligibilityType
<1>3. \A g \in Fact : candidate'[g] = IF g = f THEN v ELSE candidate[g]
  BY <1>1 DEF EligibilityType
<1>4. CandidateShape(candidate')
  BY <1>1, <1>3 DEF EligibilityType, CandidateShape
<1> QED  BY <1>2, <1>4 DEF EligibilityType

LEMMA KnownIsJudged ==
    ASSUME EligibilityType
    PROVE  JudgedByEvidence
<1>1. CandidateShape(candidate) /\ PolicyShape(policy)
  BY NamesAssumption DEF EligibilityType
<1> QED  BY <1>1, EveryCheckIsKnown DEF JudgedByEvidence, Certain

\* Each check of a candidate is met exactly when it holds in every world the
\* evidence leaves open, and violated exactly when it fails in every one:
\* evaluate() of lib/eligibility.js guesses nothing, whatever the names, the
\* registry, the policies and the candidate.
THEOREM EvidenceDecides == EligibilityInit /\ [][EligibilityNext]_eligibilityVars => []JudgedByEvidence
<1>1. EligibilityInit => EligibilityType
  BY DEF EligibilityInit, EligibilityType, Nobody, CandidateShape
<1>2. EligibilityType /\ [EligibilityNext]_eligibilityVars => EligibilityType'
  <2>1. ASSUME EligibilityType, UNCHANGED eligibilityVars
        PROVE  EligibilityType'
    BY <2>1 DEF EligibilityType, eligibilityVars
  <2> QED  BY <2>1, ObserveKeeps DEF EligibilityNext
<1>3. EligibilityType => JudgedByEvidence
  BY KnownIsJudged
<1> QED  BY <1>1, <1>2, <1>3, PTL

-----------------------------------------------------------------------------
\* The advice.
\* The first record of an item counts.
LEMMA FirstCounts ==
    ASSUME NEW items, NEW S, items \in Seq(S), NEW i, \E k \in DOMAIN items : items[k].id = i
    PROVE  \E m \in DOMAIN items : /\ items[m].id = i /\ ItemVerdict(items, i) = items[m].verdict
                                   /\ \A l \in DOMAIN items : items[l].id = i => m <= l
<1> DEFINE at == {k \in DOMAIN items : items[k].id = i}
<1>1. at \subseteq Nat /\ at # {}
  OBVIOUS
<1>2. \E m \in at : \A l \in at : m <= l
  BY <1>1, First
<1> DEFINE m == CHOOSE k \in at : \A l \in at : k <= l
<1>3. m \in at /\ \A l \in at : m <= l
  BY <1>2
<1>4. ItemVerdict(items, i) = items[m].verdict
  BY <1>1 DEF ItemVerdict
<1> QED  BY <1>3, <1>4

LEMMA EveryItemPasses ==
    ASSUME NEW items, NEW S, items \in Seq(S), NothingBlocks(items)
    PROVE  /\ Item \subseteq {items[k].id : k \in DOMAIN items}
           /\ \A k \in DOMAIN items :
                  items[k].verdict # "pass" => \E l \in 1 .. k - 1 : items[l].id = items[k].id
                                                                     /\ items[k].id \in Item
<1>1. ASSUME NEW i \in Item
      PROVE  \E k \in DOMAIN items : items[k].id = i
  <2>1. ItemVerdict(items, i) = "pass"
    BY DEF NothingBlocks
  <2> QED  BY <2>1 DEF ItemVerdict
<1>2. ASSUME NEW k \in DOMAIN items, items[k].verdict # "pass"
      PROVE  \E l \in 1 .. k - 1 : items[l].id = items[k].id /\ items[k].id \in Item
  <2>1. items[k].id \in Item
    BY <1>2 DEF NothingBlocks
  <2>2. PICK m \in DOMAIN items : /\ items[m].id = items[k].id
                                  /\ ItemVerdict(items, items[k].id) = items[m].verdict
                                  /\ \A l \in DOMAIN items : items[l].id = items[k].id => m <= l
    BY FirstCounts
  <2>3. items[m].verdict = "pass"
    BY <2>1, <2>2 DEF NothingBlocks
  <2>4. m <= k /\ m # k /\ m \in Nat /\ k \in Nat /\ m >= 1
    BY <1>2, <2>2, <2>3
  <2> QED  BY <2>1, <2>2, <2>4
<1> QED  BY <1>1, <1>2

-----------------------------------------------------------------------------
\* What holds at each stage.
Stages == {"verify", "gate", "evaluate", "suggest", "score", "done"}
Contacts ==
    /\ request \in Requests /\ stage \in Stages
    /\ stage = "verify" => contacted = {}
    /\ contacted # {} => NothingBlocks(request.readiness) /\ Transport(request)
    /\ "classify" \in contacted => verified /\ stage # "gate"
Judgements == stage \in {"suggest", "score", "done"} =>
    eligible = {i \in DOMAIN request.list : VerdictOf(request.list, i, PolicyOf(request)) = "eligible"}
Advised == stage = "done" =>
    advice = IF eligible = {} THEN Nothing ELSE request.list[CHOOSE i \in Best : TRUE].id
RecommendInv == Contacts /\ Judgements /\ Advised

LEMMA RecommendStarts == RecommendInit => RecommendInv
BY DEF RecommendInit, RecommendInv, Contacts, Judgements, Advised, Stages

LEMMA RecommendStep ==
    ASSUME RecommendInv, [RecommendNext]_recommendVars
    PROVE  RecommendInv'
<1> USE DEF RecommendInv, Stages, jevVars
<1>1. CASE VerifySkipped
  BY <1>1 DEF VerifySkipped, Contacts, Judgements, Advised
<1>2. CASE VerifyAsked
  BY <1>2 DEF VerifyAsked, Contacts, Judgements, Advised
<1>3. CASE GateClosed
  BY <1>3 DEF GateClosed, Contacts, Judgements, Advised
<1>4. CASE ClassifyFailed
  BY <1>4 DEF ClassifyFailed, GateOpen, Contacts, Judgements, Advised
<1>5. ASSUME NEW reply \in Replies, Classified(reply)
      PROVE  RecommendInv'
  BY <1>5 DEF Classified, GateOpen, Contacts, Judgements, Advised
<1>6. CASE Evaluate
  BY <1>6 DEF Evaluate, Contacts, Judgements, Advised
<1>7. CASE Suggest
  BY <1>7 DEF Suggest, Contacts, Judgements, Advised
<1>8. CASE Rank
  <2>1. Best' = Best
    BY <1>8 DEF Rank, Best
  <2>2. Advised'
    BY <1>8, <2>1 DEF Rank, Advised
  <2> QED  BY <1>8, <2>2 DEF Rank, Contacts, Judgements
<1>9. CASE UNCHANGED recommendVars
  <2>1. Best' = Best
    BY <1>9 DEF recommendVars, Best
  <2> QED  BY <1>9, <2>1 DEF recommendVars, Contacts, Judgements, Advised
<1> QED  BY <1>1, <1>2, <1>3, <1>4, <1>5, <1>6, <1>7, <1>8, <1>9 DEF RecommendNext

LEMMA ReadyBeforeContact ==
    ASSUME RecommendInv
    PROVE  DormantUnlessReady
<1>1. SUFFICES ASSUME contacted # {}
               PROVE  DormantUnlessReady
  BY DEF DormantUnlessReady
<1>2. NothingBlocks(request.readiness) /\ Transport(request) /\ ("classify" \in contacted => verified)
  BY <1>1 DEF RecommendInv, Contacts
<1>3. request.readiness \in Seq({request.readiness[k] : k \in DOMAIN request.readiness})
  BY RequestAssumption DEF RecommendInv, Contacts
<1> QED  BY <1>2, <1>3, EveryItemPasses DEF DormantUnlessReady, Transport

-----------------------------------------------------------------------------
\* Scores are numbers, and each part of a score is at least 0.
LEMMA RoundIsNat ==
    ASSUME NEW a \in Nat, NEW b \in Nat \ {0}
    PROVE  Round(a, b) \in Nat
<1>1. 2 * a + b \in Nat /\ 2 * b \in Nat \ {0}
  OBVIOUS
<1>2. ASSUME NEW x \in Nat, NEW y \in Nat \ {0}
      PROVE  x \div y \in Nat
  OBVIOUS
<1> QED  BY <1>1, <1>2 DEF Round

LEMMA NeededIsFinite ==
    ASSUME NEW p, NEW caps
    PROVE  /\ Cardinality(NeededCaps(p) \cap caps) \in Nat
           /\ Cardinality(NeededCaps(p)) \in Nat \ {0}
<1>1. /\ IsFiniteSet({}) /\ IsFiniteSet({"code"}) /\ IsFiniteSet({"review"})
      /\ IsFiniteSet({"reasoning"}) /\ IsFiniteSet({"code", "tool-use"})
  <2>1. {"code", "tool-use"} = {"code"} \cup {"tool-use"}
    OBVIOUS
  <2>2. IsFiniteSet({})
    BY FS_EmptySet
  <2>3. \A x : IsFiniteSet({x})
    BY FS_Singleton
  <2>4. IsFiniteSet({"code"} \cup {"tool-use"})
    BY <2>3, FS_Union
  <2> QED  BY <2>1, <2>2, <2>3, <2>4
<1> DEFINE A == CASE p["taskKind"] = "code" -> {"code"} [] p["taskKind"] = "review" -> {"review"}
                  [] OTHER -> {"code", "tool-use"}
           B == IF p["reasoning"] = "deep" THEN {"reasoning"} ELSE {}
           C == IF p["verification"] = "independent-review" THEN {"review"} ELSE {}
<1>2. IsFiniteSet(A) /\ A # {}
  <2>1. A \in {{"code"}, {"review"}, {"code", "tool-use"}}
    OBVIOUS
  <2> HIDE DEF A
  <2> QED  BY <1>1, <2>1
<1>3. IsFiniteSet(B) /\ IsFiniteSet(C)
  BY <1>1
<1>4. NeededCaps(p) = (A \cup B) \cup C
  BY DEF NeededCaps
<1> HIDE DEF A, B, C
<1>5. IsFiniteSet(NeededCaps(p)) /\ NeededCaps(p) # {}
  BY <1>2, <1>3, <1>4, FS_Union
<1>6. IsFiniteSet(NeededCaps(p) \cap caps)
  BY <1>5, FS_Intersection
<1>7. /\ Cardinality(NeededCaps(p)) \in Nat /\ Cardinality(NeededCaps(p) \cap caps) \in Nat
  BY <1>5, <1>6, FS_CardinalityType
<1>8. Cardinality(NeededCaps(p)) # 0
  BY <1>5, FS_EmptySet
<1> QED  BY <1>7, <1>8

PressureOf(c) ==
    IF c.route = Unknown THEN 0
    ELSE IF c.state = "healthy" THEN 1000
    ELSE IF c.state = "constrained" THEN 400
    ELSE 0

LEMMA HalfRounded == Round(0, 2) = 0 /\ Round(400, 2) = 200 /\ Round(1000, 2) = 500
BY DEF Round

LEMMA PressureIs ==
    ASSUME NEW c, NEW timed
    PROVE  /\ PressureOf(c) \in {0, 400, 1000}
           /\ ResourcePressure(c, timed) = IF ~timed \/ c.fresh = "fresh" THEN PressureOf(c)
                                           ELSE Round(PressureOf(c), 2)
           /\ ResourcePressure(c, timed) \in Nat /\ ResourcePressure(c, timed) <= PressureOf(c)
<1>1. PressureOf(c) \in {0, 400, 1000}
  BY DEF PressureOf
<1>2. ResourcePressure(c, timed) = IF ~timed \/ c.fresh = "fresh" THEN PressureOf(c)
                                   ELSE Round(PressureOf(c), 2)
  BY DEF ResourcePressure, PressureOf
<1> QED  BY <1>1, <1>2, HalfRounded

LEMMA TaskFitIsNat ==
    ASSUME NEW c, NEW p
    PROVE  TaskFit(c, p) \in Nat
<1>1. ASSUME NEW caps
      PROVE  Round(1000 * Cardinality(NeededCaps(p) \cap caps), Cardinality(NeededCaps(p))) \in Nat
  <2>1. /\ Cardinality(NeededCaps(p) \cap caps) \in Nat
        /\ Cardinality(NeededCaps(p)) \in Nat \ {0}
    BY NeededIsFinite
  <2>2. 1000 * Cardinality(NeededCaps(p) \cap caps) \in Nat
    BY <2>1
  <2> QED  BY <2>1, <2>2, RoundIsNat
<1> QED  BY <1>1 DEF TaskFit

LEMMA TiersAre ==
    ASSUME NEW value
    PROVE  /\ TierOf(CostTier, value) \in {1000, 500, 100, Unknown}
           /\ TierOf(SpeedTier, value) \in {1000, 600, 200, Unknown}
BY DEF TierOf, CostTier, SpeedTier

LEMMA CostSpeedIsNat ==
    ASSUME NEW c, NEW prefs, prefs.cost \in BOOLEAN, prefs.speed \in BOOLEAN
    PROVE  CostSpeed(c, prefs) \in Nat
<1>1. \A x \in {1000, 500, 100}, y \in {1000, 600, 200} : Round(x + y, 2) \in Nat
  BY RoundIsNat
<1> QED  BY <1>1, TiersAre DEF CostSpeed

LEMMA PartsAreNat ==
    ASSUME NEW c, NEW r \in Requests, NEW p
    PROVE  /\ TaskFit(c, p) \in Nat /\ HarnessAffinity(c, r.caller) \in Nat
           /\ ResourcePressure(c, r.clock) \in Nat /\ CostSpeed(c, r.prefs) \in Nat
           /\ Continuity(c, r.caller) \in Nat /\ ReviewIndependence(c, PolicyOf(r)) \in Nat
<1>1. r.prefs.cost \in BOOLEAN /\ r.prefs.speed \in BOOLEAN
  BY RequestAssumption
<1>2. HarnessAffinity(c, r.caller) \in Nat
  BY DEF HarnessAffinity
<1>3. Continuity(c, r.caller) \in Nat
  BY DEF Continuity
<1>4. ReviewIndependence(c, PolicyOf(r)) \in Nat
  BY DEF ReviewIndependence
<1> QED  BY <1>1, <1>2, <1>3, <1>4, TaskFitIsNat, PressureIs, CostSpeedIsNat

LEMMA ScoreIsNat ==
    ASSUME NEW c, NEW r \in Requests, NEW p
    PROVE  Score(c, r, p) \in Nat
BY PartsAreNat DEF Score

\* A score that is no less in every part is no less.
LEMMA ScoresByParts ==
    ASSUME NEW c, NEW d, NEW r \in Requests, NEW p,
           TaskFit(c, p) <= TaskFit(d, p),
           HarnessAffinity(c, r.caller) <= HarnessAffinity(d, r.caller),
           ResourcePressure(c, r.clock) <= ResourcePressure(d, r.clock),
           CostSpeed(c, r.prefs) <= CostSpeed(d, r.prefs),
           Continuity(c, r.caller) <= Continuity(d, r.caller),
           ReviewIndependence(c, PolicyOf(r)) <= ReviewIndependence(d, PolicyOf(r))
    PROVE  Score(c, r, p) <= Score(d, r, p)
BY PartsAreNat DEF Score

\* What one more fact changes.
LEMMA UnprovenFact ==
    ASSUME NEW c, OfferShape(c), NEW r \in Requests, NEW p, NEW f \in DOMAIN ScoredFacts,
           f # "model", c[f] = Unknown, NEW v \in ScoredFacts[f]
    PROVE  Score(c, r, p) <= Score([c EXCEPT ![f] = v], r, p)
<1> DEFINE d == [c EXCEPT ![f] = v]
           fields == {"model", "harness", "available", "profile", "family", "skills", "taskCaps",
                      "execCaps", "route", "state", "id", "fresh", "cost", "speed"}
<1>1. DOMAIN c = fields
  BY DEF OfferShape, Fact, Facts
<1>2. f \in {"harness", "profile", "route", "family", "taskCaps", "state", "fresh", "cost", "speed"}
  BY DEF ScoredFacts
<1>3. \A g \in fields : g # f => d[g] = c[g]
  BY <1>1
<1>4. d[f] = v
  BY <1>1, <1>2
<1> HIDE DEF d, fields
<1>5. f # "taskCaps" => TaskFit(c, p) = TaskFit(d, p)
  <2>1. f # "taskCaps" => d.model = c.model /\ d.taskCaps = c.taskCaps
    BY <1>2, <1>3 DEF fields
  <2>2. SUFFICES ASSUME f # "taskCaps"
                 PROVE  TaskFit(c, p) = TaskFit(d, p)
    OBVIOUS
  <2> DEFINE told(m, declared) ==
                 LET caps == IF Registered(Models, m) THEN ListedCaps(Models, m) ELSE declared
                 IN IF ~Resolved(p, "taskKind") \/ caps = Unknown THEN 0
                    ELSE Round(1000 * Cardinality(NeededCaps(p) \cap caps), Cardinality(NeededCaps(p)))
  <2>3. TaskFit(c, p) = told(c.model, c.taskCaps) /\ TaskFit(d, p) = told(d.model, d.taskCaps)
    BY DEF TaskFit
  <2> HIDE DEF told
  <2> QED  BY <2>1, <2>2, <2>3
<1>6. f # "harness" => HarnessAffinity(c, r.caller) = HarnessAffinity(d, r.caller)
  BY <1>2, <1>3 DEF HarnessAffinity, fields
<1>7. f \notin {"route", "state", "fresh"} => ResourcePressure(c, r.clock) = ResourcePressure(d, r.clock)
  BY <1>2, <1>3 DEF ResourcePressure, fields
<1>8. f \notin {"cost", "speed"} => CostSpeed(c, r.prefs) = CostSpeed(d, r.prefs)
  BY <1>2, <1>3 DEF CostSpeed, fields
<1>9. f # "profile" => Continuity(c, r.caller) = Continuity(d, r.caller)
  BY <1>2, <1>3 DEF Continuity, fields
<1>10. f # "family" => ReviewIndependence(c, PolicyOf(r)) = ReviewIndependence(d, PolicyOf(r))
  BY <1>2, <1>3 DEF ReviewIndependence, fields
<1>11. /\ TaskFit(c, p) \in Nat /\ HarnessAffinity(c, r.caller) \in Nat
       /\ ResourcePressure(c, r.clock) \in Nat /\ CostSpeed(c, r.prefs) \in Nat
       /\ Continuity(c, r.caller) \in Nat /\ ReviewIndependence(c, PolicyOf(r)) \in Nat
       /\ TaskFit(d, p) \in Nat /\ HarnessAffinity(d, r.caller) \in Nat
       /\ ResourcePressure(d, r.clock) \in Nat /\ CostSpeed(d, r.prefs) \in Nat
       /\ Continuity(d, r.caller) \in Nat /\ ReviewIndependence(d, PolicyOf(r)) \in Nat
  BY PartsAreNat
<1>12. TaskFit(c, p) <= TaskFit(d, p)
  <2>1. CASE f = "taskCaps" /\ Registered(Models, c.model)
    <3>1. d.model = c.model
      BY <1>3, <2>1 DEF fields
    <3>2. TaskFit(d, p) = TaskFit(c, p)
      BY <3>1, <2>1 DEF TaskFit
    <3> QED  BY <3>2, <1>11
  <2>2. CASE f = "taskCaps" /\ ~Registered(Models, c.model)
    <3>1. TaskFit(c, p) = 0
      BY <2>2 DEF TaskFit
    <3> QED  BY <3>1, <1>11
  <2> QED  BY <1>5, <1>11, <2>1, <2>2
<1>13. HarnessAffinity(c, r.caller) <= HarnessAffinity(d, r.caller)
  <2>1. f = "harness" => HarnessAffinity(c, r.caller) = 0
    BY DEF HarnessAffinity
  <2> QED  BY <1>6, <1>11, <2>1
<1>14. ResourcePressure(c, r.clock) <= ResourcePressure(d, r.clock)
  <2>1. ASSUME f \in {"route", "state"}
        PROVE  ResourcePressure(c, r.clock) = 0
    <3>1. PressureOf(c) = 0
      BY <2>1, NamesAssumption DEF PressureOf
    <3> QED  BY <3>1, HalfRounded, PressureIs
  <2>2. ASSUME f = "fresh"
        PROVE  ResourcePressure(c, r.clock) <= ResourcePressure(d, r.clock)
    <3>1. PressureOf(d) = PressureOf(c)
      BY <2>2, <1>3 DEF PressureOf, fields
    <3>2. c.fresh # "fresh"
      BY <2>2, RequestAssumption
    <3>3. ResourcePressure(c, r.clock) = IF ~r.clock THEN PressureOf(c) ELSE Round(PressureOf(c), 2)
      BY <3>2, PressureIs
    <3>4. ResourcePressure(d, r.clock) \in {PressureOf(c), Round(PressureOf(c), 2)}
          /\ (~r.clock => ResourcePressure(d, r.clock) = PressureOf(c))
      BY <3>1, PressureIs
    <3>5. PressureOf(c) \in {0, 400, 1000}
      BY PressureIs
    <3> QED  BY <3>3, <3>4, <3>5, HalfRounded
  <2> QED  BY <1>7, <1>11, <2>1, <2>2
<1>15. CostSpeed(c, r.prefs) <= CostSpeed(d, r.prefs)
  <2>1. CASE f = "cost"
    <3>1. d.speed = c.speed /\ TierOf(CostTier, c.cost) = Unknown
      BY <2>1, <1>3 DEF fields, TierOf
    <3>2. r.prefs.cost \/ CostSpeed(c, r.prefs) = CostSpeed(d, r.prefs)
      BY <3>1 DEF CostSpeed
    <3>3. r.prefs.cost => CostSpeed(c, r.prefs) = 0
      BY <3>1 DEF CostSpeed
    <3> QED  BY <3>2, <3>3, <1>11
  <2>2. CASE f = "speed"
    <3>1. d.cost = c.cost /\ TierOf(SpeedTier, c.speed) = Unknown
      BY <2>2, <1>3 DEF fields, TierOf
    <3>2. r.prefs.speed \/ CostSpeed(c, r.prefs) = CostSpeed(d, r.prefs)
      BY <3>1 DEF CostSpeed
    <3>3. r.prefs.speed => CostSpeed(c, r.prefs) = 0
      BY <3>1 DEF CostSpeed
    <3> QED  BY <3>2, <3>3, <1>11
  <2> QED  BY <1>8, <1>11, <2>1, <2>2
<1>16. Continuity(c, r.caller) <= Continuity(d, r.caller)
  <2>1. f = "profile" => Continuity(c, r.caller) = 0
    BY DEF Continuity
  <2> QED  BY <1>9, <1>11, <2>1
<1>17. ReviewIndependence(c, PolicyOf(r)) <= ReviewIndependence(d, PolicyOf(r))
  <2>1. CASE f = "family" /\ Registered(Models, c.model)
    <3>1. d.model = c.model
      BY <1>3, <2>1 DEF fields
    <3>2. ReviewIndependence(d, PolicyOf(r)) = ReviewIndependence(c, PolicyOf(r))
      BY <3>1, <2>1 DEF ReviewIndependence, FamilyOf
    <3> QED  BY <3>2, <1>11
  <2>2. CASE f = "family" /\ ~Registered(Models, c.model)
    <3>1. FamilyOf(c.model, c.family) = Unknown
      BY <2>2 DEF FamilyOf
    <3>2. ReviewIndependence(c, PolicyOf(r)) \in {0, ReviewIndependence(d, PolicyOf(r))}
      BY <3>1 DEF ReviewIndependence, DifferentFamily, Judged
    <3> QED  BY <3>2, <1>11
  <2> QED  BY <1>10, <1>11, <2>1, <2>2
<1>18. Score(c, r, p) <= Score(d, r, p)
  BY <1>12, <1>13, <1>14, <1>15, <1>16, <1>17, ScoresByParts
<1> QED  BY <1>18 DEF d

\* What a model changes: nothing but the task fit and the review's independence,
\* which without a registered model are those of what the candidate declares.
LEMMA UnprovenModel ==
    ASSUME NEW c, OfferShape(c), NEW r \in Requests, NEW p, c.model = Unknown, NEW v
    PROVE  LET d == [c EXCEPT !.model = v]
           IN IF Registered(Models, v) THEN Score(Undeclared(c), r, p) <= Score(d, r, p)
              ELSE Score(c, r, p) = Score(d, r, p)
<1> DEFINE d == [c EXCEPT !.model = v]
           u == Undeclared(c)
           fields == {"model", "harness", "available", "profile", "family", "skills", "taskCaps",
                      "execCaps", "route", "state", "id", "fresh", "cost", "speed"}
           same(a, b) == /\ a.harness = b.harness /\ a.route = b.route /\ a.state = b.state
                         /\ a.fresh = b.fresh /\ a.cost = b.cost /\ a.speed = b.speed
                         /\ a.profile = b.profile
<1>1. DOMAIN c = fields
  BY DEF OfferShape, Fact, Facts
<1>2. same(d, c) /\ d.model = v /\ d.taskCaps = c.taskCaps /\ d.family = c.family
  BY <1>1
<1>3. same(u, c) /\ u.model = Unknown /\ u.taskCaps = Unknown /\ u.family = Unknown
  BY <1>1 DEF Undeclared
<1> HIDE DEF d, u, fields
<1>4. ASSUME NEW a, same(a, c)
      PROVE  /\ HarnessAffinity(a, r.caller) = HarnessAffinity(c, r.caller)
             /\ ResourcePressure(a, r.clock) = ResourcePressure(c, r.clock)
             /\ CostSpeed(a, r.prefs) = CostSpeed(c, r.prefs)
             /\ Continuity(a, r.caller) = Continuity(c, r.caller)
  BY <1>4 DEF HarnessAffinity, ResourcePressure, CostSpeed, Continuity
<1>5. ASSUME Registered(Models, v)
      PROVE  Score(u, r, p) <= Score(d, r, p)
  <2>1. TaskFit(u, p) = 0
    BY <1>3 DEF TaskFit, Registered
  <2>2. FamilyOf(u.model, u.family) = Unknown
    BY <1>3 DEF FamilyOf, Registered
  <2>3. ReviewIndependence(u, PolicyOf(r)) \in {0, ReviewIndependence(d, PolicyOf(r))}
    BY <2>2 DEF ReviewIndependence, DifferentFamily, Judged
  <2> QED  BY <1>2, <1>3, <1>4, <2>1, <2>3, PartsAreNat, ScoresByParts
<1>6. ASSUME ~Registered(Models, v)
      PROVE  Score(c, r, p) = Score(d, r, p)
  <2>1. TaskFit(c, p) = TaskFit(d, p)
    <3> DEFINE told(caps) ==
                   IF ~Resolved(p, "taskKind") \/ caps = Unknown THEN 0
                   ELSE Round(1000 * Cardinality(NeededCaps(p) \cap caps), Cardinality(NeededCaps(p)))
    <3>1. ~Registered(Models, c.model) /\ ~Registered(Models, d.model)
      BY <1>2, <1>6 DEF Registered
    <3>2. TaskFit(c, p) = told(c.taskCaps) /\ TaskFit(d, p) = told(d.taskCaps)
      BY <3>1 DEF TaskFit
    <3> HIDE DEF told
    <3> QED  BY <1>2, <3>2
  <2>2. FamilyOf(c.model, c.family) = FamilyOf(d.model, d.family)
    BY <1>2, <1>6 DEF FamilyOf, Registered
  <2>3. ReviewIndependence(c, PolicyOf(r)) = ReviewIndependence(d, PolicyOf(r))
    BY <2>2 DEF ReviewIndependence
  <2> QED  BY <1>2, <1>4, <2>1, <2>3 DEF Score
<1> QED  BY <1>5, <1>6 DEF d, u

LEMMA UnprovenIsLowest ==
    ASSUME RecommendInv
    PROVE  UnprovenScoresLowest
<1>1. request \in Requests
  BY DEF RecommendInv, Contacts
<1>2. \A c \in Offered : OfferShape(c)
  BY <1>1, RequestAssumption DEF Offered
<1>3. SUFFICES ASSUME NEW c \in Offered, NEW f \in DOMAIN ScoredFacts, c[f] = Unknown,
                      NEW v \in ScoredFacts[f]
               PROVE  LET proven == Score([c EXCEPT ![f] = v], request, profile)
                      IN IF f # "model" THEN Score(c, request, profile) <= proven
                         ELSE IF Registered(Models, v)
                         THEN Score(Undeclared(c), request, profile) <= proven
                         ELSE Score(c, request, profile) = proven
  BY DEF UnprovenScoresLowest
<1>4. CASE f # "model"
  BY <1>1, <1>2, <1>3, <1>4, UnprovenFact
<1>5. CASE f = "model"
  <2>1. OfferShape(c) /\ c.model = Unknown
    BY <1>2, <1>3, <1>5
  <2> QED  BY <1>1, <1>5, <2>1, UnprovenModel
<1> QED  BY <1>4, <1>5

-----------------------------------------------------------------------------
\* Candidates of different ids are ordered: one of them outranks the others.
LEMMA Ordered ==
    ASSUME NEW r \in Requests, NEW p, NEW c, NEW d, NEW e,
           c.id \in Nat, d.id \in Nat, e.id \in Nat
    PROVE  /\ c.id # d.id => Outranks(c, d, r, p) \/ Outranks(d, c, r, p)
           /\ Outranks(c, d, r, p) /\ Outranks(d, e, r, p) => Outranks(c, e, r, p)
<1>1. Score(c, r, p) \in Nat /\ Score(d, r, p) \in Nat /\ Score(e, r, p) \in Nat
  BY ScoreIsNat
<1> QED  BY <1>1 DEF Outranks

Winner(list, S, i, r, p) == i \in S /\ \A j \in S \ {i} : Outranks(list[i], list[j], r, p)

LEMMA OneWins ==
    ASSUME NEW r \in Requests, NEW p, NEW list, NEW N \in Nat,
           NEW S, S \subseteq 1 .. N, S # {},
           \A i \in S : list[i].id \in Nat,
           \A i, j \in S : i # j => list[i].id # list[j].id
    PROVE  \E i \in S : Winner(list, S, i, r, p)
<1> DEFINE Upto(n) == S \cap 1 .. n
           Without == {n \in Nat : Upto(n) # {} /\ ~ \E i \in S : Winner(list, Upto(n), i, r, p)}
<1>1. SUFFICES ASSUME Without # {}
               PROVE  FALSE
  <2>1. Upto(N) = S
    OBVIOUS
  <2>2. N \notin Without => \E i \in S : Winner(list, S, i, r, p)
    BY <2>1
  <2> QED  BY <2>2
<1>2. PICK n \in Without : \A k \in Without : n <= k
  BY <1>1, First
<1>3. n # 0
  BY <1>2
<1>4. n - 1 \in Nat /\ n - 1 \notin Without
  <2>1. n \in Nat
    OBVIOUS
  <2> HIDE DEF Without
  <2> QED  BY <1>2, <1>3, <2>1
<1>5. Upto(n) = IF n \in S THEN Upto(n - 1) \cup {n} ELSE Upto(n - 1)
  BY <1>3
<1>6. CASE Upto(n - 1) = {}
  <2>1. Upto(n) = {n} /\ n \in S
    BY <1>2, <1>5, <1>6
  <2> HIDE DEF Upto
  <2>2. Winner(list, Upto(n), n, r, p)
    BY <2>1 DEF Winner
  <2> QED  BY <1>2, <2>1, <2>2
<1>7. ASSUME NEW b \in S, Winner(list, Upto(n - 1), b, r, p)
      PROVE  \E i \in S : Winner(list, Upto(n), i, r, p)
  <2>1. b \in Upto(n - 1) /\ b # n
    BY <1>7 DEF Winner
  <2>2. CASE n \notin S
    <3>1. Upto(n) = Upto(n - 1)
      BY <1>5, <2>2
    <3> QED  BY <1>7, <3>1
  <2>3. CASE n \in S /\ Outranks(list[b], list[n], r, p)
    <3>1. Upto(n) = Upto(n - 1) \cup {n}
      BY <1>5, <2>3
    <3> HIDE DEF Upto
    <3>2. Winner(list, Upto(n), b, r, p)
      BY <1>7, <2>1, <2>3, <3>1 DEF Winner
    <3> QED  BY <3>2
  <2>4. CASE n \in S /\ Outranks(list[n], list[b], r, p)
    <3>1. Upto(n) = Upto(n - 1) \cup {n} /\ Upto(n - 1) \subseteq S
      BY <1>5, <2>4
    <3> HIDE DEF Upto
    <3>2. ASSUME NEW j \in Upto(n) \ {n}
          PROVE  Outranks(list[n], list[j], r, p)
      <4>1. j \in Upto(n - 1)
        BY <3>1, <3>2
      <4>2. j = b \/ Outranks(list[b], list[j], r, p)
        BY <1>7, <4>1 DEF Winner
      <4>3. list[n].id \in Nat /\ list[b].id \in Nat /\ list[j].id \in Nat
        BY <2>4, <3>1, <4>1
      <4> QED  BY <2>4, <4>2, <4>3, Ordered
    <3>3. Winner(list, Upto(n), n, r, p)
      BY <3>1, <3>2 DEF Winner
    <3> QED  BY <2>4, <3>3
  <2>5. n \in S => Outranks(list[b], list[n], r, p) \/ Outranks(list[n], list[b], r, p)
    <3>1. n \in S => list[b].id # list[n].id /\ list[b].id \in Nat /\ list[n].id \in Nat
      BY <2>1
    <3> QED  BY <3>1, Ordered
  <2> QED  BY <2>2, <2>3, <2>4, <2>5
<1> QED  BY <1>2, <1>4, <1>6, <1>7

LEMMA StrictIsPolicy == PolicyShape(StrictPolicy)
BY RequestAssumption DEF PolicyShape, StrictPolicy

LEMMA AdviceFollows ==
    ASSUME RecommendInv
    PROVE  AdviceIsSound
<1> DEFINE fit == {i \in DOMAIN request.list :
                       ~Duplicated(request.list, i) /\ SurelyFit(request.list[i])}
<1>1. SUFFICES ASSUME stage = "done"
               PROVE  AdviceIsSound
  BY DEF AdviceIsSound
<1>2. request \in Requests
  BY DEF RecommendInv, Contacts
<1>3. PolicyShape(PolicyOf(request))
  BY <1>2, RequestAssumption, StrictIsPolicy DEF PolicyOf
<1>4. \A i \in DOMAIN request.list : OfferShape(request.list[i])
  BY <1>2, RequestAssumption
<1>5. \A i \in DOMAIN request.list :
          Verdict(request.list[i], PolicyOf(request)) = "eligible" <=> SurelyFit(request.list[i])
  BY <1>3, <1>4, VerdictIsSure DEF SurelyFit, OfferShape
<1>6. eligible = fit
  BY <1>1, <1>5 DEF RecommendInv, Judgements, VerdictOf
<1>7. CASE eligible = {}
  BY <1>1, <1>6, <1>7 DEF RecommendInv, Advised, AdviceIsSound
<1>8. CASE eligible # {}
  <2>1. PICK N \in Nat : DOMAIN request.list = 1 .. N
    <3>1. request.list \in Seq({request.list[i] : i \in DOMAIN request.list})
      BY <1>2, RequestAssumption
    <3>2. Len(request.list) \in Nat /\ DOMAIN request.list = 1 .. Len(request.list)
      BY <3>1
    <3> QED  BY <3>2
  <2>2. eligible \subseteq 1 .. N
    BY <1>6, <2>1
  <2>3. \A i \in eligible : request.list[i].id \in Nat \ {Nothing}
    BY <1>4, <1>6 DEF OfferShape
  <2>4. \A i, j \in eligible : i # j => request.list[i].id # request.list[j].id
    BY <1>6 DEF Duplicated
  <2> HIDE DEF fit
  <2>5. \E i \in eligible : Winner(request.list, eligible, i, request, profile)
    BY <1>2, <1>8, <2>2, <2>3, <2>4, OneWins
  <2>6. Best # {}
    BY <2>5 DEF Best, Winner
  <2>7. PICK b \in Best : advice = request.list[b].id
    BY <1>1, <1>8, <2>6 DEF RecommendInv, Advised
  <2>8. b \in fit /\ \A j \in fit \ {b} : Outranks(request.list[b], request.list[j], request, profile)
    BY <1>6, <2>7 DEF Best
  <2>9. advice # Nothing /\ fit # {}
    BY <1>6, <1>8, <2>3, <2>7, <2>8
  <2> QED  BY <2>7, <2>8, <2>9 DEF AdviceIsSound, fit
<1> QED  BY <1>7, <1>8

-----------------------------------------------------------------------------
LEMMA RecommendInvHolds == RecommendInit /\ [][RecommendNext]_recommendVars => []RecommendInv
BY RecommendStarts, RecommendStep, PTL

\* The network is used for nothing before the evidence covers every item and each
\* item's first record passes, and the classifier not before the model is
\* verified: the gate of lib/jev-readiness.js and lib/recommend.js, for every
\* evidence and every answer of the network.
THEOREM DormantWithoutEvidence ==
    RecommendInit /\ [][RecommendNext]_recommendVars => []DormantUnlessReady
BY RecommendInvHolds, ReadyBeforeContact, PTL

\* A fact of a candidate that is not proven never raises its score: each of the
\* six parts of lib/score-candidates.js takes it for the least it may turn out
\* to be. Without a proven model they read what the candidate declares of it;
\* that may raise the score, the want of a model does not.
THEOREM UnprovenNeverHelps ==
    RecommendInit /\ [][RecommendNext]_recommendVars => []UnprovenScoresLowest
BY RecommendInvHolds, UnprovenIsLowest, PTL

\* Whatever the classifier answers, the advice is the best of the candidates that
\* are the only one of their id and fit in every world the evidence leaves open,
\* and nobody is advised only when there is none: lib/recommend.js on
\* evaluate() and scoreCandidates().
THEOREM AdviceStandsOnEvidence ==
    RecommendInit /\ [][RecommendNext]_recommendVars => []AdviceIsSound
BY RecommendInvHolds, AdviceFollows, PTL

-----------------------------------------------------------------------------
\* The view.
\* A row of the snapshot, as time goes on.
ResourceTimed(r, now) ==
    /\ r.observed \in Instant /\ r.until \in Instant
    /\ r.observed # Unknown => r.observed <= now
    /\ r.stale => r.until \in Nat /\ r.until < now
    /\ r.windows \in Seq(WindowKinds) /\ r.why \in Published \cup {Unknown}

ViewInv ==
    /\ clock \in Nat
    /\ Timed(entry, clock)
    /\ step = "snapshot" /\ route.provider = "xiaomi" => live.windows \in Seq(WindowKinds)
    /\ step \in {"gate", "ask", "build", "done"} => ResourceTimed(resource, clock)
    /\ step = "done" => view = RouteSchema(resource, clock)

LEMMA TimePasses ==
    ASSUME NEW now \in Nat
    PROVE  /\ \A e : Timed(e, now) => Timed(e, now + 1)
           /\ \A r : ResourceTimed(r, now) => ResourceTimed(r, now + 1)
<1>1. \A i \in Nat : i <= now => i <= now + 1
  OBVIOUS
<1>2. \A i \in Nat : i < now => i < now + 1
  OBVIOUS
<1> QED  BY <1>1, <1>2 DEF Timed, ResourceTimed, Instant, Published

LEMMA ObservedTimed ==
    ASSUME clock \in Nat, NEW status, status.windows \in Seq(WindowKinds), NEW ttl \in Nat, NEW revision
    PROVE  Timed(Observed(status, ttl, revision), clock)
<1> DEFINE e == Observed(status, ttl, revision)
<1>1. e.kind = "record" /\ e.observed = clock /\ e.until = clock + ttl
      /\ e.status = status
  BY DEF Observed
<1> HIDE DEF e
<1>2. clock + ttl \in Nat /\ clock <= clock
  OBVIOUS
<1>3. Timed(e, clock)
  BY <1>1, <1>2 DEF Timed, Instant, Kinds
<1> QED  BY <1>3 DEF e

LEMMA ResourceOfTimed ==
    ASSUME clock \in Nat, NEW e, Timed(e, clock)
    PROVE  ResourceTimed(Resource(e), clock)
<1> DEFINE r == Resource(e)
<1>1. CASE e.kind # "record"
  <2>1. r.observed = Unknown /\ r.until = Unknown /\ r.stale = FALSE
        /\ r.windows = <<>> /\ r.why \in {"no-cached-observation", "cached-state-absent"}
    BY <1>1 DEF Resource, NoResource, Timed, Kinds
  <2> HIDE DEF r
  <2>2. ResourceTimed(r, clock)
    BY <2>1 DEF ResourceTimed, Instant, Published
  <2> QED  BY <2>2 DEF r
<1>2. CASE e.kind = "record"
  <2>1. /\ r.observed = e.observed /\ r.until = e.until
        /\ r.stale = (e.until # Unknown /\ clock > e.until)
        /\ r.windows = e.status.windows /\ r.why \in {"cached-state-absent", Unknown}
    BY <1>2 DEF Resource
  <2> HIDE DEF r
  <2>2. ResourceTimed(r, clock)
    BY <1>2, <2>1, CacheAssumption DEF Timed, ResourceTimed, Instant, Published
  <2> QED  BY <2>2 DEF r
<1> QED  BY <1>1, <1>2

LEMMA SchemaFields ==
    ASSUME NEW r, NEW now
    PROVE  LET fresh == Freshness(r, now).is
               state == IF fresh = "fresh" /\ r.state \in States THEN r.state ELSE "unknown"
           IN /\ RouteSchema(r, now).state = state
              /\ RouteSchema(r, now).eligibility = Eligibility(fresh, state).is
  BY DEF RouteSchema

LEMMA FreshFields ==
    ASSUME NEW now \in Nat, NEW r, ResourceTimed(r, now), Freshness(r, now).is = "fresh"
    PROVE  ~Obsolete(gated) /\ r.observed <= now /\ now < r.until /\ r.observed # Unknown
<1>1. ~Obsolete(gated) /\ r.until # Unknown /\ ~(r.until <= now) /\ r.observed # Unknown
  BY DEF Freshness
<1>2. r.until \in Nat /\ r.observed \in Nat
  BY <1>1 DEF ResourceTimed, Instant
<1> QED  BY <1>1, <1>2 DEF ResourceTimed

-----------------------------------------------------------------------------
LEMMA ViewStarts ==
    ASSUME ViewInit
    PROVE  ViewInv
<1>1. step = "collect" /\ clock = 1 /\ entry \in Entries
  BY DEF ViewInit
<1> QED  BY <1>1, CacheAssumption DEF ViewInv

LEMMA TickKeeps ==
    ASSUME ViewInv, Tick
    PROVE  ViewInv'
<1>1. clock' = clock + 1 /\ step # "done" /\ UNCHANGED <<entry, route, live, resource, step>>
  BY DEF Tick
<1> QED  BY <1>1, TimePasses DEF ViewInv

\* What a collection, or another process, stores was observed at this instant.
LEMMA EntryOfNow ==
    ASSUME ViewInv, NEW status, status.windows \in Seq(WindowKinds), NEW revision
    PROVE  Timed(Observed(status, CacheTtl, revision), clock)
<1>1. CacheTtl \in Nat /\ clock \in Nat
  BY CacheAssumption DEF CacheTtl, ViewInv
<1> QED  BY <1>1, ObservedTimed

LEMMA NothingOfNow ==
    /\ Unread.windows \in Seq(WindowKinds)
    /\ Timed(Absent, clock)
BY DEF Unread, Absent, Timed, Kinds

\* A collection stores an entry of this instant, and hands on a status with windows.
LEMMA CollectKeeps ==
    ASSUME ViewInv, NEW outcome, NEW status, status.windows \in Seq(WindowKinds), NEW entries,
           \A e \in entries : Timed(e, clock),
           Collect(outcome, status, entries)
    PROVE  ViewInv'
<1>1. UNCHANGED <<clock, route, resource>> /\ step' = "snapshot" /\ entry' \in entries
      /\ (route.provider = "xiaomi" => live' = status)
  BY DEF Collect
<1> QED  BY <1>1 DEF ViewInv

LEMMA CollectionKeeps ==
    ASSUME ViewInv, CollectCompleted \/ CollectFailed \/ CollectSkipped \/ CollectLocked
    PROVE  ViewInv'
<1>1. Timed(entry, clock)
  BY DEF ViewInv
<1>2. CASE CollectCompleted
  <2>1. PICK s \in Statuses :
            Collect("completed", s, {entry, Observed(s, CacheTtl, route.revision)})
    BY <1>2 DEF CollectCompleted
  <2>2. s.windows \in Seq(WindowKinds)
    BY CacheAssumption
  <2>3. \A e \in {entry, Observed(s, CacheTtl, route.revision)} : Timed(e, clock)
    BY <1>1, <2>2, EntryOfNow
  <2> QED  BY <2>1, <2>2, <2>3, CollectKeeps
<1>3. CASE CollectFailed
  <2>1. \A e \in {entry, Observed(Unread, CacheTtl, Unknown)} : Timed(e, clock)
    BY <1>1, NothingOfNow, EntryOfNow
  <2> QED  BY <1>3, <2>1, NothingOfNow, CollectKeeps DEF CollectFailed
<1>4. CASE CollectSkipped
  <2>1. \A e \in {entry, Absent} : Timed(e, clock)
    BY <1>1, NothingOfNow
  <2> QED  BY <1>4, <2>1, NothingOfNow, CollectKeeps DEF CollectSkipped
<1>5. CASE CollectLocked
  <2>1. \A e \in {entry} : Timed(e, clock)
    BY <1>1
  <2> QED  BY <1>5, <2>1, NothingOfNow, CollectKeeps DEF CollectLocked
<1> QED  BY <1>2, <1>3, <1>4, <1>5

LEMMA PublishKeeps ==
    ASSUME ViewInv, PublishElsewhere
    PROVE  ViewInv'
<1>1. /\ UNCHANGED <<clock, route, live, resource, step>> /\ step \in {"collect", "snapshot", "gate"}
      /\ \/ \E s \in Statuses, rev \in Revisions : entry' = Observed(s, CacheTtl, rev)
         \/ entry' = Observed(Unread, CacheTtl, Unknown)
         \/ entry' = Absent
  BY DEF PublishElsewhere
<1>2. Timed(entry', clock)
  <2>1. CASE \E s \in Statuses, rev \in Revisions : entry' = Observed(s, CacheTtl, rev)
    BY <2>1, EntryOfNow, CacheAssumption
  <2>2. CASE entry' = Observed(Unread, CacheTtl, Unknown) \/ entry' = Absent
    BY <2>2, EntryOfNow, NothingOfNow
  <2> QED  BY <1>1, <2>1, <2>2
<1> QED  BY <1>1, <1>2 DEF ViewInv

LEMMA StepKeeps ==
    ASSUME ViewInv, [ViewNext]_viewVars
    PROVE  ViewInv'
<1>1. CASE PublishElsewhere \/ CollectCompleted \/ CollectFailed \/ CollectSkipped \/ CollectLocked
  BY <1>1, PublishKeeps, CollectionKeeps
<1>2. CASE Tick
  BY <1>2, TickKeeps
<1>3. CASE Snapshot
  <2>1. Timed(Shown, clock) /\ clock \in Nat
    <3>1. clock \in Nat /\ LiveTtl \in Nat /\ step = "snapshot"
      BY <1>3, CacheAssumption DEF Snapshot, ViewInv
    <3>2. CASE route.provider = "xiaomi"
      BY <3>1, <3>2, ObservedTimed DEF Shown, ViewInv
    <3>3. CASE route.provider # "xiaomi"
      BY <3>1, <3>3 DEF Shown, ViewInv
    <3> QED  BY <3>1, <3>2, <3>3
  <2>2. ResourceTimed(Resource(Shown), clock)
    BY <2>1, ResourceOfTimed
  <2>3. /\ resource' = Resource(Shown) /\ step' = "gate"
        /\ UNCHANGED <<clock, entry, live>>
    BY <1>3 DEF Snapshot
  <2> QED  BY <2>1, <2>2, <2>3 DEF ViewInv
<1>4. CASE ReadForGate \/ AskGate
  BY <1>4 DEF ReadForGate, AskGate, ViewInv
<1>5. CASE BuildView
  <2>1. /\ step = "build" /\ step' = "done" /\ view' = RouteSchema(resource, clock)
        /\ UNCHANGED <<clock, route, entry, collection, live, resource, gated, asked>>
    BY <1>5 DEF BuildView
  <2>2. (view = RouteSchema(resource, clock))'
    BY <2>1 DEF RouteSchema, Freshness, Eligibility, Decision, GateFresh, Obsolete, BasisOf, StateReason
  <2> QED  BY <2>1, <2>2 DEF ViewInv
<1>6. CASE UNCHANGED viewVars
  <2>1. (step = "done" => view = RouteSchema(resource, clock))'
    BY <1>6 DEF viewVars, ViewInv, RouteSchema, Freshness, Eligibility, Decision, GateFresh, Obsolete,
                BasisOf, StateReason
  <2> QED  BY <1>6, <2>1 DEF viewVars, ViewInv
<1> QED  BY <1>1, <1>2, <1>3, <1>4, <1>5, <1>6 DEF ViewNext

LEMMA ViewInvHolds == ViewSpec => []ViewInv
<1>1. ViewInit => ViewInv
  BY ViewStarts
<1>2. ViewInv /\ [ViewNext]_viewVars => ViewInv'
  BY StepKeeps
<1> QED  BY <1>1, <1>2, PTL DEF ViewSpec

\* A route is called eligible only if the gate allows it without a refresh and both reads
\* show capacity, on an observation that is current when the row is made; it is called
\* ineligible exactly when the gate denies it.
THEOREM GateIsFollowed == ViewSpec => []EligibilityFollowsGate
<1>1. ViewInv => EligibilityFollowsGate
  <2> SUFFICES ASSUME ViewInv, step = "done" PROVE EligibilityFollowsGate
    BY DEF EligibilityFollowsGate, Done
  <2> DEFINE fresh == Freshness(resource, clock).is
             state == IF fresh = "fresh" /\ resource.state \in States THEN resource.state ELSE "unknown"
  <2>1. view.state = state /\ view.eligibility = Eligibility(fresh, state).is
    BY SchemaFields DEF ViewInv
  <2>2. fresh = "fresh" => resource.observed <= clock /\ clock < resource.until
    BY FreshFields DEF ViewInv
  <2>3. view.eligibility = "eligible" =>
            /\ Decision(gated, asked) \notin {"deny", "refresh"} /\ fresh = "fresh"
            /\ gated.status.state \in Capacity /\ state \in Capacity
    <3>1. Unknown \notin Capacity
      BY CacheAssumption DEF States, Capacity
    <3> HIDE DEF fresh, state
    <3> QED  BY <2>1, <3>1 DEF Eligibility
  <2>4. view.eligibility = "ineligible" <=> Decision(gated, asked) = "deny"
    <3>1. gated.kind \in {"none", "junk"} => Decision(gated, asked) # "deny"
      BY DEF Decision, GateFresh
    <3> HIDE DEF fresh, state
    <3> QED  BY <2>1, <3>1 DEF Eligibility
  <2>5. Decision(gated, asked) \in {"allow", "refresh", "deny"}
    BY DEF Decision
  <2> HIDE DEF fresh, state
  <2> QED  BY <2>1, <2>2, <2>3, <2>4, <2>5 DEF EligibilityFollowsGate
<1> QED  BY <1>1, ViewInvHolds, PTL

\* A state is shown only of an observation that is current when the row is made and is
\* not of an obsolete configuration; the report made of it says the same and calls it current.
THEOREM ClaimsAreCurrent == ViewSpec => []ClaimIsCurrent
<1>1. ViewInv => ClaimIsCurrent
  <2> SUFFICES ASSUME ViewInv, step = "done", view.state # "unknown" PROVE ClaimIsCurrent
    BY DEF ClaimIsCurrent, Done
  <2>1. /\ Freshness(resource, clock).is = "fresh"
        /\ view.state = resource.state /\ resource.state \in States
    BY SchemaFields DEF ViewInv
  <2>2. /\ ~Obsolete(gated) /\ resource.observed # Unknown
        /\ resource.observed <= clock /\ clock < resource.until
    BY <2>1, FreshFields DEF ViewInv
  <2>3. ~resource.stale
    <3>1. ResourceTimed(resource, clock) /\ clock \in Nat
      BY DEF ViewInv
    <3> QED  BY <2>2, <3>1 DEF ResourceTimed
  <2>4. ReportLine(resource).state = resource.state /\ ReportLine(resource).stale = resource.stale
    BY <2>1, CacheAssumption DEF ReportLine
  <2> QED  BY <2>1, <2>2, <2>3, <2>4 DEF ClaimIsCurrent
<1> QED  BY <1>1, ViewInvHolds, PTL

-----------------------------------------------------------------------------
\* What is left unknown is said to be, and why.
LEMMA SchemaSays ==
    ASSUME NEW r, NEW now, RouteSchema(r, now).state = "unknown"
    PROVE  /\ RouteSchema(r, now).codes # {}
           /\ collection = "completed" /\ r.windows = <<>> /\ r.why \in Published \cup {Unknown} =>
                  RouteSchema(r, now).codes # {"state-unknown"}
<1> DEFINE fresh == Freshness(r, now)
           state == IF fresh.is = "fresh" /\ r.state \in States THEN r.state ELSE "unknown"
           eligibility == Eligibility(fresh.is, state)
           why == StateReason(r)
           codes == RouteSchema(r, now).codes
<1>1. /\ fresh.codes \subseteq codes /\ eligibility.codes \subseteq codes
      /\ r.state \notin States \cup {Unknown} => "invalid-state" \in codes
      /\ state = "unknown" /\ why \in Published => why \in codes
      /\ state = "unknown" /\ r.windows = <<>> /\ why = Unknown /\ collection = "completed" =>
             "no-windows-reported" \in codes
  BY DEF RouteSchema
<1>2. state = "unknown"
  BY SchemaFields
<1>3. eligibility.codes # {}
  <2>1. "unknown" \notin Capacity
    BY DEF Capacity
  <2> HIDE DEF fresh, state
  <2> QED  BY <1>2, <2>1 DEF Eligibility
<1>4. why = IF r.why # Unknown THEN r.why ELSE IF r.reason \in Published THEN r.reason ELSE Unknown
  BY DEF StateReason
<1> HIDE DEF fresh, state, eligibility, why, codes
<1>5. ASSUME collection = "completed", r.windows = <<>>, r.why \in Published \cup {Unknown}
      PROVE  codes # {"state-unknown"}
  <2>1. why \in Published \/ why = Unknown
    BY <1>4, <1>5
  <2>2. "state-unknown" \notin Published
    BY DEF Published
  <2> QED  BY <1>1, <1>2, <1>5, <2>1, <2>2
<1> QED  BY <1>1, <1>3, <1>5 DEF codes

LEMMA SchemaKeeps ==
    ASSUME NEW r, NEW now
    PROVE  /\ RouteSchema(r, now).windows = r.windows /\ RouteSchema(r, now).balance = r.balance
           /\ collection = "failed" => "collection-failed" \in RouteSchema(r, now).codes
           /\ collection = "pending" => "collection-pending" \in RouteSchema(r, now).codes
BY DEF RouteSchema

\* A window that can be measured has a row, of one form; a bar only where a state is claimed.
LEMMA WindowsAreShown ==
    ASSUME NEW v, v.windows \in Seq(WindowKinds)
    PROVE  /\ \A i \in DOMAIN v.windows : HasRatio(v.windows[i]) \/ HasCounts(v.windows[i]) =>
                  \E form \in {"bar", "counts", "percent"} : <<i, form>> \in Measurements(v)
           /\ v.balance => <<0, "balance">> \in Measurements(v)
           /\ \A i \in DOMAIN v.windows : <<i, "bar">> \in Measurements(v) => v.state # "unknown"
<1>1. \A i \in DOMAIN v.windows : i # 0
  OBVIOUS
<1>2. Measurements(v) = WindowRows(v) \cup (IF v.balance THEN {<<0, "balance">>} ELSE {})
  BY DEF Measurements
<1>3. ASSUME NEW i \in DOMAIN v.windows, HasRatio(v.windows[i]) \/ HasCounts(v.windows[i])
      PROVE  \E form \in {"bar", "counts", "percent"} : <<i, form>> \in Measurements(v)
  <2>1. \E form \in {"bar", "counts", "percent"} : <<i, form>> \in WindowRow(v, i)
    BY <1>3 DEF WindowRow, Bar
  <2> QED  BY <2>1, <1>2 DEF WindowRows
<1>4. v.balance => <<0, "balance">> \in Measurements(v)
  BY <1>2
<1>5. ASSUME NEW i \in DOMAIN v.windows, <<i, "bar">> \in Measurements(v)
      PROVE  v.state # "unknown"
  <2>1. <<i, "bar">> # <<0, "balance">>
    BY <1>1
  <2>2. PICK j \in DOMAIN v.windows : <<i, "bar">> \in WindowRow(v, j)
    <3>1. <<i, "bar">> \in WindowRows(v)
      BY <1>5, <1>2, <2>1
    <3> QED  BY <3>1 DEF WindowRows
  <2>3. \A k : <<k, "bar">> # <<k, "counts">> /\ <<k, "bar">> # <<k, "percent">>
    OBVIOUS
  <2>4. Bar(v, j)
    <3>1. CASE HasCounts(v.windows[j]) /\ ~Bar(v, j)
      <4>1. <<i, "bar">> = <<j, "counts">>
        BY <2>2, <3>1 DEF WindowRow
      <4> QED  BY <4>1
    <3>2. CASE ~HasCounts(v.windows[j]) /\ ~Bar(v, j)
      <4>1. <<i, "bar">> = <<j, "percent">>
        BY <2>2, <3>2 DEF WindowRow
      <4> QED  BY <4>1
    <3> QED  BY <3>1, <3>2
  <2> QED  BY <2>4 DEF Bar
<1> QED  BY <1>3, <1>4, <1>5

LEMMA LayoutsShow ==
    ASSUME NEW v, v.windows \in Seq(WindowKinds), NEW rows \in {Expanded(v), Condensed(v)}
    PROVE  /\ Measurements(v) \subseteq rows
           /\ \A i \in DOMAIN v.windows : <<i, "bar">> \in rows => <<i, "bar">> \in Measurements(v)
<1>1. \A x, w : \A i \in DOMAIN v.windows : <<i, x>> # <<0, w>>
  OBVIOUS
<1>2. Measurements(v) \subseteq rows
  BY DEF Expanded, Condensed
<1>3. \A row \in rows : row \in Measurements(v) \/ \E w : row = <<0, w>>
  BY DEF Expanded, Condensed
<1> QED  BY <1>1, <1>2, <1>3

\* Nothing is left unsaid: an unknown route names a reason, a collection that failed
\* or is pending is told of, and both layouts show every measurement there is, with a
\* bar only where a current state is claimed.
THEOREM EverythingIsSaid == ViewSpec => []NothingUnsaid
<1>1. ViewInv => NothingUnsaid
  <2> SUFFICES ASSUME ViewInv, step = "done" PROVE NothingUnsaid
    BY DEF NothingUnsaid, Done
  <2>1. /\ view = RouteSchema(resource, clock) /\ ResourceTimed(resource, clock) /\ clock \in Nat
    BY DEF ViewInv
  <2>2. /\ view.windows = resource.windows /\ view.windows \in Seq(WindowKinds)
        /\ collection = "failed" => "collection-failed" \in view.codes
        /\ collection = "pending" => "collection-pending" \in view.codes
    BY <2>1, SchemaKeeps DEF ResourceTimed
  <2>3. view.state = "unknown" =>
            /\ view.codes # {}
            /\ collection = "completed" /\ view.windows = <<>> => view.codes # {"state-unknown"}
    BY <2>1, <2>2, SchemaSays DEF ResourceTimed
  <2>4. view.state # "unknown" => clock < resource.until
    <3>1. view.state # "unknown" => Freshness(resource, clock).is = "fresh"
      BY <2>1, SchemaFields
    <3> QED  BY <2>1, <3>1, FreshFields
  <2>5. Condensed(view) # {}
    BY DEF Condensed
  <2>6. ASSUME NEW rows \in {Expanded(view), Condensed(view)}
        PROVE  /\ \A i \in DOMAIN view.windows : HasRatio(view.windows[i]) \/ HasCounts(view.windows[i]) =>
                      \E form \in {"bar", "counts", "percent"} : <<i, form>> \in rows
               /\ view.balance => <<0, "balance">> \in rows
               /\ (\E i \in DOMAIN view.windows : <<i, "bar">> \in rows) =>
                      view.state # "unknown" /\ clock < resource.until
    <3>1. /\ Measurements(view) \subseteq rows
          /\ \A i \in DOMAIN view.windows : <<i, "bar">> \in rows => <<i, "bar">> \in Measurements(view)
      BY <2>2, LayoutsShow
    <3> QED  BY <2>2, <2>4, <3>1, WindowsAreShown
  <2> QED  BY <2>2, <2>3, <2>5, <2>6 DEF NothingUnsaid
<1> QED  BY <1>1, ViewInvHolds, PTL

-----------------------------------------------------------------------------
\* The live snapshot.
LEMMA ListedIs ==
    /\ Len(Listed) = Len(Sources) + 1 /\ Len(Listed) \in Nat /\ DOMAIN Listed = 1 .. Len(Listed)
    /\ Listed[Len(Listed)] = "traycer"
    /\ \A i \in 1 .. Len(Listed) - 1 : Listed[i] \in SourceNames /\ Listed[i] # "traycer"
<1>1. Sources \in Seq(SourceNames \cup {"traycer"})
  BY LiveAssumption, SeqMonotonic
<1>2. Listed \in Seq(SourceNames \cup {"traycer"})
  BY <1>1, AppendProperties DEF Listed
<1>3. /\ Len(Listed) = Len(Sources) + 1 /\ Listed[Len(Sources) + 1] = "traycer"
      /\ \A i \in 1 .. Len(Sources) : Listed[i] = Sources[i]
  BY <1>1, AppendProperties DEF Listed
<1>4. Len(Sources) \in Nat /\ \A i \in 1 .. Len(Sources) : Sources[i] \in SourceNames
  BY LiveAssumption
<1> QED  BY LiveAssumption, <1>2, <1>3, <1>4

-----------------------------------------------------------------------------
\* The fold: what is there after each source.
FoldsBy(g) == g = [n \in 0 .. Len(Listed) |->
                      IF n = 0 THEN Empty ELSE Overlay(Contribution(Listed[n]), g[n - 1])]
Partial(g, m) == g = [n \in 0 .. m |->
                         IF n = 0 THEN Empty ELSE Overlay(Contribution(Listed[n]), g[n - 1])]

LEMMA PartialFolds ==
    ASSUME NEW m \in Nat
    PROVE  \E g : Partial(g, m)
<1> DEFINE Without == {n \in Nat : ~ \E g : Partial(g, n)}
<1>1. SUFFICES ASSUME Without # {}
               PROVE  FALSE
  OBVIOUS
<1>2. PICK n \in Without : \A k \in Without : n <= k
  BY <1>1, First
<1>3. CASE n = 0
  <2>1. Partial([i \in 0 .. 0 |-> Empty], 0)
    BY DEF Partial
  <2> QED  BY <1>3, <2>1
<1>4. CASE n > 0
  <2>1. n - 1 \in Nat /\ n - 1 \notin Without
    BY <1>2, <1>4
  <2>2. PICK g : Partial(g, n - 1)
    BY <2>1
  <2> DEFINE h == [i \in 0 .. n |-> IF i = n THEN Overlay(Contribution(Listed[n]), g[n - 1]) ELSE g[i]]
  <2>3. \A i \in 0 .. n - 1 : h[i] = g[i]
    BY <2>1
  <2>4. \A i \in 0 .. n - 1 :
            g[i] = IF i = 0 THEN Empty ELSE Overlay(Contribution(Listed[i]), g[i - 1])
    BY <2>2 DEF Partial
  <2>5. \A i \in 0 .. n :
            h[i] = IF i = 0 THEN Empty ELSE Overlay(Contribution(Listed[i]), h[i - 1])
    <3>1. SUFFICES ASSUME NEW i \in 0 .. n
                   PROVE  h[i] = IF i = 0 THEN Empty ELSE Overlay(Contribution(Listed[i]), h[i - 1])
      OBVIOUS
    <3>2. CASE i = n
      <4>1. h[n] = Overlay(Contribution(Listed[n]), g[n - 1]) /\ h[n - 1] = g[n - 1]
        BY <2>1, <2>3
      <4> QED  BY <1>4, <3>2, <4>1
    <3>3. CASE i # n
      <4>1. i \in 0 .. n - 1 /\ (i # 0 => i - 1 \in 0 .. n - 1)
        BY <3>3, <2>1
      <4> QED  BY <2>3, <2>4, <4>1
    <3> QED  BY <3>2, <3>3
  <2>6. h = [i \in 0 .. n |-> h[i]]
    OBVIOUS
  <2>7. Partial(h, n)
    <3> HIDE DEF h
    <3> QED  BY <2>5, <2>6 DEF Partial
  <2> QED  BY <2>7
<1> QED  BY <1>3, <1>4

LEMMA FoldIs ==
    \E g : FoldsBy(g) /\ Fold(Listed) = g[Len(Listed)]
<1>1. \E g : FoldsBy(g)
  BY ListedIs, PartialFolds DEF FoldsBy, Partial
<1> DEFINE f == CHOOSE g : FoldsBy(g)
<1>2. FoldsBy(f)
  BY <1>1
<1>3. Fold(Listed) = f[Len(Listed)]
  BY DEF Fold, FoldsBy
<1> QED  BY <1>2, <1>3

\* Of the first n maps of a list: what is in one of them is there, and the last one
\* that has it wins.
Wins(acc, R, n) ==
    /\ \A k : k \in DOMAIN acc <=> \E i \in 1 .. n : k \in DOMAIN R[i]
    /\ \A i \in 1 .. n : \A k \in DOMAIN R[i] :
           (\A j \in i + 1 .. n : k \notin DOMAIN R[j]) => acc[k] = R[i][k]

LEMMA OverIs ==
    ASSUME NEW new, NEW old
    PROVE  /\ DOMAIN Over(new, old) = DOMAIN new \cup DOMAIN old
           /\ \A k \in DOMAIN new : Over(new, old)[k] = new[k]
           /\ \A k \in DOMAIN old \ DOMAIN new : Over(new, old)[k] = old[k]
BY DEF Over

LEMMA OneMoreWins ==
    ASSUME NEW n \in Nat, n > 0, NEW R, NEW acc, Wins(acc, R, n - 1)
    PROVE  Wins(Over(R[n], acc), R, n)
<1> DEFINE new == Over(R[n], acc)
<1>1. /\ DOMAIN new = DOMAIN R[n] \cup DOMAIN acc
      /\ \A k \in DOMAIN R[n] : new[k] = R[n][k]
      /\ \A k \in DOMAIN acc \ DOMAIN R[n] : new[k] = acc[k]
  BY OverIs
<1> HIDE DEF new
<1>2. ASSUME NEW k
      PROVE  k \in DOMAIN new <=> \E i \in 1 .. n : k \in DOMAIN R[i]
  <2>1. (\E i \in 1 .. n : k \in DOMAIN R[i]) <=> k \in DOMAIN R[n] \/ \E i \in 1 .. n - 1 : k \in DOMAIN R[i]
    OBVIOUS
  <2> QED  BY <1>1, <2>1 DEF Wins
<1>3. ASSUME NEW i \in 1 .. n, NEW k \in DOMAIN R[i], \A j \in i + 1 .. n : k \notin DOMAIN R[j]
      PROVE  new[k] = R[i][k]
  <2>1. CASE i = n
    BY <1>1, <2>1
  <2>2. CASE i # n
    <3>1. i \in 1 .. n - 1 /\ n \in i + 1 .. n /\ \A j \in i + 1 .. n - 1 : j \in i + 1 .. n
      BY <2>2
    <3>2. k \notin DOMAIN R[n] /\ k \in DOMAIN acc
      BY <1>3, <3>1 DEF Wins
    <3>3. acc[k] = R[i][k]
      BY <1>3, <3>1 DEF Wins
    <3> QED  BY <1>1, <3>2, <3>3
  <2> QED  BY <2>1, <2>2
<1>4. Wins(new, R, n)
  BY <1>2, <1>3 DEF Wins
<1> QED  BY <1>4 DEF new

RowsBy == [i \in 1 .. Len(Listed) |-> Contribution(Listed[i]).rows]
CallerBy == [i \in 1 .. Len(Listed) |-> Contribution(Listed[i]).caller]
DiagsBy == [i \in 1 .. Len(Listed) |-> Contribution(Listed[i]).diags]
FoldedTo(acc, n) ==
    /\ Wins(acc.rows, RowsBy, n) /\ Wins(acc.caller, CallerBy, n)
    /\ \A d : d \in acc.diags <=> \E i \in 1 .. n : d \in Contribution(Listed[i]).diags

LEMMA NothingFolded == FoldedTo(Empty, 0)
<1>1. Empty.rows = <<>> /\ Empty.caller = <<>> /\ Empty.diags = {}
  BY DEF Empty, NoRows
<1>2. DOMAIN <<>> = {} /\ 1 .. 0 = {}
  OBVIOUS
<1> QED  BY <1>1, <1>2 DEF FoldedTo, Wins

LEMMA OneMoreFolded ==
    ASSUME NEW n \in 1 .. Len(Listed), NEW acc, FoldedTo(acc, n - 1)
    PROVE  FoldedTo(Overlay(Contribution(Listed[n]), acc), n)
<1> DEFINE new == Overlay(Contribution(Listed[n]), acc)
<1>1. n \in Nat /\ n > 0
  BY ListedIs
<1>2. RowsBy[n] = Contribution(Listed[n]).rows /\ CallerBy[n] = Contribution(Listed[n]).caller
  BY DEF RowsBy, CallerBy
<1>3. /\ new.rows = Over(RowsBy[n], acc.rows) /\ new.caller = Over(CallerBy[n], acc.caller)
      /\ new.diags = acc.diags \cup Contribution(Listed[n]).diags
  BY <1>2 DEF Overlay
<1>4. Wins(new.rows, RowsBy, n) /\ Wins(new.caller, CallerBy, n)
  BY <1>1, <1>3, OneMoreWins DEF FoldedTo
<1>5. ASSUME NEW d
      PROVE  d \in new.diags <=> \E i \in 1 .. n : d \in Contribution(Listed[i]).diags
  <2>1. d \in acc.diags <=> \E i \in 1 .. n - 1 : d \in Contribution(Listed[i]).diags
    BY DEF FoldedTo
  <2>2. \A i \in 1 .. n : i \in 1 .. n - 1 \/ i = n
    BY <1>1
  <2>3. n \in 1 .. n /\ \A i \in 1 .. n - 1 : i \in 1 .. n
    BY <1>1
  <2> QED  BY <1>3, <2>1, <2>2, <2>3
<1> HIDE DEF new
<1>6. FoldedTo(new, n)
  BY <1>4, <1>5 DEF FoldedTo
<1> QED  BY <1>6 DEF new

LEMMA AllFolded ==
    FoldedTo(Fold(Listed), Len(Listed))
<1>1. PICK g : FoldsBy(g) /\ Fold(Listed) = g[Len(Listed)]
  BY FoldIs
<1>2. Len(Listed) \in Nat
  BY ListedIs
<1> DEFINE Wrong == {n \in 0 .. Len(Listed) : ~ FoldedTo(g[n], n)}
<1>3. SUFFICES ASSUME Wrong # {}
               PROVE  FALSE
  BY <1>1, <1>2
<1>4. PICK n \in Wrong : \A k \in Wrong : n <= k
  <2>1. Wrong \subseteq Nat
    OBVIOUS
  <2> HIDE DEF Wrong
  <2> QED  BY <1>3, <2>1, First
<1>5. n \in 0 .. Len(Listed) /\ n \in Nat /\ ~ FoldedTo(g[n], n)
  BY <1>2
<1>6. g[n] = IF n = 0 THEN Empty ELSE Overlay(Contribution(Listed[n]), g[n - 1])
  BY <1>1, <1>5 DEF FoldsBy
<1>7. CASE n = 0
  BY <1>5, <1>6, <1>7, NothingFolded
<1>8. CASE n > 0
  <2>1. n - 1 \in 0 .. Len(Listed) /\ n - 1 \notin Wrong /\ n \in 1 .. Len(Listed)
    BY <1>2, <1>4, <1>5, <1>8
  <2>2. FoldedTo(g[n - 1], n - 1)
    BY <2>1
  <2>3. FoldedTo(g[n], n)
    BY <1>6, <1>8, <2>1, <2>2, OneMoreFolded
  <2> QED  BY <1>5, <2>3
<1> QED  BY <1>5, <1>7, <1>8

\* What a source contributes names it, and rests on what was read and said only.
LEMMA ContributionIs ==
    ASSUME NEW i \in 1 .. Len(Listed)
    PROVE  /\ \A k \in DOMAIN Contribution(Listed[i]).rows : Contribution(Listed[i]).rows[k] = Listed[i]
           /\ \A k \in DOMAIN Contribution(Listed[i]).caller : Contribution(Listed[i]).caller[k] = Listed[i]
<1>1. CASE Listed[i] = "traycer"
  <2>1. Contribution(Listed[i]).rows = TraycerRows /\ Contribution(Listed[i]).caller = TraycerCaller
    BY <1>1 DEF Contribution
  <2>2. \A K : \A k \in DOMAIN From(K) : From(K)[k] = "traycer"
    BY DEF From
  <2>3. (\E K : TraycerRows = From(K)) /\ \E K : TraycerCaller = From(K)
    BY DEF TraycerRows, TraycerCaller
  <2> QED  BY <1>1, <2>1, <2>2, <2>3
<1>2. CASE Listed[i] # "traycer" /\ said[Listed[i]].is # "ok"
  <2>1. Contribution(Listed[i]).rows = <<>> /\ Contribution(Listed[i]).caller = <<>>
    BY <1>2 DEF Contribution, Empty, NoRows
  <2> QED  BY <2>1
<1>3. CASE Listed[i] # "traycer" /\ said[Listed[i]].is = "ok"
  <2>1. /\ Contribution(Listed[i]).rows = [k \in said[Listed[i]].rows |-> Listed[i]]
        /\ Contribution(Listed[i]).caller = [k \in said[Listed[i]].caller |-> Listed[i]]
    BY <1>3 DEF Contribution
  <2> QED  BY <2>1
<1> QED  BY <1>1, <1>2, <1>3

LEMMA ContributionsStay ==
    ASSUME UNCHANGED <<query, result, said>>
    PROVE  /\ RowsBy' = RowsBy /\ CallerBy' = CallerBy /\ DiagsBy' = DiagsBy
           /\ FailedAs' = FailedAs /\ RowsRead' = RowsRead /\ Spoilt' = Spoilt
<1>1. /\ QueryAgent' = QueryAgent /\ QueryEpic' = QueryEpic /\ SuppliedMismatch' = SuppliedMismatch
      /\ \A r : Ok(r)' = Ok(r)
  BY DEF QueryAgent, QueryEpic, SuppliedMismatch, Disagree, Ok
<1>2. Verified' = Verified /\ Host' = Host
  BY <1>1 DEF Verified, Host
<1>3. FailedAs' = FailedAs
  BY DEF FailedAs
<1>4. Spoilt' = Spoilt
  BY <1>1, <1>2 DEF Spoilt
<1>5. TraycerRows' = TraycerRows
  <2>1. {u \in ToolSet : Ok(Profiles(u))}' = {u \in ToolSet : Ok(Profiles(u))}
    BY <1>1
  <2> QED  BY <1>1, <1>2, <2>1 DEF TraycerRows
<1>6. TraycerCaller' = TraycerCaller
  BY <1>1, <1>2 DEF TraycerCaller
<1>7. TraycerDiags' = TraycerDiags
  <2>1. (\E r \in {Catalog} \cup {Profiles(t) : t \in ToolSet} : Ok(r))' =
        \E r \in {Catalog} \cup {Profiles(t) : t \in ToolSet} : Ok(r)
    BY <1>1
  <2> QED  BY <1>1, <1>2, <1>3, <1>4, <2>1 DEF TraycerDiags
<1>8. \A s : Contribution(s)' = Contribution(s)
  BY <1>5, <1>6, <1>7 DEF Contribution
<1>9. RowsBy' = RowsBy /\ CallerBy' = CallerBy /\ DiagsBy' = DiagsBy
  BY <1>8 DEF RowsBy, CallerBy, DiagsBy, Listed
<1>10. RowsRead' = RowsRead
  BY <1>8 DEF RowsRead, Listed
<1> QED  BY <1>3, <1>4, <1>9, <1>10

-----------------------------------------------------------------------------
LiveShape ==
    /\ phase \in {"start", "wave 1", "wave 2", "read", "settled", "judge", "done"}
    /\ child \in [Read -> {"none", "running", "overflowed", "timedOut", "gone"}]
    /\ result \in [Read -> {Unknown} \cup Outcomes]
    /\ said \in [SourceNames -> {Unknown} \cup Replied]

\* Nothing is read any more once the reads have ended, and nothing without the ids.
Quiet == phase \in {"start", "read", "settled", "judge", "done"} => waiting = <<>> /\ Live = {}
Unasked == Unknown \in {QueryAgent, QueryEpic} =>
               /\ phase \notin {"wave 1", "wave 2"}
               /\ \A r \in Read : result[r] = Unknown

\* The snapshot, once it is there, is what the sources say over what runtime.json says.
SnapIs == phase \in {"judge", "done"} =>
    /\ sidecar \in Sidecars
    /\ \A s \in SourceNames : said[s] # Unknown
    /\ \A k : k \in DOMAIN snap.rows <=>
                  (\E i \in 1 .. Len(Listed) : k \in DOMAIN RowsBy[i]) \/ k \in sidecar.rows
    /\ \A i \in 1 .. Len(Listed) : \A k \in DOMAIN RowsBy[i] :
           (\A j \in i + 1 .. Len(Listed) : k \notin DOMAIN RowsBy[j]) => snap.rows[k] = RowsBy[i][k]
    /\ \A k \in DOMAIN snap.rows :
           (\A i \in 1 .. Len(Listed) : k \notin DOMAIN RowsBy[i]) => snap.rows[k] = "cache"
    /\ Wins(snap.caller, CallerBy, Len(Listed))
    /\ \A d : d \in snap.diags <=>
                  (\E i \in 1 .. Len(Listed) : d \in DiagsBy[i]) \/ d \in sidecar.diags
VerdictIs == phase = "done" => verdict = WithNative(external, Native)

LiveInv == LiveShape /\ Quiet /\ Unasked /\ SnapIs /\ VerdictIs

LEMMA LiveStarts ==
    ASSUME LiveInit
    PROVE  LiveInv
<1>1. LiveShape
  BY DEF LiveInit, LiveShape, SourceNames
<1>2. Live = {}
  BY DEF LiveInit, Live
<1> QED  BY <1>1, <1>2 DEF LiveInit, LiveInv, Quiet, Unasked, SnapIs, VerdictIs

\* While there is no snapshot, only the reads matter.
LEMMA NoSnapYet ==
    ASSUME phase' \notin {"judge", "done"}
    PROVE  SnapIs' /\ VerdictIs'
BY DEF SnapIs, VerdictIs

LEMMA QueryStays ==
    ASSUME query' = query
    PROVE  QueryAgent' = QueryAgent /\ QueryEpic' = QueryEpic
BY DEF QueryAgent, QueryEpic

LEMMA StartKeeps ==
    ASSUME LiveInv, Start
    PROVE  LiveInv'
<1>1. /\ phase = "start" /\ UNCHANGED <<query, child, result, said>>
      /\ IF Unknown \in {QueryAgent, QueryEpic}
         THEN phase' = "read" /\ UNCHANGED waiting
         ELSE phase' = "wave 1" /\ waiting' = Wave
  BY DEF Start
<1>2. LiveShape' /\ Live' = Live
  BY <1>1 DEF LiveInv, LiveShape, Live
<1>3. Quiet' /\ Unasked'
  BY <1>1, <1>2, QueryStays DEF LiveInv, Quiet, Unasked
<1> QED  BY <1>1, <1>2, <1>3, NoSnapYet DEF LiveInv

\* A step of a read that is asked for, or of its process.
LEMMA ReadStepKeeps ==
    ASSUME LiveInv, phase \in {"wave 1", "wave 2"}, UNCHANGED <<query, phase, said>>,
           child' \in [Read -> {"none", "running", "overflowed", "timedOut", "gone"}],
           result' \in [Read -> {Unknown} \cup Outcomes]
    PROVE  LiveInv'
<1>1. LiveShape'
  BY DEF LiveInv, LiveShape
<1>2. Quiet' /\ Unasked'
  BY QueryStays DEF LiveInv, Quiet, Unasked
<1> QED  BY <1>1, <1>2, NoSnapYet DEF LiveInv

LEMMA TakeReadKeeps ==
    ASSUME LiveInv, TakeRead
    PROVE  LiveInv'
<1>1. /\ waiting # <<>> /\ child' = [child EXCEPT ![Head(waiting)] = "running"]
      /\ UNCHANGED <<query, result, phase, said>>
  BY DEF TakeRead
<1>2. phase \in {"wave 1", "wave 2"}
  BY <1>1 DEF LiveInv, LiveShape, Quiet
<1>3. /\ child' \in [Read -> {"none", "running", "overflowed", "timedOut", "gone"}]
      /\ result' \in [Read -> {Unknown} \cup Outcomes]
  BY <1>1 DEF LiveInv, LiveShape
<1> QED  BY <1>1, <1>2, <1>3, ReadStepKeeps

LEMMA DataIsOutcome ==
    ASSUME NEW r \in Read
    PROVE  DataOf(r) \cup [is : {"missing", "failed"}] \subseteq Outcomes
<1>1. DataOf(r) \in {AgentsData, CatalogData, ProfilesData, LimitsData}
  BY DEF DataOf
<1>2. [is : {"missing", "failed"}] \subseteq [is : {"missing", "failed", "timeout"}]
  OBVIOUS
<1> QED  BY <1>1, <1>2 DEF Outcomes

LEMMA ProcessKeeps ==
    ASSUME LiveInv, NEW r \in Read,
           Answer(r) \/ Overflow(r) \/ Deadline(r) \/ Closed(r) \/ GraceEnds(r)
    PROVE  LiveInv'
<1>1. child[r] \in {"running", "overflowed", "timedOut"}
  BY DEF Answer, Overflow, Deadline, Closed, GraceEnds
<1>2. phase \in {"wave 1", "wave 2"}
  <2>1. r \in Live
    BY <1>1 DEF Live
  <2> QED  BY <2>1 DEF LiveInv, LiveShape, Quiet
<1>3. \A is \in {"failed", "timeout"} : [is |-> is] \in Outcomes
  BY DEF Outcomes
<1>4. ASSUME NEW outcome \in Outcomes, Conclude(r, outcome)
      PROVE  LiveInv'
  <2>1. /\ child' = [child EXCEPT ![r] = "gone"] /\ result' = [result EXCEPT ![r] = outcome]
        /\ UNCHANGED <<query, phase, said>>
    BY <1>4 DEF Conclude
  <2>2. /\ child' \in [Read -> {"none", "running", "overflowed", "timedOut", "gone"}]
        /\ result' \in [Read -> {Unknown} \cup Outcomes]
    BY <2>1 DEF LiveInv, LiveShape
  <2> QED  BY <1>2, <2>1, <2>2, ReadStepKeeps
<1>5. ASSUME NEW state \in {"overflowed", "timedOut"}, Became(r, state)
      PROVE  LiveInv'
  <2>1. /\ child' = [child EXCEPT ![r] = state] /\ UNCHANGED <<query, result, phase, said>>
    BY <1>5 DEF Became
  <2>2. /\ child' \in [Read -> {"none", "running", "overflowed", "timedOut", "gone"}]
        /\ result' \in [Read -> {Unknown} \cup Outcomes]
    BY <2>1 DEF LiveInv, LiveShape
  <2> QED  BY <1>2, <2>1, <2>2, ReadStepKeeps
<1>6. CASE Answer(r)
  BY <1>4, <1>6, DataIsOutcome DEF Answer
<1>7. CASE Overflow(r) \/ Deadline(r)
  BY <1>5, <1>7 DEF Overflow, Deadline
<1>8. CASE Closed(r) \/ GraceEnds(r)
  BY <1>3, <1>4, <1>8 DEF Closed, GraceEnds
<1> QED  BY <1>6, <1>7, <1>8

LEMMA WaveKeeps ==
    ASSUME LiveInv, NextWave \/ WavesEnd
    PROVE  LiveInv'
<1>1. /\ phase \in {"wave 1", "wave 2"} /\ phase' \in {"wave 2", "read"}
      /\ UNCHANGED <<query, child, result, said>>
      /\ phase' = "read" => phase = "wave 2" /\ waiting' = <<>> /\ Live = {}
  BY DEF NextWave, WavesEnd
<1>2. LiveShape' /\ Live' = Live
  BY <1>1 DEF LiveInv, LiveShape, Live
<1>3. Quiet' /\ Unasked'
  BY <1>1, <1>2, QueryStays DEF LiveInv, Quiet, Unasked
<1> QED  BY <1>1, <1>2, <1>3, NoSnapYet DEF LiveInv

LEMMA SettleKeeps ==
    ASSUME LiveInv, TraycerSettles \/ \E s \in DOMAIN said : SourceSettles(s)
    PROVE  LiveInv'
<1>1. /\ UNCHANGED <<query, waiting, child, result>>
      /\ \/ phase = "read" /\ phase' = "settled" /\ said' = said
         \/ /\ phase' = phase
            /\ \E s \in SourceNames : \E reply \in Replied : said[s] = Unknown /\ said' = [said EXCEPT ![s] = reply]
  BY DEF TraycerSettles, SourceSettles, LiveInv, LiveShape
<1>2. LiveShape' /\ Live' = Live
  BY <1>1 DEF LiveInv, LiveShape, Live
<1>3. Quiet' /\ Unasked'
  BY <1>1, <1>2, QueryStays DEF LiveInv, Quiet, Unasked
<1>4. phase' \notin {"judge", "done"}
  BY <1>1 DEF LiveInv, SnapIs
<1> QED  BY <1>2, <1>3, <1>4, NoSnapYet DEF LiveInv

LEMMA FoldSourcesKeeps ==
    ASSUME LiveInv, FoldSources
    PROVE  LiveInv'
<1> DEFINE folded == Fold(Listed)
           N == Len(Listed)
<1>1. /\ phase = "settled" /\ phase' = "judge" /\ sidecar' \in Sidecars
      /\ \A s \in DOMAIN said : said[s] # Unknown
      /\ UNCHANGED <<query, waiting, child, result, said>>
  BY DEF FoldSources
<1>2. snap' = [rows |-> Over(folded.rows, [k \in sidecar'.rows |-> "cache"]), caller |-> folded.caller,
               diags |-> folded.diags \cup sidecar'.diags]
  BY DEF FoldSources
<1>3. FoldedTo(folded, N)
  BY AllFolded
<1> HIDE DEF folded
<1>4. /\ Wins(folded.rows, RowsBy, N) /\ Wins(folded.caller, CallerBy, N)
      /\ \A d : d \in folded.diags <=> \E i \in 1 .. N : d \in DiagsBy[i]
  BY <1>3 DEF FoldedTo, DiagsBy
<1>5. RowsBy' = RowsBy /\ CallerBy' = CallerBy /\ DiagsBy' = DiagsBy /\ Listed' = Listed
  BY <1>1, ContributionsStay DEF Listed
<1>6. /\ snap'.rows = Over(folded.rows, [k \in sidecar'.rows |-> "cache"])
      /\ snap'.caller = folded.caller /\ snap'.diags = folded.diags \cup sidecar'.diags
  BY <1>2
<1>7. /\ DOMAIN snap'.rows = DOMAIN folded.rows \cup sidecar'.rows
      /\ \A k \in DOMAIN folded.rows : snap'.rows[k] = folded.rows[k]
      /\ \A k \in sidecar'.rows \ DOMAIN folded.rows : snap'.rows[k] = "cache"
  <2> DEFINE old == [k \in sidecar'.rows |-> "cache"]
  <2>1. DOMAIN old = sidecar'.rows /\ \A k \in sidecar'.rows : old[k] = "cache"
    OBVIOUS
  <2>2. snap'.rows = Over(folded.rows, old)
    BY <1>6
  <2> HIDE DEF old
  <2>3. /\ DOMAIN Over(folded.rows, old) = DOMAIN folded.rows \cup DOMAIN old
        /\ \A k \in DOMAIN folded.rows : Over(folded.rows, old)[k] = folded.rows[k]
        /\ \A k \in DOMAIN old \ DOMAIN folded.rows : Over(folded.rows, old)[k] = old[k]
    BY OverIs, Zenon
  <2> QED  BY <2>1, <2>2, <2>3, Zenon
<1>8. /\ \A k : k \in DOMAIN snap'.rows <=> (\E i \in 1 .. N : k \in DOMAIN RowsBy[i]) \/ k \in sidecar'.rows
      /\ \A i \in 1 .. N : \A k \in DOMAIN RowsBy[i] :
             (\A j \in i + 1 .. N : k \notin DOMAIN RowsBy[j]) => snap'.rows[k] = RowsBy[i][k]
      /\ \A k \in DOMAIN snap'.rows :
             (\A i \in 1 .. N : k \notin DOMAIN RowsBy[i]) => snap'.rows[k] = "cache"
  BY <1>4, <1>7 DEF Wins
<1>9. \A d : d \in snap'.diags <=> (\E i \in 1 .. N : d \in DiagsBy[i]) \/ d \in sidecar'.diags
  BY <1>4, <1>6
<1>10. Wins(snap'.caller, CallerBy', Len(Listed'))
  BY <1>4, <1>5, <1>6
<1>11. SnapIs'
  <2>1. \A s \in SourceNames : said'[s] # Unknown
    BY <1>1 DEF LiveInv, LiveShape
  <2> HIDE DEF N
  <2>2. N = Len(Listed')
    BY <1>5 DEF N
  <2> QED  BY <1>1, <1>5, <1>8, <1>9, <1>10, <2>1, <2>2 DEF SnapIs, N
<1>12. LiveShape' /\ Live' = Live
  BY <1>1 DEF LiveInv, LiveShape, Live
<1>13. Quiet' /\ Unasked' /\ VerdictIs'
  BY <1>1, <1>12, QueryStays DEF LiveInv, Quiet, Unasked, VerdictIs
<1> QED  BY <1>11, <1>12, <1>13 DEF LiveInv

LEMMA JudgeKeeps ==
    ASSUME LiveInv, Judge \/ UNCHANGED liveVars
    PROVE  LiveInv'
<1>1. UNCHANGED <<query, waiting, child, result, said, sidecar, snap>>
  BY DEF Judge, liveVars
<1>2. \/ phase = "judge" /\ phase' = "done" /\ verdict' = WithNative(external', Native)
      \/ UNCHANGED <<phase, external, verdict>>
  BY DEF Judge, liveVars
<1>3. LiveShape' /\ Live' = Live
  BY <1>1, <1>2 DEF LiveInv, LiveShape, Live
<1>4. Quiet' /\ Unasked'
  BY <1>1, <1>2, <1>3, QueryStays DEF LiveInv, Quiet, Unasked
<1>5. /\ RowsBy' = RowsBy /\ CallerBy' = CallerBy /\ DiagsBy' = DiagsBy /\ RowsRead' = RowsRead
      /\ Listed' = Listed
  BY <1>1, ContributionsStay DEF Listed
<1>6. SnapIs'
  BY <1>1, <1>2, <1>5 DEF LiveInv, SnapIs
<1>7. Native' = Native
  BY <1>1, <1>5 DEF Native
<1>8. VerdictIs'
  BY <1>2, <1>7 DEF LiveInv, VerdictIs, WithNative
<1> QED  BY <1>3, <1>4, <1>6, <1>8 DEF LiveInv

LEMMA LiveStep ==
    ASSUME LiveInv, [LiveNext]_liveVars
    PROVE  LiveInv'
<1>1. CASE Start \/ TakeRead \/ NextWave \/ WavesEnd
  BY <1>1, StartKeeps, TakeReadKeeps, WaveKeeps
<1>2. CASE TraycerSettles \/ FoldSources \/ Judge \/ UNCHANGED liveVars
  BY <1>2, SettleKeeps, FoldSourcesKeeps, JudgeKeeps
<1>3. CASE \E r \in Read : Answer(r) \/ Overflow(r) \/ Deadline(r) \/ Closed(r) \/ GraceEnds(r)
  BY <1>3, ProcessKeeps
<1>4. CASE \E s \in DOMAIN said : SourceSettles(s)
  BY <1>4, SettleKeeps
<1> QED  BY <1>1, <1>2, <1>3, <1>4 DEF LiveNext

LEMMA LiveInvHolds ==
    LiveInit /\ [][LiveNext]_liveVars => []LiveInv
<1>1. LiveInit => LiveInv
  BY LiveStarts
<1>2. LiveInv /\ [LiveNext]_liveVars => LiveInv'
  BY LiveStep
<1> QED  BY <1>1, <1>2, PTL

-----------------------------------------------------------------------------
\* The last of the sources that report something.
LEMMA LastIs ==
    ASSUME NEW ps, ps \subseteq 1 .. Len(Listed), ps # {}
    PROVE  LET last == CHOOSE i \in ps : \A j \in ps : j <= i
           IN last \in ps /\ \A j \in last + 1 .. Len(Listed) : j \notin ps
<1> DEFINE last == CHOOSE i \in ps : \A j \in ps : j <= i
<1>1. \E i \in ps : \A j \in ps : j <= i
  BY ListedIs, Last
<1>2. last \in ps /\ \A j \in ps : j <= last
  BY <1>1
<1> HIDE DEF last
<1>3. \A j \in last + 1 .. Len(Listed) : j \notin ps
  BY <1>2, ListedIs
<1> QED  BY <1>2, <1>3 DEF last

\* For any tools, sources, replies and caches: a row or a caller's field is that of
\* the last listed source that reports it, whoever settled first
\* (runLiveSources() of lib/runtime-snapshot.js).
LEMMA SnapIsListed ==
    ASSUME LiveInv
    PROVE  LastListedWins
<1>1. SUFFICES ASSUME phase \in {"judge", "done"}
               PROVE  LastListedWins
  BY DEF LastListedWins
<1> DEFINE order == Append(Sources, "traycer")
           Reporters(k, part) == {i \in DOMAIN order : k \in DOMAIN Contribution(order[i])[part]}
           LastOf(ps) == order[CHOOSE i \in ps : \A j \in ps : j <= i]
<1>2. order = Listed /\ DOMAIN Listed = 1 .. Len(Listed) /\ Len(Listed) \in Nat
  BY ListedIs DEF Listed
<1>3. \A k : /\ Reporters(k, "rows") = {i \in 1 .. Len(Listed) : k \in DOMAIN RowsBy[i]}
             /\ Reporters(k, "caller") = {i \in 1 .. Len(Listed) : k \in DOMAIN CallerBy[i]}
  BY <1>2 DEF RowsBy, CallerBy
<1>4. \A i \in 1 .. Len(Listed) : /\ \A k \in DOMAIN RowsBy[i] : RowsBy[i][k] = Listed[i]
                                  /\ \A k \in DOMAIN CallerBy[i] : CallerBy[i][k] = Listed[i]
  BY ContributionIs DEF RowsBy, CallerBy
<1>5. \A k : k \in RowsRead <=> \E i \in 1 .. Len(Listed) : k \in DOMAIN RowsBy[i]
  BY <1>2 DEF RowsRead, RowsBy
<1>6. \A k : k \in DOMAIN snap.rows <=> k \in RowsRead \cup sidecar.rows
  BY <1>1, <1>5 DEF LiveInv, SnapIs
<1>7. ASSUME NEW k \in DOMAIN snap.rows
      PROVE  snap.rows[k] = IF k \in RowsRead THEN LastOf(Reporters(k, "rows")) ELSE "cache"
  <2>1. CASE k \notin RowsRead
    BY <1>1, <1>5, <2>1 DEF LiveInv, SnapIs
  <2>2. CASE k \in RowsRead
    <3> DEFINE ps == {i \in 1 .. Len(Listed) : k \in DOMAIN RowsBy[i]}
               last == CHOOSE i \in ps : \A j \in ps : j <= i
    <3>1. ps \subseteq 1 .. Len(Listed) /\ ps # {}
      BY <1>5, <2>2
    <3>2. last \in ps /\ \A j \in last + 1 .. Len(Listed) : j \notin ps
      <4> HIDE DEF ps
      <4> QED  BY <3>1, LastIs
    <3>3. LastOf(Reporters(k, "rows")) = Listed[last]
      BY <1>2, <1>3
    <3>4. \A j \in last + 1 .. Len(Listed) : k \notin DOMAIN RowsBy[j]
      <4> HIDE DEF last
      <4>1. last \in Nat
        BY <3>2
      <4> QED  BY <1>2, <3>2, <4>1
    <3>5. last \in 1 .. Len(Listed) /\ k \in DOMAIN RowsBy[last]
      BY <3>2
    <3> HIDE DEF last, ps, LastOf, Reporters
    <3>6. snap.rows[k] = RowsBy[last][k]
      BY <1>1, <3>4, <3>5 DEF LiveInv, SnapIs
    <3> QED  BY <1>4, <2>2, <3>3, <3>5, <3>6
  <2> QED  BY <2>1, <2>2
<1>8. ASSUME NEW k \in DOMAIN snap.caller
      PROVE  snap.caller[k] = LastOf(Reporters(k, "caller"))
  <2> DEFINE ps == {i \in 1 .. Len(Listed) : k \in DOMAIN CallerBy[i]}
             last == CHOOSE i \in ps : \A j \in ps : j <= i
  <2>1. ps \subseteq 1 .. Len(Listed) /\ ps # {}
    BY <1>1 DEF LiveInv, SnapIs, Wins
  <2>2. last \in ps /\ \A j \in last + 1 .. Len(Listed) : j \notin ps
    <3> HIDE DEF ps
    <3> QED  BY <2>1, LastIs
  <2>3. LastOf(Reporters(k, "caller")) = Listed[last]
    BY <1>2, <1>3
  <2>4. \A j \in last + 1 .. Len(Listed) : k \notin DOMAIN CallerBy[j]
    <3> HIDE DEF last
    <3>1. last \in Nat
      BY <2>2
    <3> QED  BY <1>2, <2>2, <3>1
  <2>5. last \in 1 .. Len(Listed) /\ k \in DOMAIN CallerBy[last]
    BY <2>2
  <2> HIDE DEF last, ps, LastOf, Reporters
  <2>6. snap.caller[k] = CallerBy[last][k]
    BY <1>1, <2>4, <2>5 DEF LiveInv, SnapIs, Wins
  <2> QED  BY <1>4, <2>3, <2>5, <2>6
<1>9. DOMAIN snap.rows = RowsRead \cup sidecar.rows
  BY <1>6
<1> QED  BY <1>1, <1>7, <1>8, <1>9 DEF LastListedWins

\* What the snapshot has from Traycer is what Traycer has said.
LEMMA FromTraycer ==
    ASSUME LiveInv, phase \in {"judge", "done"}
    PROVE  /\ \A k \in DOMAIN TraycerRows : k \in DOMAIN snap.rows /\ snap.rows[k] = "traycer"
           /\ \A k \in DOMAIN snap.rows : snap.rows[k] = "traycer" => k \in DOMAIN TraycerRows
           /\ \A k \in DOMAIN snap.caller : snap.caller[k] = "traycer" => k \in DOMAIN TraycerCaller
           /\ TraycerDiags \subseteq snap.diags
<1> DEFINE N == Len(Listed)
<1>1. /\ N \in Nat /\ N \in 1 .. N /\ Listed[N] = "traycer"
      /\ \A i \in 1 .. N : Listed[i] = "traycer" => i = N
  <2>1. Len(Sources) \in Nat
    BY LiveAssumption
  <2>2. N = Len(Sources) + 1 /\ N \in Nat
    BY ListedIs
  <2>3. N \in 1 .. N
    BY <2>1, <2>2
  <2>4. Listed[N] = "traycer" /\ \A i \in 1 .. N - 1 : Listed[i] # "traycer"
    BY ListedIs
  <2>5. \A i \in 1 .. N : i \in 1 .. N - 1 \/ i = N
    BY <2>2
  <2> QED  BY <2>2, <2>3, <2>4, <2>5
<1>2. RowsBy[N] = TraycerRows /\ CallerBy[N] = TraycerCaller /\ DiagsBy[N] = TraycerDiags
  BY <1>1 DEF RowsBy, CallerBy, DiagsBy, Contribution
<1>3. \A i \in 1 .. N : /\ \A k \in DOMAIN RowsBy[i] : RowsBy[i][k] = Listed[i]
                        /\ \A k \in DOMAIN CallerBy[i] : CallerBy[i][k] = Listed[i]
  BY ContributionIs DEF RowsBy, CallerBy
<1> HIDE DEF N
<1>4. /\ \A k : k \in DOMAIN snap.rows <=> (\E i \in 1 .. N : k \in DOMAIN RowsBy[i]) \/ k \in sidecar.rows
      /\ \A i \in 1 .. N : \A k \in DOMAIN RowsBy[i] :
             (\A j \in i + 1 .. N : k \notin DOMAIN RowsBy[j]) => snap.rows[k] = RowsBy[i][k]
      /\ \A k \in DOMAIN snap.rows :
             (\A i \in 1 .. N : k \notin DOMAIN RowsBy[i]) => snap.rows[k] = "cache"
      /\ \A k : k \in DOMAIN snap.caller <=> \E i \in 1 .. N : k \in DOMAIN CallerBy[i]
      /\ \A i \in 1 .. N : \A k \in DOMAIN CallerBy[i] :
             (\A j \in i + 1 .. N : k \notin DOMAIN CallerBy[j]) => snap.caller[k] = CallerBy[i][k]
      /\ \A d : (\E i \in 1 .. N : d \in DiagsBy[i]) => d \in snap.diags
  BY DEF LiveInv, SnapIs, Wins, N
<1>5. \A j \in N + 1 .. N : FALSE
  BY <1>1
<1>6. \A k \in DOMAIN TraycerRows : k \in DOMAIN snap.rows /\ snap.rows[k] = "traycer"
  BY <1>1, <1>2, <1>3, <1>4, <1>5
<1>7. ASSUME NEW k \in DOMAIN snap.rows, snap.rows[k] = "traycer"
      PROVE  k \in DOMAIN TraycerRows
  <2> DEFINE ps == {i \in 1 .. N : k \in DOMAIN RowsBy[i]}
  <2>1. ps # {}
    BY <1>4, <1>7
  <2>2. PICK i \in ps : \A j \in ps : j <= i
    <3>1. ps \subseteq 1 .. N
      OBVIOUS
    <3> HIDE DEF ps
    <3> QED  BY <1>1, <2>1, <3>1, Last
  <2>3. \A j \in i + 1 .. N : k \notin DOMAIN RowsBy[j]
    <3>1. i \in Nat /\ i \in 1 .. N
      BY <1>1
    <3>2. \A j \in i + 1 .. N : j \in 1 .. N /\ ~(j <= i)
      BY <1>1, <3>1
    <3> QED  BY <2>2, <3>2
  <2>4. snap.rows[k] = Listed[i]
    BY <1>3, <1>4, <2>3
  <2> QED  BY <1>1, <1>2, <1>7, <2>4
<1>8. ASSUME NEW k \in DOMAIN snap.caller, snap.caller[k] = "traycer"
      PROVE  k \in DOMAIN TraycerCaller
  <2> DEFINE ps == {i \in 1 .. N : k \in DOMAIN CallerBy[i]}
  <2>1. ps # {}
    BY <1>4
  <2>2. PICK i \in ps : \A j \in ps : j <= i
    <3>1. ps \subseteq 1 .. N
      OBVIOUS
    <3> HIDE DEF ps
    <3> QED  BY <1>1, <2>1, <3>1, Last
  <2>3. \A j \in i + 1 .. N : k \notin DOMAIN CallerBy[j]
    <3>1. i \in Nat /\ i \in 1 .. N
      BY <1>1
    <3>2. \A j \in i + 1 .. N : j \in 1 .. N /\ ~(j <= i)
      BY <1>1, <3>1
    <3> QED  BY <2>2, <3>2
  <2>4. snap.caller[k] = Listed[i]
    BY <1>3, <1>4, <2>3
  <2> QED  BY <1>1, <1>2, <1>8, <2>4
<1>9. TraycerDiags \subseteq snap.diags
  BY <1>1, <1>2, <1>4
<1> QED  BY <1>6, <1>7, <1>8, <1>9

LEMMA FailedAsIs ==
    ASSUME LiveInv
    PROVE  /\ FailedAs \subseteq {"missing", "failed", "timeout"}
           /\ \A r \in Read : result[r] # Unknown /\ result[r].is # "ok" => result[r].is \in FailedAs
<1>1. \A o \in Outcomes : o.is \in {"ok", "missing", "failed", "timeout"}
  BY DEF Outcomes, AgentsData, CatalogData, ProfilesData, LimitsData
<1>2. \A r \in Read : result[r] \in {Unknown} \cup Outcomes
  BY DEF LiveInv, LiveShape
<1> QED  BY <1>1, <1>2 DEF FailedAs

\* What fails is told: by the CLI's reads, or by an injected source.
LEMMA FailuresAreTold ==
    ASSUME LiveInv, phase \in {"judge", "done"}
    PROVE  /\ FailedAs \subseteq snap.diags
           /\ Spoilt # {} => "failed" \in snap.diags
           /\ snap.diags \cap FailureCodes # {} =>
                  \/ FailedAs \ {"missing"} # {} \/ Spoilt # {}
                  \/ \E s \in DOMAIN said : said[s].is # "ok" \/ said[s].diags \cap FailureCodes # {}
<1>1. FailedAs \subseteq TraycerDiags /\ (Spoilt # {} => "failed" \in TraycerDiags)
  <2>1. CASE Unknown \in {QueryAgent, QueryEpic}
    <3>1. \A r \in Read : result[r] = Unknown
      BY <2>1 DEF LiveInv, Unasked
    <3>2. FailedAs = {} /\ Spoilt = {}
      BY <3>1 DEF FailedAs, Spoilt, Ok
    <3> QED  BY <3>2
  <2>2. CASE Unknown \notin {QueryAgent, QueryEpic}
    BY <2>2 DEF TraycerDiags
  <2> QED  BY <2>1, <2>2
<1>2. ASSUME Spoilt = {}
      PROVE  TraycerDiags \cap FailureCodes \subseteq FailedAs \ {"missing"}
  BY <1>2, FailedAsIs DEF TraycerDiags, FailureCodes
<1>3. ASSUME NEW d \in snap.diags \cap FailureCodes, FailedAs \ {"missing"} = {}, Spoilt = {}
      PROVE  \E s \in DOMAIN said : said[s].is # "ok" \/ said[s].diags \cap FailureCodes # {}
  <2>1. sidecar.diags \cap FailureCodes = {}
    BY LiveAssumption DEF LiveInv, SnapIs
  <2>2. PICK i \in 1 .. Len(Listed) : d \in DiagsBy[i]
    BY <1>3, <2>1 DEF LiveInv, SnapIs
  <2>3. d \in Contribution(Listed[i]).diags
    BY <2>2 DEF DiagsBy
  <2>4. Listed[i] # "traycer"
    <3>1. CASE Listed[i] = "traycer"
      BY <1>2, <1>3, <2>3, <3>1 DEF Contribution
    <3> QED  BY <3>1
  <2>5. Listed[i] \in DOMAIN said
    <3>1. Listed[i] \in SourceNames
      <4>1. i \in 1 .. Len(Listed) - 1 \/ i = Len(Listed)
        BY ListedIs
      <4> QED  BY <2>4, <4>1, ListedIs
    <3> QED  BY <3>1 DEF LiveInv, LiveShape
  <2>6. CASE said[Listed[i]].is = "ok"
    BY <1>3, <2>3, <2>4, <2>5, <2>6 DEF Contribution
  <2> QED  BY <2>5, <2>6
<1> QED  BY <1>1, <1>3, FromTraycer

LEMMA TraycerSays ==
    /\ \A k \in DOMAIN TraycerCaller : Verified
    /\ \A k \in DOMAIN TraycerRows :
           k \in {<<"session", "peer">>, <<"session", "self">>} => query.envEpic # Unknown
    /\ Host => \A t \in ToolSet : Ok(Profiles(t)) => <<"profile", t>> \in DOMAIN TraycerRows
<1>1. \A K : DOMAIN From(K) = K
  BY DEF From
<1>2. \A k \in DOMAIN TraycerCaller : Verified
  BY <1>1 DEF TraycerCaller
<1>3. ASSUME NEW k \in {<<"session", "peer">>, <<"session", "self">>}, k \in DOMAIN TraycerRows
      PROVE  query.envEpic # Unknown
  <2>1. k # <<"harness", "catalog">> /\ \A t : k # <<"profile", t>>
    OBVIOUS
  <2> DEFINE Sessions == IF Ok(Agents) /\ query.envEpic # Unknown
                         THEN {<<"session", "peer">>, <<"harness", "in use">>}
                              \cup (IF result[Agents].host = "self" THEN {<<"session", "self">>} ELSE {})
                         ELSE {}
             Tables == IF Ok(Catalog) /\ Host THEN {<<"harness", "catalog">>} ELSE {}
             Accounts == IF Host THEN {<<"profile", t>> : t \in {u \in ToolSet : Ok(Profiles(u))}} ELSE {}
  <2>2. TraycerRows = From(Sessions \cup Tables \cup Accounts)
    BY DEF TraycerRows
  <2>3. k \notin Tables
    BY <2>1
  <2>4. k \notin Accounts
    BY <2>1
  <2>5. Sessions # {} => query.envEpic # Unknown
    OBVIOUS
  <2> HIDE DEF Sessions, Tables, Accounts
  <2>6. k \in Sessions
    BY <1>1, <1>3, <2>2, <2>3, <2>4
  <2> QED  BY <2>5, <2>6
<1>4. ASSUME Host, NEW t \in ToolSet, Ok(Profiles(t))
      PROVE  <<"profile", t>> \in DOMAIN TraycerRows
  BY <1>1, <1>4 DEF TraycerRows
<1> QED  BY <1>2, <1>3, <1>4

\* For any tools, sources, replies and caches: what is unproven is withheld, and a
\* verdict of success rests on rows of this run, no failed read and no invalid row
\* (lib/traycer-adapter.js, lib/collector.js).
LEMMA SnapIsVerified ==
    ASSUME LiveInv
    PROVE  OnlyVerifiedFacts
<1>1. SUFFICES ASSUME phase = "done"
               PROVE  OnlyVerifiedFacts
  BY DEF OnlyVerifiedFacts
<1> DEFINE mine == {k \in DOMAIN snap.rows : snap.rows[k] = "traycer"}
<1>2. mine = DOMAIN TraycerRows
  BY <1>1, FromTraycer
<1>3. ASSUME \E k \in DOMAIN snap.caller : snap.caller[k] = "traycer"
      PROVE  /\ result[Agents].caller = QueryAgent
             /\ query.envAgent \in {Unknown, QueryAgent} /\ query.agent \in {Unknown, QueryAgent}
             /\ query.envEpic = Unknown \/ query.epic \in {Unknown, query.envEpic}
  <2>1. Verified
    BY <1>1, <1>3, FromTraycer, TraycerSays
  <2>2. result[Agents].caller = QueryAgent /\ ~SuppliedMismatch
    BY <2>1 DEF Verified
  <2> QED  BY <2>2 DEF SuppliedMismatch, Disagree, QueryAgent
<1>4. {<<"session", "peer">>, <<"session", "self">>} \cap mine # {} => query.envEpic # Unknown
  BY <1>2, TraycerSays
<1>5. \A t \in ToolSet : Ok(Profiles(t)) /\ (query.host # Unknown) => <<"profile", t>> \in mine
  BY <1>2, TraycerSays DEF Host
<1>6. verdict = WithNative(external, Native)
  BY <1>1 DEF LiveInv, VerdictIs
<1>7. verdict = "completed" => /\ FailedAs \subseteq {"missing"} /\ Spoilt = {}
                               /\ external.outcome = "completed" \/ RowsRead # {}
  <2>1. SUFFICES ASSUME verdict = "completed"
                 PROVE  /\ FailedAs \subseteq {"missing"} /\ Spoilt = {}
                        /\ external.outcome = "completed" \/ RowsRead # {}
    OBVIOUS
  <2>2. Native # "failed" /\ (external.outcome = "completed" \/ Native = "completed")
    BY <1>6, <2>1 DEF WithNative
  <2>3. snap.diags \cap FailureCodes = {} /\ (Native = "completed" => RowsRead # {})
    BY <2>2 DEF Native
  <2>4. FailedAs \cap FailureCodes = {} /\ Spoilt = {}
    BY <1>1, <2>3, FailuresAreTold DEF FailureCodes
  <2> QED  BY <2>2, <2>3, <2>4, FailedAsIs DEF FailureCodes
<1>8. external.outcome = "completed" /\ verdict # "completed" =>
          \/ FailedAs \ {"missing"} # {} \/ Spoilt # {}
          \/ \E s \in DOMAIN said : said[s].is # "ok" \/ said[s].diags \cap FailureCodes # {}
  <2>1. SUFFICES ASSUME external.outcome = "completed", verdict # "completed"
                 PROVE  snap.diags \cap FailureCodes # {}
    BY <1>1, FailuresAreTold
  <2>2. Native = "failed"
    BY <1>6, <2>1 DEF WithNative
  <2> QED  BY <2>2 DEF Native
<1> QED  BY <1>3, <1>4, <1>5, <1>7, <1>8 DEF OnlyVerifiedFacts

THEOREM LiveRowsAreListed ==
    LiveInit /\ [][LiveNext]_liveVars => []LastListedWins
<1>1. LiveInv => LastListedWins
  BY SnapIsListed
<1> QED  BY <1>1, LiveInvHolds, PTL

THEOREM LiveFactsAreVerified ==
    LiveInit /\ [][LiveNext]_liveVars => []OnlyVerifiedFacts
<1>1. LiveInv => OnlyVerifiedFacts
  BY SnapIsVerified
<1> QED  BY <1>1, LiveInvHolds, PTL
=============================================================================
