---------------------------- MODULE ProgramProofs ----------------------------
(***************************************************************************)
(* What each part promises holds of the program that runs one of them at a *)
(* time: a step of the program is a step of the part that runs, and leaves *)
(* every other as it was, with nothing in its variables.                   *)
(***************************************************************************)
EXTENDS Program, EvidenceProofs, SecretProofs

-----------------------------------------------------------------------------
\* Fairness adds nothing to what a step may do.
LEMMA StepsOfSpec == Spec => Init /\ [][Next]_vars
BY PTL DEF Spec

\* A step of the program is one of the part that runs, or a stutter, for every part.
LEMMA OnePartSteps == [Next]_vars =>
    /\ UNCHANGED command
    /\ [EligibilityNext]_eligibilityVars
    /\ [RecommendNext]_recommendVars
    /\ [ViewNext]_viewVars
    /\ [LiveNext]_liveVars
    /\ [FormNext]_formVars
    /\ [KeyNext]_keyVars
    /\ [XiaomiNext]_xiaomiVars
    /\ Runs("candidate") \/ UNCHANGED eligibilityVars
    /\ Runs("recommend") \/ UNCHANGED recommendVars
    /\ Runs("view") \/ UNCHANGED viewVars
    /\ Runs("live") \/ UNCHANGED liveVars
    /\ Runs("form") \/ UNCHANGED formVars
    /\ Runs("key") \/ UNCHANGED keyVars
    /\ Runs("xiaomi") \/ UNCHANGED xiaomiVars
<1>1. CASE UNCHANGED vars
  BY <1>1 DEF vars
<1>2. CASE Next
  BY <1>2 DEF Next, Judging, Recommending, Viewing, Reading, Asking, Acquiring, Sourcing, Serving
<1> QED  BY <1>1, <1>2

-----------------------------------------------------------------------------
\* The gate: its variables hold nothing until it runs.
LEMMA CandidateAtRest ==
    /\ Init => (Runs("candidate") /\ EligibilityInit) \/ (~Runs("candidate") /\ NoCandidate)
    /\ ~Runs("candidate") /\ NoCandidate /\ [Next]_vars => (~Runs("candidate") /\ NoCandidate)'
<1>1. Init => (Runs("candidate") /\ EligibilityInit) \/ (~Runs("candidate") /\ NoCandidate)
  BY DEF Init
<1>2. ASSUME ~Runs("candidate"), NoCandidate, [Next]_vars PROVE ~Runs("candidate")' /\ NoCandidate'
  <2>1. UNCHANGED command /\ UNCHANGED eligibilityVars
    BY <1>2, OnePartSteps
  <2> QED  BY <1>2, <2>1 DEF Runs, NoCandidate, eligibilityVars
<1> QED  BY <1>1, <1>2

LEMMA CandidateHolds == Spec => []JudgedByEvidence
<1>1. NoCandidate => JudgedByEvidence
  BY ProgramAssumption DEF NoCandidate, JudgedByEvidence
<1> QED  BY <1>1, StepsOfSpec, OnePartSteps, CandidateAtRest,
            EvidenceDecides, PTL

-----------------------------------------------------------------------------
\* The advice: its variables hold nothing until it runs.
LEMMA RecommendationAtRest ==
    /\ Init => (Runs("recommend") /\ RecommendInit) \/ (~Runs("recommend") /\ NoRecommendation)
    /\ ~Runs("recommend") /\ NoRecommendation /\ [Next]_vars => (~Runs("recommend") /\ NoRecommendation)'
<1>1. Init => (Runs("recommend") /\ RecommendInit) \/ (~Runs("recommend") /\ NoRecommendation)
  BY DEF Init
<1>2. ASSUME ~Runs("recommend"), NoRecommendation, [Next]_vars PROVE ~Runs("recommend")' /\ NoRecommendation'
  <2>1. UNCHANGED command /\ UNCHANGED recommendVars
    BY <1>2, OnePartSteps
  <2> QED  BY <1>2, <2>1 DEF Runs, NoRecommendation, recommendVars
<1> QED  BY <1>1, <1>2

LEMMA RecommendationHolds == Spec => [](DormantUnlessReady /\ UnprovenScoresLowest /\ AdviceIsSound)
<1>1. NoRecommendation => DormantUnlessReady /\ UnprovenScoresLowest /\ AdviceIsSound
  BY ProgramAssumption DEF NoRecommendation, DormantUnlessReady, UnprovenScoresLowest, AdviceIsSound
<1> QED  BY <1>1, StepsOfSpec, OnePartSteps, RecommendationAtRest,
            DormantWithoutEvidence, UnprovenNeverHelps, AdviceStandsOnEvidence, PTL

-----------------------------------------------------------------------------
\* The view: its variables hold nothing until it runs.
LEMMA ViewAtRest ==
    /\ Init => (Runs("view") /\ ViewInit) \/ (~Runs("view") /\ NoView)
    /\ ~Runs("view") /\ NoView /\ [Next]_vars => (~Runs("view") /\ NoView)'
<1>1. Init => (Runs("view") /\ ViewInit) \/ (~Runs("view") /\ NoView)
  BY DEF Init
<1>2. ASSUME ~Runs("view"), NoView, [Next]_vars PROVE ~Runs("view")' /\ NoView'
  <2>1. UNCHANGED command /\ UNCHANGED viewVars
    BY <1>2, OnePartSteps
  <2> QED  BY <1>2, <2>1 DEF Runs, NoView, viewVars
<1> QED  BY <1>1, <1>2

LEMMA ViewHolds == Spec => [](EligibilityFollowsGate /\ ClaimIsCurrent /\ NothingUnsaid)
<1>1. NoView => EligibilityFollowsGate /\ ClaimIsCurrent /\ NothingUnsaid
  BY ProgramAssumption DEF NoView, EligibilityFollowsGate, ClaimIsCurrent, NothingUnsaid, Done
<1> QED  BY <1>1, StepsOfSpec, OnePartSteps, ViewAtRest,
            GateIsFollowed, ClaimsAreCurrent, EverythingIsSaid, PTL DEF ViewSpec

-----------------------------------------------------------------------------
\* The live snapshot: its variables hold nothing until it runs.
LEMMA ReadsAtRest ==
    /\ Init => (Runs("live") /\ LiveInit) \/ (~Runs("live") /\ NoReads)
    /\ ~Runs("live") /\ NoReads /\ [Next]_vars => (~Runs("live") /\ NoReads)'
<1>1. Init => (Runs("live") /\ LiveInit) \/ (~Runs("live") /\ NoReads)
  BY DEF Init
<1>2. ASSUME ~Runs("live"), NoReads, [Next]_vars PROVE ~Runs("live")' /\ NoReads'
  <2>1. UNCHANGED command /\ UNCHANGED liveVars
    BY <1>2, OnePartSteps
  <2> QED  BY <1>2, <2>1 DEF Runs, NoReads, liveVars
<1> QED  BY <1>1, <1>2

LEMMA ReadsHolds == Spec => [](LastListedWins /\ OnlyVerifiedFacts)
<1>1. NoReads => LastListedWins /\ OnlyVerifiedFacts
  BY ProgramAssumption DEF NoReads, LastListedWins, OnlyVerifiedFacts
<1> QED  BY <1>1, StepsOfSpec, OnePartSteps, ReadsAtRest,
            LiveRowsAreListed, LiveFactsAreVerified, PTL

-----------------------------------------------------------------------------
\* The credential form: its variables hold nothing until it runs.
LEMMA FormAtRest ==
    /\ Init => (Runs("form") /\ FormInit) \/ (~Runs("form") /\ NoForm)
    /\ ~Runs("form") /\ NoForm /\ [Next]_vars => (~Runs("form") /\ NoForm)'
<1>1. Init => (Runs("form") /\ FormInit) \/ (~Runs("form") /\ NoForm)
  BY DEF Init
<1>2. ASSUME ~Runs("form"), NoForm, [Next]_vars PROVE ~Runs("form")' /\ NoForm'
  <2>1. UNCHANGED command /\ UNCHANGED formVars
    BY <1>2, OnePartSteps
  <2> QED  BY <1>2, <2>1 DEF Runs, NoForm, formVars
<1> QED  BY <1>1, <1>2

LEMMA FormHolds == Spec => []ReceiptTellsWhatIsStored
<1>1. NoForm => ReceiptTellsWhatIsStored
  BY ProgramAssumption DEF NoForm, ReceiptTellsWhatIsStored, Mine, AdmittedBy, NoReceipt
<1> QED  BY <1>1, StepsOfSpec, OnePartSteps, FormAtRest,
            ReceiptIsTrue, PTL DEF FormSpec

-----------------------------------------------------------------------------
\* The Chrome key: its variables hold nothing until it runs.
LEMMA KeyAtRest ==
    /\ Init => (Runs("key") /\ KeyInit) \/ (~Runs("key") /\ NoKey)
    /\ ~Runs("key") /\ NoKey /\ [Next]_vars => (~Runs("key") /\ NoKey)'
<1>1. Init => (Runs("key") /\ KeyInit) \/ (~Runs("key") /\ NoKey)
  BY DEF Init
<1>2. ASSUME ~Runs("key"), NoKey, [Next]_vars PROVE ~Runs("key")' /\ NoKey'
  <2>1. UNCHANGED command /\ UNCHANGED keyVars
    BY <1>2, OnePartSteps
  <2> QED  BY <1>2, <2>1 DEF Runs, NoKey, keyVars
<1> QED  BY <1>1, <1>2

LEMMA KeyHolds == Spec => [](KeyOnlyFromCleanRun /\ HelperKeepsItsWord)
<1>1. NoKey => KeyOnlyFromCleanRun /\ HelperKeepsItsWord
  BY ProgramAssumption DEF NoKey, KeyOnlyFromCleanRun, HelperKeepsItsWord
<1> QED  BY <1>1, StepsOfSpec, OnePartSteps, KeyAtRest,
            KeyIsClean, HelperIsTrue, PTL

-----------------------------------------------------------------------------
\* The Xiaomi source: its variables hold nothing until it runs.
LEMMA SourceAtRest ==
    /\ Init => (Runs("xiaomi") /\ XiaomiInit) \/ (~Runs("xiaomi") /\ NoSource)
    /\ ~Runs("xiaomi") /\ NoSource /\ [Next]_vars => (~Runs("xiaomi") /\ NoSource)'
<1>1. Init => (Runs("xiaomi") /\ XiaomiInit) \/ (~Runs("xiaomi") /\ NoSource)
  BY DEF Init
<1>2. ASSUME ~Runs("xiaomi"), NoSource, [Next]_vars PROVE ~Runs("xiaomi")' /\ NoSource'
  <2>1. UNCHANGED command /\ UNCHANGED xiaomiVars
    BY <1>2, OnePartSteps
  <2> QED  BY <1>2, <2>1 DEF Runs, NoSource, xiaomiVars
<1> QED  BY <1>1, <1>2

LEMMA SourceHolds == Spec => []CountsAreLive
<1>1. NoSource => CountsAreLive
  <2> SUFFICES ASSUME NoSource, NEW s \in Session PROVE session[s].at # "done"
    BY DEF CountsAreLive
  <2>1. session[s] = Asleep
    BY DEF NoSource
  <2> QED  BY <2>1 DEF Asleep
<1> QED  BY <1>1, StepsOfSpec, OnePartSteps, SourceAtRest,
            CountsLive, PTL DEF XiaomiSpec

-----------------------------------------------------------------------------
\* Whatever the command, whoever runs beside it and whatever fails: a candidate is
\* judged by evidence, advice follows from it, a view claims only what is current and
\* hides nothing, a snapshot holds the rows last listed and verified facts, a receipt
\* tells what is stored, a key comes from a clean run, a balance from a live session.
THEOREM EveryCommandIsTrue ==
    Spec => [](/\ JudgedByEvidence
               /\ AdviceIsSound /\ DormantUnlessReady /\ UnprovenScoresLowest
               /\ EligibilityFollowsGate /\ ClaimIsCurrent /\ NothingUnsaid
               /\ LastListedWins /\ OnlyVerifiedFacts
               /\ ReceiptTellsWhatIsStored
               /\ KeyOnlyFromCleanRun /\ HelperKeepsItsWord
               /\ CountsAreLive)
BY CandidateHolds, RecommendationHolds, ViewHolds, ReadsHolds, FormHolds, KeyHolds, SourceHolds, PTL

\* No command of the program saves or clears anything of Xiaomi's without the grant,
\* or outside of its own hold of the mutation lock.
THEOREM GrantBeforeEveryChange == Spec => OnlySuccessIsSaved
<1>1. ~Runs("xiaomi") /\ [Next]_vars => [ByGrantAndHold]_xiaomiVars
  BY OnePartSteps
<1> QED  BY <1>1, StepsOfSpec, OnePartSteps, SourceAtRest, GrantBeforeChange, PTL
            DEF XiaomiSpec, OnlySuccessIsSaved
=============================================================================
