------------------------------- MODULE Program -------------------------------
(***************************************************************************)
(* The program as its user meets it: main() of bin/vl.js runs one command, *)
(* and with it one part of the system. The parts that share files with     *)
(* others (the locks, the configuration, the cache, the vault) have their  *)
(* own compositions; this module composes the parts that a command has for *)
(* itself, and says of all of them that the command ends.                  *)
(***************************************************************************)
EXTENDS Recommend, View, Live, Form, KeyBridge, Xiaomi

CONSTANTS Daemon, Client, Port, None, Stranger, Faults \* Dashboard

VARIABLES command, \* the part that runs; the variables of the others stay as they are
          place, port, owners, listener, record, collecting, reused, ready,
          at, cmd, seen, sure, confirmed, abandoned, abroad, out

D == INSTANCE Dashboard

dashboardVars == <<place, port, owners, listener, record, collecting, reused, ready,
                   at, cmd, seen, sure, confirmed, abandoned, abroad, out>>
vars == <<command, eligibilityVars, recommendVars, viewVars, liveVars, formVars, keyVars,
          xiaomiVars, dashboardVars>>

\* What is unknown is no stage of a command.
ASSUME ProgramAssumption == Unknown \notin {"done", "judge"}

-----------------------------------------------------------------------------
\* A part that does not run has no state to speak of.
Runs(part) == command = part

NoCandidate == candidate = Nobody /\ policy = Unknown
NoRecommendation ==
    /\ request = Unknown /\ stage = Unknown /\ verified = Unknown /\ contacted = {}
    /\ profile = Unknown /\ jev = Unknown /\ suggested = Unknown /\ verdicts = Unknown
    /\ eligible = Unknown /\ advice = Unknown
NoView ==
    /\ clock = 0 /\ route = Unknown /\ entry = Unknown /\ step = Unknown /\ collection = Unknown
    /\ live = Unknown /\ resource = Unknown /\ gated = Unknown /\ asked = 0 /\ view = Unknown
NoReads ==
    /\ query = Unknown /\ waiting = <<>> /\ child = Unknown /\ result = Unknown /\ phase = Unknown
    /\ said = Unknown /\ arrived = <<>> /\ sidecar = Unknown /\ external = Unknown
    /\ snap = Unknown /\ verdict = Unknown
NoForm ==
    /\ form = Unknown /\ taken = FALSE /\ opener = Unknown /\ timer = Unknown /\ settled = FALSE
    /\ ending = FALSE /\ post = Unknown /\ page = [r \in Request |-> Unknown] /\ stored = {}
    /\ receipt = NoReceipt /\ crashed = FALSE
NoKey ==
    /\ mode = Unknown /\ helper = Unknown /\ prompts = FALSE /\ prompted = FALSE /\ found = Unknown
    /\ status = Unknown /\ written = <<>> /\ read = 0 /\ noise = Unknown /\ late = FALSE
    /\ paired = FALSE /\ held = FALSE /\ key = Unknown
NoSource ==
    /\ source = Unknown /\ holder = Unknown /\ kh = Unknown /\ private = Unknown /\ bundle = 0
    /\ cached = {} /\ admin = [a \in Admin |-> Resting] /\ session = [s \in Session |-> Asleep]

Init ==
    /\ command \in {"candidate", "recommend", "view", "live", "form", "key", "xiaomi", "dashboard"}
    /\ IF Runs("candidate") THEN EligibilityInit ELSE NoCandidate
    /\ IF Runs("recommend") THEN RecommendInit ELSE NoRecommendation
    /\ IF Runs("view") THEN ViewInit ELSE NoView
    /\ IF Runs("live") THEN LiveInit ELSE NoReads
    /\ IF Runs("form") THEN FormInit ELSE NoForm
    /\ IF Runs("key") THEN KeyInit ELSE NoKey
    /\ IF Runs("xiaomi") THEN XiaomiInit ELSE NoSource
    /\ D!Init

\* Only this part takes steps.
Judging == Runs("candidate")
    /\ UNCHANGED <<command, recommendVars, viewVars, liveVars, formVars, keyVars, xiaomiVars, dashboardVars>>
Recommending == Runs("recommend")
    /\ UNCHANGED <<command, eligibilityVars, viewVars, liveVars, formVars, keyVars, xiaomiVars, dashboardVars>>
Viewing == Runs("view")
    /\ UNCHANGED <<command, eligibilityVars, recommendVars, liveVars, formVars, keyVars, xiaomiVars, dashboardVars>>
Reading == Runs("live")
    /\ UNCHANGED <<command, eligibilityVars, recommendVars, viewVars, formVars, keyVars, xiaomiVars, dashboardVars>>
Asking == Runs("form")
    /\ UNCHANGED <<command, eligibilityVars, recommendVars, viewVars, liveVars, keyVars, xiaomiVars, dashboardVars>>
Acquiring == Runs("key")
    /\ UNCHANGED <<command, eligibilityVars, recommendVars, viewVars, liveVars, formVars, xiaomiVars, dashboardVars>>
Sourcing == Runs("xiaomi")
    /\ UNCHANGED <<command, eligibilityVars, recommendVars, viewVars, liveVars, formVars, keyVars, dashboardVars>>
Serving == Runs("dashboard")
    /\ UNCHANGED <<command, eligibilityVars, recommendVars, viewVars, liveVars, formVars, keyVars, xiaomiVars>>

Next ==
    \/ Judging /\ EligibilityNext
    \/ Recommending /\ RecommendNext
    \/ Viewing /\ ViewNext
    \/ Reading /\ LiveNext
    \/ Asking /\ FormNext
    \/ Acquiring /\ KeyNext
    \/ Sourcing /\ XiaomiNext
    \/ Serving /\ D!Next

\* Of the part that runs: its own code runs on, its timers fire, its bounded waits end.
\* A read, a request, a command or a session has finitely many of these steps, so one
\* weak fairness of all that the part has is enough; daemons repeat theirs.
ReadSteps ==
    \/ Start \/ TakeRead \/ NextWave \/ WavesEnd \/ TraycerSettles \/ FoldSources \/ Judge
    \/ \E r \in Read : Deadline(r) \/ GraceEnds(r)
    \/ \E i \in DOMAIN Sources : SourceSettles(Sources[i])
FormSteps == CloseDue \/ AbandonTimer \/ ServeEnds \/ \E r \in Request : Abort(r) \/ Handle(r)
KeySteps == Spawn \/ SpawnFails \/ KillTimer \/ HardTimer
SourceSteps == (\E a \in Admin : Command(a)) \/ (\E s \in Session : SessionStep(s))

Fairness ==
    /\ WF_liveVars(Runs("live") /\ ReadSteps)
    /\ WF_formVars(Runs("form") /\ FormSteps)
    /\ WF_keyVars(Runs("key") /\ KeySteps)
    /\ WF_xiaomiVars(Runs("xiaomi") /\ SourceSteps)
    /\ \A d \in Daemon : /\ WF_dashboardVars(Runs("dashboard") /\ D!Advance(d))
                         /\ WF_dashboardVars(Runs("dashboard") /\ D!Collected(d))

Spec == Init /\ [][Next]_vars /\ Fairness

-----------------------------------------------------------------------------
\* A command ends though no CLI process, no browser, no key helper and no server ever
\* answers, and though other processes crash: every wait has a timer or a bound.
Finished ==
    /\ Runs("live") => phase = "done"
    /\ Runs("form") => form \in {"starting", "gone"}
    /\ Runs("key") => KeyAcquired
    /\ Runs("xiaomi") => XiaomiAtRest
    /\ Runs("dashboard") => D!NoneLingers
CommandsEnd == <>[]Finished
=============================================================================
