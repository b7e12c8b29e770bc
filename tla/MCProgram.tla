------------------------------ MODULE MCProgram ------------------------------
(***************************************************************************)
(* Program for TLC: policies, registries, requests, cached entries, caller *)
(* contexts and earlier installations, each set small but with the cases   *)
(* that the code tells apart.                                              *)
(***************************************************************************)
EXTENDS Program, Integers

\* Eligibility
NoPolicy == [forbidRoutes |-> {}, forbidProfiles |-> {}, forbidModels |-> {}, forbidHarnesses |-> {},
  models |-> {}, harnesses |-> {}, taskCaps |-> {}, execCaps |-> {}, skills |-> {},
  route |-> FALSE, usableRoute |-> FALSE, otherFamily |-> FALSE, subject |-> [family |-> Unknown, model |-> Unknown]]
MCFamilies == [anthropic |-> [aliases |-> {"claude"}], openai |-> [aliases |-> {}]]
MCPolicies == { NoPolicy,
 [NoPolicy EXCEPT !.route = TRUE, !.usableRoute = TRUE],
 [NoPolicy EXCEPT !.forbidRoutes = {"r1"}, !.forbidProfiles = {"work"}],
 [NoPolicy EXCEPT !.forbidModels = {"claude-opus"}],
 [NoPolicy EXCEPT !.forbidHarnesses = {"codex"}],
 [NoPolicy EXCEPT !.models = {"opus"}, !.taskCaps = {"code"}],
 [NoPolicy EXCEPT !.harnesses = {"codex-cli"}],
 [NoPolicy EXCEPT !.execCaps = {"tool-use", "code"}],
 [NoPolicy EXCEPT !.taskCaps = {"code", "tool-use"}, !.skills = {"dev"}],
 [NoPolicy EXCEPT !.otherFamily = TRUE, !.subject = [family |-> "claude", model |-> Unknown]],
 [NoPolicy EXCEPT !.otherFamily = TRUE, !.subject = [family |-> Unknown, model |-> "opus"]],
 [NoPolicy EXCEPT !.otherFamily = TRUE]}

MCModels == [opus |-> [aliases |-> {"claude-opus"}, family |-> "claude", caps |-> {"code", "review"}]]
MCHarnesses == [codex |-> [aliases |-> {"codex-cli"}, caps |-> {"tool-use"}, skills |-> {}],
                claude |-> [aliases |-> {}, caps |-> {"tool-use", "code"}, skills |-> {"dev"}]]

\* Candidates as `vl recommend` builds them from routes, and as a caller may.
Bare == [f \in Fact \cup {"id", "fresh", "cost", "speed"} |-> IF f = "id" THEN 1 ELSE Unknown]
Good == [Bare EXCEPT !.route = "r1", !.state = "healthy", !.fresh = "fresh", !.model = "opus",
                     !.harness = "codex-cli", !.profile = "work"]
Other == [Bare EXCEPT !.id = 2, !.route = "r2", !.state = "constrained", !.model = "gpt",
                      !.taskCaps = {"code"}, !.harness = "claude", !.profile = "home",
                      !.cost = "low", !.speed = "fast", !.family = "openai"]
Third == [Bare EXCEPT !.id = 3, !.route = "r1", !.state = "healthy", !.harness = "codex",
                      !.available = "available", !.cost = "medium", !.speed = "slow"]
MCLists == {<<>>, <<Good>>, <<Other, Good, Third>>, <<Third, Other>>, <<Bare, [Third EXCEPT !.route = Unknown, !.id = 2, !.harness = Unknown]>>,
            <<[Other EXCEPT !.model = Unknown, !.taskCaps = Capability], Good>>, \* declares a lot of no model
            <<Good, [Good EXCEPT !.id = 2]>>, <<[Good EXCEPT !.id = 2], Good>>,
            <<Good, [Other EXCEPT !.id = 1], Third>>,
            <<[Good EXCEPT !.state = "exhausted"], Other>>,
            <<[Good EXCEPT !.route = Unknown], [Third EXCEPT !.state = "other"], Other>>}
Demands == {Unknown, [StrictPolicy EXCEPT !.route = FALSE, !.usableRoute = FALSE],
            [StrictPolicy EXCEPT !.otherFamily = TRUE, !.subject = [family |-> Unknown, model |-> "opus"]],
            [StrictPolicy EXCEPT !.harnesses = {"codex"}]}

\* Recommend: what the readiness check answers, and the classifier
All(v) == <<[id |-> 1, verdict |-> "pass"], [id |-> 2, verdict |-> v]>>
Readiness == {All("pass"), All("partial"), All("unheard of"), <<>>, <<[id |-> 1, verdict |-> "pass"]>>,
             All("pass") \o <<[id |-> 2, verdict |-> "blocking"]>>,
             All("blocking") \o <<[id |-> 2, verdict |-> "pass"]>>,
             All("pass") \o <<[id |-> 3, verdict |-> "partial"]>>}

Unsaid == [d \in Dimension |-> "absent"]
Coding == [Unsaid EXCEPT !["taskKind"] = "code", !["reasoning"] = "bottomless"]
Review == [taskKind |-> "review", reasoning |-> "deep", verification |-> "independent-review", others |-> "stated"]
MCReplies == {[profile |-> Review, confidence |-> c, suggestion |-> s] : c \in {5, 6, 11}, s \in {0, 2, 9, -1}}
             \cup {[profile |-> Coding, confidence |-> 10, suggestion |-> 1]}

Ask == [list |-> <<Other, Good, Third>>, policy |-> Unknown, prefs |-> [cost |-> FALSE, speed |-> FALSE],
        task |-> Coding, defaults |-> Review,
        caller |-> [harness |-> "codex", profile |-> "work", account |-> Unknown],
        readiness |-> All("partial"), verification |-> "undefined", clock |-> TRUE,
        model |-> TRUE, base |-> "https", catalog |-> TRUE, floor |-> 6]
Nameless == [harness |-> Unknown, profile |-> Unknown, account |-> "home"]
MCRequests ==
    {[Ask EXCEPT !.readiness = e, !.verification = v, !.base = b, !.model = m, !.catalog = k] :
        e \in Readiness, v \in {"verified", "unverified", "undefined"}, b \in {"https", "http"},
        m \in BOOLEAN, k \in BOOLEAN}
    \cup {[Ask EXCEPT !.list = l, !.policy = p, !.task = t, !.readiness = All("pass"), !.caller = who] :
        l \in MCLists, p \in Demands, t \in {Coding, Unsaid}, who \in {Ask.caller, Nameless}}
    \cup {[Ask EXCEPT !.list = l, !.prefs = [cost |-> c, speed |-> s], !.clock = now] :
        l \in MCLists, c \in BOOLEAN, s \in BOOLEAN, now \in BOOLEAN}

\* View: statuses as adapters report them, and entries as the cache may hold them
Plain == [state |-> "healthy", windows |-> <<"counted">>, balance |-> FALSE, basis |-> Unknown,
          reason |-> Unknown, reauth |-> Unknown, error |-> FALSE]
MCStatuses == {Plain, [Plain EXCEPT !.state = "exhausted", !.windows = <<"percent", "limitless">>],
   [Plain EXCEPT !.state = "unknown", !.windows = <<>>, !.reason = "quota-list-empty"],
   [Plain EXCEPT !.state = "unknown", !.windows = <<>>, !.reason = "unregistered", !.error = TRUE],
   [Plain EXCEPT !.state = "unknown", !.windows = <<"limitless">>, !.basis = "token-count", !.reauth = "unsafe"]}
Odd == {[Plain EXCEPT !.state = "other"], [Plain EXCEPT !.state = Unknown, !.windows = <<"percent">>, !.balance = TRUE],
  [Plain EXCEPT !.state = "constrained", !.balance = TRUE, !.windows = <<"bare">>],
  [Plain EXCEPT !.state = "unknown", !.reason = "unknown-region", !.windows = <<>>]}
MCEntries == {[kind |-> "none"], [kind |-> "junk"]}
  \cup [kind : {"statusless"}, until : {2, Unknown}, revision : {1}]
  \cup [kind : {"record"}, status : MCStatuses \cup Odd, observed : {0, Unknown}, until : {1, 2, Unknown}, revision : {1, 2}]
  \cup [kind : {"record"}, status : {Plain}, observed : {0}, until : {2}, revision : {Unknown}]
MCRoutes == [provider : {"xiaomi", "glm"}, refused : BOOLEAN, revision : {1}]

\* Live: who calls, what the injected sources, runtime.json and the routes give
Q == [envAgent |-> "me", agent |-> Unknown, envEpic |-> "e", epic |-> Unknown, host |-> Unknown]
MCTools == <<"claude">>
MCSources == <<"a">>
MCQueries == {Q, [Q EXCEPT !.envAgent = Unknown], [Q EXCEPT !.agent = "other"], [Q EXCEPT !.envEpic = Unknown, !.epic = "f", !.host = "h"],
   [Q EXCEPT !.epic = "f", !.host = "h"]}
MCReplied == {[is |-> "failed"], [is |-> "ok", rows |-> {<<"harness", "catalog">>, <<"profile", "other">>}, caller |-> {"agentId", "ade"}, diags |-> {}]}
MCSidecars == {[rows |-> {}, diags |-> {"runtime-sidecar-corrupt"}], [rows |-> {<<"harness", "catalog">>, <<"profile", "old">>}, diags |-> {}]}
MCExternals == {[outcome |-> "no-credentials", routes |-> FALSE], [outcome |-> "no-credentials", routes |-> TRUE], [outcome |-> "completed", routes |-> TRUE]}

\* Xiaomi: what earlier commands may have left
Token == "xiaomi-token-plan"
Rejected == [source |-> [routes |-> {Token}, profile |-> Default],
             kh |-> [built |-> "old", trusted |-> TRUE],
             private |-> [dir |-> "safe", rejected |-> 1, suppressed |-> FALSE]]
Suppressed == [source |-> [routes |-> {"another id"}, profile |-> "odd"],
               kh |-> [built |-> "none", trusted |-> FALSE],
               private |-> [dir |-> "readonly", rejected |-> 0, suppressed |-> TRUE]]
MCInstalled == {Rejected, Suppressed}
=============================================================================
