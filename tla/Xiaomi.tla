------------------------------- MODULE Xiaomi --------------------------------
(***************************************************************************)
(* The Xiaomi source: a session reads Chrome's console cookies and asks    *)
(* the console for the plan's counts (lib/xiaomi-session.js, lib/cookies/, *)
(* lib/adapters/xiaomi.js), in the background and without a prompt; `vl    *)
(* setup`, `update` and `remove` choose the profile, install the key       *)
(* helper, have the user grant it the Chrome key and reset the two private *)
(* markers. Sessions and commands are processes that run side by side.     *)
(*                                                                         *)
(* Abstracted: a cookie bundle is its digest; a key is what KeyBridge      *)
(* makes of it; the mutation lock is TicketLock's, freed when its holder   *)
(* ends; the rest of config.json and of the cache is left out.             *)
(***************************************************************************)
EXTENDS Evidence, Naturals, Sequences

CONSTANTS Admin, Session, \* processes
          ChromeProfile,  \* names of profiles that are valid
          Default,        \* one of them
          Explicit,       \* bound: those that users name
          Installed,      \* what earlier commands may have left: source, kh, private
          MaxBundle       \* bound: digests of the cookies

VARIABLES source,  \* config.json: the Xiaomi routes and the selected profile
          holder,  \* who holds the mutation lock
          kh,      \* the installed helper: its sources, and whether it may have the key
          private, \* the private directory and the markers in it
          bundle,  \* the cookies in Chrome
          cached,  \* Xiaomi rows in the cache
          admin, session
xiaomiVars == <<source, holder, kh, private, bundle, cached, admin, session>>
sharedVars == <<source, holder, kh, private, bundle, cached>>

Unheld == "nobody"
NoBundle == 0
TokenPlan == "xiaomi-token-plan"
Alias == "another id"

Resting == [end |-> "not begun"]
Asleep == [at |-> "asleep"]

Source(routes, profile) == [routes |-> routes, profile |-> profile]
NoDocument == Source({}, Unknown)
Helper(built, trusted) == [built |-> built, trusted |-> trusted]
Private(dir, rejected, suppressed) == [dir |-> dir, rejected |-> rejected, suppressed |-> suppressed]

Names == ChromeProfile \cup {Default, Unknown} \cup {before.source.profile : before \in Installed}
SourceType == [routes : SUBSET {TokenPlan, Alias}, profile : Names]
PrivateType == [dir : {"absent", "safe", "readonly", "unsafe"}, rejected : NoBundle .. MaxBundle, suppressed : BOOLEAN]
ASSUME XiaomiAssumption ==
    /\ \A before \in Installed : before.source \in SourceType /\ before.private \in PrivateType
    /\ Explicit \subseteq ChromeProfile
    /\ Unheld \notin Admin
    /\ MaxBundle \in Nat \ {0}

-----------------------------------------------------------------------------
XiaomiInit ==
    /\ \E before \in Installed :
          /\ source = before.source
          /\ kh = before.kh
          /\ private = before.private
    /\ holder = Unheld
    /\ bundle = 1
    /\ cached = source.routes
    /\ admin = [a \in Admin |-> Resting]
    /\ session = [s \in Session |-> Asleep]

\* writeOwnedJson() and removeOwnedFile(): where they are refused
Writable == private.dir \in {"absent", "safe"}
Removable(present) == private.dir \in {"absent", "safe"} \/ (private.dir = "readonly" /\ ~present)

-----------------------------------------------------------------------------
\* Mutated: the markers are cleared before the user has answered.
PlanResetFirst(do) ==
    CASE do = "setup" -> <<"lock", "build", "check", "grant", "unreject", "unsuppress", "save">>
      [] do = "update" -> <<"check", "unreject", "unsuppress", "grant", "lock", "save">>
      [] do = "remove" -> <<"lock", "unreject", "unsuppress", "save", "reread", "rewrite">>

\* The steps of a command, in their order: "order is READ-ONLY prevalidation, grant,
\* MUTATING reset, publish", setup's in one hold of the mutation lock.
Plan(do) ==
    CASE do = "setup" -> <<"lock", "build", "check", "grant", "unreject", "unsuppress", "save">>
      [] do = "update" -> <<"check", "grant", "unreject", "unsuppress", "lock", "save">>
      [] do = "remove" -> <<"lock", "unreject", "unsuppress", "save", "reread", "rewrite">>

Busy(a) == admin[a].end = "running"
Todo(a) == {Plan(admin[a].do)[i] : i \in admin[a].next .. Len(Plan(admin[a].do))}
At(a, step) == Busy(a) /\ Plan(admin[a].do)[admin[a].next] = step
Ended(a) == admin' = [admin EXCEPT ![a] = [end |-> "over"]]
NextStep(a) == IF admin[a].next = Len(Plan(admin[a].do)) THEN Ended(a)
               ELSE admin' = [admin EXCEPT ![a].next = @ + 1]

\* A refusal is err(), whose exit hook gives the lock back; a killed process's is reclaimed.
Stop(a) ==
    /\ Ended(a)
    /\ holder' = IF holder = a THEN Unheld ELSE holder
    /\ UNCHANGED <<source, kh, private, cached>>

\* An explicit profile comes before the saved one, and a setup has a default.
ProfileFor(do, explicit, saved) ==
    CASE explicit # Unknown -> explicit
      [] explicit = Unknown /\ saved \in ChromeProfile -> saved
      [] OTHER -> IF do = "setup" THEN Default ELSE Unknown

\* The configuration is loaded, without the lock: the saved selection that counts
\* is the one of this read, however long the command waits before it publishes.
Begin(a) ==
    /\ admin[a] = Resting
    /\ \E do \in {"setup", "update", "remove"}, route \in {TokenPlan, Alias},
          explicit \in Explicit \cup {Unknown} :
          /\ do = "setup" => route = TokenPlan
          /\ do = "update" => /\ source.routes # {} /\ route = TokenPlan
                             /\ ProfileFor(do, explicit, source.profile) # Unknown
          /\ do = "remove" => route \in source.routes /\ explicit = Unknown
          /\ admin' = [admin EXCEPT ![a] =
                [end |-> "running", do |-> do, next |-> 1, route |-> route,
                 explicit |-> explicit,
                 saved |-> IF do = "remove" \/ explicit # Unknown THEN Unknown ELSE source.profile,
                 base |-> NoDocument, rows |-> {}]]
    /\ UNCHANGED <<sharedVars, session>>

\* withConfigLock(), and the reading of config.json inside it. The last removal
\* drops the private state too.
Lock(a) ==
    /\ At(a, "lock")
    /\ \/ /\ holder = Unheld
          /\ holder' = a
          /\ LET last == admin[a].do # "remove" \/ source.routes \subseteq {admin[a].route}
             IN admin' = [admin EXCEPT ![a].base = source,
                                       ![a].next = IF last THEN @ + 1 ELSE @ + 3]
          /\ UNCHANGED <<source, kh, private, cached>>
       \/ Stop(a) \* busy, or config.json is not readable
    /\ UNCHANGED <<bundle, session>>

\* buildHelper(): a helper of the same sources stays, with its grant, unless its record is lost.
BuildHelper(a) ==
    /\ At(a, "build")
    /\ \/ kh.built = "new" /\ NextStep(a) /\ UNCHANGED <<source, holder, kh, private, cached>>
       \/ NextStep(a) /\ kh' = Helper("new", FALSE) /\ UNCHANGED <<source, holder, private, cached>>
       \/ Stop(a)
    /\ UNCHANGED <<bundle, session>>

Check(a) ==
    /\ At(a, "check")
    /\ IF Writable THEN NextStep(a) /\ UNCHANGED <<source, holder, kh, private, cached>> ELSE Stop(a)
    /\ UNCHANGED <<bundle, session>>

\* The user may allow it for this once only, or deny it, or not answer in time.
Grant(a) ==
    /\ At(a, "grant")
    /\ \/ /\ kh.built # "none"
          /\ NextStep(a)
          /\ kh' \in {kh, [kh EXCEPT !.trusted = TRUE]}
          /\ UNCHANGED <<source, holder, private, cached>>
       \/ Stop(a)
    /\ UNCHANGED <<bundle, session>>

\* clearRejected() and clearSuppressed()
Unreject(a) ==
    /\ At(a, "unreject")
    /\ IF Removable(private.rejected # NoBundle)
       THEN /\ NextStep(a) /\ private' = [private EXCEPT !.rejected = NoBundle]
            /\ UNCHANGED <<source, holder, kh, cached>>
       ELSE Stop(a)
    /\ UNCHANGED <<bundle, session>>

Unsuppress(a) ==
    /\ At(a, "unsuppress")
    /\ IF Removable(private.suppressed)
       THEN /\ NextStep(a) /\ private' = [private EXCEPT !.suppressed = FALSE]
            /\ UNCHANGED <<source, holder, kh, cached>>
       ELSE Stop(a)
    /\ UNCHANGED <<bundle, session>>

\* planXiaomiConfig(), writeXiaomiSourceProfile() and removeXiaomi(): the document of
\* the hold, and in it the selection made before the hold.
Document(a) ==
    LET base == admin[a].base
        rest == base.routes \ {admin[a].route}
        selected == ProfileFor(admin[a].do, admin[a].explicit, admin[a].saved)
    IN CASE admin[a].do = "setup" -> Source(base.routes \cup {TokenPlan}, selected)
         [] admin[a].do = "update" -> [base EXCEPT !.profile = selected]
         [] admin[a].do = "remove" -> Source(rest, IF rest = {} THEN Unknown ELSE base.profile)

Save(a) ==
    /\ At(a, "save")
    /\ \/ /\ source' = Document(a)
          /\ holder' = IF holder = a THEN Unheld ELSE holder
          /\ NextStep(a)
          /\ UNCHANGED <<kh, private, cached>>
       \/ Stop(a)
    /\ UNCHANGED <<bundle, session>>

\* Without the lock, and best effort, a removal rewrites the cache it has read.
Reread(a) ==
    /\ At(a, "reread")
    /\ IF admin[a].route \in cached
       THEN admin' = [admin EXCEPT ![a].rows = cached, ![a].next = @ + 1]
       ELSE Ended(a)
    /\ UNCHANGED <<sharedVars, session>>

Rewrite(a) ==
    /\ At(a, "rewrite")
    /\ cached' \in {cached, admin[a].rows \ {admin[a].route}}
    /\ Ended(a)
    /\ UNCHANGED <<source, holder, kh, private, bundle, session>>

Killed(a) == Busy(a) /\ Stop(a) /\ UNCHANGED <<bundle, session>>

Command(a) == \/ Lock(a) \/ BuildHelper(a) \/ Check(a) \/ Grant(a) \/ Unreject(a) \/ Unsuppress(a)
              \/ Save(a) \/ Reread(a) \/ Rewrite(a)

-----------------------------------------------------------------------------
\* What a session reports.
Status(state, says) == [state |-> state, says |-> says]
AuthStatus == Status("unknown", "auth")
ErrorStatus(says) == Status("unknown", says)

Awake(s, at) == session[s].at = at
Goes(s, at) == session' = [session EXCEPT ![s].at = at]
Reports(s, status) == session' = [session EXCEPT ![s] = [at |-> "done", saw |-> session[s], status |-> status]]

Wake(s) ==
    /\ Awake(s, "asleep")
    /\ source.routes # {}
    /\ session' = [session EXCEPT ![s] =
           [at |-> "configured", profile |-> source.profile, bundle |-> NoBundle,
            compared |-> {}, usage |-> Unknown, detail |-> Unknown]]
    /\ UNCHANGED <<sharedVars, admin>>

\* readSuppressed()
Starts(s) ==
    /\ Awake(s, "configured")
    /\ CASE session[s].profile \notin ChromeProfile -> Reports(s, ErrorStatus("not configured"))
         [] session[s].profile \in ChromeProfile /\ private.dir = "unsafe" -> Reports(s, ErrorStatus("unsafe"))
         [] OTHER -> IF private.suppressed THEN Reports(s, ErrorStatus("key")) ELSE Goes(s, "cookies")
    /\ UNCHANGED <<sharedVars, admin>>

\* readConsoleRows(): a snapshot of Chrome's own file.
LoadRows(s) ==
    /\ Awake(s, "cookies")
    /\ \/ bundle = NoBundle /\ Reports(s, AuthStatus)
       \/ bundle # NoBundle /\ session' = [session EXCEPT ![s].at = "key", ![s].bundle = bundle]
       \/ Reports(s, ErrorStatus("store"))
    /\ UNCHANGED <<sharedVars, admin>>

\* The key without a prompt, and the cookies decrypted. A key that is late and cookies
\* that do not decrypt are no lasting failure.
LoadKey(s) ==
    /\ Awake(s, "key")
    /\ \/ kh.trusted /\ Goes(s, "digest")
       \/ Goes(s, "suppress")
       \/ Reports(s, ErrorStatus("decryption"))
    /\ UNCHANGED <<sharedVars, admin>>

\* writeSuppressed(), best effort
Suppress(s) ==
    /\ Awake(s, "suppress")
    /\ private' \in (IF Writable THEN {[private EXCEPT !.dir = "safe", !.suppressed = TRUE]} ELSE {}) \cup {private}
    /\ Reports(s, ErrorStatus("key"))
    /\ UNCHANGED <<source, holder, kh, bundle, cached, admin>>

\* Mutated: the digest that was rejected is read, and not compared with the bundle's.
CompareNever(s) ==
    /\ Awake(s, "digest")
    /\ IF private.dir = "unsafe" THEN Reports(s, ErrorStatus("unsafe"))
       ELSE session' = [session EXCEPT ![s].at = "usage", ![s].compared = {private.rejected}]
    /\ UNCHANGED <<sharedVars, admin>>

\* readRejected(): a bundle that was rejected is not sent again. cookieHeader(): nor is
\* one whose cookies have expired since, or hold what no header may.
Compare(s) ==
    /\ Awake(s, "digest")
    /\ CASE private.dir = "unsafe" -> Reports(s, ErrorStatus("unsafe"))
         [] private.dir # "unsafe" /\ private.rejected = session[s].bundle -> Reports(s, AuthStatus)
         [] OTHER ->
              \/ session' = [session EXCEPT ![s].at = "usage", ![s].compared = {private.rejected}]
              \/ Reports(s, AuthStatus)
              \/ Reports(s, ErrorStatus("header"))
    /\ UNCHANGED <<sharedVars, admin>>

\* request() and envelope(): the usage, then with the whole bundle the detail. A request
\* fails when it is late, refused, redirected, too large or not as expected.
AskUsage(s) ==
    /\ Awake(s, "usage")
    /\ \/ Goes(s, "reject")
       \/ Reports(s, ErrorStatus("request"))
       \/ \E plan \in {"no counts", "nothing left", "some left"} :
             session' = [session EXCEPT ![s].at = "detail", ![s].usage = plan]
    /\ UNCHANGED <<sharedVars, admin>>

AskDetail(s) ==
    /\ Awake(s, "detail")
    /\ \/ Goes(s, "reject")
       \/ Reports(s, ErrorStatus("request"))
       \/ \E told \in {"expired", "unrecognized", "current"} :
             session' = [session EXCEPT ![s].at = "accept", ![s].detail = told]
    /\ UNCHANGED <<sharedVars, admin>>

\* planWindow() and fetchStatus() of the adapter; usable is constrained or healthy.
Adapted(usage, detail) ==
    CASE detail = "expired" -> ErrorStatus("expired")
      [] detail # "expired" /\ (usage = "no counts" \/ detail = "unrecognized") -> ErrorStatus("unrecognized")
      [] OTHER -> Status(IF usage = "nothing left" THEN "exhausted" ELSE "usable", "counts")

\* Both endpoints took the bundle: an older rejection goes, best effort.
Accept(s) ==
    /\ Awake(s, "accept")
    /\ private' \in {private} \cup
           (IF private.dir = "safe" THEN {[private EXCEPT !.rejected = NoBundle]} ELSE {})
    /\ Reports(s, Adapted(session[s].usage, session[s].detail))
    /\ UNCHANGED <<source, holder, kh, bundle, cached, admin>>

\* A rejection that cannot be recorded is reported as that.
Reject(s) ==
    /\ Awake(s, "reject")
    /\ \/ /\ Writable
          /\ private' = [private EXCEPT !.dir = "safe", !.rejected = session[s].bundle]
          /\ Reports(s, AuthStatus)
       \/ private' = private /\ Reports(s, ErrorStatus("unsafe"))
    /\ UNCHANGED <<source, holder, kh, bundle, cached, admin>>

SessionStep(s) == \/ Starts(s) \/ LoadRows(s) \/ LoadKey(s) \/ Suppress(s) \/ Compare(s)
                  \/ AskUsage(s) \/ AskDetail(s) \/ Accept(s) \/ Reject(s)

-----------------------------------------------------------------------------
\* The user logs in or out; the private directory is deleted or its mode changes,
\* before a step that goes by it (the others are the same before and after); a refresh
\* publishes a row where a removal may lose it.
GoesByPrivate == \/ \E a \in Admin : \E step \in {"check", "unreject", "unsuppress"} : At(a, step)
                 \/ \E s \in Session : \E at \in {"configured", "suppress", "digest", "accept", "reject"} : Awake(s, at)

Chrome ==
    /\ \E s \in Session : Awake(s, "cookies")
    /\ bundle' \in NoBundle .. MaxBundle
    /\ UNCHANGED <<source, holder, kh, private, cached, admin, session>>

Meddle ==
    /\ GoesByPrivate
    /\ private.dir \in {"safe", "readonly"}
    /\ private' \in {[private EXCEPT !.dir = "unsafe"], [private EXCEPT !.dir = "safe"],
                     Private("absent", NoBundle, FALSE)}
    /\ UNCHANGED <<source, holder, kh, bundle, cached, admin, session>>

Publish ==
    /\ \E a \in Admin : At(a, "rewrite")
    /\ \E route \in source.routes : cached' = cached \cup {route}
    /\ UNCHANGED <<source, holder, kh, private, bundle, admin, session>>

XiaomiNext ==
    \/ \E a \in Admin : Begin(a) \/ Command(a) \/ Killed(a)
    \/ \E s \in Session : Wake(s) \/ SessionStep(s)
    \/ Chrome \/ Meddle \/ Publish

XiaomiSpec == XiaomiInit /\ [][XiaomiNext]_xiaomiVars

-----------------------------------------------------------------------------
\* "no cached counts shown" (xiaomi-session.js) and the adapter's mapping rules: a
\* capacity state is this session's own, of a profile that was configured, of cookies
\* that were not the rejected ones when it compared them (by whatever session, and
\* whatever became of the marker since) and that both endpoints took, of a plan that
\* has not expired, with valid counts that say so; exhausted is never read from an error.
\* A session that its key failed says so, and does not send the user to log in.
CountsAreLive == \A s \in Session : session[s].at = "done" =>
    LET saw == session[s].saw
        status == session[s].status
    IN /\ status.state # "unknown" =>
              /\ saw.profile \in ChromeProfile
              /\ saw.bundle # NoBundle /\ saw.compared # {} /\ saw.bundle \notin saw.compared
              /\ saw.detail = "current"
              /\ saw.usage \in {"nothing left", "some left"}
              /\ status.state = "exhausted" <=> saw.usage = "nothing left"
       /\ status = AuthStatus => saw.at \in {"cookies", "digest", "reject"}
       /\ saw.at \in {"key", "suppress"} => status.says \in {"key", "decryption"}

\* What a step of a command that publishes does to config.json. It works in a hold of
\* the lock: a route is added by setup only, and lost to its own removal only ("never
\* resurrect a removed canonical route", vl.js:1157). An explicit profile is saved as
\* it was given. Without one, setup and update go by the profile of a read before the
\* hold (vl.js:1245, 1310, 1388, 1454): they leave the selection alone, or make one
\* where none was valid, if it is still the one they read. If it is not, another
\* command's selection is overwritten, or a removed one is back: "nor a stale one (a
\* lost update)" (vl.js:1173) holds of the routes, and not of the selection.
Publishes(a) ==
    LET do == admin[a].do
        selected == source'.profile
    IN /\ holder = a
       /\ source'.routes \ source.routes \subseteq IF do = "setup" THEN {TokenPlan} ELSE {}
       /\ source.routes \ source'.routes \subseteq IF do = "remove" THEN {admin[a].route} ELSE {}
       /\ do = "remove" => selected = IF source'.routes = {} THEN Unknown ELSE source.profile
       /\ do # "remove" /\ admin[a].explicit # Unknown => selected = admin[a].explicit
       /\ do # "remove" /\ admin[a].explicit = Unknown /\ admin[a].saved = source.profile =>
             \/ selected = source.profile
             \/ do = "setup" /\ source.profile \notin ChromeProfile /\ selected = Default

\* "a denied update leaves prior config AND both private markers intact" (vl.js:1305):
\* whatever the commands, refusals, kills and sessions beside it, a command's step
\* changes config.json or clears a marker only after the grant, or to remove; and
\* it publishes after both markers are cleared, what Publishes says.
ByGrantAndHold == \A a \in Admin : Busy(a) /\ admin'[a] # admin[a] =>
    /\ source' # source \/ private' # private =>
           admin[a].do = "remove" \/ "grant" \notin Todo(a)
    /\ source' # source => Publishes(a)
    /\ source' # source /\ (admin[a].do # "remove" \/ source'.routes = {}) =>
           {"unreject", "unsuppress"} \cap Todo(a) = {}
OnlySuccessIsSaved == [][ByGrantAndHold]_xiaomiVars

\* Every wait of a command or a session has a timer or a bound.
XiaomiAtRest == /\ \A a \in Admin : ~Busy(a)
                /\ \A s \in Session : session[s].at \in {"asleep", "done"}
=============================================================================
