-------------------------------- MODULE Form ---------------------------------
(***************************************************************************)
(* The credential form: openForm() starts `vl.js serve` as a process of    *)
(* its own and waits until it listens; serve() takes one submission from   *)
(* the browser, stores it in the vault and leaves a receipt for the agent  *)
(* (lib/receipts.js). Node runs one handler at a time, but requests        *)
(* overlap: a body may be on its way while another settles the form, or    *)
(* while the abandon timer fires.                                          *)
(*                                                                         *)
(* Abstracted: a body is what the handler makes of it; the rows of         *)
(* config.json that a stored credential brings are Lifecycle's; ports,     *)
(* exit codes and the wording of a page or a receipt are left out, and so  *)
(* is the scrubbing of what looks like a secret.                           *)
(***************************************************************************)
EXTENDS Evidence

CONSTANTS Asked,   \* the routes that the form asks a credential of
          Request  \* bound: the submissions that a browser makes

VARIABLES form,    \* the serve process
          taken,   \* another program has the port
          opener,  \* what openForm() has concluded
          timer,   \* the abandon timer
          settled, ending,
          post,    \* the submissions: where each is, what it carries
          page,    \* and what was answered to it
          stored,  \* routes whose credential this form has stored
          receipt, \* the receipt on disk that is still fresh
          crashed
formVars == <<form, taken, opener, timer, settled, ending, post, page, stored, receipt, crashed>>
formWorld == <<taken, opener, crashed>>

NoReceipt == [by |-> "nobody"]
Earlier == [by |-> "an earlier form"]
ReceiptOf(outcome, routes, saved) ==
    [by |-> "this form", outcome |-> outcome, routes |-> routes, saved |-> saved]

Idle == [at |-> "unsent"]
Bodies == [is : {"credentials"}, for : SUBSET Asked] \* and junk beside them is ignored
          \cup [is : {"malformed", "bad nonce", "oversized"}]

Answers == {"refused", "rejected", "agent told", "agent told of a failure", "nothing stored", "agent not told"}
ASSUME FormAssumption == Unknown \notin Answers

-----------------------------------------------------------------------------
FormInit ==
    /\ form = "starting" /\ taken = FALSE /\ opener = "waiting"
    /\ timer = "off" /\ settled = FALSE /\ ending = FALSE
    /\ post = [r \in Request |-> Idle]
    /\ page = [r \in Request |-> Unknown]
    /\ stored = {} /\ crashed = FALSE
    /\ receipt \in {NoReceipt, Earlier}

\* An unknown route, a vault that cannot be written, or the port in use.
ServeExits ==
    /\ form = "starting"
    /\ form' = "gone" /\ taken' \in BOOLEAN
    /\ UNCHANGED <<opener, timer, settled, ending, post, page, stored, receipt, crashed>>

Listen ==
    /\ form = "starting"
    /\ form' = "open" /\ timer' = "armed"
    /\ UNCHANGED <<formWorld, settled, ending, post, page, stored, receipt>>

\* waitForFormServer(): whatever accepts a connection on the port.
OpenerConnects ==
    /\ opener = "waiting" /\ (form = "open" \/ taken)
    /\ opener' = "ready"
    /\ UNCHANGED <<form, taken, timer, settled, ending, post, page, stored, receipt, crashed>>

OpenerSeesExit ==
    /\ opener = "waiting" /\ form = "gone"
    /\ opener' = "nothing was stored"
    /\ UNCHANGED <<form, taken, timer, settled, ending, post, page, stored, receipt, crashed>>

OpenerGivesUp ==
    /\ opener = "waiting" /\ form \in {"starting", "open"}
    /\ opener' = "nothing was stored" /\ form' = "gone"
    /\ UNCHANGED <<taken, timer, settled, ending, post, page, stored, receipt, crashed>>

-----------------------------------------------------------------------------
\* The browser knows the URL from the opener; a closing server accepts nobody.
Send(r) ==
    /\ post[r] = Idle /\ opener = "ready" /\ form = "open"
    /\ \E body \in Bodies : post' = [post EXCEPT ![r] = [at |-> "sending", body |-> body]]
    /\ UNCHANGED <<form, formWorld, timer, settled, ending, page, stored, receipt>>

Abort(r) ==
    /\ post[r].at = "sending"
    /\ post' = [post EXCEPT ![r].at = "aborted"]
    /\ UNCHANGED <<form, formWorld, timer, settled, ending, page, stored, receipt>>

\* A receipt is written whole, or not at all.
MayPublish(r) == receipt' \in {r, receipt}

Shutdown == ending' = TRUE /\ timer' = "over"

Reply(r, answer) ==
    /\ post' = [post EXCEPT ![r].at = "answered"]
    /\ page' = [page EXCEPT ![r] = answer]

Arrives(r, kinds) == form \in {"open", "closing"} /\ post[r].at = "sending" /\ post[r].body.is \in kinds

\* Mutated: late only once the server is closing.
LateWhenClosing == form = "closing"

\* The first terminal request owns the receipt.
TooLate == settled

\* A late body is not read to its end if it is too large, and not used if it is not.
Refuse(r) ==
    /\ Arrives(r, {"credentials", "malformed", "bad nonce", "oversized"}) /\ TooLate
    /\ Reply(r, "refused")
    /\ UNCHANGED <<form, formWorld, timer, settled, ending, stored, receipt>>

RejectBody(r) ==
    /\ Arrives(r, {"malformed", "bad nonce", "oversized"}) /\ ~TooLate
    /\ settled' = TRUE
    /\ MayPublish(ReceiptOf("failed", Asked, {}))
    /\ Reply(r, "rejected")
    /\ Shutdown
    /\ UNCHANGED <<form, formWorld, stored>>

\* The outcome, and the routes it is about: those that failed if the vault did.
Outcome(saved, vaultFailed) ==
    IF vaultFailed # {} THEN ReceiptOf("failed", Asked \ saved, saved)
    ELSE IF saved # {} THEN ReceiptOf("submitted", saved, saved)
    ELSE ReceiptOf("failed", Asked, {})

\* The receipt, or, where something was stored, a notice that it failed; the page
\* says which. A vault may refuse any of the credentials.
Submit(r) ==
    /\ Arrives(r, {"credentials"}) /\ ~TooLate
    /\ settled' = TRUE
    /\ \E saved \in SUBSET post[r].body.for :
          /\ stored' = stored \cup saved
          /\ \/ /\ receipt' = Outcome(saved, post[r].body.for \ saved)
                /\ Reply(r, "agent told")
             \/ /\ saved # {}
                /\ receipt' = ReceiptOf("failed", saved, saved)
                /\ Reply(r, "agent told of a failure")
             \/ /\ receipt' = receipt
                /\ Reply(r, IF saved = {} THEN "nothing stored" ELSE "agent not told")
    /\ Shutdown
    /\ UNCHANGED <<form, formWorld>>

\* The process is killed, between two vault writes or before the receipt.
FormCrashes ==
    /\ form \in {"open", "closing"}
    /\ form' = "gone" /\ crashed' = TRUE
    /\ \/ UNCHANGED stored
       \/ \E r \in Request : /\ Arrives(r, {"credentials"}) /\ ~TooLate
                             /\ \E saved \in SUBSET post[r].body.for : stored' = stored \cup saved
    /\ UNCHANGED <<taken, opener, timer, settled, ending, post, page, receipt>>

-----------------------------------------------------------------------------
\* The answer has had time to leave: server.close().
CloseDue ==
    /\ ending /\ form \in {"open", "closing"}
    /\ form' = "closing" /\ ending' = FALSE
    /\ UNCHANGED <<formWorld, timer, settled, post, page, stored, receipt>>

\* Five minutes: closed, though a submission that is on its way may still arrive.
AbandonTimer ==
    /\ timer = "armed" /\ form = "open"
    /\ timer' = "over" /\ form' = "closing"
    /\ IF settled THEN receipt' = receipt ELSE MayPublish(ReceiptOf("abandoned", Asked, {}))
    /\ UNCHANGED <<formWorld, settled, ending, post, page, stored>>

\* A closed server waits for the requests it has.
ServeEnds ==
    /\ form = "closing" /\ \A r \in Request : post[r].at # "sending"
    /\ form' = "gone"
    /\ UNCHANGED <<formWorld, timer, settled, ending, post, page, stored, receipt>>

\* Ten minutes after it was written a receipt is not read any more.
ReceiptExpires ==
    /\ receipt # NoReceipt
    /\ receipt' = NoReceipt
    /\ UNCHANGED <<form, formWorld, timer, settled, ending, post, page, stored>>

Handle(r) == Refuse(r) \/ RejectBody(r) \/ Submit(r)

FormNext ==
    \/ ServeExits \/ Listen \/ OpenerConnects \/ OpenerSeesExit \/ OpenerGivesUp
    \/ \E r \in Request : Send(r) \/ Abort(r) \/ Handle(r)
    \/ FormCrashes \/ CloseDue \/ AbandonTimer \/ ServeEnds \/ ReceiptExpires

FormSpec == FormInit /\ [][FormNext]_formVars

-----------------------------------------------------------------------------
Mine == receipt.by = "this form"
AdmittedBy == {r \in Request : page[r] \notin {Unknown, "refused", "rejected"}}

\* "the form DID submit" (bin/vl.js:733): a fresh receipt of this form says exactly
\* what the form has stored, one submission's credentials at most, however the
\* requests, the timer and failing writes fall; the one receipt that may be wrong
\* is that of an abandonment whose correction failed, and then the page says so.
\* Where openForm() says that nothing was stored, nothing is.
ReceiptTellsWhatIsStored ==
    /\ Mine /\ ~crashed =>
           \/ receipt.saved = stored
           \/ receipt.outcome = "abandoned" /\ \E r \in Request : page[r] = "agent not told"
    /\ Mine /\ receipt.outcome = "submitted" => receipt.routes = stored /\ stored # {}
    /\ \A r, s \in AdmittedBy : r = s
    /\ opener = "nothing was stored" => stored = {}
=============================================================================
