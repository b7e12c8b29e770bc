---------------------------- MODULE SecretProofs -----------------------------
(***************************************************************************)
(* How the program treats what the user entrusts to it, for any routes,    *)
(* submissions, commands, sessions and frames, and any interleaving.       *)
(*                                                                         *)
(* The credential form: its receipt tells what it has stored. FormInv:     *)
(* until a submission settles the form nothing is stored, nobody is        *)
(* admitted, and its only receipt is one of an abandonment; the submission *)
(* that settles it is answered once.                                       *)
(*                                                                         *)
(* The Chrome key: it is believed only at the end of a clean run, and the  *)
(* helper keeps its word. KeyInv: where the helper is decides what it has  *)
(* written, and what the bridge has read of it decides what it believes.   *)
(*                                                                         *)
(* The Xiaomi source: commands publish and clear only after the grant and  *)
(* in their own hold of the mutation lock. HoldSound: from taking the lock *)
(* to giving it up a command is the holder, and config.json is what it     *)
(* read. A session's report is grounded in what it learned: SessionsSound. *)
(***************************************************************************)
EXTENDS Form, KeyBridge, Xiaomi, SequenceTheorems, TLAPS

-----------------------------------------------------------------------------
\* The credential form.
Posts == {Idle} \cup [at : {"sending", "answered", "aborted"}, body : Bodies]
FormType == /\ post \in [Request -> Posts]
            /\ page \in [Request -> Answers \cup {Unknown}]
AnsweredOnce == \A r \in Request : page[r] # Unknown => post[r].at = "answered"
NobodyBeforeReady == opener # "ready" => stored = {} /\ \A r \in Request : post[r].at # "sending"
NothingUntilSettled == ~settled =>
    /\ AdmittedBy = {}
    /\ ~crashed => stored = {}
    /\ Mine => receipt.outcome = "abandoned" /\ receipt.saved = {}
FormInv == /\ FormType /\ AnsweredOnce /\ NobodyBeforeReady /\ NothingUntilSettled
           /\ crashed => form = "gone"
           /\ ReceiptTellsWhatIsStored

-----------------------------------------------------------------------------
LEMMA FormStarts ==
    ASSUME FormInit
    PROVE  FormInv
<1>1. NoReceipt.by # "this form" /\ Earlier.by # "this form"
  BY DEF NoReceipt, Earlier
<1>2. Idle.at = "unsent"
  BY DEF Idle
<1>3. /\ \A r \in Request : post[r] = Idle /\ page[r] = Unknown
      /\ ~settled /\ ~crashed /\ stored = {} /\ opener = "waiting"
      /\ ~Mine /\ AdmittedBy = {}
  BY <1>1 DEF FormInit, Mine, AdmittedBy
<1>4. FormType
  BY DEF FormInit, FormType, Posts
<1> QED  BY <1>2, <1>3, <1>4 DEF FormInv, AnsweredOnce, NobodyBeforeReady, NothingUntilSettled,
                                 ReceiptTellsWhatIsStored

\* The server starts, listens or ends; its opener looks at it.
LEMMA FormProcessKeeps ==
    ASSUME FormInv, \/ ServeExits \/ Listen \/ OpenerConnects \/ OpenerSeesExit \/ OpenerGivesUp
                    \/ CloseDue \/ ServeEnds
    PROVE  FormInv'
<1>1. /\ UNCHANGED <<settled, post, page, stored, receipt, crashed>>
      /\ opener' = opener \/ opener = "waiting"
      /\ form' = "gone" \/ form' = form \/ form \in {"starting", "open", "closing"}
  BY DEF ServeExits, Listen, OpenerConnects, OpenerSeesExit, OpenerGivesUp, CloseDue, ServeEnds,
         formWorld
<1>2. (crashed => form = "gone")'
  BY <1>1 DEF FormInv
<1>3. stored = {} \/ opener' = opener
  BY <1>1 DEF FormInv, NobodyBeforeReady
<1>4. FormType' /\ AnsweredOnce' /\ NobodyBeforeReady' /\ NothingUntilSettled'
  BY <1>1 DEF FormInv, FormType, AnsweredOnce, NobodyBeforeReady, NothingUntilSettled, AdmittedBy, Mine
<1>5. ReceiptTellsWhatIsStored'
  BY <1>1, <1>3 DEF FormInv, ReceiptTellsWhatIsStored, AdmittedBy, Mine
<1> QED  BY <1>2, <1>4, <1>5 DEF FormInv

\* The browser sends or breaks off; the receipt expires; nothing is stored or answered.
LEMMA RequestKeeps ==
    ASSUME FormInv, \/ \E r \in Request : Send(r) \/ Abort(r)
                    \/ ReceiptExpires \/ UNCHANGED formVars
    PROVE  FormInv'
<1>1. /\ UNCHANGED <<form, opener, settled, page, stored, crashed>>
      /\ receipt' \in {receipt, NoReceipt}
  BY DEF Send, Abort, ReceiptExpires, formVars, formWorld
<1>2. NoReceipt.by # "this form"
  BY DEF NoReceipt
<1>3. \A body \in Bodies : [at |-> "sending", body |-> body] \in Posts
  BY DEF Posts
<1>4. \A p \in Posts : p.at = "sending" => [p EXCEPT !.at = "aborted"] \in Posts
  <2>1. Idle.at = "unsent"
    BY DEF Idle
  <2> QED  BY <2>1 DEF Posts
<1>5. post' \in [Request -> Posts]
  BY <1>3, <1>4 DEF Send, Abort, ReceiptExpires, formVars, FormInv, FormType
<1>6. \A r \in Request : post[r].at = "answered" => post'[r] = post[r]
  <2>1. Idle.at = "unsent"
    BY DEF Idle
  <2> QED  BY <2>1 DEF Send, Abort, ReceiptExpires, formVars, FormInv, FormType
<1>7. post' = post \/ opener = "ready"
  BY DEF Send, Abort, ReceiptExpires, formVars, FormInv, NobodyBeforeReady
<1>8. FormType' /\ AnsweredOnce' /\ NobodyBeforeReady'
  BY <1>1, <1>5, <1>6, <1>7 DEF FormInv, FormType, AnsweredOnce, NobodyBeforeReady
<1>9. NothingUntilSettled' /\ ReceiptTellsWhatIsStored'
  BY <1>1, <1>2 DEF FormInv, NothingUntilSettled, ReceiptTellsWhatIsStored, AdmittedBy, Mine
<1> QED  BY <1>1, <1>8, <1>9 DEF FormInv

\* What every answer does to the requests.
LEMMA ReplyKeeps ==
    ASSUME FormInv, NEW r \in Request, post[r].at = "sending", NEW answer \in Answers, Reply(r, answer)
    PROVE  /\ FormType'
           /\ AnsweredOnce'
           /\ opener = "ready"
           /\ page'[r] = answer /\ page[r] = Unknown
           /\ \A s \in Request \ {r} : page'[s] = page[s]
<1>1. \A p \in Posts : p.at = "sending" => /\ [p EXCEPT !.at = "answered"] \in Posts
                                           /\ [p EXCEPT !.at = "answered"].at = "answered"
  <2>1. Idle.at = "unsent"
    BY DEF Idle
  <2> QED  BY <2>1 DEF Posts
<1>2. post'[r] = [post[r] EXCEPT !.at = "answered"] /\ \A s \in Request \ {r} : post'[s] = post[s]
  BY DEF Reply, FormInv, FormType
<1>3. post' \in [Request -> Posts] /\ post'[r].at = "answered"
  BY <1>1, <1>2 DEF Reply, FormInv, FormType
<1>4. page'[r] = answer /\ \A s \in Request \ {r} : page'[s] = page[s]
  BY DEF Reply, FormInv, FormType
<1>5. FormType'
  BY <1>3 DEF Reply, FormInv, FormType
<1>6. AnsweredOnce'
  BY <1>2, <1>3, <1>4 DEF FormInv, AnsweredOnce
<1>7. opener = "ready" /\ page[r] = Unknown
  BY DEF FormInv, NobodyBeforeReady, AnsweredOnce
<1> QED  BY <1>4, <1>5, <1>6, <1>7

LEMMA RefuseKeeps ==
    ASSUME FormInv, NEW r \in Request, Refuse(r)
    PROVE  FormInv'
<1>1. /\ post[r].at = "sending" /\ Reply(r, "refused") /\ settled
      /\ UNCHANGED <<form, opener, settled, stored, receipt, crashed>>
  BY DEF Refuse, Arrives, TooLate, formWorld
<1>2. /\ FormType' /\ AnsweredOnce' /\ opener = "ready" /\ page'[r] = "refused" /\ page[r] = Unknown
      /\ \A s \in Request \ {r} : page'[s] = page[s]
  BY <1>1, ReplyKeeps DEF Answers
<1>3. AdmittedBy' = AdmittedBy
  BY <1>2 DEF AdmittedBy
<1>4. ReceiptTellsWhatIsStored'
  <2>1. (\E s \in Request : page[s] = "agent not told") => \E s \in Request : page'[s] = "agent not told"
    <3>1. SUFFICES ASSUME NEW s \in Request, page[s] = "agent not told"
                   PROVE  \E t \in Request : page'[t] = "agent not told"
      OBVIOUS
    <3>2. s # r
      BY <1>2, <3>1, FormAssumption DEF Answers
    <3> QED  BY <1>2, <3>1, <3>2
  <2> QED  BY <1>1, <1>3, <2>1 DEF FormInv, ReceiptTellsWhatIsStored, Mine
<1> QED  BY <1>1, <1>2, <1>3, <1>4 DEF FormInv, NobodyBeforeReady, NothingUntilSettled, Mine

LEMMA RejectKeeps ==
    ASSUME FormInv, NEW r \in Request, RejectBody(r)
    PROVE  FormInv'
<1>1. /\ post[r].at = "sending" /\ Reply(r, "rejected") /\ ~settled /\ settled' /\ form # "gone"
      /\ UNCHANGED <<form, opener, stored, crashed>>
      /\ receipt' \in {ReceiptOf("failed", Asked, {}), receipt}
  BY DEF RejectBody, Arrives, TooLate, formWorld, MayPublish
<1>2. /\ FormType' /\ AnsweredOnce' /\ opener = "ready" /\ page'[r] = "rejected" /\ page[r] = Unknown
      /\ \A s \in Request \ {r} : page'[s] = page[s]
  BY <1>1, ReplyKeeps DEF Answers
<1>3. AdmittedBy = {} /\ ~crashed /\ stored = {}
  BY <1>1 DEF FormInv, NothingUntilSettled
<1>4. AdmittedBy' = {}
  BY <1>2, <1>3 DEF AdmittedBy
<1>5. Mine' => receipt'.outcome \in {"failed", "abandoned"} /\ receipt'.saved = {}
  <2>1. CASE receipt' = receipt
    BY <1>1, <2>1 DEF FormInv, NothingUntilSettled, Mine
  <2>2. CASE receipt' = ReceiptOf("failed", Asked, {})
    BY <2>2 DEF ReceiptOf
  <2> QED  BY <1>1, <2>1, <2>2
<1>6. ReceiptTellsWhatIsStored'
  BY <1>1, <1>3, <1>4, <1>5 DEF ReceiptTellsWhatIsStored
<1> QED  BY <1>1, <1>2, <1>3, <1>6 DEF FormInv, NobodyBeforeReady, NothingUntilSettled

LEMMA SubmitKeeps ==
    ASSUME FormInv, NEW r \in Request, Submit(r)
    PROVE  FormInv'
<1>1. /\ post[r].at = "sending" /\ ~settled /\ settled' /\ form # "gone"
      /\ UNCHANGED <<form, opener, crashed>>
  BY DEF Submit, Arrives, TooLate, formWorld
<1>2. AdmittedBy = {} /\ ~crashed /\ stored = {}
  BY <1>1 DEF FormInv, NothingUntilSettled
<1>3. PICK saved :
          /\ stored' = saved
          /\ \/ receipt' = Outcome(saved, post[r].body.for \ saved) /\ Reply(r, "agent told")
             \/ receipt' = ReceiptOf("failed", saved, saved) /\ Reply(r, "agent told of a failure")
             \/ receipt' = receipt /\ Reply(r, IF saved = {} THEN "nothing stored" ELSE "agent not told")
  BY <1>2 DEF Submit
<1>4. PICK answer \in Answers : /\ Reply(r, answer)
                                /\ \/ answer = "agent not told" \/ saved = {}
                                   \/ receipt'.saved = saved
  <2>1. CASE Reply(r, IF saved = {} THEN "nothing stored" ELSE "agent not told")
    <3>1. CASE saved = {}
      BY <2>1, <3>1 DEF Answers
    <3>2. CASE saved # {}
      BY <2>1, <3>2 DEF Answers
    <3> QED  BY <3>1, <3>2
  <2>2. CASE receipt' = Outcome(saved, post[r].body.for \ saved) /\ Reply(r, "agent told")
    BY <2>2 DEF Answers, Outcome, ReceiptOf
  <2>3. CASE receipt' = ReceiptOf("failed", saved, saved) /\ Reply(r, "agent told of a failure")
    BY <2>3 DEF Answers, ReceiptOf
  <2> QED  BY <1>3, <2>1, <2>2, <2>3
<1>5. /\ FormType' /\ AnsweredOnce' /\ opener = "ready" /\ page'[r] = answer
      /\ \A s \in Request \ {r} : page'[s] = page[s]
  BY <1>1, <1>4, ReplyKeeps
<1>6. AdmittedBy' \subseteq {r}
  BY <1>2, <1>5 DEF AdmittedBy
<1>7. Mine' => \/ receipt'.saved = stored'
               \/ receipt'.outcome = "abandoned" /\ page'[r] = "agent not told"
  <2>1. CASE receipt' = receipt
    BY <1>1, <1>3, <1>4, <1>5, <2>1 DEF FormInv, NothingUntilSettled, Mine
  <2>2. CASE receipt' = Outcome(saved, post[r].body.for \ saved)
    BY <1>3, <2>2 DEF Outcome, ReceiptOf
  <2>3. CASE receipt' = ReceiptOf("failed", saved, saved)
    BY <1>3, <2>3 DEF ReceiptOf
  <2> QED  BY <1>3, <2>1, <2>2, <2>3
<1>8. Mine' /\ receipt'.outcome = "submitted" => receipt'.routes = stored' /\ stored' # {}
  <2>1. CASE receipt' = receipt
    BY <1>1, <2>1 DEF FormInv, NothingUntilSettled, Mine
  <2>2. CASE receipt' = Outcome(saved, post[r].body.for \ saved)
    BY <1>3, <2>2 DEF Outcome, ReceiptOf
  <2>3. CASE receipt' = ReceiptOf("failed", saved, saved)
    BY <1>3, <2>3 DEF ReceiptOf
  <2> QED  BY <1>3, <2>1, <2>2, <2>3
<1>9. ReceiptTellsWhatIsStored'
  BY <1>1, <1>5, <1>6, <1>7, <1>8 DEF ReceiptTellsWhatIsStored
<1> QED  BY <1>1, <1>2, <1>5, <1>9 DEF FormInv, NobodyBeforeReady, NothingUntilSettled

LEMMA FormCrashKeeps ==
    ASSUME FormInv, FormCrashes
    PROVE  FormInv'
<1>1. /\ UNCHANGED <<opener, settled, post, page, receipt>> /\ form' = "gone" /\ crashed'
      /\ stored' = stored \/ (~settled /\ \E r \in Request : post[r].at = "sending")
  BY DEF FormCrashes, Arrives, TooLate
<1>2. opener = "ready" \/ stored' = stored
  BY <1>1 DEF FormInv, NobodyBeforeReady
<1>3. Mine /\ receipt.outcome = "submitted" => settled
  BY DEF FormInv, NothingUntilSettled
<1>4. ReceiptTellsWhatIsStored'
  BY <1>1, <1>2, <1>3 DEF FormInv, ReceiptTellsWhatIsStored, Mine, AdmittedBy
<1>5. NothingUntilSettled'
  BY <1>1 DEF FormInv, NothingUntilSettled, Mine, AdmittedBy
<1> QED  BY <1>1, <1>2, <1>4, <1>5 DEF FormInv, FormType, AnsweredOnce, NobodyBeforeReady

LEMMA AbandonKeeps ==
    ASSUME FormInv, AbandonTimer
    PROVE  FormInv'
<1>1. /\ UNCHANGED <<opener, settled, post, page, stored, crashed>> /\ form = "open"
      /\ receipt' = receipt \/ (~settled /\ receipt' = ReceiptOf("abandoned", Asked, {}))
  BY DEF AbandonTimer, MayPublish, formWorld
<1>2. ~crashed
  BY <1>1 DEF FormInv
<1>3. CASE receipt' = receipt
  BY <1>1, <1>2, <1>3 DEF FormInv, FormType, AnsweredOnce, NobodyBeforeReady, NothingUntilSettled,
                         ReceiptTellsWhatIsStored, Mine, AdmittedBy
<1>4. CASE ~settled /\ receipt' = ReceiptOf("abandoned", Asked, {})
  <2>1. stored = {} /\ receipt'.outcome = "abandoned" /\ receipt'.saved = {}
    BY <1>2, <1>4 DEF FormInv, NothingUntilSettled, ReceiptOf
  <2> QED  BY <1>1, <1>2, <2>1 DEF FormInv, FormType, AnsweredOnce, NobodyBeforeReady, NothingUntilSettled,
                                  ReceiptTellsWhatIsStored, Mine, AdmittedBy
<1> QED  BY <1>1, <1>3, <1>4

LEMMA FormInvHolds == FormSpec => []FormInv
<1>1. FormInit => FormInv
  BY FormStarts
<1>2. FormInv /\ [FormNext]_formVars => FormInv'
  BY FormProcessKeeps, RequestKeeps, RefuseKeeps, RejectKeeps, SubmitKeeps, FormCrashKeeps, AbandonKeeps
     DEF FormNext, Handle
<1> QED  BY <1>1, <1>2, PTL DEF FormSpec

\* However requests, the abandon timer, failing writes and a crash fall, a receipt of the
\* form says what it has stored, and openForm() never denies what was stored.
THEOREM ReceiptIsTrue == FormSpec => []ReceiptTellsWhatIsStored
<1>1. FormInv => ReceiptTellsWhatIsStored
  BY DEF FormInv
<1> QED  BY <1>1, FormInvHolds, PTL

-----------------------------------------------------------------------------
\* The Chrome key.
Frames == OddFrames \cup {EndOf(c) : c \in Codes} \cup {ErrorOf(c) : c \in HelperFaults}

KeyType ==
    /\ mode \in {"background", "setup"}
    /\ helper \in {"unborn", "any", "guard", "read", "restore", "report", "exit", "ended"}
    /\ prompts \in BOOLEAN /\ prompted \in BOOLEAN /\ late \in BOOLEAN
    /\ paired \in BOOLEAN /\ held \in BOOLEAN
    /\ found \in {Unknown} \cup Findings
    /\ status \in {Unknown} \cup Endings
    /\ written \in Seq(Frames) /\ read \in 0 .. Len(written)
    /\ noise \in {"none", "stdout", "stderr"}
    /\ key \in {Unknown} \cup Results

\* Nothing happens before the helper is born or after its end, and its end is known.
LifeOfHelper ==
    /\ helper = "unborn" => ~late /\ written = <<>> /\ noise = "none"
    /\ helper # "ended" <=> status = Unknown
    /\ key # Unknown => ~Running

\* The prompts between the guard and its undoing.
Prompting ==
    /\ mode = "setup" => prompts
    /\ helper = "read" /\ mode = "background" => ~prompts
    /\ prompted => mode = "setup"
    /\ found # Unknown /\ helper \in {"report", "exit"} =>
           prompts \/ found.says = "restore-failed"
    /\ found # Unknown /\ helper = "ended" /\ status \in Codes => prompts \/ status = "restore-failed"

\* What a helper of the repository's own has found and written.
FirstFrame == IF found.got = "ok" THEN Secret ELSE ErrorOf(found.got)
Settled == {found.got, "cleanup-failed", "restore-failed"}
Begun == IF found.got = "ok" THEN {<<Secret>>}
         ELSE IF found.got = "protocol-error" THEN {<<>>, <<Part>>} ELSE {<<>>}
Spoken == /\ written = <<FirstFrame, EndOf(found.says)>> /\ found.says \in Settled
          /\ found.says = "ok" => noise = "none"
OwnWords ==
    /\ helper \in {"unborn", "any", "guard", "read"} => found = Unknown
    /\ helper \in {"restore", "report", "exit"} => found # Unknown
    /\ helper \in {"guard", "read"} => written = <<>> /\ noise = "none"
    /\ helper \in {"restore", "report"} =>
           noise = "none" /\ written \in Begun /\ found.says \in Settled
    /\ helper = "exit" \/ (helper = "ended" /\ found # Unknown /\ status \in Codes) =>
           Spoken \/ ~Reported
    /\ helper = "ended" /\ found # Unknown /\ status \in Codes => status = found.says

\* What the bridge believes while it has no result.
Belief == key = Unknown =>
    /\ paired => /\ read = 2 /\ held
                 /\ written[1] = Secret /\ written[2] = EndOf("ok")
    /\ read = 2 /\ written[2].type # "part" => paired

KeyInv == /\ KeyType /\ LifeOfHelper /\ Prompting /\ OwnWords /\ Belief
          /\ KeyOnlyFromCleanRun /\ HelperKeepsItsWord

-----------------------------------------------------------------------------
LEMMA KeyStarts ==
    ASSUME KeyInit
    PROVE  KeyInv
<1>1. KeyType
  <2>1. written \in Seq(Frames) /\ read \in 0 .. Len(written)
    BY DEF KeyInit
  <2> QED  BY <2>1 DEF KeyInit, KeyType
<1>2. status \notin Codes /\ written = <<>> /\ key = Unknown /\ found = Unknown /\ ~late /\ ~paired /\ read = 0
  BY KeyAssumption DEF KeyInit, Endings
<1> QED  BY <1>1, <1>2 DEF KeyInit, KeyInv, LifeOfHelper, Running, Prompting, OwnWords, Belief,
                           KeyOnlyFromCleanRun, HelperKeepsItsWord

\* While there is no result, the two contracts follow from the rest.
LEMMA NoResultYet ==
    ASSUME LifeOfHelper', Prompting', key' = Unknown
    PROVE  KeyOnlyFromCleanRun' /\ HelperKeepsItsWord'
<1>1. status' \in Codes => helper' = "ended"
  BY KeyAssumption DEF LifeOfHelper, Endings
<1> QED  BY <1>1 DEF KeyOnlyFromCleanRun, HelperKeepsItsWord, Prompting, Codes

\* A helper that writes only ever adds to what the bridge has read.
LEMMA WritingKeepsBelief ==
    ASSUME KeyType, Belief, UNCHANGED bridgeVars, written' \in Seq(Frames),
           Len(written) <= Len(written'),
           \A i \in 1 .. Len(written) : written'[i] = written[i]
    PROVE  Belief' /\ read' \in 0 .. Len(written')
<1>1. read' = read /\ read \in 0 .. Len(written) /\ Len(written) \in Nat /\ Len(written') \in Nat
  BY DEF bridgeVars, KeyType
<1>2. key' = key /\ paired' = paired /\ held' = held
  BY DEF bridgeVars
<1> QED  BY <1>1, <1>2 DEF Belief

LEMMA SpawnKeeps ==
    ASSUME KeyInv, Spawn
    PROVE  KeyInv'
<1>1. /\ helper = "unborn" /\ helper' \in {"any", "guard"} /\ key = Unknown
      /\ UNCHANGED <<helperVars, status, written, noise, bridgeVars>>
  BY DEF Spawn
<1>2. UNCHANGED <<mode, prompts, prompted, found, read, late, paired, held, key>>
  BY <1>1 DEF helperVars, bridgeVars
<1>3. KeyType'
  BY <1>1, <1>2 DEF KeyInv, KeyType
<1>4. LifeOfHelper' /\ Prompting' /\ Belief'
  BY <1>1, <1>2 DEF KeyInv, LifeOfHelper, Running, Prompting, Belief
<1>5. written = <<>> /\ noise = "none" /\ found = Unknown
  BY <1>1 DEF KeyInv, LifeOfHelper, OwnWords
<1>6. OwnWords'
  BY <1>1, <1>2, <1>5 DEF KeyInv, OwnWords
<1> QED  BY <1>1, <1>2, <1>3, <1>4, <1>6, NoResultYet DEF KeyInv

LEMMA FoundIs ==
    ASSUME NEW got \in Codes, NEW says \in Codes
    PROVE  Found(got, says) \in Findings /\ Found(got, says).got = got /\ Found(got, says).says = says
BY DEF Found, Findings

\* A report is one frame after another.
LEMMA Joined ==
    ASSUME NEW a \in Frames, NEW b \in Frames
    PROVE  (<<a>> \o <<>>) \o <<b>> = <<a, b>> /\ (<<>> \o <<a>>) \o <<b>> = <<a, b>>
<1>1. <<a>> \o <<>> = <<a>> /\ <<>> \o <<a>> = <<a>>
  BY ConcatEmptySeq
<1>2. Append(<<a>>, b) = <<a>> \o <<b>>
  BY AppendIsConcat
<1>3. Append(<<a>>, b) = <<a, b>>
  <2>1. <<a>> \in Seq(Frames) /\ <<a, b>> \in Seq(Frames) /\ Append(<<a>>, b) \in Seq(Frames)
    BY AppendProperties
  <2>2. /\ Len(Append(<<a>>, b)) = 2 /\ Len(<<a, b>>) = 2
        /\ Append(<<a>>, b)[1] = a /\ Append(<<a>>, b)[2] = b
    BY <2>1, AppendProperties
  <2>3. \A i \in 1 .. Len(Append(<<a>>, b)) : Append(<<a>>, b)[i] = <<a, b>>[i]
    BY <2>2
  <2>4. Len(Append(<<a>>, b)) = Len(<<a, b>>)
    BY <2>2
  <2> QED  BY <2>1, <2>3, <2>4, SeqEqual, Zenon
<1> QED  BY <1>1, <1>2, <1>3

LEMMA GuardKeeps ==
    ASSUME KeyInv, Guard
    PROVE  KeyInv'
<1>1. /\ helper = "guard" /\ helper' \in {"read", "report"} /\ key = Unknown
      /\ UNCHANGED <<mode, prompted, status, written, noise, read, late, paired, held, key>>
  BY DEF Guard, bridgeVars, KeyInv, LifeOfHelper, Running
<1>2. found = Unknown /\ written = <<>> /\ noise = "none"
  BY <1>1 DEF KeyInv, OwnWords
<1>3. /\ helper' = "read" => found' = found /\ IF mode = "setup" THEN prompts' = prompts ELSE prompts' = FALSE
      /\ helper' = "report" => /\ mode = "background"
                               /\ \/ found' = Found("guard-failed", "guard-failed") /\ prompts' = TRUE
                                  \/ found' = Found("restore-failed", "restore-failed") /\ prompts' \in BOOLEAN
  BY <1>1 DEF Guard, KeyInv, KeyType
<1>4. /\ helper' = "report" =>
            /\ found' \in Findings /\ found'.got \notin {"ok", "protocol-error"} /\ found'.says = found'.got
            /\ prompts' \in BOOLEAN /\ (prompts' \/ found'.says = "restore-failed")
  <2>1. "guard-failed" \in Codes /\ "restore-failed" \in Codes
    BY DEF Codes, HelperFaults
  <2>2. \A c \in {"guard-failed", "restore-failed"} :
            Found(c, c) \in Findings /\ Found(c, c).got = c /\ Found(c, c).says = c
    BY <2>1, FoundIs
  <2>3. CASE helper' = "report" /\ found' = Found("guard-failed", "guard-failed") /\ prompts' = TRUE
    BY <2>2, <2>3
  <2>4. CASE helper' = "report" /\ found' = Found("restore-failed", "restore-failed") /\ prompts' \in BOOLEAN
    BY <2>2, <2>4
  <2> QED  BY <1>3, <2>3, <2>4
<1>5. helper' = "report" => found' # Unknown
  BY <1>4, KeyAssumption
<1>6. KeyType'
  <2>1. found' \in {Unknown} \cup Findings /\ prompts' \in BOOLEAN
    BY <1>1, <1>2, <1>3, <1>4 DEF KeyInv, KeyType
  <2> QED  BY <1>1, <2>1 DEF KeyInv, KeyType
<1>7. LifeOfHelper' /\ Belief'
  BY <1>1 DEF KeyInv, LifeOfHelper, Running, Belief
<1>8. Prompting'
  BY <1>1, <1>2, <1>3, <1>4 DEF KeyInv, Prompting
<1>9. OwnWords'
  <2>1. helper' = "report" => noise' = "none" /\ written' \in Begun' /\ found'.says \in Settled'
    BY <1>1, <1>2, <1>4 DEF Begun, Settled
  <2> QED  BY <1>1, <1>2, <1>3, <1>5, <2>1 DEF OwnWords
<1> QED  BY <1>1, <1>6, <1>7, <1>8, <1>9, NoResultYet DEF KeyInv

LEMMA ReadKeyKeeps ==
    ASSUME KeyInv, ReadKey
    PROVE  KeyInv'
<1>1. /\ helper = "read" /\ helper' = "restore" /\ key = Unknown
      /\ UNCHANGED <<mode, prompts, status, noise, bridgeVars>>
      /\ prompted' = (prompted \/ prompts)
  BY DEF ReadKey, KeyInv, LifeOfHelper, Running
<1>2. UNCHANGED <<read, late, paired, held, key>>
  BY <1>1 DEF bridgeVars
<1>3. found = Unknown /\ written = <<>> /\ noise = "none"
  BY <1>1 DEF KeyInv, OwnWords
<1>4. PICK got \in {"ok", "denied", "payload-too-large", "protocol-error"} :
          /\ found' \in {Found(got, got), Found(got, "cleanup-failed")}
          /\ written' \in CASE got = "ok" -> {Append(written, Secret)}
                             [] got = "protocol-error" -> {written, Append(written, Part)}
                             [] OTHER -> {written}
  BY DEF ReadKey
<1>5. /\ found' \in Findings /\ found'.got = got
      /\ found'.says \in {found'.got, "cleanup-failed", "restore-failed"}
  BY <1>4 DEF Findings, Found, Codes, HelperFaults
<1>6. found' # Unknown
  BY <1>5, KeyAssumption
<1>7. Secret \in Frames /\ Part \in Frames
  BY DEF Frames, OddFrames
<1>8. /\ written' \in IF found'.got = "ok" THEN {<<Secret>>}
                       ELSE IF found'.got = "protocol-error" THEN {<<>>, <<Part>>} ELSE {<<>>}
      /\ written' \in Seq(Frames) /\ Len(written) <= Len(written')
      /\ \A i \in 1 .. Len(written) : written'[i] = written[i]
  <2>1. Append(<<>>, Secret) = <<Secret>> /\ Append(<<>>, Part) = <<Part>>
    OBVIOUS
  <2>2. <<>> \in Seq(Frames) /\ <<Secret>> \in Seq(Frames) /\ <<Part>> \in Seq(Frames) /\ Len(<<>>) = 0
    BY <1>7
  <2>3. written' \in {<<>>, <<Secret>>, <<Part>>}
    BY <1>3, <1>4, <2>1
  <2>4. Len(written') \in Nat /\ written' \in Seq(Frames)
    BY <2>2, <2>3
  <2> QED  BY <1>3, <1>4, <1>5, <2>1, <2>2, <2>4
<1>9. Belief' /\ read' \in 0 .. Len(written')
  BY <1>1, <1>8, WritingKeepsBelief DEF KeyInv
<1>10. prompted' \in BOOLEAN /\ (prompted' => mode = "setup")
  BY <1>1 DEF KeyInv, KeyType, Prompting
<1>11. KeyType'
  BY <1>1, <1>2, <1>5, <1>8, <1>9, <1>10 DEF KeyInv, KeyType
<1>12. LifeOfHelper' /\ Prompting'
  BY <1>1, <1>2, <1>10 DEF KeyInv, LifeOfHelper, Running, Prompting
<1>13. OwnWords'
  <2>1. noise' = "none" /\ written' \in Begun' /\ found'.says \in Settled'
    BY <1>1, <1>3, <1>5, <1>8 DEF Begun, Settled
  <2> QED  BY <1>1, <1>6, <2>1 DEF OwnWords
<1> QED  BY <1>1, <1>2, <1>9, <1>11, <1>12, <1>13, NoResultYet DEF KeyInv

LEMMA RestoreKeeps ==
    ASSUME KeyInv, Restore
    PROVE  KeyInv'
<1>1. /\ helper = "restore" /\ helper' = "report" /\ key = Unknown
      /\ UNCHANGED <<mode, prompted, status, written, noise, read, late, paired, held, key>>
  BY DEF Restore, bridgeVars, KeyInv, LifeOfHelper, Running
<1>2. /\ found \in Findings /\ found # Unknown
      /\ found.says \in {found.got, "cleanup-failed", "restore-failed"}
      /\ noise = "none" /\ written \in Begun
  BY <1>1 DEF KeyInv, KeyType, OwnWords, Settled
<1>3. \/ mode = "background" /\ prompts' = TRUE /\ found' = found
      \/ mode = "background" /\ prompts' = prompts /\ found' = Found(found.got, "restore-failed")
      \/ mode = "setup" /\ UNCHANGED <<prompts, found>>
  BY DEF Restore
<1>4. /\ found' \in Findings /\ found'.got = found.got
      /\ found'.says \in {found'.got, "cleanup-failed", "restore-failed"}
      /\ prompts' \in BOOLEAN /\ (mode = "setup" => prompts')
      /\ prompts' \/ found'.says = "restore-failed"
  <2>1. found.got \in Codes /\ "restore-failed" \in Codes
    BY <1>2 DEF Findings, Codes, HelperFaults
  <2>2. Found(found.got, "restore-failed") \in Findings /\ Found(found.got, "restore-failed").got = found.got
        /\ Found(found.got, "restore-failed").says = "restore-failed"
    BY <2>1, FoundIs
  <2>3. prompts \in BOOLEAN /\ (mode = "setup" => prompts)
    BY DEF KeyInv, KeyType, Prompting
  <2> QED  BY <1>2, <1>3, <2>2, <2>3
<1>5. found' # Unknown
  BY <1>4, KeyAssumption
<1>6. KeyType'
  BY <1>1, <1>4 DEF KeyInv, KeyType
<1>7. LifeOfHelper' /\ Belief'
  BY <1>1 DEF KeyInv, LifeOfHelper, Running, Belief
<1>8. Prompting'
  BY <1>1, <1>4 DEF KeyInv, Prompting
<1>9. OwnWords'
  <2>1. noise' = "none" /\ written' \in Begun' /\ found'.says \in Settled'
    BY <1>1, <1>2, <1>4 DEF Begun, Settled
  <2> QED  BY <1>1, <1>5, <2>1 DEF OwnWords
<1> QED  BY <1>1, <1>6, <1>7, <1>8, <1>9, NoResultYet DEF KeyInv

LEMMA ReportKeeps ==
    ASSUME KeyInv, Report
    PROVE  KeyInv'
<1>1. /\ helper = "report" /\ helper' = "exit" /\ key = Unknown /\ found.got # "protocol-error"
      /\ UNCHANGED <<helperVars, status, bridgeVars>>
      /\ noise' = IF found.says = "ok" THEN noise ELSE "stderr"
  BY DEF Report, KeyInv, LifeOfHelper, Running
<1>2. UNCHANGED <<mode, prompts, prompted, found, read, late, paired, held, key>>
  BY <1>1 DEF helperVars, bridgeVars
<1>3. /\ found \in Findings /\ found # Unknown /\ noise = "none"
      /\ found.says \in Settled
      /\ written = IF found.got = "ok" THEN <<Secret>> ELSE <<>>
  BY <1>1 DEF KeyInv, KeyType, OwnWords, Begun
<1>4. FirstFrame \in Frames /\ EndOf(found.says) \in Frames
  BY <1>3 DEF Findings, Codes, FirstFrame, Frames, OddFrames
<1>5. written' = <<FirstFrame, EndOf(found.says)>>
  <2>1. CASE found.got = "ok"
    BY <1>3, <1>4, <2>1, Joined DEF Report, FirstFrame
  <2>2. CASE found.got # "ok"
    BY <1>3, <1>4, <2>2, Joined DEF Report, FirstFrame
  <2> QED  BY <2>1, <2>2
<1>6. /\ written' \in Seq(Frames) /\ Len(written) <= Len(written')
      /\ \A i \in 1 .. Len(written) : written'[i] = written[i]
  BY <1>3, <1>4, <1>5 DEF FirstFrame
<1>7. Belief' /\ read' \in 0 .. Len(written')
  BY <1>1, <1>6, WritingKeepsBelief DEF KeyInv
<1>8. KeyType'
  BY <1>1, <1>2, <1>6, <1>7 DEF KeyInv, KeyType
<1>9. LifeOfHelper' /\ Prompting'
  BY <1>1, <1>2, <1>3 DEF KeyInv, LifeOfHelper, Running, Prompting
<1>10. Spoken'
  BY <1>1, <1>2, <1>3, <1>5 DEF Spoken, FirstFrame, Settled
<1>11. OwnWords'
  BY <1>1, <1>2, <1>3, <1>10 DEF OwnWords
<1> QED  BY <1>1, <1>2, <1>7, <1>8, <1>9, <1>11, NoResultYet DEF KeyInv

\* A report that is cut short says something else than the helper meant to.
LEMMA ReportFailsKeeps ==
    ASSUME KeyInv, ReportFails
    PROVE  KeyInv'
<1> DEFINE error == ErrorOf(found.got)
<1>1. /\ helper = "report" /\ helper' = "exit" /\ key = Unknown /\ noise' = "stderr"
      /\ UNCHANGED <<mode, prompts, prompted, status, bridgeVars>>
      /\ found' = IF found.says = "ok" THEN Found(found.got, "protocol-error") ELSE found
  BY DEF ReportFails, KeyInv, LifeOfHelper, Running
<1>2. UNCHANGED <<read, late, paired, held, key>>
  BY <1>1 DEF bridgeVars
<1>3. /\ found \in Findings /\ found # Unknown
      /\ written = <<>> \/ written = <<Secret>> \/ written = <<Part>>
      /\ found.got \in HelperFaults \/ found.got = "ok"
  BY <1>1 DEF KeyInv, KeyType, OwnWords, Begun, Findings, Codes
<1>4. /\ found' \in Findings /\ found' # Unknown
      /\ prompts \/ found.says = "restore-failed" => prompts \/ found'.says = "restore-failed"
  <2>1. "protocol-error" \in Codes /\ found.got \in Codes
    BY <1>3 DEF Codes, HelperFaults, Findings
  <2>2. Found(found.got, "protocol-error") \in Findings
    BY <2>1, FoundIs
  <2> QED  BY <1>1, <1>3, <2>2, KeyAssumption
<1>5. /\ written' = written
      \/ written' = Append(written, Part)
      \/ /\ found.got \in HelperFaults
         /\ written' \in {Append(written, error), Append(Append(written, error), Part)}
  BY <1>3 DEF ReportFails
<1>6. /\ Secret \in Frames /\ Part \in Frames /\ (found.got \in HelperFaults => error \in Frames)
      /\ \A c : Secret # EndOf(c) /\ Part # EndOf(c) /\ error # EndOf(c)
  <2>1. Secret \in Frames /\ Part \in Frames /\ (found.got \in HelperFaults => error \in Frames)
    BY DEF Frames, OddFrames
  <2>2. Secret.type = "secret" /\ Part.type = "part" /\ error.type = "error"
    BY DEF Secret, Part, ErrorOf
  <2>3. \A c : EndOf(c).type = "end"
    BY DEF EndOf
  <2> QED  BY <2>1, <2>2, <2>3
<1> HIDE DEF error
<1>7. /\ written' \in Seq(Frames) /\ Len(written) <= Len(written')
      /\ \A i \in 1 .. Len(written) : written'[i] = written[i]
      /\ \A i \in 1 .. Len(written') : written'[i] \in {Secret, Part, error}
  <2>1. /\ written \in Seq(Frames) /\ Len(written) \in 0 .. 1
        /\ \A i \in 1 .. Len(written) : written[i] \in {Secret, Part, error}
    <3>1. CASE written = <<>>
      <4>1. <<>> \in Seq(Frames) /\ Len(<<>>) = 0
        OBVIOUS
      <4> QED  BY <3>1, <4>1
    <3>2. \A f \in {Secret, Part} : <<f>> \in Seq(Frames) /\ Len(<<f>>) = 1 /\ <<f>>[1] = f
      BY <1>6
    <3>3. CASE written = <<Secret>> \/ written = <<Part>>
      BY <3>2, <3>3
    <3> QED  BY <1>3, <3>1, <3>3
  <2>2. \A f \in Frames : /\ Append(written, f) \in Seq(Frames) /\ Len(Append(written, f)) = Len(written) + 1
                          /\ \A i \in 1 .. Len(written) : Append(written, f)[i] = written[i]
                          /\ Append(written, f)[Len(written) + 1] = f
    BY <2>1, AppendProperties
  <2>3. CASE written' = written
    BY <2>1, <2>3
  <2>4. CASE written' = Append(written, Part)
    BY <1>6, <2>1, <2>2, <2>4
  <2>5. CASE found.got \in HelperFaults /\ written' = Append(written, error)
    BY <1>6, <2>1, <2>2, <2>5
  <2>6. CASE found.got \in HelperFaults /\ written' = Append(Append(written, error), Part)
    <3> DEFINE w == Append(written, error)
    <3>1. /\ w \in Seq(Frames) /\ Len(w) = Len(written) + 1
          /\ \A i \in 1 .. Len(written) : w[i] = written[i]
          /\ w[Len(written) + 1] = error
      BY <1>6, <2>2, <2>6
    <3> HIDE DEF w
    <3>2. /\ Append(w, Part) \in Seq(Frames) /\ Len(Append(w, Part)) = Len(w) + 1
          /\ \A i \in 1 .. Len(w) : Append(w, Part)[i] = w[i]
          /\ Append(w, Part)[Len(w) + 1] = Part
      BY <1>6, <3>1, AppendProperties
    <3>3. written' = Append(w, Part)
      BY <2>6 DEF w
    <3> QED  BY <2>1, <3>1, <3>2, <3>3
  <2> QED  BY <1>5, <2>3, <2>4, <2>5, <2>6
<1>8. ~Reported'
  BY <1>6, <1>7 DEF Reported
<1>9. Belief' /\ read' \in 0 .. Len(written')
  BY <1>1, <1>7, WritingKeepsBelief DEF KeyInv
<1>10. KeyType'
  BY <1>1, <1>2, <1>4, <1>7, <1>9 DEF KeyInv, KeyType
<1>11. LifeOfHelper' /\ Prompting'
  BY <1>1, <1>2, <1>3, <1>4 DEF KeyInv, LifeOfHelper, Running, Prompting
<1>12. OwnWords'
  BY <1>1, <1>4, <1>8 DEF OwnWords
<1> QED  BY <1>1, <1>2, <1>9, <1>10, <1>11, <1>12, NoResultYet DEF KeyInv

LEMMA ExitKeeps ==
    ASSUME KeyInv, Exit
    PROVE  KeyInv'
<1>1. /\ helper = "exit" /\ helper' = "ended" /\ status' = found.says /\ key = Unknown
      /\ UNCHANGED <<helperVars, written, noise, bridgeVars>>
  BY DEF Exit, KeyInv, LifeOfHelper, Running
<1>2. UNCHANGED <<mode, prompts, prompted, found, read, late, paired, held, key>>
  BY <1>1 DEF helperVars, bridgeVars
<1>3. found \in Findings /\ found # Unknown
  BY <1>1 DEF KeyInv, KeyType, OwnWords
<1>4. found.says \in Codes /\ status' \in Endings /\ status' # Unknown
  BY <1>1, <1>3, KeyAssumption DEF Findings, Endings
<1>5. KeyType'
  BY <1>1, <1>2, <1>4 DEF KeyInv, KeyType
<1>6. LifeOfHelper' /\ Prompting' /\ Belief'
  BY <1>1, <1>2, <1>3, <1>4 DEF KeyInv, LifeOfHelper, Running, Prompting, Belief
<1>7. Spoken \/ ~Reported => (Spoken \/ ~Reported)'
  BY <1>1, <1>2 DEF Spoken, Reported, FirstFrame, Settled
<1>8. OwnWords'
  BY <1>1, <1>2, <1>3, <1>7 DEF KeyInv, OwnWords
<1> QED  BY <1>1, <1>2, <1>5, <1>6, <1>8, NoResultYet DEF KeyInv

-----------------------------------------------------------------------------
LEMMA WriteAnyKeeps ==
    ASSUME KeyInv, NEW f \in OddFrames, WriteAny(f)
    PROVE  KeyInv'
<1>1. /\ helper = "any" /\ key = Unknown /\ written' = Append(written, f) /\ found = Unknown
      /\ UNCHANGED <<helperVars, helper, status, noise, bridgeVars>>
  BY DEF WriteAny, KeyInv, LifeOfHelper, Running, OwnWords
<1>2. UNCHANGED <<mode, prompts, prompted, found, read, late, paired, held, key>>
  BY <1>1 DEF helperVars, bridgeVars
<1>3. f \in Frames /\ written \in Seq(Frames)
  BY DEF Frames, KeyInv, KeyType
<1>4. /\ written' \in Seq(Frames) /\ Len(written) <= Len(written')
      /\ \A i \in 1 .. Len(written) : written'[i] = written[i]
  BY <1>1, <1>3, AppendProperties
<1>5. Belief' /\ read' \in 0 .. Len(written')
  BY <1>1, <1>4, WritingKeepsBelief DEF KeyInv
<1>6. KeyType'
  BY <1>1, <1>2, <1>4, <1>5 DEF KeyInv, KeyType
<1>7. LifeOfHelper' /\ Prompting' /\ OwnWords'
  BY <1>1, <1>2 DEF KeyInv, LifeOfHelper, Running, Prompting, OwnWords
<1> QED  BY <1>1, <1>2, <1>5, <1>6, <1>7, NoResultYet DEF KeyInv

LEMMA ChatterKeeps ==
    ASSUME KeyInv, Chatter
    PROVE  KeyInv'
<1>1. /\ helper = "any" /\ key = Unknown /\ noise' \in {"stdout", "stderr"} /\ found = Unknown
      /\ UNCHANGED <<helperVars, helper, status, written, bridgeVars>>
  BY DEF Chatter, KeyInv, LifeOfHelper, Running, OwnWords
<1>2. UNCHANGED <<mode, prompts, prompted, found, read, late, paired, held, key>>
  BY <1>1 DEF helperVars, bridgeVars
<1>3. KeyType'
  BY <1>1, <1>2 DEF KeyInv, KeyType
<1>4. LifeOfHelper' /\ Prompting' /\ OwnWords' /\ Belief'
  BY <1>1, <1>2 DEF KeyInv, LifeOfHelper, Running, Prompting, OwnWords, Belief
<1> QED  BY <1>1, <1>2, <1>3, <1>4, NoResultYet DEF KeyInv

\* Any helper that runs may end at any time; only one that says nothing of its own
\* ends with a code of its choice.
LEMMA EndingKeeps ==
    ASSUME KeyInv, Running, helper' = "ended", status' \in Endings,
           found = Unknown \/ status' = "killed",
           UNCHANGED <<helperVars, written, noise, read, paired, held, key>>,
           late' \in BOOLEAN
    PROVE  KeyInv'
<1>1. UNCHANGED <<mode, prompts, prompted, found, key>> /\ key = Unknown
  BY DEF helperVars, KeyInv, LifeOfHelper
<1>2. status' # Unknown /\ (found # Unknown => status' \notin Codes)
  BY KeyAssumption DEF Codes, HelperFaults
<1>3. KeyType'
  BY <1>1 DEF KeyInv, KeyType
<1>4. LifeOfHelper' /\ Prompting' /\ OwnWords' /\ Belief'
  BY <1>1, <1>2 DEF KeyInv, LifeOfHelper, Running, Prompting, OwnWords, Belief
<1> QED  BY <1>1, <1>3, <1>4, NoResultYet DEF KeyInv

LEMMA EndAnyKeeps ==
    ASSUME KeyInv, EndAny
    PROVE  KeyInv'
<1>1. /\ Running /\ found = Unknown /\ helper' = "ended" /\ status' \in {"ok", "denied", "none such"}
      /\ UNCHANGED <<helperVars, written, noise, bridgeVars>>
  BY DEF EndAny, Running, KeyInv, OwnWords
<1>2. late' \in BOOLEAN /\ UNCHANGED <<read, paired, held, key>>
  BY <1>1 DEF bridgeVars, KeyInv, KeyType
<1>3. status' \in Endings
  BY <1>1 DEF Endings, Codes, HelperFaults
<1> QED  BY <1>1, <1>2, <1>3, EndingKeeps

LEMMA HelperCrashKeeps ==
    ASSUME KeyInv, HelperCrashes
    PROVE  KeyInv'
<1>1. /\ Running /\ helper' = "ended" /\ status' = "killed"
      /\ UNCHANGED <<helperVars, written, noise, bridgeVars>>
  BY DEF HelperCrashes
<1>2. late' \in BOOLEAN /\ UNCHANGED <<read, paired, held, key>>
  BY <1>1 DEF bridgeVars, KeyInv, KeyType
<1> QED  BY <1>1, <1>2, EndingKeeps DEF Endings

LEMMA KillTimerKeeps ==
    ASSUME KeyInv, KillTimer
    PROVE  KeyInv'
<1>1. /\ key = Unknown /\ helper # "unborn" /\ late'
      /\ late' \in BOOLEAN
      /\ UNCHANGED <<helperVars, written, noise, read, paired, held, key>>
  BY DEF KillTimer
<1>2. CASE Running
  <2>1. helper' = "ended" /\ status' = "killed"
    BY <1>2 DEF KillTimer
  <2> QED  BY <1>1, <1>2, <2>1, EndingKeeps DEF Endings
<1>3. CASE ~Running
  <2>1. UNCHANGED <<helper, status, mode, prompts, prompted, found>>
    BY <1>1, <1>3 DEF KillTimer, helperVars
  <2>2. KeyType'
    BY <1>1, <2>1 DEF KeyInv, KeyType
  <2>3. LifeOfHelper' /\ Prompting' /\ OwnWords' /\ Belief'
    BY <1>1, <1>3, <2>1 DEF KeyInv, LifeOfHelper, Running, Prompting, OwnWords, FirstFrame, Settled,
                            Begun, Spoken, Reported, Belief
  <2> QED  BY <1>1, <2>2, <2>3, NoResultYet DEF KeyInv
<1> QED  BY <1>2, <1>3

\* The result of a run: what it must say for the contracts to hold, whoever gives it.
LEMMA FinishKeeps ==
    ASSUME KeyInv, key = Unknown, NEW result \in Results, Finish(result),
           UNCHANGED <<helperVars, written, noise, late>>,
           paired' \in BOOLEAN, read' \in 0 .. Len(written),
           result.ok => /\ written = <<Secret, EndOf("ok")>>
                        /\ status = "ok" /\ noise = "none" /\ ~late /\ held,
           late /\ written = <<>> => result.code = "bridge-timeout",
           result.code = "bridge-timeout" => late,
           found # Unknown /\ ~late /\ helper = "ended" /\ status = found.says /\ Reported =>
               result = IF status = "ok" THEN Got ELSE Failed(status)
    PROVE  KeyInv'
<1>1. UNCHANGED <<mode, prompts, prompted, found, written, noise, late>>
  BY DEF helperVars
<1>2. /\ key' = result /\ held' = (held /\ result.ok)
      /\ IF Running THEN helper' = "ended" /\ status' = "killed" ELSE UNCHANGED <<helper, status>>
  BY DEF Finish
<1>3. key' # Unknown /\ result.ok \in BOOLEAN
  <2>1. key' # Unknown
    BY <1>2, KeyAssumption
  <2>2. Got.ok = TRUE /\ \A c : Failed(c).ok = FALSE
    BY DEF Got, Failed
  <2> QED  BY <2>1, <2>2 DEF Results
<1>4. found # Unknown => found.says \in Codes
  BY DEF KeyInv, KeyType, Findings
<1>5. "killed" \notin Codes /\ "killed" # Unknown /\ Unknown \notin Codes
  BY KeyAssumption DEF Codes, HelperFaults, Endings
<1>6. CASE Running
  <2>1. helper' = "ended" /\ status' = "killed" /\ status = Unknown
    BY <1>2, <1>6 DEF KeyInv, LifeOfHelper, Running
  <2>2. KeyType'
    BY <1>1, <1>2, <1>3, <2>1 DEF KeyInv, KeyType, Endings
  <2>3. LifeOfHelper' /\ Prompting' /\ OwnWords' /\ Belief'
    BY <1>1, <1>3, <1>5, <1>6, <2>1 DEF KeyInv, LifeOfHelper, Running, Prompting, OwnWords, Belief
  <2>4. KeyOnlyFromCleanRun'
    BY <1>1, <1>2, <1>3, <2>1, <1>5 DEF KeyOnlyFromCleanRun, Codes
  <2>5. HelperKeepsItsWord'
    BY <1>1, <1>4, <1>5, <2>1, <2>3 DEF HelperKeepsItsWord, Prompting, Codes
  <2> QED  BY <2>2, <2>3, <2>4, <2>5 DEF KeyInv
<1>7. CASE ~Running
  <2>1. UNCHANGED <<helper, status>>
    BY <1>2, <1>7
  <2>2. KeyType'
    BY <1>1, <1>2, <1>3, <2>1 DEF KeyInv, KeyType
  <2>3. LifeOfHelper' /\ Prompting' /\ OwnWords' /\ Belief'
    BY <1>1, <1>3, <1>7, <2>1 DEF KeyInv, LifeOfHelper, Running, Prompting, OwnWords, FirstFrame, Settled,
                                  Begun, Spoken, Reported, Belief
  <2>4. KeyOnlyFromCleanRun'
    BY <1>1, <1>2, <1>3, <2>1 DEF KeyOnlyFromCleanRun
  <2>5. found # Unknown /\ ~late /\ status = found.says /\ Reported => key' = IF status = "ok" THEN Got ELSE Failed(status)
    <3>1. status \in Codes => helper = "ended"
      BY <1>5 DEF KeyInv, LifeOfHelper
    <3> QED  BY <1>2, <1>4, <3>1
  <2>6. HelperKeepsItsWord'
    <3>1. status \in Codes /\ found # Unknown => prompts \/ status = "restore-failed"
      BY <1>5 DEF KeyInv, LifeOfHelper, Prompting
    <3>2. Reported' <=> Reported
      BY <1>1 DEF Reported
    <3> QED  BY <1>1, <2>1, <2>3, <2>5, <3>1, <3>2 DEF HelperKeepsItsWord, Prompting, Codes
  <2> QED  BY <2>2, <2>3, <2>4, <2>6 DEF KeyInv
<1> QED  BY <1>6, <1>7

LEMMA SpawnFailsKeeps ==
    ASSUME KeyInv, SpawnFails
    PROVE  KeyInv'
<1>1. PICK code \in {"bridge-interactive-refused", "bridge-bad-arguments", "bridge-helper-missing",
                     "bridge-spawn-failed"} : Finish(Failed(code))
  BY DEF SpawnFails
<1>2. /\ helper = "unborn" /\ key = Unknown
      /\ UNCHANGED <<helperVars, written, read, noise, late, paired>>
  BY DEF SpawnFails
<1>3. ~late /\ found = Unknown
  BY <1>2 DEF KeyInv, LifeOfHelper, OwnWords
<1>4. Failed(code) \in Results
  BY DEF Results
<1>5. ~Failed(code).ok /\ Failed(code).code # "bridge-timeout"
  BY DEF Failed
<1>6. paired' \in BOOLEAN /\ read' \in 0 .. Len(written)
  BY <1>2 DEF KeyInv, KeyType
<1> QED  BY <1>1, <1>2, <1>3, <1>4, <1>5, <1>6, FinishKeeps

LEMMA HardTimerKeeps ==
    ASSUME KeyInv, HardTimer
    PROVE  KeyInv'
<1>1. /\ key = Unknown /\ late /\ Finish(Failed("bridge-timeout"))
      /\ UNCHANGED <<helperVars, written, read, noise, late, paired>>
  BY DEF HardTimer
<1>2. Failed("bridge-timeout") \in Results
  BY DEF Results
<1>3. ~Failed("bridge-timeout").ok /\ Failed("bridge-timeout").code = "bridge-timeout"
  BY DEF Failed
<1>4. paired' \in BOOLEAN /\ read' \in 0 .. Len(written)
  BY <1>1 DEF KeyInv, KeyType
<1> QED  BY <1>1, <1>2, <1>3, <1>4, FinishKeeps

\* What a helper says last, or its exit code, is a failure the bridge knows.
LEMMA IncompleteIsFailure ==
    Incomplete \in HelperFaults \cup {"bridge-no-frames", "bridge-helper-exit"}
BY DEF Incomplete

LEMMA TimeoutApart == "bridge-timeout" \notin HelperFaults \cup
                          {"bridge-no-frames", "bridge-helper-exit", "bridge-output-unexpected", "bridge-bad-frame"}
BY DEF HelperFaults

\* What a helper of the repository's own has said when it has ended well.
LEMMA LastWords ==
    ASSUME KeyInv, found # Unknown, helper = "ended", status = found.says, Reported
    PROVE  /\ written = <<FirstFrame, EndOf(found.says)>> /\ found \in Findings
           /\ found.says \in {found.got, "cleanup-failed", "restore-failed"}
           /\ found.says = "ok" => noise = "none" /\ FirstFrame = Secret
           /\ found.says # "ok" => found.says \in HelperFaults
<1>1. found \in Findings
  BY DEF KeyInv, KeyType
<1>2. found.got \in Codes /\ found.says \in Codes
  BY <1>1 DEF Findings
<1>3. Spoken
  BY <1>2 DEF KeyInv, OwnWords
<1>4. /\ written = <<FirstFrame, EndOf(found.says)>>
      /\ found.says = "ok" => noise = "none"
      /\ found.says \in {found.got, "cleanup-failed", "restore-failed"}
  BY <1>3 DEF Spoken, Settled
<1>5. found.says = "ok" => FirstFrame = Secret
  BY <1>4 DEF FirstFrame
<1> QED  BY <1>1, <1>2, <1>4, <1>5 DEF Codes

LEMMA CloseKeeps ==
    ASSUME KeyInv, Close
    PROVE  KeyInv'
<1>1. /\ key = Unknown /\ helper = "ended" /\ read = Len(written) /\ Finish(VerdictAtClose)
      /\ UNCHANGED <<helperVars, written, read, noise, late, paired>>
  BY DEF Close
<1>2. paired' \in BOOLEAN /\ read' \in 0 .. Len(written) /\ paired \in BOOLEAN /\ late \in BOOLEAN
  BY <1>1 DEF KeyInv, KeyType
<1>3. /\ VerdictAtClose \in Results
      /\ VerdictAtClose.ok => ~late /\ paired /\ status = "ok" /\ noise = "none"
      /\ late <=> VerdictAtClose.code = "bridge-timeout"
  <2>1. /\ Failed(Incomplete) \in Results /\ ~Failed(Incomplete).ok
        /\ Failed(Incomplete).code # "bridge-timeout"
    <3>1. Failed(Incomplete) \in Results
      BY IncompleteIsFailure DEF Results
    <3>2. ~Failed(Incomplete).ok /\ Failed(Incomplete).code = Incomplete
      BY DEF Failed
    <3> QED  BY <3>1, <3>2, IncompleteIsFailure, TimeoutApart
  <2>2. \A c \in {"bridge-timeout", "bridge-helper-exit", "bridge-output-unexpected"} :
            Failed(c) \in Results /\ ~Failed(c).ok /\ Failed(c).code = c
    BY DEF Failed, Results
  <2>3. Got \in Results /\ Got.ok /\ Got.code = "ok"
    BY DEF Got, Results
  <2> QED  BY <2>1, <2>2, <2>3 DEF VerdictAtClose
<1>4. paired => /\ held /\ Len(written) = 2
                /\ written[1] = Secret /\ written[2] = EndOf("ok")
  BY <1>1 DEF KeyInv, Belief
<1>5. paired => written = <<Secret, EndOf("ok")>>
  <2>1. HAVE paired
  <2>2. written \in Seq(Frames) /\ Len(written) = 2 /\ written[1] = Secret /\ written[2] = EndOf("ok")
    BY <1>4, <2>1 DEF KeyInv, KeyType
  <2> QED  BY <2>2
<1>6. found # Unknown /\ ~late /\ helper = "ended" /\ status = found.says /\ Reported =>
          VerdictAtClose = IF status = "ok" THEN Got ELSE Failed(status)
  <2>1. SUFFICES ASSUME found # Unknown, ~late, status = found.says, Reported
                 PROVE  VerdictAtClose = IF status = "ok" THEN Got ELSE Failed(status)
    OBVIOUS
  <2>2. /\ written = <<FirstFrame, EndOf(found.says)>> /\ found \in Findings
        /\ found.says = "ok" => noise = "none" /\ FirstFrame = Secret
        /\ found.says # "ok" => found.says \in HelperFaults
    BY <1>1, <2>1, LastWords
  <2>3. written[2].type # "part" /\ written[2].code = found.says /\ Len(written) = 2
    BY <2>2 DEF EndOf
  <2>4. paired /\ held /\ written[2] = EndOf("ok")
    BY <1>1, <1>4, <2>3 DEF KeyInv, Belief
  <2>5. found.says = "ok"
    BY <2>3, <2>4 DEF EndOf
  <2> QED  BY <2>1, <2>2, <2>4, <2>5 DEF VerdictAtClose
<1> QED  BY <1>1, <1>2, <1>3, <1>4, <1>5, <1>6, FinishKeeps

-----------------------------------------------------------------------------
\* A frame is known by its type, and a pair means one thing.
LEMMA FrameIs ==
    ASSUME NEW f \in Frames
    PROVE  /\ f.type = "secret" => f = Secret
           /\ f.type = "end" => f = EndOf(f.code)
<1>1. /\ Secret.type = "secret"
      /\ \A c : EndOf(c).type = "end" /\ EndOf(c).code = c /\ ErrorOf(c).type = "error"
      /\ [type |-> "junk"].type = "junk" /\ Part.type = "part"
  BY DEF Secret, EndOf, ErrorOf, Part
<1>2. \/ f = Secret \/ (\E c : f = EndOf(c)) \/ (\E c : f = ErrorOf(c))
      \/ f = [type |-> "junk"] \/ f = Part
  BY DEF Frames, OddFrames
<1> QED  BY <1>1, <1>2

LEMMA PairIs ==
    ASSUME NEW a, NEW b
    PROVE  /\ Pair(a, b) \in {"bad", "success"} \cup HelperFaults
           /\ Pair(a, b) = "success" => a.type = "secret" /\ b.type = "end" /\ b.code = "ok"
<1>1. "success" \notin HelperFaults
  BY DEF HelperFaults
<1>2. {"restore-failed", "cleanup-failed"} \subseteq HelperFaults
  BY DEF HelperFaults
<1> QED  BY <1>1, <1>2 DEF Pair

\* The pair of a helper of the repository's own is its last word.
LEMMA OwnPair ==
    ASSUME found \in Findings, found.says \in {found.got, "cleanup-failed", "restore-failed"}
    PROVE  Pair(FirstFrame, EndOf(found.says)) =
               IF found.says = "ok" THEN "success" ELSE found.says
<1>1. found.got \in Codes /\ found.says \in Codes
  BY DEF Findings
<1>2. /\ Secret.type = "secret"
      /\ EndOf(found.says).type = "end" /\ EndOf(found.says).code = found.says
      /\ ErrorOf(found.got).type = "error" /\ ErrorOf(found.got).code = found.got
  BY DEF Secret, EndOf, ErrorOf
<1>3. CASE found.got = "ok"
  BY <1>1, <1>2, <1>3 DEF Pair, FirstFrame, Codes
<1>4. CASE found.got # "ok"
  <2>1. found.got \in HelperFaults /\ found.says # "ok"
    BY <1>1, <1>4 DEF Codes
  <2> QED  BY <1>1, <1>2, <1>4, <2>1 DEF Pair, FirstFrame, Codes
<1> QED  BY <1>3, <1>4

\* What a chunk that is not garbled brings: one frame, or two.
LEMMA ChunkIs ==
    ASSUME KeyType, NEW n \in 1 .. Len(written), NEW bytes, bytes = SubSeq(written, 1, n)
    PROVE  /\ bytes \in Seq(Frames) /\ Len(bytes) = n
           /\ \A i \in 1 .. n : bytes[i] = written[i] /\ written[i] \in Frames
           /\ Whole(bytes) \in Seq(Frames)
           /\ written[n].type # "part" => Whole(bytes) = bytes
           /\ written[n].type = "part" => Len(Whole(bytes)) = n - 1
           /\ ~Garbled(bytes) => n <= 2
<1>1. written \in Seq(Frames) /\ Len(written) \in Nat
  BY DEF KeyType
<1>2. \A i \in 1 .. n : written[i] \in Frames
  BY <1>1
<1>3. bytes \in Seq(Frames) /\ Len(bytes) = n /\ \A i \in 1 .. n : bytes[i] = written[i]
  BY <1>1, <1>2, SubSeqProperties
<1>4. bytes # <<>> /\ bytes[Len(bytes)] = written[n]
  BY <1>3
<1>5. \A i \in 1 .. n - 1 : bytes[i] \in Frames
  BY <1>2, <1>3
<1>6. SubSeq(bytes, 1, n - 1) \in Seq(Frames) /\ Len(SubSeq(bytes, 1, n - 1)) = n - 1
  BY <1>5, SubSeqProperties
<1>7. Whole(bytes) = IF written[n].type = "part" THEN SubSeq(bytes, 1, n - 1) ELSE bytes
  BY <1>3, <1>4 DEF Whole
<1>8. ~Garbled(bytes) => n <= 2
  BY <1>3 DEF Garbled
<1> QED  BY <1>2, <1>3, <1>6, <1>7, <1>8

LEMMA ReadPipeKeeps ==
    ASSUME KeyInv, NEW n \in 1 .. MaxFrames, ReadPipe(n)
    PROVE  KeyInv'
<1> DEFINE bytes == SubSeq(written, 1, n)
           frames == Whole(bytes)
           verdict == IF Len(frames) = 2 THEN Pair(frames[1], frames[2]) ELSE "more"
<1>1. /\ key = Unknown /\ helper # "unborn" /\ read < n /\ n <= Len(written) /\ read' = n
      /\ UNCHANGED <<helperVars, written, noise, late>>
  BY DEF ReadPipe
<1>2. /\ n \in 1 .. Len(written) /\ Len(written) \in Nat /\ read \in Nat
      /\ read' \in 0 .. Len(written) /\ paired \in BOOLEAN
  BY <1>1 DEF KeyInv, KeyType
<1>3. \/ Garbled(bytes) /\ Finish(Failed("bridge-bad-frame")) /\ paired' = paired
      \/ /\ ~Garbled(bytes) /\ ~paired /\ verdict \notin {"more", "success"}
         /\ Finish(Failed(IF verdict = "bad" THEN "bridge-bad-frame" ELSE verdict))
         /\ paired' = paired
      \/ /\ ~Garbled(bytes) /\ (paired \/ verdict \in {"more", "success"})
         /\ paired' = (paired \/ verdict = "success")
         /\ held' = \E i \in DOMAIN frames : frames[i].type = "secret"
         /\ UNCHANGED <<helper, status, key>>
  BY DEF ReadPipe
<1>4. /\ bytes \in Seq(Frames) /\ Len(bytes) = n
      /\ \A i \in 1 .. n : bytes[i] = written[i] /\ written[i] \in Frames
      /\ frames \in Seq(Frames)
      /\ written[n].type # "part" => frames = bytes
      /\ written[n].type = "part" => Len(frames) = n - 1
      /\ ~Garbled(bytes) => n <= 2
  BY <1>2, ChunkIs DEF KeyInv
<1>5. paired => Garbled(bytes)
  BY <1>1, <1>2, <1>4 DEF KeyInv, Belief
<1>6. ~Garbled(bytes) /\ verdict # "more" =>
          /\ n = 2 /\ written[2].type # "part" /\ verdict = Pair(written[1], written[2])
  BY <1>1, <1>2, <1>4
<1>7. ~Garbled(bytes) /\ n = 2 /\ written[2].type # "part" =>
          verdict = Pair(written[1], written[2]) /\ Len(frames) = 2 /\ frames[1] = written[1]
  BY <1>2, <1>4
\* A helper of the repository's own that has ended is neither garbled nor misread.
<1>8. found # Unknown /\ helper = "ended" /\ status = found.says /\ Reported =>
          /\ ~Garbled(bytes)
          /\ verdict \in {"more", "success"} \/ (verdict = status /\ status \in HelperFaults)
  <2>1. SUFFICES ASSUME found # Unknown, helper = "ended", status = found.says, Reported
                 PROVE  /\ ~Garbled(bytes)
                        /\ verdict \in {"more", "success"} \/ (verdict = status /\ status \in HelperFaults)
    OBVIOUS
  <2>2. /\ written = <<FirstFrame, EndOf(found.says)>> /\ found \in Findings
        /\ found.says # "ok" => found.says \in HelperFaults
        /\ found.says \in {found.got, "cleanup-failed", "restore-failed"}
    BY <2>1, LastWords
  <2>3. written[1] = FirstFrame /\ written[2] = EndOf(found.says) /\ Len(written) = 2
    BY <2>2
  <2>4. FirstFrame.type # "junk" /\ EndOf(found.says).type # "junk"
    BY DEF FirstFrame, Secret, ErrorOf, EndOf
  <2>5. ~Garbled(bytes)
    BY <1>2, <1>4, <2>3, <2>4 DEF Garbled
  <2>7. Pair(written[1], written[2]) = IF found.says = "ok" THEN "success" ELSE found.says
    BY <2>2, <2>3, OwnPair
  <2> QED  BY <1>6, <2>1, <2>2, <2>5, <2>7
<1> HIDE DEF bytes, frames, verdict
<1>9. \A c \in HelperFaults \cup {"bridge-bad-frame"} :
          Failed(c) \in Results /\ ~Failed(c).ok /\ Failed(c).code # "bridge-timeout" /\ Failed(c).code = c
  BY TimeoutApart DEF Failed, Results
<1>10. CASE Garbled(bytes) /\ Finish(Failed("bridge-bad-frame")) /\ paired' = paired
  <2>1. ~(written = <<>>)
    BY <1>1, <1>2
  <2> QED  BY <1>1, <1>2, <1>8, <1>9, <1>10, <2>1, FinishKeeps
<1>11. CASE /\ ~Garbled(bytes) /\ ~paired /\ verdict \notin {"more", "success"}
            /\ Finish(Failed(IF verdict = "bad" THEN "bridge-bad-frame" ELSE verdict))
            /\ paired' = paired
  <2>1. ~(written = <<>>)
    BY <1>1, <1>2
  <2>2. PICK c \in HelperFaults \cup {"bridge-bad-frame"} :
            /\ c = IF verdict = "bad" THEN "bridge-bad-frame" ELSE verdict
            /\ Finish(Failed(c))
    BY <1>6, <1>11, PairIs
  <2>3. found # Unknown /\ ~late /\ helper = "ended" /\ status = found.says /\ Reported =>
            Failed(c) = IF status = "ok" THEN Got ELSE Failed(status)
    <3>1. "bad" \notin HelperFaults /\ "ok" \notin HelperFaults
      BY DEF HelperFaults
    <3> QED  BY <1>8, <1>11, <2>2, <3>1
  <2> QED  BY <1>1, <1>2, <1>9, <1>11, <2>1, <2>2, <2>3, FinishKeeps
<1>12. CASE /\ ~Garbled(bytes) /\ (paired \/ verdict \in {"more", "success"})
            /\ paired' = (paired \/ verdict = "success")
            /\ held' = \E i \in DOMAIN frames : frames[i].type = "secret"
            /\ UNCHANGED <<helper, status, key>>
  <2>1. UNCHANGED <<mode, prompts, prompted, found, written, noise, late, helper, status, key>>
    BY <1>1, <1>12 DEF helperVars
  <2>2. ~paired /\ verdict \in {"more", "success"} /\ paired' = (verdict = "success")
    BY <1>5, <1>12
  <2>3. held' \in BOOLEAN
    BY <1>12
  <2>4. KeyType'
    BY <1>2, <2>1, <2>2, <2>3 DEF KeyInv, KeyType
  <2>5. LifeOfHelper' /\ Prompting' /\ OwnWords'
    BY <2>1 DEF KeyInv, LifeOfHelper, Running, Prompting, OwnWords, FirstFrame, Settled, Begun, Spoken, Reported
  <2>6. Belief'
    <3>1. paired' => /\ read' = 2 /\ held'
                     /\ written'[1] = Secret /\ written'[2] = EndOf("ok")
      <4>1. SUFFICES ASSUME verdict = "success"
                     PROVE  read' = 2 /\ held' /\ written[1] = Secret /\ written[2] = EndOf("ok")
        BY <2>1, <2>2
      <4>2. n = 2 /\ written[2].type # "part" /\ Pair(written[1], written[2]) = "success"
        BY <1>6, <1>12, <4>1
      <4>3. /\ Len(frames) = 2 /\ frames[1] = written[1]
            /\ written[1].type = "secret" /\ written[2].type = "end" /\ written[2].code = "ok"
        BY <1>7, <1>12, <4>2, PairIs
      <4>4. written[1] = Secret /\ written[2] = EndOf("ok")
        BY <1>4, <4>2, <4>3, FrameIs
      <4>5. held'
        <5>1. 1 \in DOMAIN frames
          BY <1>4, <4>3
        <5> QED  BY <1>12, <4>3, <5>1
      <4> QED  BY <1>1, <4>2, <4>4, <4>5
    <3>2. read' = 2 /\ written'[2].type # "part" => paired'
      <4>1. "more" \notin {"bad", "success"} \cup HelperFaults
        BY DEF HelperFaults
      <4>2. SUFFICES ASSUME n = 2, written[2].type # "part"
                     PROVE  verdict = "success"
        BY <1>1, <2>1, <2>2
      <4>3. verdict = Pair(written[1], written[2])
        BY <1>7, <1>12, <4>2
      <4>4. verdict \in {"bad", "success"} \cup HelperFaults
        BY <4>3, PairIs
      <4> QED  BY <2>2, <4>1, <4>4
    <3> QED  BY <3>1, <3>2 DEF Belief
  <2> QED  BY <1>1, <2>1, <2>4, <2>5, <2>6, NoResultYet DEF KeyInv
<1> QED  BY <1>3, <1>10, <1>11, <1>12

-----------------------------------------------------------------------------
LEMMA KeyStep ==
    ASSUME KeyInv, [KeyNext]_keyVars
    PROVE  KeyInv'
<1>1. CASE \/ Spawn \/ SpawnFails \/ Guard \/ ReadKey \/ Restore \/ Report \/ ReportFails \/ Exit
  BY <1>1, SpawnKeeps, SpawnFailsKeeps, GuardKeeps, ReadKeyKeeps, RestoreKeeps, ReportKeeps,
     ReportFailsKeeps, ExitKeeps
<1>2. CASE \/ Chatter \/ EndAny \/ HelperCrashes \/ \E f \in OddFrames : WriteAny(f)
  BY <1>2, ChatterKeeps, EndAnyKeeps, HelperCrashKeeps, WriteAnyKeeps
<1>3. CASE \/ Close \/ KillTimer \/ HardTimer \/ \E n \in 1 .. MaxFrames : ReadPipe(n)
  BY <1>3, CloseKeeps, KillTimerKeeps, HardTimerKeeps, ReadPipeKeeps
<1>4. CASE UNCHANGED keyVars
  BY <1>4 DEF keyVars, KeyInv, KeyType, LifeOfHelper, Running, Prompting, OwnWords, FirstFrame, Settled,
              Begun, Spoken, Reported, Belief, KeyOnlyFromCleanRun, HelperKeepsItsWord
<1> QED  BY <1>1, <1>2, <1>3, <1>4 DEF KeyNext

LEMMA KeyInvHolds == KeyInit /\ [][KeyNext]_keyVars => []KeyInv
<1>1. KeyInit => KeyInv
  BY KeyStarts
<1>2. KeyInv /\ [KeyNext]_keyVars => KeyInv'
  BY KeyStep
<1> QED  BY <1>1, <1>2, PTL

\* For any bound of what a helper writes: the bridge believes a key only at the end
\* of a clean run (lib/cookies/keychain-bridge.mjs).
THEOREM KeyIsClean == KeyInit /\ [][KeyNext]_keyVars => []KeyOnlyFromCleanRun
<1>1. KeyInv => KeyOnlyFromCleanRun
  BY DEF KeyInv
<1> QED  BY <1>1, KeyInvHolds, PTL

\* The helper prompts only at setup and undoes its guard or says so, and its last
\* word is the result (native/kh_core.c, lib/cookies/keychain-bridge.mjs).
THEOREM HelperIsTrue == KeyInit /\ [][KeyNext]_keyVars => []HelperKeepsItsWord
<1>1. KeyInv => HelperKeepsItsWord
  BY DEF KeyInv
<1> QED  BY <1>1, KeyInvHolds, PTL

-----------------------------------------------------------------------------
\* The Xiaomi source.
UnderWay == [end : {"running"}, do : {"setup", "update", "remove"}, next : 1 .. 7,
            route : {TokenPlan, Alias}, explicit : Names, saved : Names,
            base : SourceType, rows : SUBSET {TokenPlan, Alias}]
XiaomiType ==
    /\ source \in SourceType
    /\ holder \in Admin \cup {Unheld}
    /\ cached \subseteq {TokenPlan, Alias}
    /\ admin \in [Admin -> UnderWay \cup {Resting, [end |-> "over"]}]

\* Between the lock and the save, and what an update has checked when it began.
InHold(a) == Busy(a) /\ \/ admin[a].do = "setup" /\ admin[a].next \in 2 .. 7
                        \/ admin[a].do = "update" /\ admin[a].next = 6
                        \/ admin[a].do = "remove" /\ admin[a].next \in 2 .. 4
InPlan(a) == Busy(a) /\ admin[a].do # "setup" => admin[a].next \in 1 .. 6
Checked(a) == Busy(a) /\ admin[a].do = "update" =>
                  admin[a].explicit # Unknown \/ admin[a].saved \in ChromeProfile
HoldSound == \A a \in Admin : /\ InPlan(a) /\ Checked(a)
                              /\ InHold(a) => holder = a /\ admin[a].base = source
XiaomiInv == XiaomiType /\ HoldSound

\* A command is at this step of its plan.
Stands(a, do, n) == admin[a].do = do /\ admin[a].next = n

LEMMA PlanSteps ==
    ASSUME NEW a \in Admin, NEW step, XiaomiInv, At(a, step)
    PROVE  /\ admin[a] \in UnderWay
           /\ step = "lock" => Stands(a, "setup", 1) \/ Stands(a, "update", 5) \/ Stands(a, "remove", 1)
           /\ step = "build" => Stands(a, "setup", 2)
           /\ step = "check" => Stands(a, "setup", 3) \/ Stands(a, "update", 1)
           /\ step = "grant" => Stands(a, "setup", 4) \/ Stands(a, "update", 2)
           /\ step = "unreject" => Stands(a, "setup", 5) \/ Stands(a, "update", 3) \/ Stands(a, "remove", 2)
           /\ step = "unsuppress" => Stands(a, "setup", 6) \/ Stands(a, "update", 4) \/ Stands(a, "remove", 3)
           /\ step = "save" => Stands(a, "setup", 7) \/ Stands(a, "update", 6) \/ Stands(a, "remove", 4)
           /\ step = "reread" => Stands(a, "remove", 5)
           /\ step = "rewrite" => Stands(a, "remove", 6)
<1> DEFINE n == admin[a].next
           k == admin[a].do
<1>1. admin[a] \in UnderWay
  <2>1. admin[a] \in UnderWay \cup {Resting, [end |-> "over"]}
    BY DEF XiaomiInv, XiaomiType
  <2>2. admin[a].end = "running"
    BY DEF At, Busy
  <2>3. Resting.end # "running"
    BY DEF Resting
  <2>4. [end |-> "over"].end # "running"
    OBVIOUS
  <2> QED  BY <2>1, <2>2, <2>3, <2>4
<1>2. k \in {"setup", "update", "remove"} /\ n \in 1 .. 7 /\ (k # "setup" => n \in 1 .. 6)
  BY <1>1 DEF XiaomiInv, HoldSound, InPlan, At, Busy, UnderWay
<1>3. step = Plan(k)[n]
  BY DEF At
<1>4. CASE k = "setup"
  <2>1. Plan(k) = <<"lock", "build", "check", "grant", "unreject", "unsuppress", "save">>
    BY <1>4 DEF Plan
  <2> QED  BY <1>1, <1>2, <1>3, <1>4, <2>1 DEF Stands
<1>5. CASE k = "update"
  <2>1. Plan(k) = <<"check", "grant", "unreject", "unsuppress", "lock", "save">>
    BY <1>5 DEF Plan
  <2> QED  BY <1>1, <1>2, <1>3, <1>5, <2>1 DEF Stands
<1>6. CASE k = "remove"
  <2>1. Plan(k) = <<"lock", "unreject", "unsuppress", "save", "reread", "rewrite">>
    BY <1>6 DEF Plan
  <2> QED  BY <1>1, <1>2, <1>3, <1>6, <2>1 DEF Stands
<1> QED  BY <1>2, <1>4, <1>5, <1>6

LEMMA PlanLengths == Len(Plan("setup")) = 7 /\ Len(Plan("update")) = 6 /\ Len(Plan("remove")) = 6
<1>1. Plan("setup") = <<"lock", "build", "check", "grant", "unreject", "unsuppress", "save">>
  BY DEF Plan
<1>2. Plan("update") = <<"check", "grant", "unreject", "unsuppress", "lock", "save">>
  BY DEF Plan
<1>3. Plan("remove") = <<"lock", "unreject", "unsuppress", "save", "reread", "rewrite">>
  BY DEF Plan
<1> QED  BY <1>1, <1>2, <1>3

\* A step that is neither the taking of the lock nor the save.
LEMMA NextStepKeeps ==
    ASSUME XiaomiInv, NEW a \in Admin, admin[a] \in UnderWay, NextStep(a),
           UNCHANGED <<source, holder, cached>>,
           ~Stands(a, "setup", 1), ~Stands(a, "update", 5), ~Stands(a, "remove", 1)
    PROVE  XiaomiInv'
<1>1. \/ admin' = [admin EXCEPT ![a] = [end |-> "over"]]
      \/ /\ admin' = [admin EXCEPT ![a].next = @ + 1]
         /\ admin[a].next < 7
         /\ admin[a].do # "setup" => admin[a].next < 6
  <2>1. /\ admin[a].do \in {"setup", "update", "remove"} /\ admin[a].next \in 1 .. 7
        /\ admin[a].do # "setup" => admin[a].next \in 1 .. 6
    BY DEF XiaomiInv, HoldSound, InPlan, Busy, UnderWay
  <2>2. ASSUME admin[a].next # Len(Plan(admin[a].do))
        PROVE  admin[a].next < 7 /\ (admin[a].do # "setup" => admin[a].next < 6)
    <3>1. CASE admin[a].do = "setup"
      <4>1. Len(Plan(admin[a].do)) = 7
        BY <3>1, PlanLengths
      <4>2. admin[a].next \in 1 .. 7
        BY <2>1
      <4>3. admin[a].next < 7
        BY <2>2, <4>1, <4>2
      <4> QED  BY <3>1, <4>3
    <3>2. CASE admin[a].do = "update"
      <4>1. Len(Plan(admin[a].do)) = 6
        BY <3>2, PlanLengths
      <4>2. admin[a].next \in 1 .. 6
        BY <2>1, <3>2
      <4> QED  BY <2>2, <4>1, <4>2
    <3>3. CASE admin[a].do = "remove"
      <4>1. Len(Plan(admin[a].do)) = 6
        BY <3>3, PlanLengths
      <4>2. admin[a].next \in 1 .. 6
        BY <2>1, <3>3
      <4> QED  BY <2>2, <4>1, <4>2
    <3> QED  BY <2>1, <3>1, <3>2, <3>3
  <2>3. CASE admin[a].next = Len(Plan(admin[a].do))
    BY <2>3 DEF NextStep, Ended
  <2>4. CASE admin[a].next # Len(Plan(admin[a].do))
    <3>1. admin' = [admin EXCEPT ![a].next = @ + 1]
      BY <2>4 DEF NextStep
    <3> QED  BY <2>2, <2>4, <3>1
  <2> QED  BY <2>3, <2>4
<1>2. CASE admin' = [admin EXCEPT ![a] = [end |-> "over"]]
  BY <1>2 DEF XiaomiInv, XiaomiType, HoldSound, InPlan, Checked, InHold, Busy
<1>3. CASE /\ admin' = [admin EXCEPT ![a].next = @ + 1]
           /\ admin[a].next < 7
           /\ admin[a].do # "setup" => admin[a].next < 6
  <2>1. admin'[a] = [admin[a] EXCEPT !.next = @ + 1]
    BY <1>3 DEF XiaomiInv, XiaomiType
  <2>2. admin'[a] \in UnderWay /\ InPlan(a)' /\ Checked(a)'
    <3>1. Checked(a)
      BY DEF XiaomiInv, HoldSound
    <3> QED  BY <1>3, <2>1, <3>1 DEF UnderWay, InPlan, Checked, Busy
  <2>3. XiaomiType'
    BY <1>3, <2>1, <2>2 DEF XiaomiInv, XiaomiType
  <2>4. InHold(a)' => InHold(a)
    <3>1. /\ admin'[a].next = admin[a].next + 1 /\ admin'[a].do = admin[a].do
          /\ admin[a].end = "running" /\ admin[a].next \in 1 .. 7
          /\ admin[a].do \in {"setup", "update", "remove"}
      BY <2>1 DEF UnderWay
    <3> QED  BY <3>1 DEF InHold, Busy, Stands
  <2>5. HoldSound'
    BY <1>3, <2>1, <2>2, <2>4 DEF XiaomiInv, XiaomiType, HoldSound, InPlan, Checked, InHold, Busy, UnderWay
  <2> QED  BY <2>3, <2>5 DEF XiaomiInv
<1> QED  BY <1>1, <1>2, <1>3

LEMMA StopKeeps ==
    ASSUME XiaomiInv, NEW a \in Admin, Stop(a)
    PROVE  XiaomiInv' /\ ByGrantAndHold
<1>1. XiaomiType'
  BY DEF XiaomiInv, XiaomiType, Stop, Ended
<1>2. HoldSound'
  BY DEF XiaomiInv, XiaomiType, HoldSound, InPlan, Checked, InHold, Busy, Stop, Ended
<1>3. ByGrantAndHold
  BY DEF ByGrantAndHold, Stop
<1> QED  BY <1>1, <1>2, <1>3 DEF XiaomiInv

\* Sessions, Chrome and the rest of the world leave commands and config.json alone.
LEMMA WorldKeeps ==
    ASSUME XiaomiInv, UNCHANGED <<source, holder, admin>>, cached' \subseteq {TokenPlan, Alias}
    PROVE  XiaomiInv' /\ ByGrantAndHold
<1>1. XiaomiInv'
  BY DEF XiaomiInv, XiaomiType, HoldSound, InPlan, Checked, InHold, Busy
<1>2. ByGrantAndHold
  BY DEF ByGrantAndHold
<1> QED  BY <1>1, <1>2

LEMMA BeginKeeps ==
    ASSUME XiaomiInv, NEW a \in Admin, Begin(a)
    PROVE  XiaomiInv' /\ ByGrantAndHold
<1>1. UNCHANGED <<source, holder, cached, private>>
  BY DEF Begin, sharedVars
<1>2. PICK r \in UnderWay :
          /\ r.next = 1
          /\ r.do = "update" => r.explicit # Unknown \/ r.saved \in ChromeProfile
          /\ admin' = [admin EXCEPT ![a] = r]
  <2> DEFINE Read(do, explicit) == IF do = "remove" \/ explicit # Unknown THEN Unknown ELSE source.profile
             Chosen(do, route, explicit, saved) ==
               [end |-> "running", do |-> do, next |-> 1, route |-> route, explicit |-> explicit,
                saved |-> saved, base |-> NoDocument, rows |-> {}]
  <2>1. PICK do \in {"setup", "update", "remove"}, route \in {TokenPlan, Alias},
            explicit \in Explicit \cup {Unknown} :
            /\ do = "update" => ProfileFor(do, explicit, source.profile) # Unknown
            /\ admin' = [admin EXCEPT ![a] = Chosen(do, route, explicit, Read(do, explicit))]
    BY ZenonT(60) DEF Begin
  <2>2. explicit \in Names /\ Read(do, explicit) \in Names
    <3>1. Explicit \subseteq ChromeProfile
      BY ONLY XiaomiAssumption
    <3>2. explicit \in Names /\ Unknown \in Names
      BY ONLY <3>1, explicit \in Explicit \cup {Unknown} DEF Names
    <3>3. source.profile \in Names
      BY DEF XiaomiInv, XiaomiType, SourceType
    <3> QED  BY <3>2, <3>3
  <2>3. NoDocument \in SourceType
    BY DEF NoDocument, Source, SourceType, Names
  <2>4. do = "update" => explicit # Unknown \/ Read(do, explicit) \in ChromeProfile
    BY <2>1 DEF ProfileFor
  <2> HIDE DEF Read
  <2>5. \A n \in Names : /\ Chosen(do, route, explicit, n) \in UnderWay
                         /\ Chosen(do, route, explicit, n).next = 1
                         /\ Chosen(do, route, explicit, n).do = do
                         /\ Chosen(do, route, explicit, n).explicit = explicit
                         /\ Chosen(do, route, explicit, n).saved = n
    BY <2>2, <2>3 DEF UnderWay
  <2> HIDE DEF Chosen
  <2> QED  BY <2>1, <2>2, <2>4, <2>5
<1>3. admin' = [admin EXCEPT ![a] = r]
  BY <1>2, Zenon
<1>4. admin'[a] = r /\ \A b \in Admin \ {a} : admin'[b] = admin[b]
  BY <1>3 DEF XiaomiInv, XiaomiType
<1>5. XiaomiType'
  BY <1>1, <1>3 DEF XiaomiInv, XiaomiType
<1>6. InPlan(a)' /\ Checked(a)' /\ ~InHold(a)'
  <2>1. r.next = 1 /\ (r.do = "update" => r.explicit # Unknown \/ r.saved \in ChromeProfile)
    BY <1>2, Zenon
  <2> QED  BY <1>4, <2>1 DEF InPlan, Checked, InHold, Busy
<1>7. HoldSound'
  BY <1>1, <1>4, <1>6 DEF XiaomiInv, HoldSound, InPlan, Checked, InHold, Busy
<1>8. ByGrantAndHold
  BY <1>1 DEF ByGrantAndHold
<1> QED  BY <1>5, <1>7, <1>8 DEF XiaomiInv

LEMMA LockKeeps ==
    ASSUME XiaomiInv, NEW a \in Admin, Lock(a)
    PROVE  XiaomiInv' /\ ByGrantAndHold
<1>1. CASE Stop(a)
  BY <1>1, StopKeeps
<1>2. CASE ~Stop(a)
  <2>1. /\ holder = Unheld /\ holder' = a /\ UNCHANGED <<source, private, cached>>
        /\ \E n \in {admin[a].next + 1, admin[a].next + 3} :
              /\ admin[a].do # "remove" => n = admin[a].next + 1
              /\ admin' = [admin EXCEPT ![a].base = source, ![a].next = n]
    BY <1>2 DEF Lock
  <2>2. /\ admin[a] \in UnderWay
        /\ Stands(a, "setup", 1) \/ Stands(a, "update", 5) \/ Stands(a, "remove", 1)
    BY PlanSteps DEF Lock
  <2>3. PICK n \in {admin[a].next + 1, admin[a].next + 3} :
              /\ admin[a].do # "remove" => n = admin[a].next + 1
              /\ admin' = [admin EXCEPT ![a].base = source, ![a].next = n]
    BY <2>1
  <2>4. admin'[a] = [admin[a] EXCEPT !.base = source, !.next = n]
    BY <2>3 DEF XiaomiInv, XiaomiType
  <2>5. n \in 1 .. 7 /\ (admin[a].do # "setup" => n \in 1 .. 6)
    BY <2>2, <2>3 DEF Stands
  <2>6. admin'[a] \in UnderWay /\ InPlan(a)' /\ Checked(a)' /\ admin'[a].base = source
    <3>1. Checked(a)
      BY DEF XiaomiInv, HoldSound
    <3> QED  BY <2>2, <2>4, <2>5, <3>1 DEF XiaomiInv, XiaomiType, UnderWay, InPlan, Checked, Busy
  <2>7. XiaomiType'
    BY <2>1, <2>3, <2>6 DEF XiaomiInv, XiaomiType
  <2>8. \A b \in Admin \ {a} : ~InHold(b) /\ admin'[b] = admin[b]
    BY <2>1, <2>3, XiaomiAssumption DEF XiaomiInv, XiaomiType, HoldSound
  <2>9. HoldSound'
    BY <2>1, <2>6, <2>8 DEF XiaomiInv, HoldSound, InPlan, Checked, InHold, Busy
  <2>10. ByGrantAndHold
    BY <2>1 DEF ByGrantAndHold
  <2> QED  BY <2>7, <2>9, <2>10 DEF XiaomiInv
<1> QED  BY <1>1, <1>2

\* The steps that move a command on without publishing anything.
LEMMA PreparationKeeps ==
    ASSUME XiaomiInv, NEW a \in Admin, BuildHelper(a) \/ Check(a) \/ Grant(a)
    PROVE  XiaomiInv' /\ ByGrantAndHold
<1>1. CASE Stop(a)
  BY <1>1, StopKeeps
<1>2. CASE ~Stop(a)
  <2>1. NextStep(a) /\ UNCHANGED <<source, holder, private, cached>>
    BY <1>2 DEF BuildHelper, Check, Grant
  <2>2. \/ Stands(a, "setup", 2) \/ Stands(a, "setup", 3) \/ Stands(a, "setup", 4)
        \/ Stands(a, "update", 1) \/ Stands(a, "update", 2)
    BY PlanSteps DEF BuildHelper, Check, Grant
  <2>3. admin[a] \in UnderWay
    BY PlanSteps DEF BuildHelper, Check, Grant
  <2>4. XiaomiInv'
    BY <2>1, <2>2, <2>3, NextStepKeeps DEF Stands
  <2>5. ByGrantAndHold
    BY <2>1 DEF ByGrantAndHold
  <2> QED  BY <2>4, <2>5
<1> QED  BY <1>1, <1>2

LEMMA ResetKeeps ==
    ASSUME XiaomiInv, NEW a \in Admin, Unreject(a) \/ Unsuppress(a)
    PROVE  XiaomiInv' /\ ByGrantAndHold
<1>1. CASE Stop(a)
  BY <1>1, StopKeeps
<1>2. CASE ~Stop(a)
  <2>1. NextStep(a) /\ UNCHANGED <<source, holder, cached>>
    BY <1>2 DEF Unreject, Unsuppress
  <2>2. \/ Stands(a, "setup", 5) \/ Stands(a, "setup", 6)
        \/ Stands(a, "update", 3) \/ Stands(a, "update", 4)
        \/ Stands(a, "remove", 2) \/ Stands(a, "remove", 3)
    BY PlanSteps DEF Unreject, Unsuppress
  <2>3. admin[a] \in UnderWay
    BY PlanSteps DEF Unreject, Unsuppress
  <2>4. XiaomiInv'
    BY <2>1, <2>2, <2>3, NextStepKeeps DEF Stands
  <2>5. admin[a].do = "remove" \/ "grant" \notin Todo(a)
    <3>1. CASE Stands(a, "setup", 5) \/ Stands(a, "setup", 6)
      <4>1. Plan("setup") = <<"lock", "build", "check", "grant", "unreject", "unsuppress", "save">>
        BY DEF Plan
      <4>2. \A i \in 5 .. 7 : Plan("setup")[i] \in {"unreject", "unsuppress", "save"}
        BY <4>1
      <4>3. Todo(a) \subseteq {"unreject", "unsuppress", "save"}
        BY <3>1, <4>2, PlanLengths DEF Todo, Stands
      <4> QED  BY <4>3
    <3>2. CASE Stands(a, "update", 3) \/ Stands(a, "update", 4)
      <4>1. Plan("update") = <<"check", "grant", "unreject", "unsuppress", "lock", "save">>
        BY DEF Plan
      <4>2. \A i \in 3 .. 6 : Plan("update")[i] \in {"unreject", "unsuppress", "lock", "save"}
        BY <4>1
      <4>3. Todo(a) \subseteq {"unreject", "unsuppress", "lock", "save"}
        BY SMTT(20), <3>2, <4>2, PlanLengths DEF Todo, Stands
      <4> QED  BY <4>3
    <3> QED  BY <2>2, <3>1, <3>2 DEF Stands
  <2>6. \A b \in Admin : admin'[b] # admin[b] => b = a
    BY <2>1 DEF NextStep, Ended, XiaomiInv, XiaomiType
  <2>7. ByGrantAndHold
    BY <2>1, <2>5, <2>6 DEF ByGrantAndHold
  <2> QED  BY <2>4, <2>7
<1> QED  BY <1>1, <1>2

LEMMA SaveKeeps ==
    ASSUME XiaomiInv, NEW a \in Admin, Save(a)
    PROVE  XiaomiInv' /\ ByGrantAndHold
<1>1. CASE Stop(a)
  BY <1>1, StopKeeps
<1>2. CASE ~Stop(a)
  <2>1. /\ source' = Document(a) /\ NextStep(a) /\ UNCHANGED <<private, cached>>
        /\ holder' = IF holder = a THEN Unheld ELSE holder
    BY <1>2 DEF Save
  <2>2. /\ admin[a] \in UnderWay
        /\ Stands(a, "setup", 7) \/ Stands(a, "update", 6) \/ Stands(a, "remove", 4)
    BY PlanSteps DEF Save
  <2>3. admin[a].end = "running"
    BY <2>2 DEF UnderWay
  <2>4. holder = a /\ admin[a].base = source
    BY <2>2, <2>3 DEF XiaomiInv, HoldSound, InHold, Busy, Stands
  <2>5. source' \in SourceType
    <3> DEFINE selected == ProfileFor(admin[a].do, admin[a].explicit, admin[a].saved)
    <3>1. selected \in Names
      BY <2>2 DEF ProfileFor, UnderWay, Names
    <3>2. admin[a].base \in SourceType /\ admin[a].route \in {TokenPlan, Alias}
      BY <2>2 DEF UnderWay
    <3>3. Unknown \in Names
      BY DEF Names
    <3>4. \A base \in SourceType, n \in Names :
            /\ Source(base.routes \cup {TokenPlan}, n) \in SourceType
            /\ [base EXCEPT !.profile = n] \in SourceType
            /\ Source(base.routes \ {admin[a].route}, n) \in SourceType
            /\ base.profile \in Names
      BY DEF Source, SourceType
    <3> HIDE DEF selected
    <3>5. CASE Stands(a, "setup", 7)
      <4>1. source' = Source(admin[a].base.routes \cup {TokenPlan}, selected)
        BY <2>1, <3>5 DEF Document, Stands, selected
      <4> QED  BY <3>1, <3>2, <3>4, <4>1
    <3>6. CASE Stands(a, "update", 6)
      <4>1. source' = [admin[a].base EXCEPT !.profile = selected]
        BY <2>1, <3>6 DEF Document, Stands, selected
      <4> QED  BY <3>1, <3>2, <3>4, <4>1
    <3>7. CASE Stands(a, "remove", 4)
      <4>1. \E n \in {Unknown, admin[a].base.profile} :
               source' = Source(admin[a].base.routes \ {admin[a].route}, n)
        BY <2>1, <3>7 DEF Document, Stands
      <4> QED  BY <3>2, <3>3, <3>4, <4>1
    <3> QED  BY <2>2, <3>5, <3>6, <3>7
  <2>6. \/ admin' = [admin EXCEPT ![a] = [end |-> "over"]]
        \/ admin' = [admin EXCEPT ![a].next = 5] /\ Stands(a, "remove", 4)
    <3>1. CASE Stands(a, "setup", 7)
      <4>1. admin[a].next = Len(Plan(admin[a].do))
        BY <3>1, PlanLengths DEF Stands
      <4> QED  BY <2>1, <4>1 DEF NextStep, Ended
    <3>2. CASE Stands(a, "update", 6)
      <4>1. admin[a].next = Len(Plan(admin[a].do))
        BY <3>2, PlanLengths DEF Stands
      <4> QED  BY <2>1, <4>1 DEF NextStep, Ended
    <3>3. CASE Stands(a, "remove", 4)
      <4>1. admin[a].next = 4 /\ Len(Plan(admin[a].do)) = 6
        BY <3>3, PlanLengths DEF Stands
      <4>2. admin' = [admin EXCEPT ![a].next = admin[a].next + 1]
        BY <2>1, <4>1 DEF NextStep
      <4> QED  BY <3>3, <4>1, <4>2
    <3> QED  BY <2>2, <3>1, <3>2, <3>3
  <2>7. /\ admin'[a] \in UnderWay \cup {[end |-> "over"]}
        /\ InPlan(a)' /\ Checked(a)' /\ ~InHold(a)'
        /\ \A b \in Admin \ {a} : admin'[b] = admin[b] /\ ~InHold(b)
    <3>1. CASE admin' = [admin EXCEPT ![a] = [end |-> "over"]]
      BY <2>4, <3>1 DEF XiaomiInv, XiaomiType, HoldSound, InPlan, Checked, InHold, Busy
    <3>2. CASE admin' = [admin EXCEPT ![a].next = 5] /\ Stands(a, "remove", 4)
      <4>1. admin'[a] = [admin[a] EXCEPT !.next = 5]
        BY <3>2 DEF XiaomiInv, XiaomiType
      <4>2. admin'[a] \in UnderWay /\ admin'[a].next = 5 /\ admin'[a].do = "remove"
        BY <2>2, <3>2, <4>1 DEF UnderWay, Stands
      <4> QED  BY <2>4, <3>2, <4>2 DEF XiaomiInv, XiaomiType, HoldSound, InPlan, Checked, InHold, Busy
    <3> QED  BY <2>6, <3>1, <3>2
  <2>8. XiaomiType'
    BY <2>1, <2>4, <2>5, <2>6, <2>7 DEF XiaomiInv, XiaomiType
  <2>9. HoldSound'
    BY <2>7 DEF XiaomiInv, HoldSound, InPlan, Checked, InHold, Busy
  <2>10. {"grant", "unreject", "unsuppress"} \cap Todo(a) = {}
    <3>1. CASE Stands(a, "setup", 7)
      <4>1. Plan("setup") = <<"lock", "build", "check", "grant", "unreject", "unsuppress", "save">>
        BY DEF Plan
      <4>2. \A i \in 7 .. 7 : Plan("setup")[i] = "save"
        BY <4>1
      <4>3. Todo(a) \subseteq {"save"}
        BY <3>1, <4>2, PlanLengths DEF Todo, Stands
      <4> QED  BY <4>3
    <3>2. CASE Stands(a, "update", 6)
      <4>1. Plan("update") = <<"check", "grant", "unreject", "unsuppress", "lock", "save">>
        BY DEF Plan
      <4>2. \A i \in 6 .. 6 : Plan("update")[i] = "save"
        BY <4>1
      <4>3. Todo(a) \subseteq {"save"}
        BY <3>2, <4>2, PlanLengths DEF Todo, Stands
      <4> QED  BY <4>3
    <3>3. CASE Stands(a, "remove", 4)
      <4>1. Plan("remove") = <<"lock", "unreject", "unsuppress", "save", "reread", "rewrite">>
        BY DEF Plan
      <4>2. \A i \in 4 .. 6 : Plan("remove")[i] \in {"save", "reread", "rewrite"}
        BY <4>1
      <4>3. Todo(a) \subseteq {"save", "reread", "rewrite"}
        BY <3>3, <4>2, PlanLengths DEF Todo, Stands
      <4> QED  BY <4>3
    <3> QED  BY <2>2, <3>1, <3>2, <3>3
  <2>11. Publishes(a)
    <3> DEFINE selected == ProfileFor(admin[a].do, admin[a].explicit, admin[a].saved)
    <3>1. source = [routes |-> source.routes, profile |-> source.profile] /\ source.routes \subseteq {TokenPlan, Alias}
      BY DEF XiaomiInv, XiaomiType, SourceType
    <3>2. admin[a].explicit # Unknown => selected = admin[a].explicit
      BY DEF ProfileFor
    <3>3. admin[a].explicit = Unknown /\ admin[a].saved = source.profile =>
             IF source.profile \in ChromeProfile THEN selected = source.profile
             ELSE selected = IF admin[a].do = "setup" THEN Default ELSE Unknown
      BY DEF ProfileFor
    <3> HIDE DEF selected
    <3>4. CASE Stands(a, "setup", 7)
      <4>1. source'.routes = source.routes \cup {TokenPlan} /\ source'.profile = selected
        BY <2>1, <2>4, <3>4 DEF Document, Source, Stands, selected
      <4> QED  BY <2>4, <3>2, <3>3, <3>4, <4>1 DEF Publishes, Stands
    <3>5. CASE Stands(a, "update", 6)
      <4>1. source'.routes = source.routes /\ source'.profile = selected
        BY <2>1, <2>4, <3>1, <3>5 DEF Document, Stands, selected
      <4>2. admin[a].explicit # Unknown \/ admin[a].saved \in ChromeProfile
        BY <2>3, <3>5 DEF XiaomiInv, HoldSound, Checked, Busy, Stands
      <4> QED  BY <2>4, <3>2, <3>3, <3>5, <4>1, <4>2 DEF Publishes, Stands
    <3>6. CASE Stands(a, "remove", 4)
      <4>1. /\ source'.routes = source.routes \ {admin[a].route}
            /\ source'.profile = IF source'.routes = {} THEN Unknown ELSE source.profile
        BY <2>1, <2>4, <3>6 DEF Document, Source, Stands
      <4> QED  BY <2>4, <3>6, <4>1 DEF Publishes, Stands
    <3> QED  BY <2>2, <3>4, <3>5, <3>6
  <2>12. ByGrantAndHold
    BY <2>1, <2>4, <2>7, <2>10, <2>11 DEF ByGrantAndHold
  <2> QED  BY <2>8, <2>9, <2>12 DEF XiaomiInv
<1> QED  BY <1>1, <1>2

LEMMA CacheKeeps ==
    ASSUME XiaomiInv, NEW a \in Admin, Reread(a) \/ Rewrite(a)
    PROVE  XiaomiInv' /\ ByGrantAndHold
<1>1. UNCHANGED <<source, holder, private>>
  BY DEF Reread, Rewrite, sharedVars
<1>2. cached' \subseteq {TokenPlan, Alias}
  BY PlanSteps DEF Reread, Rewrite, sharedVars, XiaomiInv, XiaomiType, UnderWay
<1>3. CASE admin' = [admin EXCEPT ![a] = [end |-> "over"]]
  BY <1>1, <1>2, <1>3 DEF XiaomiInv, XiaomiType, HoldSound, InPlan, Checked, InHold, Busy, ByGrantAndHold
<1>4. CASE admin' = [admin EXCEPT ![a].rows = cached, ![a].next = @ + 1] /\ Reread(a)
  <2>1. admin[a] \in UnderWay /\ Stands(a, "remove", 5)
    BY <1>4, PlanSteps DEF Reread
  <2>2. admin'[a] = [admin[a] EXCEPT !.rows = cached, !.next = 6]
    BY <1>4, <2>1 DEF XiaomiInv, XiaomiType, Stands
  <2>3. admin'[a] \in UnderWay /\ admin'[a].next = 6 /\ admin'[a].do = "remove"
    <3>1. cached \in SUBSET {TokenPlan, Alias}
      BY DEF XiaomiInv, XiaomiType
    <3>2. admin'[a] \in UnderWay
      <4>1. \A r \in UnderWay : [r EXCEPT !.rows = cached] \in UnderWay
        BY <3>1 DEF UnderWay
      <4>2. \A r \in UnderWay : [r EXCEPT !.next = 6] \in UnderWay
        BY DEF UnderWay
      <4>3. admin'[a] = [[admin[a] EXCEPT !.rows = cached] EXCEPT !.next = 6]
        BY <2>2
      <4> QED  BY <2>1, <4>1, <4>2, <4>3
    <3>3. admin'[a].next = 6 /\ admin'[a].do = "remove"
      BY <2>1, <2>2 DEF UnderWay, Stands
    <3> QED  BY <3>2, <3>3
  <2>4. XiaomiType'
    BY <1>1, <1>2, <1>4, <2>3 DEF XiaomiInv, XiaomiType
  <2>5. HoldSound'
    BY <1>1, <1>4, <2>3 DEF XiaomiInv, XiaomiType, HoldSound, InPlan, Checked, InHold, Busy
  <2> QED  BY <1>1, <2>4, <2>5 DEF XiaomiInv, ByGrantAndHold
<1> QED  BY <1>3, <1>4 DEF Reread, Rewrite, Ended

LEMMA XiaomiStepKeeps ==
    ASSUME XiaomiInv, [XiaomiNext]_xiaomiVars
    PROVE  XiaomiInv' /\ [ByGrantAndHold]_xiaomiVars
<1>1. CASE \E a \in Admin : Begin(a) \/ Command(a) \/ Killed(a)
  BY <1>1, BeginKeeps, LockKeeps, PreparationKeeps, ResetKeeps, SaveKeeps, CacheKeeps, StopKeeps
     DEF Command, Killed
<1>2. CASE \E s \in Session : Wake(s) \/ SessionStep(s)
  BY <1>2, WorldKeeps
     DEF Wake, SessionStep, Starts, LoadRows, LoadKey, Suppress, Compare, AskUsage, AskDetail,
         Accept, Reject, sharedVars, XiaomiInv, XiaomiType
<1>3. CASE Chrome \/ Meddle \/ Publish
  BY <1>3, WorldKeeps DEF Chrome, Meddle, Publish, XiaomiInv, XiaomiType, SourceType
<1>4. CASE UNCHANGED xiaomiVars
  BY <1>4, WorldKeeps DEF xiaomiVars, XiaomiInv, XiaomiType
<1> QED  BY <1>1, <1>2, <1>3, <1>4 DEF XiaomiNext

LEMMA XiaomiStarts ==
    ASSUME XiaomiInit
    PROVE  XiaomiInv
<1>1. source \in SourceType
  BY XiaomiAssumption DEF XiaomiInit
<1>2. \A a \in Admin : admin[a] = Resting
  BY DEF XiaomiInit
<1>3. XiaomiType
  BY <1>1 DEF XiaomiInit, XiaomiType, SourceType
<1>4. HoldSound
  <2>1. Resting.end # "running"
    BY DEF Resting
  <2> QED  BY <1>2, <2>1 DEF HoldSound, InPlan, Checked, InHold, Busy
<1> QED  BY <1>3, <1>4 DEF XiaomiInv

\* For any commands, sessions, profiles and earlier installations: a Xiaomi command changes
\* config.json, or clears a marker, only after the user's grant or to remove. It publishes
\* in a hold of the lock: the routes it found there, but for the one it adds or removes,
\* and as the selected profile the one it was given, or else the one found there, if
\* that is still the one it had read before the hold (bin/vl.js).
THEOREM GrantBeforeChange == XiaomiSpec => OnlySuccessIsSaved
<1>1. XiaomiInit => XiaomiInv
  BY XiaomiStarts
<1>2. XiaomiInv /\ [XiaomiNext]_xiaomiVars => XiaomiInv' /\ [ByGrantAndHold]_xiaomiVars
  BY XiaomiStepKeeps
<1> QED  BY <1>1, <1>2, PTL DEF XiaomiSpec, OnlySuccessIsSaved

-----------------------------------------------------------------------------
\* What a session has learned by each of its steps, and what it then reports.
Usages == {"no counts", "nothing left", "some left"}
Details == {"expired", "unrecognized", "current"}
SessionStates == {"unknown", "exhausted", "usable"}
Words == {"auth", "not configured", "unsafe", "key", "store", "decryption", "header", "request",
          "expired", "unrecognized", "counts"}
SessionStatuses == [state : SessionStates, says : Words]
Going == [at : {"configured", "cookies", "key", "suppress", "digest", "usage", "detail", "accept", "reject"},
          profile : Names, bundle : 0 .. MaxBundle, compared : SUBSET (0 .. MaxBundle),
          usage : Usages \cup {Unknown}, detail : Details \cup {Unknown}]
Told == [at : {"done"}, saw : Going, status : SessionStatuses]

SessionType == /\ bundle \in 0 .. MaxBundle /\ private \in PrivateType
               /\ session \in [Session -> {Asleep} \cup Going \cup Told]
Compared(r) == r.compared # {} /\ r.bundle \notin r.compared
Learned(r) == /\ r.at # "configured" => r.profile \in ChromeProfile
              /\ r.at \notin {"configured", "cookies"} => r.bundle # NoBundle
              /\ r.at \in {"usage", "detail", "accept"} => Compared(r)
              /\ r.at \in {"detail", "accept"} => r.usage \in Usages
              /\ r.at = "accept" => r.detail \in Details
Supported(saw, report) ==
    /\ report.state # "unknown" =>
           /\ saw.profile \in ChromeProfile /\ saw.bundle # NoBundle /\ Compared(saw)
           /\ saw.detail = "current"
           /\ saw.usage \in {"nothing left", "some left"}
           /\ report.state = "exhausted" <=> saw.usage = "nothing left"
    /\ report = AuthStatus => saw.at \in {"cookies", "digest", "reject"}
    /\ saw.at \in {"key", "suppress"} => report.says \in {"key", "decryption"}
SessionsSound == \A s \in Session : /\ session[s] \in Going => Learned(session[s])
                                    /\ session[s] \in Told => Supported(session[s].saw, session[s].status)
SessionInv == XiaomiType /\ SessionType /\ SessionsSound

LEMMA GoingOrTold ==
    ASSUME SessionInv, NEW s \in Session
    PROVE  /\ session[s].at = "asleep" <=> session[s] = Asleep
           /\ session[s].at = "done" <=> session[s] \in Told
           /\ session[s].at \notin {"asleep", "done"} <=> session[s] \in Going
<1>1. session[s] \in {Asleep} \cup Going \cup Told
  BY DEF SessionInv, SessionType
<1>2. Asleep.at = "asleep"
  BY DEF Asleep
<1>3. \A r \in Going : r.at \notin {"asleep", "done"}
  BY DEF Going
<1>4. \A r \in Told : r.at = "done"
  BY DEF Told
<1> QED  BY <1>1, <1>2, <1>3, <1>4

LEMMA GoesOn ==
    ASSUME SessionInv, NEW s \in Session, NEW r \in Going, Learned(r),
           session' = [session EXCEPT ![s] = r], UNCHANGED bundle, private' \in PrivateType
    PROVE  SessionType' /\ SessionsSound'
<1>1. SessionType'
  BY DEF SessionInv, SessionType
<1>2. r \notin Told
  BY DEF Going, Told
<1>3. SessionsSound'
  BY <1>2 DEF SessionInv, SessionType, SessionsSound
<1> QED  BY <1>1, <1>3

LEMMA ReportsSo ==
    ASSUME SessionInv, NEW s \in Session, session[s] \in Going,
           NEW report \in SessionStatuses, Supported(session[s], report),
           Reports(s, report), UNCHANGED bundle, private' \in PrivateType
    PROVE  SessionType' /\ SessionsSound'
<1> DEFINE t == [at |-> "done", saw |-> session[s], status |-> report]
<1>1. t \in Told /\ t \notin Going
  BY DEF Told, Going
<1>2. session' = [session EXCEPT ![s] = t]
  BY DEF Reports
<1>3. Supported(t.saw, t.status)
  OBVIOUS
<1> HIDE DEF t
<1>4. SessionType'
  BY <1>1, <1>2 DEF SessionInv, SessionType
<1>5. SessionsSound'
  BY <1>1, <1>2, <1>3 DEF SessionInv, SessionType, SessionsSound
<1> QED  BY <1>4, <1>5

\* An unknown state needs no support, unless it is a demand to log in or a key failure.
LEMMA ErrorsAreFree ==
    ASSUME NEW saw, NEW says \in Words, says # "auth",
           saw.at \in {"key", "suppress"} => says \in {"key", "decryption"}
    PROVE  ErrorStatus(says) \in SessionStatuses /\ Supported(saw, ErrorStatus(says))
<1> DEFINE e == ErrorStatus(says)
<1>1. e.state = "unknown" /\ e.says = says
  BY DEF ErrorStatus, Status
<1>2. AuthStatus.says = "auth"
  BY DEF AuthStatus, Status
<1>3. e \in SessionStatuses
  BY DEF ErrorStatus, Status, SessionStatuses, SessionStates, Words
<1> HIDE DEF e
<1>4. e # AuthStatus
  BY <1>1, <1>2
<1>5. Supported(saw, e)
  BY <1>1, <1>4 DEF Supported
<1> QED  BY <1>3, <1>5 DEF e

LEMMA AuthIsGrounded ==
    ASSUME NEW saw, saw.at \in {"cookies", "digest", "reject"}
    PROVE  AuthStatus \in SessionStatuses /\ Supported(saw, AuthStatus)
<1>1. AuthStatus.state = "unknown"
  BY DEF AuthStatus, Status
<1>2. AuthStatus \in SessionStatuses
  BY DEF AuthStatus, Status, SessionStatuses, SessionStates, Words
<1>3. saw.at \notin {"key", "suppress"}
  OBVIOUS
<1>4. Supported(saw, AuthStatus)
  BY <1>1, <1>3 DEF Supported
<1> QED  BY <1>2, <1>4

LEMMA CountsAreGrounded ==
    ASSUME NEW saw \in Going, saw.at = "accept", Learned(saw)
    PROVE  /\ Adapted(saw.usage, saw.detail) \in SessionStatuses
           /\ Supported(saw, Adapted(saw.usage, saw.detail))
<1> DEFINE a == Adapted(saw.usage, saw.detail)
<1>1. saw.usage \in Usages /\ saw.detail \in Details /\ saw.profile \in ChromeProfile /\ saw.bundle # NoBundle /\ Compared(saw)
  BY DEF Learned
<1>2. AuthStatus.says = "auth"
  BY DEF AuthStatus, Status
<1>3. CASE saw.detail = "expired"
  <2>1. a = ErrorStatus("expired")
    BY <1>3 DEF Adapted
  <2>2. "expired" \in Words /\ "expired" # "auth" /\ saw.at \notin {"key", "suppress"}
    BY DEF Words
  <2> HIDE DEF a
  <2>3. a \in SessionStatuses /\ Supported(saw, a)
    BY <2>1, <2>2, ErrorsAreFree
  <2> QED  BY <2>3 DEF a
<1>4. CASE saw.detail # "expired" /\ (saw.usage = "no counts" \/ saw.detail = "unrecognized")
  <2>1. a = ErrorStatus("unrecognized")
    BY <1>4 DEF Adapted
  <2>2. "unrecognized" \in Words /\ "unrecognized" # "auth" /\ saw.at \notin {"key", "suppress"}
    BY DEF Words
  <2> HIDE DEF a
  <2>3. a \in SessionStatuses /\ Supported(saw, a)
    BY <2>1, <2>2, ErrorsAreFree
  <2> QED  BY <2>3 DEF a
<1>5. CASE saw.detail = "current" /\ saw.usage # "no counts"
  <2> DEFINE state == IF saw.usage = "nothing left" THEN "exhausted" ELSE "usable"
  <2>1. a = [state |-> state, says |-> "counts"]
    BY <1>5 DEF Adapted, Status
  <2>2. saw.usage \in {"nothing left", "some left"}
    BY <1>1, <1>5 DEF Usages
  <2>3. state \in SessionStates /\ (state = "exhausted" <=> saw.usage = "nothing left")
    BY <2>2 DEF SessionStates
  <2> HIDE DEF a, state
  <2>4. a.state = state /\ a.says = "counts" /\ a \in SessionStatuses
    BY <2>1, <2>3 DEF SessionStatuses, Words
  <2>5. a # AuthStatus /\ saw.at \notin {"key", "suppress"}
    BY <1>2, <2>4
  <2>6. Supported(saw, a)
    BY <1>1, <1>5, <2>2, <2>3, <2>4, <2>5 DEF Supported
  <2> QED  BY <2>4, <2>6 DEF a
<1> QED  BY <1>1, <1>3, <1>4, <1>5 DEF Details

\* A session that goes on to its next step, with what it had learned before.
LEMMA NextStepGoes ==
    ASSUME SessionInv, NEW s \in Session, session[s] \in Going,
           NEW at \in {"cookies", "suppress", "digest", "reject"},
           session[s].profile \in ChromeProfile,
           at # "cookies" => session[s].bundle # NoBundle,
           Goes(s, at), UNCHANGED bundle, private' \in PrivateType
    PROVE  SessionType' /\ SessionsSound'
<1> DEFINE r == [session[s] EXCEPT !.at = at]
<1>1. session' = [session EXCEPT ![s] = r]
  BY DEF Goes, SessionInv, SessionType
<1>2. r \in Going
  BY DEF Going
<1>3. /\ r.at = at /\ r.profile = session[s].profile /\ r.bundle = session[s].bundle
  BY DEF Going
<1>4. Learned(r)
  BY <1>3 DEF Learned
<1> HIDE DEF r
<1> QED  BY <1>1, <1>2, <1>4, GoesOn

LEMMA ReportsError ==
    ASSUME SessionInv, NEW s \in Session, session[s] \in Going,
           NEW says \in Words \ {"auth"},
           session[s].at \in {"key", "suppress"} => says \in {"key", "decryption"},
           Reports(s, ErrorStatus(says)), UNCHANGED bundle, private' \in PrivateType
    PROVE  SessionType' /\ SessionsSound'
  BY ErrorsAreFree, ReportsSo

LEMMA ReportsAuth ==
    ASSUME SessionInv, NEW s \in Session, session[s] \in Going,
           session[s].at \in {"cookies", "digest", "reject"},
           Reports(s, AuthStatus), UNCHANGED bundle, private' \in PrivateType
    PROVE  SessionType' /\ SessionsSound'
  BY AuthIsGrounded, ReportsSo

LEMMA WakeSound ==
    ASSUME SessionInv, NEW s \in Session, Wake(s), private' \in PrivateType
    PROVE  SessionType' /\ SessionsSound'
<1> DEFINE r == [at |-> "configured", profile |-> source.profile, bundle |-> NoBundle,
                 compared |-> {}, usage |-> Unknown, detail |-> Unknown]
<1>1. session' = [session EXCEPT ![s] = r] /\ UNCHANGED bundle
  BY DEF Wake, sharedVars
<1>2. r \in Going
  BY XiaomiAssumption DEF Going, SessionInv, XiaomiType, SourceType, NoBundle
<1>3. Learned(r)
  BY DEF Learned
<1> HIDE DEF r
<1> QED  BY <1>1, <1>2, <1>3, GoesOn

LEMMA BeforeBundleSound ==
    ASSUME SessionInv, NEW s \in Session, Starts(s) \/ LoadRows(s), private' \in PrivateType
    PROVE  SessionType' /\ SessionsSound'
<1>1. session[s] \in Going /\ Learned(session[s]) /\ UNCHANGED bundle
  BY GoingOrTold DEF Starts, LoadRows, Awake, sharedVars, SessionInv, SessionsSound
<1>2. CASE Starts(s)
  <2>1. session[s].at = "configured"
    BY <1>2 DEF Starts, Awake
  <2>2. CASE \E says \in {"not configured", "unsafe", "key"} : Reports(s, ErrorStatus(says))
    <3>1. PICK says \in {"not configured", "unsafe", "key"} : Reports(s, ErrorStatus(says))
      BY <2>2
    <3>2. says \in Words \ {"auth"}
      BY DEF Words
    <3> QED  BY <1>1, <2>1, <3>1, <3>2, ReportsError
  <2>3. CASE Goes(s, "cookies") /\ session[s].profile \in ChromeProfile
    BY <1>1, <2>3, NextStepGoes
  <2> QED  BY <1>2, <2>2, <2>3 DEF Starts
<1>3. CASE LoadRows(s)
  <2>1. session[s].at = "cookies" /\ session[s].profile \in ChromeProfile
    BY <1>1, <1>3 DEF LoadRows, Awake, Learned
  <2>2. CASE Reports(s, AuthStatus)
    BY <1>1, <2>1, <2>2, ReportsAuth
  <2>3. CASE Reports(s, ErrorStatus("store"))
    <3>1. "store" \in Words \ {"auth"}
      BY DEF Words
    <3> QED  BY <1>1, <2>1, <2>3, <3>1, ReportsError
  <2>4. CASE bundle # NoBundle /\ session' = [session EXCEPT ![s].at = "key", ![s].bundle = bundle]
    <3> DEFINE r == [session[s] EXCEPT !.at = "key", !.bundle = bundle]
    <3>1. session' = [session EXCEPT ![s] = r]
      BY <2>4 DEF SessionInv, SessionType
    <3>2. r \in Going
      BY <1>1 DEF Going, SessionInv, SessionType
    <3>3. r.at = "key" /\ r.profile \in ChromeProfile /\ r.bundle = bundle
      BY <1>1, <2>1 DEF Going
    <3>4. Learned(r)
      BY <2>4, <3>3 DEF Learned
    <3> HIDE DEF r
    <3> QED  BY <1>1, <3>1, <3>2, <3>4, GoesOn
  <2> QED  BY <1>3, <2>2, <2>3, <2>4 DEF LoadRows
<1> QED  BY <1>2, <1>3

LEMMA WithBundleSound ==
    ASSUME SessionInv, NEW s \in Session, LoadKey(s) \/ Suppress(s) \/ Compare(s) \/ Reject(s),
           private' \in PrivateType
    PROVE  SessionType' /\ SessionsSound'
<1>1. /\ session[s] \in Going /\ Learned(session[s]) /\ UNCHANGED bundle
      /\ session[s].at \in {"key", "suppress", "digest", "reject"}
  BY GoingOrTold DEF LoadKey, Suppress, Compare, Reject, Awake, sharedVars, SessionInv, SessionsSound
<1>2. session[s].profile \in ChromeProfile /\ session[s].bundle # NoBundle
  BY <1>1 DEF Learned
<1>3. CASE \E at \in {"suppress", "digest"} : Goes(s, at)
  BY <1>1, <1>2, <1>3, NextStepGoes
<1>4. CASE \E says \in {"key", "decryption"} : Reports(s, ErrorStatus(says))
  <2>1. {"key", "decryption"} \subseteq Words \ {"auth"}
    BY DEF Words
  <2> QED  BY <1>1, <1>4, <2>1, ReportsError
<1>5. CASE /\ Reports(s, ErrorStatus("unsafe")) \/ Reports(s, ErrorStatus("header"))
           /\ session[s].at \in {"digest", "reject"}
  <2>1. {"unsafe", "header"} \subseteq Words \ {"auth"}
    BY DEF Words
  <2> QED  BY <1>1, <1>5, <2>1, ReportsError
<1>6. CASE Reports(s, AuthStatus) /\ session[s].at \in {"digest", "reject"}
  BY <1>1, <1>6, ReportsAuth
<1>7. CASE LoadKey(s)
  BY <1>3, <1>4, <1>7 DEF LoadKey
<1>8. CASE Suppress(s)
  BY <1>4, <1>8 DEF Suppress
<1>9. CASE Compare(s)
  <2>1. CASE /\ private.rejected # session[s].bundle
             /\ session' = [session EXCEPT ![s].at = "usage", ![s].compared = {private.rejected}]
    <3> DEFINE r == [session[s] EXCEPT !.at = "usage", !.compared = {private.rejected}]
    <3>1. session' = [session EXCEPT ![s] = r]
      BY <2>1 DEF SessionInv, SessionType
    <3>2. private.rejected \in 0 .. MaxBundle
      BY DEF SessionInv, SessionType, PrivateType, NoBundle
    <3>3. r \in Going
      BY <1>1, <3>2 DEF Going
    <3>4. /\ r.at = "usage" /\ r.profile = session[s].profile /\ r.bundle = session[s].bundle
          /\ r.compared = {private.rejected}
      BY <1>1 DEF Going
    <3>5. Learned(r)
      BY <1>2, <2>1, <3>4 DEF Learned, Compared
    <3> HIDE DEF r
    <3> QED  BY <1>1, <3>1, <3>3, <3>5, GoesOn
  <2> QED  BY <1>5, <1>6, <1>9, <2>1 DEF Compare, Awake
<1>10. CASE Reject(s)
  BY <1>5, <1>6, <1>10 DEF Reject, Awake
<1> QED  BY <1>7, <1>8, <1>9, <1>10

LEMMA AskedSound ==
    ASSUME SessionInv, NEW s \in Session, AskUsage(s) \/ AskDetail(s) \/ Accept(s),
           private' \in PrivateType
    PROVE  SessionType' /\ SessionsSound'
<1>1. /\ session[s] \in Going /\ Learned(session[s]) /\ UNCHANGED bundle
      /\ session[s].at \in {"usage", "detail", "accept"}
  BY GoingOrTold DEF AskUsage, AskDetail, Accept, Awake, sharedVars, SessionInv, SessionsSound
<1>2. session[s].profile \in ChromeProfile /\ session[s].bundle # NoBundle
  BY <1>1 DEF Learned
<1>3. Compared(session[s])
  BY <1>1 DEF Learned
<1>4. CASE Goes(s, "reject")
  BY <1>1, <1>2, <1>4, NextStepGoes
<1>5. CASE Reports(s, ErrorStatus("request"))
  <2>1. "request" \in Words \ {"auth"}
    BY DEF Words
  <2> QED  BY <1>1, <1>5, <2>1, ReportsError
<1>6. CASE AskUsage(s)
  <2>1. ASSUME NEW plan \in Usages, session' = [session EXCEPT ![s].at = "detail", ![s].usage = plan]
        PROVE  SessionType' /\ SessionsSound'
    <3> DEFINE r == [session[s] EXCEPT !.at = "detail", !.usage = plan]
    <3>1. session' = [session EXCEPT ![s] = r]
      BY <2>1 DEF SessionInv, SessionType
    <3>2. r \in Going
      BY <1>1 DEF Going
    <3>3. /\ r.at = "detail" /\ r.usage = plan
          /\ r.profile \in ChromeProfile /\ r.bundle # NoBundle
          /\ r.bundle = session[s].bundle /\ r.compared = session[s].compared
      BY <1>1, <1>2 DEF Going
    <3>4. Learned(r)
      BY <1>3, <3>3 DEF Learned, Compared
    <3> HIDE DEF r
    <3> QED  BY <1>1, <3>1, <3>2, <3>4, GoesOn
  <2> QED  BY <1>4, <1>5, <1>6, <2>1 DEF AskUsage, Usages
<1>7. CASE AskDetail(s)
  <2>1. ASSUME NEW told \in Details, session' = [session EXCEPT ![s].at = "accept", ![s].detail = told],
               session[s].at = "detail"
        PROVE  SessionType' /\ SessionsSound'
    <3> DEFINE r == [session[s] EXCEPT !.at = "accept", !.detail = told]
    <3>1. session' = [session EXCEPT ![s] = r]
      BY <2>1 DEF SessionInv, SessionType
    <3>2. r \in Going
      BY <1>1 DEF Going
    <3>3. session[s].usage \in Usages
      BY <1>1, <2>1 DEF Learned
    <3>4. /\ r.at = "accept" /\ r.detail = told /\ r.usage \in Usages
          /\ r.profile \in ChromeProfile /\ r.bundle # NoBundle
          /\ r.bundle = session[s].bundle /\ r.compared = session[s].compared
      BY <1>1, <1>2, <3>3 DEF Going
    <3>5. Learned(r)
      BY <1>3, <3>4 DEF Learned, Compared
    <3> HIDE DEF r
    <3> QED  BY <1>1, <3>1, <3>2, <3>5, GoesOn
  <2> QED  BY <1>4, <1>5, <1>7, <2>1 DEF AskDetail, Details, Awake
<1>8. CASE Accept(s)
  <2>1. session[s].at = "accept" /\ Reports(s, Adapted(session[s].usage, session[s].detail))
    BY <1>8 DEF Accept, Awake
  <2>2. /\ Adapted(session[s].usage, session[s].detail) \in SessionStatuses
        /\ Supported(session[s], Adapted(session[s].usage, session[s].detail))
    BY <1>1, <2>1, CountsAreGrounded
  <2> QED  BY <1>1, <2>1, <2>2, ReportsSo
<1> QED  BY <1>6, <1>7, <1>8

\* The markers are what they can be, whoever writes them.
LEMMA PrivateKept ==
    ASSUME SessionInv, [XiaomiNext]_xiaomiVars
    PROVE  private' \in PrivateType
<1>1. private \in PrivateType /\ bundle \in 0 .. MaxBundle /\ MaxBundle \in Nat
  BY XiaomiAssumption DEF SessionInv, SessionType
<1>2. \A p \in PrivateType, digest \in 0 .. MaxBundle :
           /\ [p EXCEPT !.rejected = digest] \in PrivateType
           /\ [p EXCEPT !.dir = "safe", !.rejected = digest] \in PrivateType
  BY DEF PrivateType, NoBundle
<1>3. \A p \in PrivateType, on \in BOOLEAN :
           /\ [p EXCEPT !.suppressed = on] \in PrivateType
           /\ [p EXCEPT !.dir = "safe", !.suppressed = on] \in PrivateType
  BY DEF PrivateType
<1>4. \A p \in PrivateType, dir \in {"safe", "unsafe"} : [p EXCEPT !.dir = dir] \in PrivateType
  BY DEF PrivateType
<1>5. NoBundle \in 0 .. MaxBundle
  BY <1>1 DEF NoBundle
<1>6. CASE UNCHANGED private
  BY <1>1, <1>6
<1>7. CASE \E a \in Admin : Begin(a) \/ Command(a) \/ Killed(a)
  <2>1. private' \in {private, [private EXCEPT !.rejected = NoBundle], [private EXCEPT !.suppressed = FALSE]}
    BY <1>7 DEF Begin, Command, Killed, Stop, Lock, BuildHelper, Check, Grant, Unreject, Unsuppress, Save,
                Reread, Rewrite, sharedVars
  <2> QED  BY <1>1, <1>2, <1>3, <1>5, <2>1
<1>8. CASE \E s \in Session : Wake(s) \/ SessionStep(s)
  <2>1. PICK s \in Session : Wake(s) \/ SessionStep(s)
    BY <1>8
  <2>2. CASE Suppress(s)
    BY <1>1, <1>3, <2>2 DEF Suppress
  <2>3. CASE Accept(s)
    BY <1>1, <1>2, <1>5, <2>3 DEF Accept
  <2>4. CASE Reject(s)
    <3>1. session[s] \in Going
      BY <2>4, GoingOrTold DEF Reject, Awake
    <3>2. session[s].bundle \in 0 .. MaxBundle
      BY <3>1 DEF Going
    <3> QED  BY <1>1, <1>2, <2>4, <3>2 DEF Reject
  <2> QED  BY <1>6, <2>1, <2>2, <2>3, <2>4
           DEF Wake, SessionStep, Starts, LoadRows, LoadKey, Compare, AskUsage, AskDetail, sharedVars
<1>9. CASE Meddle
  <2>1. Private("absent", NoBundle, FALSE) \in PrivateType
    BY <1>1 DEF Private, PrivateType, NoBundle
  <2> QED  BY <1>1, <1>4, <1>9, <2>1 DEF Meddle
<1>10. CASE Chrome \/ Publish \/ UNCHANGED xiaomiVars
  BY <1>6, <1>10 DEF Chrome, Publish, xiaomiVars
<1> QED  BY <1>7, <1>8, <1>9, <1>10 DEF XiaomiNext

LEMMA SessionStepSound ==
    ASSUME XiaomiInv, SessionInv, [XiaomiNext]_xiaomiVars
    PROVE  SessionInv'
<1>1. XiaomiType' /\ private' \in PrivateType
  BY XiaomiStepKeeps, PrivateKept DEF XiaomiInv
<1>2. CASE UNCHANGED <<session, bundle>>
  BY <1>1, <1>2 DEF SessionInv, SessionType, SessionsSound
<1>3. CASE \E a \in Admin : Begin(a) \/ Command(a) \/ Killed(a)
  <2>1. UNCHANGED <<session, bundle>>
    BY <1>3 DEF Begin, Command, Killed, Lock, BuildHelper, Check, Grant, Unreject, Unsuppress, Save,
                Reread, Rewrite, sharedVars
  <2> QED  BY <1>2, <2>1
<1>4. CASE \E s \in Session : Wake(s) \/ SessionStep(s)
  BY <1>1, <1>4, WakeSound, BeforeBundleSound, WithBundleSound, AskedSound
     DEF SessionStep, SessionInv
<1>5. CASE Chrome
  BY <1>1, <1>5 DEF Chrome, NoBundle, SessionInv, SessionType, SessionsSound
<1>6. CASE Meddle \/ Publish \/ UNCHANGED xiaomiVars
  BY <1>2, <1>6 DEF Meddle, Publish, xiaomiVars
<1>7. SessionType' /\ SessionsSound'
  BY <1>2, <1>3, <1>4, <1>5, <1>6 DEF XiaomiNext, SessionInv
<1> QED  BY <1>1, <1>7 DEF SessionInv

\* A Xiaomi session shows a capacity state only of a configured profile, of cookies that
\* it compared with the rejected ones and found to be others, and that both endpoints
\* took, of a plan that has not expired; whatever the user, the private directory and
\* the commands beside it do (lib/xiaomi-session.js).
THEOREM CountsLive == XiaomiSpec => []CountsAreLive
<1>1. XiaomiInit => XiaomiInv /\ SessionInv
  <2> SUFFICES ASSUME XiaomiInit PROVE XiaomiInv /\ SessionInv
    OBVIOUS
  <2>1. XiaomiInv
    BY XiaomiStarts
  <2>2. \A s \in Session : session[s] = Asleep
    BY DEF XiaomiInit
  <2>3. Asleep.at = "asleep"
    BY DEF Asleep
  <2>4. Asleep \notin Going /\ Asleep \notin Told
    BY <2>3 DEF Going, Told
  <2>5. SessionType
    BY <2>2, XiaomiAssumption DEF XiaomiInit, SessionType
  <2>6. SessionsSound
    BY <2>2, <2>4 DEF SessionsSound
  <2> QED  BY <2>1, <2>5, <2>6 DEF SessionInv, XiaomiInv
<1>2. XiaomiInv /\ SessionInv /\ [XiaomiNext]_xiaomiVars => (XiaomiInv /\ SessionInv)'
  BY XiaomiStepKeeps, SessionStepSound
<1>3. XiaomiInv /\ SessionInv => CountsAreLive
  BY GoingOrTold DEF SessionInv, SessionsSound, Supported, Compared, CountsAreLive
<1> QED  BY <1>1, <1>2, <1>3, PTL DEF XiaomiSpec
=============================================================================
