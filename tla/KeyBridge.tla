------------------------------ MODULE KeyBridge -------------------------------
(***************************************************************************)
(* The Chrome key: acquireKey() of lib/cookies/keychain-bridge.mjs and the *)
(* helper process of native/. The helper suppresses Keychain prompts in    *)
(* its own process unless setup asked for one, reads the key, writes it as *)
(* a frame to a private pipe, frees it, restores the prompts, and reports  *)
(* in a second frame and in its exit code. The bridge reads the pipe in    *)
(* whatever chunks come, watches the other two streams, and sets two       *)
(* timers; it believes a key only at the end of a clean run. Its contract  *)
(* does not rest on the helper, so another that writes anything stands for *)
(* the misbehaving builds of the tests.                                    *)
(*                                                                         *)
(* Abstracted: a frame is its type and its code; a frame cut in two counts *)
(* as arriving with its second part, or, if that never comes, is a "part". *)
(***************************************************************************)
EXTENDS Evidence, Naturals, Sequences

CONSTANT MaxFrames \* bound: what any helper writes to the pipe

VARIABLES mode,    \* "background", or "setup" with a prompt
          helper,  \* where the process is
          prompts, \* its process may prompt
          prompted, \* the user was prompted
          found,   \* what reading the key came to
          status,  \* how the process ended
          written, \* the frames it has written
          read,    \* how many of them the bridge has read
          noise,   \* another stream that it wrote to
          late, paired,
          held,    \* the bridge has a secret that is not wiped
          key      \* the result
keyVars == <<mode, helper, prompts, prompted, found, status, written, read, noise, late, paired, held, key>>
helperVars == <<mode, prompts, prompted, found>>
bridgeVars == <<read, late, paired, held, key>>

HelperFaults == {"guard-failed", "denied", "restore-failed", "cleanup-failed", "protocol-error",
                 "payload-too-large"}
Secret == [type |-> "secret"]
Part == [type |-> "part"]
EndOf(code) == [type |-> "end", code |-> code]
ErrorOf(code) == [type |-> "error", code |-> code]
OddFrames == {Secret, ErrorOf("denied"), [type |-> "junk"], Part}
             \cup {EndOf(code) : code \in {"ok", "denied", "none such"}}

Failed(code) == [ok |-> FALSE, code |-> code]
Got == [ok |-> TRUE, code |-> "ok"]
Found(got, says) == [got |-> got, says |-> says] \* acquisition and final
Codes == HelperFaults \cup {"ok"}
Findings == [got : Codes, says : Codes]
Endings == Codes \cup {"killed", "none such"}
Results == {Got} \cup {Failed(code) : code \in HelperFaults \cup
    {"bridge-interactive-refused", "bridge-bad-arguments", "bridge-helper-missing", "bridge-spawn-failed",
     "bridge-bad-frame", "bridge-no-frames", "bridge-helper-exit", "bridge-output-unexpected", "bridge-timeout"}}
ASSUME KeyAssumption == Unknown \notin Findings \cup Endings \cup Results

Running == helper \in {"any", "guard", "read", "restore", "report", "exit"}

-----------------------------------------------------------------------------
KeyInit ==
    /\ mode \in {"background", "setup"}
    /\ helper = "unborn" /\ prompts = TRUE /\ prompted = FALSE
    /\ found = Unknown /\ status = Unknown
    /\ written = <<>> /\ read = 0
    /\ noise = "none" /\ late = FALSE /\ paired = FALSE /\ held = FALSE
    /\ key = Unknown

\* finish(): a helper that still runs is killed, and nothing is kept of a failure.
Finish(result) ==
    /\ key' = result
    /\ held' = (held /\ result.ok)
    /\ IF Running THEN helper' = "ended" /\ status' = "killed" ELSE UNCHANGED <<helper, status>>

\* A prompt that nobody asked for is refused; a helper may be missing, or not start.
Spawn ==
    /\ helper = "unborn" /\ key = Unknown
    /\ helper' \in {"any", "guard"}
    /\ UNCHANGED <<helperVars, status, written, noise, bridgeVars>>

SpawnFails ==
    /\ helper = "unborn" /\ key = Unknown
    /\ \E code \in {"bridge-interactive-refused", "bridge-bad-arguments", "bridge-helper-missing",
                    "bridge-spawn-failed"} : Finish(Failed(code))
    /\ UNCHANGED <<helperVars, written, read, noise, late, paired>>

-----------------------------------------------------------------------------
\* kh_run(): guard, read, restore. A guard that fails tries to undo itself.
Guard ==
    /\ helper = "guard"
    /\ \/ /\ mode = "setup"
          /\ helper' = "read" /\ UNCHANGED <<prompts, found>>
       \/ /\ mode = "background"
          /\ helper' = "read" /\ prompts' = FALSE /\ found' = found
       \/ /\ mode = "background"
          /\ helper' = "report"
          /\ \/ found' = Found("guard-failed", "guard-failed") /\ prompts' = TRUE
             \/ found' = Found("restore-failed", "restore-failed") /\ prompts' \in BOOLEAN
    /\ UNCHANGED <<mode, prompted, status, written, noise, bridgeVars>>

\* The secret goes to the pipe before it is freed; the user may deny it. A write
\* that fails leaves nothing, or a part of its frame, and the pipe broken.
ReadKey ==
    /\ helper = "read"
    /\ prompted' = (prompted \/ prompts)
    /\ \E got \in {"ok", "denied", "payload-too-large", "protocol-error"} :
          /\ found' \in {Found(got, got), Found(got, "cleanup-failed")}
          /\ written' \in CASE got = "ok" -> {Append(written, Secret)}
                             [] got = "protocol-error" -> {written, Append(written, Part)}
                             [] OTHER -> {written}
    /\ helper' = "restore"
    /\ UNCHANGED <<mode, prompts, status, noise, bridgeVars>>

\* Mutated: the guard is undone only after a successful read.
RestoreAfterSuccess ==
    /\ helper = "restore"
    /\ helper' = "report"
    /\ IF mode = "background" /\ found.got = "ok" THEN prompts' = TRUE ELSE UNCHANGED prompts
    /\ UNCHANGED <<mode, prompted, found, status, written, noise, bridgeVars>>

Restore ==
    /\ helper = "restore"
    /\ helper' = "report"
    /\ \/ mode = "background" /\ prompts' = TRUE /\ found' = found
       \/ mode = "background" /\ prompts' = prompts /\ found' = Found(found.got, "restore-failed")
       \/ mode = "setup" /\ UNCHANGED <<prompts, found>>
    /\ UNCHANGED <<mode, prompted, status, written, noise, bridgeVars>>

\* The first frame is the secret's, if there was one to write.
Report ==
    /\ helper = "report" /\ found.got # "protocol-error"
    /\ written' = written \o (IF found.got = "ok" THEN <<>> ELSE <<ErrorOf(found.got)>>)
                           \o <<EndOf(found.says)>>
    /\ noise' = IF found.says = "ok" THEN noise ELSE "stderr"
    /\ helper' = "exit"
    /\ UNCHANGED <<helperVars, status, bridgeVars>>

\* A frame of the report cannot be written: the exit code is no longer 0.
ReportFails ==
    /\ helper = "report"
    /\ LET sent == {written} \cup IF found.got = "ok" THEN {} ELSE {Append(written, ErrorOf(found.got))}
       IN written' \in IF found.got = "protocol-error" THEN {written}
                        ELSE sent \cup {Append(bytes, Part) : bytes \in sent}
    /\ found' = IF found.says = "ok" THEN Found(found.got, "protocol-error") ELSE found
    /\ noise' = "stderr"
    /\ helper' = "exit"
    /\ UNCHANGED <<mode, prompts, prompted, status, bridgeVars>>

Exit ==
    /\ helper = "exit"
    /\ helper' = "ended" /\ status' = found.says
    /\ UNCHANGED <<helperVars, written, noise, bridgeVars>>

\* Any other helper: any frames, any noise, any end; and any helper may crash.
WriteAny(f) ==
    /\ helper = "any" /\ Len(written) < MaxFrames
    /\ \A i \in DOMAIN written : written[i].type # "part"
    /\ written' = Append(written, f)
    /\ UNCHANGED <<helperVars, helper, status, noise, bridgeVars>>

Chatter ==
    /\ helper = "any" /\ noise = "none"
    /\ noise' \in {"stdout", "stderr"}
    /\ UNCHANGED <<helperVars, helper, status, written, bridgeVars>>

EndAny ==
    /\ helper = "any"
    /\ helper' = "ended" /\ status' \in {"ok", "denied", "none such"}
    /\ UNCHANGED <<helperVars, written, noise, bridgeVars>>

HelperCrashes ==
    /\ Running
    /\ helper' = "ended" /\ status' = "killed"
    /\ UNCHANGED <<helperVars, written, noise, bridgeVars>>

-----------------------------------------------------------------------------
\* validatePair(): the end frame outranks the error that came before it.
Pair(a, b) ==
    IF b.type # "end" \/ b.code \notin HelperFaults \cup {"ok"} THEN "bad"
    ELSE IF a.type = "secret" THEN IF b.code = "ok" THEN "success" ELSE b.code
    ELSE IF /\ a.type = "error" /\ a.code \in HelperFaults
            /\ b.code \in {a.code, "restore-failed", "cleanup-failed"} THEN b.code
    ELSE "bad"

\* Complete frames only (nothing follows a part); more than two, or bytes that are no frame, are an error.
Whole(frames) ==
    IF frames # <<>> /\ frames[Len(frames)].type = "part" THEN SubSeq(frames, 1, Len(frames) - 1) ELSE frames
Garbled(bytes) == Len(bytes) > 2 \/ \E i \in DOMAIN bytes : bytes[i].type = "junk"

\* A chunk of the pipe brings the frames up to the n-th.
ReadPipe(n) ==
    /\ key = Unknown /\ helper # "unborn" /\ read < n /\ n <= Len(written)
    /\ read' = n
    /\ LET bytes == SubSeq(written, 1, n)
           frames == Whole(bytes)
           verdict == IF Len(frames) = 2 THEN Pair(frames[1], frames[2]) ELSE "more"
       IN CASE Garbled(bytes) -> Finish(Failed("bridge-bad-frame")) /\ paired' = paired
            [] ~Garbled(bytes) /\ ~paired /\ verdict \notin {"more", "success"} ->
                 /\ Finish(Failed(IF verdict = "bad" THEN "bridge-bad-frame" ELSE verdict))
                 /\ paired' = paired
            [] OTHER ->
                 /\ paired' = (paired \/ verdict = "success")
                 /\ held' = \E i \in DOMAIN frames : frames[i].type = "secret"
                 /\ UNCHANGED <<helper, status, key>>
    /\ UNCHANGED <<helperVars, written, noise, late>>

\* classifyIncomplete(): no pair, so what the helper said last, or its exit code.
Incomplete ==
    LET frames == Whole(SubSeq(written, 1, read))
    IN IF Len(frames) = 1 /\ frames[1].type \in {"error", "end"} /\ frames[1].code \in HelperFaults
       THEN frames[1].code
       ELSE IF frames # <<>> \/ noise = "stdout" \/ status = "ok" THEN "bridge-no-frames"
       ELSE IF status \in HelperFaults THEN status ELSE "bridge-helper-exit"

\* Mutated: a complete pair is enough.
VerdictOfPair ==
    IF late THEN Failed("bridge-timeout")
    ELSE IF paired THEN Got
    ELSE Failed(Incomplete)

\* evaluateAtClose()
VerdictAtClose ==
    IF late THEN Failed("bridge-timeout")
    ELSE IF paired /\ status # "ok" THEN Failed("bridge-helper-exit")
    ELSE IF paired /\ noise # "none" THEN Failed("bridge-output-unexpected")
    ELSE IF paired THEN Got
    ELSE Failed(Incomplete)

\* The process and its three streams have ended, and all was read.
Close ==
    /\ key = Unknown /\ helper = "ended" /\ read = Len(written)
    /\ Finish(VerdictAtClose)
    /\ UNCHANGED <<helperVars, written, read, noise, late, paired>>

KillTimer ==
    /\ key = Unknown /\ helper # "unborn" /\ ~late
    /\ late' = TRUE
    /\ IF Running THEN helper' = "ended" /\ status' = "killed" ELSE UNCHANGED <<helper, status>>
    /\ UNCHANGED <<helperVars, written, read, noise, paired, held, key>>

\* The streams may be held open by others: not waited for longer.
HardTimer ==
    /\ key = Unknown /\ late
    /\ Finish(Failed("bridge-timeout"))
    /\ UNCHANGED <<helperVars, written, read, noise, late, paired>>

KeyNext ==
    \/ Spawn \/ SpawnFails \/ Guard \/ ReadKey \/ Restore \/ Report \/ ReportFails \/ Exit
    \/ Chatter \/ EndAny \/ HelperCrashes \/ Close \/ KillTimer \/ HardTimer
    \/ (\E f \in OddFrames : WriteAny(f)) \/ \E n \in 1 .. MaxFrames : ReadPipe(n)

-----------------------------------------------------------------------------
\* The end frame that the helper meant to write is in the pipe.
Reported == \E i \in DOMAIN written : written[i] = EndOf(found.says)

\* "there is no settle-window shortcut" (keychain-bridge.mjs:16): a key is the
\* result of a run in which the helper wrote it, ended it well, wrote nothing
\* else anywhere, exited with 0 and was in time, whatever the chunks and the order
\* of the events; of any other run nothing is kept. A helper that was only late is
\* reported as late, which is retried, and never as one that setup must repair.
KeyOnlyFromCleanRun == key # Unknown =>
    /\ key.ok => /\ written = <<Secret, EndOf("ok")>>
                 /\ status = "ok" /\ noise = "none" /\ ~late /\ held
    /\ ~key.ok => ~held
    /\ late /\ written = <<>> => key.code = "bridge-timeout"
    /\ key.code = "bridge-timeout" => late

\* "The default path never prompts" (keychain-bridge.mjs:22), and the helper of
\* native/ leaves its prompts as it found them or says that it could not; when it
\* ends by itself and in time, its own last word is the result, if it came through.
HelperKeepsItsWord ==
    /\ prompted => mode = "setup"
    /\ status \in HelperFaults \cup {"ok"} /\ found # Unknown => prompts \/ status = "restore-failed"
    /\ key # Unknown /\ found # Unknown /\ ~late /\ status = found.says /\ Reported =>
           key = IF status = "ok" THEN Got ELSE Failed(status)

KeyAcquired == key # Unknown
=============================================================================
