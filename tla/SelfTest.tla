------------------------------ MODULE SelfTest ------------------------------
(* "Verify detection" (apps/desktop/src/main/selftest-runner.ts and        *)
(* selftest-handler.ts): the app starts a wrapper of its own, sends it one *)
(* call per example, reads back from the wrapper's file what was detected, *)
(* reports, and has the wrapper end.                                       *)
(*                                                                         *)
(* A step is one callback of the main process, or one move of the wrapper. *)
EXTENDS FiniteSets

CONSTANTS Example

VARIABLES
    run,      \* "idle", "discovering", "reading", "checking",
              \* "last look", "killing", "over"
    wrapper,  \* "none", "booting", "up" (its session is announced), "dead"
              \* after that, or "stillborn"
    noticed,  \* the child's 'exit' or 'error' has come
    signal,   \* the last one sent to the wrapper
    pipe,     \* calls sent to it
    disk,     \* its file: of a call no line, half a line, or what the line says
    found,    \* what the readback saw, first seen
    late,     \* the deadline of the readback has passed
    outcome,
    \* history, read by the properties only
    onTime    \* calls whose line was whole by the deadline

testVars == <<run, wrapper, noticed, signal, pipe, disk, found, late, outcome, onTime>>

Nothing == "nothing"

Init ==
    /\ run = "idle" /\ wrapper = "none" /\ noticed = FALSE /\ signal = Nothing
    /\ pipe = {} /\ disk = [x \in Example |-> Nothing] /\ found = disk
    /\ late = FALSE /\ outcome = Nothing /\ onTime = {}

-----------------------------------------------------------------------------
(* The wrapper: external                                                   *)

external == <<run, found, late, outcome>>

Announce ==
    /\ wrapper = "booting" /\ wrapper' = "up"
    /\ UNCHANGED <<external, noticed, signal, pipe, disk, onTime>>

(* Whole lines with a detection, right or wrong, or with none.             *)
Records(x) ==
    /\ wrapper = "up" /\ x \in pipe
    /\ \/ disk[x] = Nothing /\ disk' = [disk EXCEPT ![x] = "half"]
       \/ disk[x] = "half" /\ \E d \in {"right", "wrong", "bare"} : disk' = [disk EXCEPT ![x] = d]
    /\ pipe' = IF disk[x] = "half" THEN pipe \ {x} ELSE pipe
    /\ onTime' = IF disk[x] = "half" /\ disk'[x] # "bare" /\ ~ late THEN onTime \cup {x} ELSE onTime
    /\ UNCHANGED <<external, wrapper, noticed, signal>>

(* It may end at any time, and it may take no notice of SIGTERM.           *)
Ends ==
    /\ wrapper \in {"booting", "up"} /\ wrapper' = IF wrapper = "up" THEN "dead" ELSE "stillborn"
    /\ UNCHANGED <<external, noticed, signal, pipe, disk, onTime>>

Gone == wrapper \in {"dead", "stillborn"}

Killed == signal = "SIGKILL" /\ Ends

-----------------------------------------------------------------------------
(* The main process                                                        *)

Over(kind) == run' = "over" /\ outcome' = kind

(* Without npx there is nothing to start.                                  *)
Begin ==
    /\ run = "idle"
    /\ \/ run' = "discovering" /\ wrapper' = "booting" /\ UNCHANGED <<outcome, noticed>>
       \/ Over("spawn_failed") /\ UNCHANGED <<wrapper, noticed>>
    /\ UNCHANGED <<signal, pipe, disk, found, late, onTime>>

(* The line of the session: all the calls are written at once, to nobody   *)
(* when the wrapper is gone already.                                       *)
OnStderr ==
    /\ run = "discovering" /\ wrapper \in {"up", "dead"} /\ run' = "reading"
    /\ pipe' = IF wrapper = "up" THEN Example ELSE {}
    /\ UNCHANGED <<wrapper, noticed, signal, disk, found, late, outcome, onTime>>

OnExit ==
    /\ Gone /\ ~ noticed /\ noticed' = TRUE
    /\ IF run = "discovering" THEN Over("spawn_failed")
       ELSE run' = (IF run = "killing" THEN "over" ELSE run) /\ UNCHANGED outcome
    /\ UNCHANGED <<wrapper, signal, pipe, disk, found, late, onTime>>

\* Mutant: a wrapper that says nothing is given up but not ended.
DiscoveryTimeoutLeaves ==
    /\ run = "discovering" /\ Over("spawn_failed")
    /\ UNCHANGED <<wrapper, noticed, signal, pipe, disk, found, late, onTime>>

DiscoveryTimeout ==
    /\ run = "discovering" /\ Over("spawn_failed") /\ signal' = "SIGKILL"
    /\ UNCHANGED <<wrapper, noticed, pipe, disk, found, late, onTime>>

(* Half a line does not parse, and a line without detection is skipped.    *)
ScanInto == [x \in Example |-> IF found[x] = Nothing /\ disk[x] \in {"right", "wrong"} THEN disk[x] ELSE found[x]]

Classify(actual) ==
    LET observed == {x \in Example : actual[x] # Nothing}
    IN  CASE \E x \in observed : actual[x] = "wrong" -> "detection_mismatch"
          [] observed = Example -> "complete_pass"
          [] observed = {} -> "timeout_no_data"
          [] OTHER -> "timeout_partial"

(* The report is ready; the wrapper has to end before it is handed over.   *)
Report(actual) ==
    /\ outcome' = Classify(actual)
    /\ IF noticed THEN run' = "over" /\ UNCHANGED signal ELSE run' = "killing" /\ signal' = "SIGTERM"

(* Ten times a second; what the wrapper writes goes on meanwhile.          *)
Scan ==
    /\ run = "reading" /\ found' = ScanInto
    /\ IF \A x \in Example : found'[x] # Nothing THEN Report(found')
       ELSE run' = "checking" /\ UNCHANGED <<outcome, signal>>
    /\ UNCHANGED <<wrapper, noticed, pipe, disk, late, onTime>>

Deadline ==
    /\ run \in {"reading", "checking"} /\ ~ late /\ late' = TRUE
    /\ UNCHANGED <<run, wrapper, noticed, signal, pipe, disk, found, outcome, onTime>>

(* Past the deadline there is one more look.                               *)
Check ==
    /\ run = "checking" /\ run' = IF late THEN "last look" ELSE "reading"
    /\ UNCHANGED <<wrapper, noticed, signal, pipe, disk, found, late, outcome, onTime>>

LastLook ==
    /\ run = "last look" /\ found' = ScanInto /\ Report(found')
    /\ UNCHANGED <<wrapper, noticed, pipe, disk, late, onTime>>

\* SIGTERM was not enough.
KillTimer ==
    /\ run = "killing" /\ signal # "SIGKILL" /\ signal' = "SIGKILL"
    /\ UNCHANGED <<run, wrapper, noticed, pipe, disk, found, late, outcome, onTime>>

Main ==
    \/ Begin \/ OnStderr \/ OnExit \/ DiscoveryTimeout
    \/ Scan \/ Check \/ LastLook \/ Deadline \/ KillTimer

Next == Main \/ Announce \/ Ends \/ \E x \in Example : Records(x)

(* Timers and events of the main process come; SIGKILL ends the wrapper.   *)
Fairness ==
    /\ WF_testVars(OnExit) /\ WF_testVars(DiscoveryTimeout)
    /\ WF_testVars(Scan) /\ WF_testVars(Check) /\ WF_testVars(LastLook)
    /\ WF_testVars(Deadline) /\ WF_testVars(KillTimer) /\ WF_testVars(Killed)

Spec == Init /\ [][Next]_testVars /\ Fairness

-----------------------------------------------------------------------------
(* Properties                                                              *)

(* The verdict is of the wrapper's file: a pass means that every call was  *)
(* recorded with the detection expected, a mismatch that one was not, and  *)
(* a call reported as missing had no whole line with a detection when time *)
(* was up; a failed start sent nothing.  The report waits for the wrapper. *)
VerdictTruthful ==
    /\ \A x \in Example : found[x] # Nothing => found[x] = disk[x]
    /\ outcome = "complete_pass" => \A x \in Example : disk[x] = "right"
    /\ outcome = "detection_mismatch" => \E x \in Example : disk[x] = "wrong"
    /\ outcome = "timeout_no_data" => onTime = {}
    /\ outcome = "timeout_partial" => late /\ \A x \in onTime : found[x] = "right"
    /\ outcome = "spawn_failed" => pipe = {} /\ disk = found
    /\ run = "over" /\ outcome # "spawn_failed" => Gone

(* However the wrapper dies, hangs or keeps silent, a run ends with a      *)
(* truthful verdict and leaves no wrapper behind.                          *)
SelfTestEnds ==
    (run # "idle") ~> (run = "over" /\ outcome # Nothing /\ (wrapper = "none" \/ Gone) /\ VerdictTruthful)
=============================================================================
