---------------------------- MODULE CaptureLedger ----------------------------
(***************************************************************************)
(* What the Claude Code capture path promises: an at-least-once queue.     *)
(* A capture waits, is recorded in the trail once or more while it waits,  *)
(* and is retired for good.  Retiring one that was never recorded is only  *)
(* allowed for a capture exposed to a documented loss window.              *)
(***************************************************************************)
EXTENDS Naturals

CONSTANT Capture

VARIABLES waiting, retired, copies, exposed

ledger == <<waiting, retired, copies, exposed>>

Init ==
    /\ waiting = {} /\ retired = {} /\ exposed = {}
    /\ copies = [c \in Capture |-> 0]

MayExpose(c) == exposed' \in {exposed, exposed \cup {c}}

Arrive(c) ==
    /\ c \notin waiting \cup retired
    /\ waiting' = waiting \cup {c} /\ MayExpose(c)
    /\ UNCHANGED <<retired, copies>>

Expose(c) ==
    /\ c \in waiting /\ exposed' = exposed \cup {c}
    /\ UNCHANGED <<waiting, retired, copies>>

Record(c) ==
    /\ c \in waiting
    /\ copies' = [copies EXCEPT ![c] = @ + 1] /\ MayExpose(c)
    /\ UNCHANGED <<waiting, retired>>

Retire(c) ==
    /\ c \in waiting
    /\ copies[c] > 0 \/ c \in exposed
    /\ waiting' = waiting \ {c} /\ retired' = retired \cup {c}
    /\ UNCHANGED <<copies, exposed>>

Next == \E c \in Capture : Arrive(c) \/ Expose(c) \/ Record(c) \/ Retire(c)

Spec == Init /\ [][Next]_ledger
=============================================================================
