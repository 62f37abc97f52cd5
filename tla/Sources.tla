------------------------------ MODULE Sources ------------------------------
(* What the window knows of the connectors in Claude Desktop's config      *)
(* (apps/desktop/src/renderer/App.tsx with its hook usePolledConfigStatus, *)
(* components/Setup.tsx, ConnectorInspector.tsx and                        *)
(* VanishedConnectorsWarning.tsx): a poll of the config, the inspector of  *)
(* the selected connector with its Reconnect and Remove, and the notice of *)
(* connectors that another program removed, which leaves out those removed *)
(* here.                                                                   *)
(*                                                                         *)
(* A step is one handler of the main process, one answer delivered to the  *)
(* window, one rendering with its effects, or one click.                   *)
EXTENDS Naturals, Sequences

CONSTANTS Name, Op, Nobody, MaxAnswers, MaxOthers

VARIABLES
    config,       \* whether it can be read, and what it has under each name
    asked,        \* a config:status request has not been handled yet
    answers,      \* sent by the main process and not delivered, in order
    ops,          \* the removes and connects asked for
    snap, drawn,  \* the hook's pair of results, and whether it is rendered
    shown,        \* the result on the screen
    selected, inspector,
    inAppRemoves, vanished, residualCreds,
    others,       \* writes of other programs
    \* history, read by the property only
    taken,        \* names that are gone because another program removed them
    mistold,      \* names told of that were not gone for that reason
    crossed         \* names removed from a screen that was behind, or that
                    \* another program wrote while they were being removed

main == <<config, asked, ops, others, taken>>
window == <<snap, drawn, shown, vanished, mistold>>
user == <<selected, inspector>>
svars == <<main, answers, window, user, inAppRemoves, residualCreds, crossed>>

Nothing == [n \in Name |-> "absent"]

\* No result yet, or the error of a config that cannot be read: nothing is
\* listed, compared or aged.
NoList == [ok |-> FALSE, entries |-> Nothing, taken |-> {}]

Listed(s) == {n \in Name : s.entries[n] # "absent"}
Remote(s) == {n \in Name : s.entries[n] = "bridge"}

Closed == [at |-> "closed", op |-> Nobody]
Viewing == [at |-> "viewing", op |-> Nobody]

Unused == [kind |-> "none", name |-> Nobody, at |-> "none", outcome |-> "none"]

Init ==
    /\ config \in [ok : {TRUE}, entries : [Name -> {"absent", "bridge"}]]
    /\ asked = TRUE /\ answers = <<>> /\ ops = [i \in Op |-> Unused]
    /\ snap = [current |-> NoList, previous |-> NoList] /\ drawn = TRUE /\ shown = NoList
    /\ selected = Nobody /\ inspector = Closed
    /\ inAppRemoves = {} /\ vanished = {} /\ residualCreds = {}
    /\ others = 0 /\ taken = {} /\ mistold = {} /\ crossed = {}

-----------------------------------------------------------------------------
(* The main process                                                        *)

Send(m) == Len(answers) < MaxAnswers /\ answers' = Append(answers, m)

Status == IF config.ok THEN [ok |-> TRUE, entries |-> config.entries, taken |-> taken] ELSE NoList

Read ==
    /\ asked /\ asked' = FALSE /\ Send([op |-> Nobody, read |-> Status])
    /\ UNCHANGED <<config, ops, others, taken, window, user, inAppRemoves, residualCreds, crossed>>

Finish(i, outcome) ==
    /\ ops' = [ops EXCEPT ![i] = [@ EXCEPT !.at = "sent", !.outcome = outcome]]
    /\ Send([op |-> i, read |-> NoList])

Becomes(n, entry) == config' = [config EXCEPT !.entries[n] = entry] /\ taken' = taken \ {n}

RemoveRemote(i) ==
    LET n == ops[i].name IN
    /\ ops[i].kind = "remove" /\ ops[i].at = "asked"
    /\ \/ config.ok /\ config.entries[n] = "bridge" /\ Becomes(n, "absent")
          /\ ops' = [ops EXCEPT ![i].at = "clearing"] /\ UNCHANGED answers
       \/ config.ok /\ config.entries[n] # "bridge" /\ Finish(i, "noop") /\ UNCHANGED <<config, taken>>
       \/ Finish(i, "error") /\ UNCHANGED <<config, taken>>
    /\ UNCHANGED <<asked, others, window, user, inAppRemoves, residualCreds, crossed>>

DeleteCredentials(i) ==
    /\ ops[i].at = "clearing" /\ \E o \in {"wrote", "left"} : Finish(i, o)
    /\ UNCHANGED <<config, asked, others, taken, window, user, inAppRemoves, residualCreds, crossed>>

(* The login, and the entry it adds or writes again.                       *)
Connected(i) ==
    LET n == ops[i].name IN
    /\ ops[i].kind = "connect" /\ ops[i].at = "asked"
    /\ \/ config.ok /\ config.entries[n] # "foreign" /\ Becomes(n, "bridge") /\ Finish(i, "wrote")
       \/ Finish(i, "error") /\ UNCHANGED <<config, taken>>
    /\ UNCHANGED <<asked, others, window, user, inAppRemoves, residualCreds, crossed>>

Removing(n) == \E i \in Op : ops[i].kind = "remove" /\ ops[i].name = n /\ ops[i].at # "over"

(* Another program: it drops an entry, adds one of its own or puts a bridge *)
(* back, or leaves a file that cannot be read, or a whole one again.        *)
OtherWrites ==
    /\ others < MaxOthers /\ others' = others + 1
    /\ \/ \E n \in Name, e \in {"absent", "bridge", "foreign"} :
            /\ config.ok /\ config.entries[n] # e /\ config' = [config EXCEPT !.entries[n] = e]
            /\ taken' = IF e = "absent" THEN taken \cup {n} ELSE taken \ {n}
            /\ crossed' = IF Removing(n) THEN crossed \cup {n} ELSE crossed
       \/ config' = [config EXCEPT !.ok = ~ @] /\ UNCHANGED <<taken, crossed>>
    /\ UNCHANGED <<asked, answers, ops, window, user, inAppRemoves, residualCreds>>

-----------------------------------------------------------------------------
(* The window                                                              *)

Tick ==
    /\ ~ asked /\ asked' = TRUE
    /\ UNCHANGED <<config, ops, others, taken, answers, window, user, inAppRemoves, residualCreds, crossed>>

Same(s, t) == s.ok = t.ok /\ s.entries = t.entries

Apply(s) ==
    IF Same(snap.current, s) THEN UNCHANGED <<snap, drawn>>
    ELSE snap' = [current |-> s, previous |-> snap.current] /\ drawn' = FALSE

StatusArrives ==
    /\ answers # <<>> /\ Head(answers).op = Nobody /\ answers' = Tail(answers) /\ Apply(Head(answers).read)
    /\ UNCHANGED <<main, shown, vanished, mistold, user, inAppRemoves, residualCreds, crossed>>

accumulateResidualCredentials(o) == IF o.outcome = "left" THEN residualCreds \cup {o.name} ELSE residualCreds

Wrote(o) == o.kind = "remove" /\ o.outcome \in {"wrote", "left"}

\* What the inspector that asked makes of the answer; it may be gone by now,
\* and another one in its place.
Told(i) == IF Wrote(ops[i]) THEN [Viewing EXCEPT !.at = "confirming"] ELSE Viewing

\* Mutant: the exclusion is lifted with the answer, whatever it says.
AnswerArrivesAndLifts ==
    LET i == Head(answers).op  o == ops[i] IN
    /\ answers # <<>> /\ i # Nobody /\ answers' = Tail(answers) /\ ops' = [ops EXCEPT ![i].at = "over"]
    /\ inAppRemoves' = IF o.kind = "remove" THEN inAppRemoves \ {o.name} ELSE inAppRemoves
    /\ residualCreds' = accumulateResidualCredentials(o) /\ asked' = (asked \/ o.outcome # "error")
    /\ inspector' = IF inspector.op = i THEN Told(i) ELSE inspector
    /\ UNCHANGED <<config, others, taken, window, selected, crossed>>

AnswerArrives ==
    LET i == Head(answers).op  o == ops[i] IN
    /\ answers # <<>> /\ i # Nobody /\ answers' = Tail(answers) /\ ops' = [ops EXCEPT ![i].at = "over"]
    /\ inAppRemoves' = IF o.kind = "remove" /\ ~ Wrote(o) THEN inAppRemoves \ {o.name} ELSE inAppRemoves
    /\ residualCreds' = accumulateResidualCredentials(o) /\ asked' = (asked \/ o.outcome # "error")
    /\ inspector' = IF inspector.op = i THEN Told(i) ELSE inspector
    /\ UNCHANGED <<config, others, taken, window, selected, crossed>>

diffVanishedConnectors(previous, current) ==
    IF previous.ok /\ current.ok THEN (Remote(previous) \ Listed(current)) \ inAppRemoves ELSE {}

\* An exclusion is over once its name is not in the older result.
pruneAgedRemoves(previous) == IF previous.ok THEN inAppRemoves \cap Listed(previous) ELSE inAppRemoves

\* Only a listed connector is inspected, and it keeps its inspector.
Inspected(s) == IF selected \notin Listed(s) THEN Closed ELSE IF inspector = Closed THEN Viewing ELSE inspector

(* The rendering of a new pair, and the effect that compares and ages.     *)
Render ==
    LET gone == diffVanishedConnectors(snap.previous, snap.current) IN
    /\ ~ drawn /\ drawn' = TRUE /\ shown' = snap.current
    /\ vanished' = vanished \cup gone /\ inAppRemoves' = pruneAgedRemoves(snap.previous)
    /\ inspector' = Inspected(snap.current)
    /\ mistold' = mistold \cup (gone \ snap.current.taken)
    /\ UNCHANGED <<main, answers, snap, selected, residualCreds, crossed>>

-----------------------------------------------------------------------------
(* The user                                                                *)

Select(n) ==
    /\ n \in Listed(shown) /\ n # selected /\ selected' = n /\ inspector' = Viewing
    /\ UNCHANGED <<main, answers, window, inAppRemoves, residualCreds, crossed>>

\* Another tab: Sources is taken down, and its selection with it.
LeaveTab ==
    /\ selected # Nobody /\ selected' = Nobody /\ inspector' = Closed
    /\ UNCHANGED <<main, answers, window, inAppRemoves, residualCreds, crossed>>

Offered(at) == inspector.at \in at /\ shown.entries[selected] = "bridge"

RemoveClick ==
    /\ Offered({"viewing"}) /\ inspector' = [Viewing EXCEPT !.at = "confirming"]
    /\ UNCHANGED <<main, answers, window, selected, inAppRemoves, residualCreds, crossed>>

CancelRemove ==
    /\ Offered({"confirming"}) /\ inspector' = Viewing
    /\ UNCHANGED <<main, answers, window, selected, inAppRemoves, residualCreds, crossed>>

Ask(i, kind, n) == ops[i].at = "none" /\ ops' = [ops EXCEPT ![i] = [kind |-> kind, name |-> n, at |-> "asked", outcome |-> "none"]]

\* What is on the screen of a name is not what there is.
Behind(n) ==
    \/ ~ drawn \/ config.entries[n] # "bridge"
    \/ \E k \in DOMAIN answers : answers[k].op = Nobody /\ answers[k].read.entries[n] # "bridge"
    \/ Removing(n)

ConfirmRemove(i) ==
    /\ Offered({"confirming"}) /\ Ask(i, "remove", selected)
    /\ inAppRemoves' = inAppRemoves \cup {selected}
    /\ inspector' = [at |-> "removing", op |-> i]
    /\ crossed' = IF Behind(selected) THEN crossed \cup {selected} ELSE crossed
    /\ UNCHANGED <<config, asked, others, taken, answers, window, selected, residualCreds>>

Reconnect(i) ==
    /\ Offered({"viewing", "confirming"}) /\ Ask(i, "connect", selected) /\ inspector' = [at |-> "busy", op |-> i]
    /\ UNCHANGED <<config, asked, others, taken, answers, window, selected, inAppRemoves, residualCreds, crossed>>

(* From the gallery of sources.                                            *)
Connect(i, n) ==
    /\ Ask(i, "connect", n)
    /\ UNCHANGED <<config, asked, others, taken, answers, window, user, inAppRemoves, residualCreds, crossed>>

Dismiss ==
    /\ vanished # {} /\ vanished' = {}
    /\ UNCHANGED <<main, answers, snap, drawn, shown, mistold, user, inAppRemoves, residualCreds, crossed>>

DismissResidual ==
    /\ residualCreds # {} /\ residualCreds' = {}
    /\ UNCHANGED <<main, answers, window, user, inAppRemoves, crossed>>

Next ==
    \/ Read \/ OtherWrites \/ \E i \in Op : RemoveRemote(i) \/ DeleteCredentials(i) \/ Connected(i)
    \/ Tick \/ StatusArrives \/ AnswerArrives \/ Render
    \/ LeaveTab \/ RemoveClick \/ CancelRemove \/ Dismiss \/ DismissResidual
    \/ \E i \in Op : ConfirmRemove(i) \/ Reconnect(i)
    \/ \E n \in Name : Select(n) \/ \E i \in Op : Connect(i, n)

Spec == Init /\ [][Next]_svars

-----------------------------------------------------------------------------
(* The notice names a connector as removed by another program only when    *)
(* that is why it was gone when the config was read, or when it was        *)
(* removed here from a screen that was behind the config, or while another *)
(* program wrote it.  The second of two removes, say, finds nothing, and   *)
(* its answer lifts the exclusion that the first one needs.                *)
VanishedTruthful == mistold \subseteq crossed
=============================================================================
