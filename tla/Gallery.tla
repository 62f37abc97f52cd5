------------------------------ MODULE Gallery ------------------------------
(* "Add source" (apps/desktop/src/renderer/components/AddConnectorModal.tsx *)
(* and ConnectorSetupWizard.tsx): the gallery of sources, what each card    *)
(* says of its source, and the wizard that saves an OAuth client of the     *)
(* user's own.                                                              *)
(*                                                                          *)
(* The cards ask the main process at each opening, one question after the   *)
(* other, and replace what they said when the last one is answered; a       *)
(* connect, an install or a save that succeeds is shown at once.            *)
EXTENDS Naturals

CONSTANTS Card, Family, TargetsOf, NeedsSecret, Steps, Hook, Call, Nobody, MaxOthers

VARIABLES
    world,     \* what there is: entries in the config, clients in the
               \* Keychain, the hook in Claude Code's settings
    mounted,   \* the Sources tab is up, and the modal with it
    open,
    display,   \* connectedNames, clientSeeded, and the hook's status
    known,     \* that status has been read
    check,     \* of each kind: still under way, cards left to ask about,
               \* cards found
    busyName, setupEntry,
    wizard,
    calls,     \* connects, installs and saves asked of the main process
    others,
    \* history, read by the property only
    blurred    \* <<kind, card>> that changed behind the gallery's back since
               \* it was opened

gvars == <<world, mounted, open, display, known, check, busyName, setupEntry, wizard, calls, others, blurred>>

Kind == {"connected", "seeded", "hook"}

\* The connectors that bring a client of the user's own.
Byo == UNION {TargetsOf[f] : f \in Family}

Asked(k) == IF k = "connected" THEN Card ELSE IF k = "seeded" THEN Byo ELSE {Hook}

FamilyOf(c) == CHOOSE f \in Family : c \in TargetsOf[f]

NoCheck == [on |-> FALSE, left |-> {}, found |-> {}]

Fresh == [screen |-> 0, filled |-> {}, saving |-> Nobody, saved |-> FALSE]

Idle == [kind |-> "connected", cards |-> {}, left |-> {}, at |-> "idle", ok |-> FALSE, mine |-> FALSE]

Init ==
    /\ world \in [Kind -> SUBSET (Card \cup {Hook})] /\ \A k \in Kind : world[k] \subseteq Asked(k)
    /\ mounted = TRUE /\ open = FALSE /\ display = [k \in Kind |-> {}] /\ known = FALSE
    /\ check = [k \in Kind |-> NoCheck] /\ busyName = Nobody /\ setupEntry = Nobody /\ wizard = Fresh
    /\ calls = [o \in Call |-> Idle] /\ others = 0 /\ blurred = {}

-----------------------------------------------------------------------------
(* Opening, closing and the questions                                      *)

asking == <<display, known, check>>
doing == <<busyName, setupEntry, wizard>>

\* The inspector's Remove, the CLI, another program, Keychain Access.
OthersChange(k, c) ==
    /\ others < MaxOthers /\ others' = others + 1 /\ c \in Asked(k)
    /\ world' = [world EXCEPT ![k] = IF c \in @ THEN @ \ {c} ELSE @ \cup {c}]
    /\ blurred' = blurred \cup {<<k, c>>}
    /\ UNCHANGED <<mounted, open, asking, doing, calls>>

Opens ==
    /\ open' = TRUE /\ blurred' = {}
    /\ check' = [k \in Kind |-> [on |-> TRUE, left |-> Asked(k), found |-> {}]]

Open ==
    /\ mounted /\ ~ open /\ Opens
    /\ UNCHANGED <<world, mounted, display, known, doing, calls, others>>

\* What is left behind is not told what it asked for.
Abandon(kinds) == calls' = [o \in Call |-> IF calls[o].kind \in kinds THEN [calls[o] EXCEPT !.mine = FALSE] ELSE calls[o]]

(* The questions of this opening are dropped.  The wizard goes with the    *)
(* gallery, and starts again with the next opening.                        *)
Close ==
    /\ mounted /\ open /\ open' = FALSE /\ check' = [k \in Kind |-> NoCheck]
    /\ wizard' = Fresh /\ Abandon({"seeded"})
    /\ UNCHANGED <<world, mounted, display, known, busyName, setupEntry, others, blurred>>

(* Another tab, which the open modal covers.  Nothing of the modal is kept. *)
LeaveTab ==
    /\ mounted /\ ~ open /\ mounted' = FALSE /\ Abandon(Kind)
    /\ display' = [k \in Kind |-> {}] /\ known' = FALSE
    /\ busyName' = Nobody /\ setupEntry' = Nobody /\ wizard' = Fresh
    /\ UNCHANGED <<world, open, check, others, blurred>>

(* Back to the tab, or "Re-add connectors", which opens the gallery too.   *)
EnterTab ==
    /\ ~ mounted /\ mounted' = TRUE
    /\ \/ Opens
       \/ UNCHANGED <<open, check, blurred>>
    /\ UNCHANGED <<world, display, known, doing, calls, others>>

(* Answers come in the order they are sent in: one that is on its way      *)
(* arrives before the answer to a later question.                          *)
Query(k, c) ==
    /\ check[k].on /\ c \in check[k].left /\ \A o \in Call : calls[o].at # "sent"
    /\ \/ /\ check' = [check EXCEPT ![k].left = @ \ {c}, ![k].found = IF c \in world[k] THEN @ \cup {c} ELSE @]
          /\ UNCHANGED blurred
       \/ /\ \/ k = "hook" /\ check' = [check EXCEPT ![k] = NoCheck]
             \/ k # "hook" /\ check' = [check EXCEPT ![k].left = @ \ {c}]
          /\ blurred' = blurred \cup {<<k, c>>}
    /\ UNCHANGED <<world, mounted, open, display, known, doing, calls, others>>

\* Mutant: what an opening finds is added to what was shown.
CheckEndsAdding(k) ==
    /\ check[k].on /\ check[k].left = {} /\ check' = [check EXCEPT ![k] = NoCheck]
    /\ display' = [display EXCEPT ![k] = @ \cup check[k].found] /\ known' = (known \/ k = "hook")
    /\ UNCHANGED <<world, mounted, open, doing, calls, others, blurred>>

CheckEnds(k) ==
    /\ check[k].on /\ check[k].left = {} /\ check' = [check EXCEPT ![k] = NoCheck]
    /\ display' = [display EXCEPT ![k] = check[k].found] /\ known' = (known \/ k = "hook")
    /\ UNCHANGED <<world, mounted, open, doing, calls, others, blurred>>

-----------------------------------------------------------------------------
(* The cards                                                               *)

Ask(o, kind, cards) ==
    /\ calls[o].at = "idle"
    /\ calls' = [calls EXCEPT ![o] = [kind |-> kind, cards |-> cards, left |-> cards, at |-> "asked", ok |-> FALSE, mine |-> TRUE]]

AtGallery == mounted /\ open /\ setupEntry = Nobody /\ busyName = Nobody

handleConnect(o, c) ==
    /\ AtGallery /\ c \notin display["connected"] /\ (c \in Byo => c \in display["seeded"])
    /\ Ask(o, "connected", {c}) /\ busyName' = c
    /\ UNCHANGED <<world, mounted, open, asking, setupEntry, wizard, others, blurred>>

\* On a Mac with Claude Code; without it the card offers nothing.
handleInstallHook(o) ==
    /\ AtGallery /\ known /\ Hook \notin display["hook"] /\ Ask(o, "hook", {Hook}) /\ busyName' = Hook
    /\ UNCHANGED <<world, mounted, open, asking, setupEntry, wizard, others, blurred>>

SetUp(c) ==
    /\ AtGallery /\ c \in Byo \ (display["connected"] \cup display["seeded"]) /\ setupEntry' = c
    /\ UNCHANGED <<world, mounted, open, asking, busyName, wizard, calls, others, blurred>>

-----------------------------------------------------------------------------
(* The wizard                                                              *)

AtWizard == mounted /\ open /\ setupEntry # Nobody

catalog == FamilyOf(setupEntry)

Last == wizard.screen = Steps[catalog] + 1

onBack == setupEntry' = Nobody /\ wizard' = Fresh /\ Abandon({"seeded"})

Back ==
    /\ AtWizard
    /\ \/ wizard.screen = 0 /\ onBack
       \/ wizard.screen > 0 /\ wizard' = [wizard EXCEPT !.screen = @ - 1] /\ UNCHANGED <<setupEntry, calls>>
       \/ Last /\ wizard.saved /\ onBack
    /\ UNCHANGED <<world, mounted, open, asking, busyName, others, blurred>>

Forward ==
    /\ AtWizard /\ ~ Last /\ wizard' = [wizard EXCEPT !.screen = @ + 1]
    /\ UNCHANGED <<world, mounted, open, asking, busyName, setupEntry, calls, others, blurred>>

Editable == AtWizard /\ Last /\ wizard.saving = Nobody /\ ~ wizard.saved

Type(field) ==
    /\ Editable /\ (field = "secret" => catalog \in NeedsSecret)
    /\ wizard' = [wizard EXCEPT !.filled = IF field \in @ THEN @ \ {field} ELSE @ \cup {field}]
    /\ UNCHANGED <<world, mounted, open, asking, busyName, setupEntry, calls, others, blurred>>

\* A save with a field missing only says so.
handleSave(o) ==
    /\ Editable /\ "id" \in wizard.filled /\ (catalog \in NeedsSecret => "secret" \in wizard.filled)
    /\ Ask(o, "seeded", TargetsOf[catalog]) /\ wizard' = [wizard EXCEPT !.saving = o]
    /\ UNCHANGED <<world, mounted, open, asking, busyName, setupEntry, others, blurred>>

-----------------------------------------------------------------------------
(* The main process, and its answers                                       *)

\* An item of the client.
Seeds(o, c) ==
    /\ calls[o].at = "asked" /\ calls[o].kind = "seeded" /\ c \in calls[o].left
    /\ calls' = [calls EXCEPT ![o].left = @ \ {c}] /\ world' = [world EXCEPT !["seeded"] = @ \cup {c}]
    /\ UNCHANGED <<mounted, open, asking, doing, others, blurred>>

Sent(call, ok) == [call EXCEPT !.at = "sent", !.ok = ok, !.left = IF ok THEN {} ELSE @]

(* The entry of a connect or of the hook is written last and in one step.  *)
(* A save that fails may have written some of its items, or all and not    *)
(* read one of them back.                                                  *)
Ends(o, ok) ==
    LET k == calls[o].kind IN
    /\ calls[o].at = "asked"
    /\ calls' = [calls EXCEPT ![o] = Sent(@, ok)]
    /\ IF k # "seeded" /\ ok THEN world' = [world EXCEPT ![k] = @ \cup calls[o].cards]
       ELSE (ok => calls[o].left = {}) /\ UNCHANGED world
    /\ UNCHANGED <<mounted, open, asking, doing, others, blurred>>

\* Cards of which the question was answered "no" before.
Overtaken(k, cards) ==
    IF check[k].on THEN {c \in cards : c \notin check[k].left /\ c \notin check[k].found} ELSE {}

(* What was asked for before the modal went is heard by nobody; nor is it  *)
(* heard that the hook is in when its status cannot be read.               *)
Answer(o, heard) ==
    LET k == calls[o].kind  cards == calls[o].cards IN
    /\ calls[o].at = "sent" /\ calls' = [calls EXCEPT ![o] = Idle]
    /\ IF calls[o].mine /\ calls[o].ok THEN heard \/ k = "hook" ELSE ~ heard
    /\ display' = IF ~ heard THEN display
                  ELSE [display EXCEPT ![k] = IF k = "hook" THEN world[k] ELSE @ \cup cards]
    /\ busyName' = IF calls[o].mine /\ k # "seeded" THEN Nobody ELSE busyName
    /\ wizard' = IF wizard.saving # o THEN wizard
                 ELSE [wizard EXCEPT !.saving = Nobody, !.saved = calls[o].ok]
    /\ blurred' = blurred \cup {<<k, c>> : c \in IF heard THEN Overtaken(k, cards) ELSE cards \ calls[o].left}
    /\ UNCHANGED <<world, mounted, open, known, check, setupEntry, others>>

Next ==
    \/ Open \/ Close \/ LeaveTab \/ EnterTab \/ Back \/ Forward
    \/ \E k \in Kind : CheckEnds(k) \/ \E c \in Asked(k) : OthersChange(k, c) \/ Query(k, c)
    \/ \E c \in Byo : SetUp(c)
    \/ \E field \in {"id", "secret"} : Type(field)
    \/ \E o \in Call : handleInstallHook(o) \/ handleSave(o)
    \/ \E o \in Call, ok \in BOOLEAN : Ends(o, ok) \/ Answer(o, ok)
    \/ \E o \in Call, c \in Card : handleConnect(o, c)
    \/ \E o \in Call, c \in Byo : Seeds(o, c)

Spec == Init /\ [][Next]_gvars

-----------------------------------------------------------------------------
(* Properties                                                              *)

\* Written, and the answer has not come yet.
Pending(k) == UNION {calls[o].cards \ calls[o].left : o \in {p \in Call : calls[p].kind = k /\ calls[p].at # "idle"}}

(* Once the questions of an opening are answered, the gallery says of each *)
(* source what there is, except where somebody else changed it since, a    *)
(* question failed, an answer had nobody to go to, or a source was added   *)
(* after the question about it and before the last one.                    *)
GalleryTruthful ==
    mounted /\ open =>
        \A k \in Kind : \A c \in Asked(k) :
            check[k].on \/ <<k, c>> \in blurred \/ c \in Pending(k) \/ (c \in display[k] <=> c \in world[k])
=============================================================================
