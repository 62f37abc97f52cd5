----------------------------- MODULE MCDesktop -----------------------------
EXTENDS Login

CONSTANTS Event, Elicitation, Kept, HandMade, MaxOtherWrites, MaxActs, MaxHookFaults,
          SessionFile, OtherFile, Born, OtherKey, MaxTime, MaxChanges,
          Name, Op, NoOne, MaxAnswers, MaxElsewhere,
          Card, Family, TargetsOf, NeedsSecret, Steps, HookCard, Call

Hand(bare, items) == [bare |-> bare, items |-> items]

TheHandMade == {Hand(FALSE, {"user"}), Hand(FALSE, {"stale", "user"}), Hand(FALSE, {"custom"}), Hand(TRUE, {"stale"})}

\* A copy is kept, and some event is captured by every Claude Code.
ASSUME HookAssumption ==
    /\ Kept \in Nat \ {0} /\ MaxOtherWrites \in Nat /\ MaxActs \in Nat /\ MaxHookFaults \in Nat
    /\ \E e \in Event : e \notin Elicitation
    /\ HandMade \subseteq [bare : BOOLEAN, items : SUBSET {"std", "stale", "custom", "user"}]

\* The time in a ULID is that of its session file, and of no other.
ASSUME FileAssumption ==
    /\ SessionFile # {} /\ IsFiniteSet(SessionFile) /\ SessionFile \cap OtherFile = {}
    /\ Born \in [SessionFile -> Int]

\* The calls of the main process have names of their own.
ASSUME SourcesAssumption ==
    NoOne \notin Op /\ NoOne \notin Name

\* A client is for sources of the gallery; the card of the hook is another.
ASSUME GalleryAssumption ==
    /\ HookCard \notin Card /\ NoOne \notin Card \cup {HookCard} /\ NoOne \notin Call
    /\ TargetsOf \in [Family -> SUBSET Card] /\ NeedsSecret \subseteq Family
    /\ Steps \in [Family -> Nat]

VARIABLES
    settings, copies, clock, memory, app, cause, gap, lost, marks, told, count,
    prefs, cache, now, files, sweep, sized, markers, drawer, seen, removed, untold, changes,
    config, asked, answers, ops, snap, drawn, shown, selected, inspector, inAppRemoves, vanished,
    residualCreds, elsewhere, taken, mistold, crossed,
    world, mounted, open, display, known, check, busyName, setupEntry, wizard, calls, behind, blurred,
    scene

hookVars == <<settings, copies, clock, memory, app, cause, gap, lost, marks, told, count>>

retentionVars == <<prefs, cache, now, files, sweep, sized, markers, drawer, seen, removed, untold, changes>>

sourcesVars == <<config, asked, answers, ops, snap, drawn, shown, selected, inspector, inAppRemoves, vanished,
                 residualCreds, elsewhere, taken, mistold, crossed>>

galleryVars == <<world, mounted, open, display, known, check, busyName, setupEntry, wizard, calls, behind, blurred>>

mcVars == <<vars, hookVars, retentionVars, sourcesVars, galleryVars, scene>>

Hooks == INSTANCE HookSettings
             WITH used <- count, MaxOthers <- MaxOtherWrites, MaxFaults <- MaxHookFaults

TheBorn == [f \in SessionFile |-> IF f = "s1" THEN 0 ELSE 1]

Cleanup == INSTANCE Retention WITH settings <- prefs

List == INSTANCE Sources WITH Nobody <- NoOne, MaxOthers <- MaxElsewhere, others <- elsewhere

TheTargets == [f \in Family |-> {"mail"}]

TheSteps == [f \in Family |-> 1]

Cards == INSTANCE Gallery WITH Hook <- HookCard, Nobody <- NoOne, MaxOthers <- MaxElsewhere, others <- behind

Window == {"login", "hooks", "cleanup", "sources"}

(* The parts of the app are apart: one of them moves in a behaviour, the   *)
(* others rest in one state.  In the gallery it is one kind of card.       *)
MCInit ==
    /\ Init /\ Hooks!Init /\ Cleanup!Init /\ List!Init /\ Cards!Init /\ scene \in Window \cup Cards!Kind
    /\ scene # "hooks" => settings = Hooks!Absent
    /\ scene # "login" => entry = "absent" /\ client = NoClient /\ server = CHOOSE s \in AuthServer : TRUE
    /\ scene # "cleanup" => prefs.is = "there"
    /\ scene # "sources" => config.entries = List!Nothing
    /\ \A k \in Cards!Kind \ {scene} : world[k] = IF k = "seeded" THEN Cards!Byo ELSE {}

(* The attempts are interchangeable: the first one to start is 1.          *)
LoginNext ==
    /\ Next /\ UNCHANGED <<hookVars, retentionVars, sourcesVars, galleryVars>>
    /\ conn'[1].at = "idle" => conn'[2].at = "idle"

HooksNext == Hooks!Next /\ UNCHANGED <<vars, retentionVars, sourcesVars, galleryVars>>

(* s1 is a session that goes on, s2 one that has ended.                    *)
CleanupNext ==
    /\ Cleanup!Next /\ UNCHANGED <<vars, hookVars, sourcesVars, galleryVars>>
    /\ "s2" \in DOMAIN files' => files'["s2"] = files["s2"]

(* The removes and connects are interchangeable.                           *)
SourcesNext ==
    /\ List!Next /\ UNCHANGED <<vars, hookVars, retentionVars, galleryVars>>
    /\ ops'[1].at = "none" => ops'[2].at = "none"

(* Of the other two kinds of card nothing changes and nothing is asked,    *)
(* except which clients are there, on which a connect depends.             *)
GalleryNext ==
    /\ Cards!Next /\ UNCHANGED <<vars, hookVars, retentionVars, sourcesVars>>
    /\ scene # "seeded" => setupEntry' = NoOne
    /\ \A o \in Call : calls'[o].at # "idle" => calls'[o].kind = scene
    /\ \A k \in Cards!Kind \ {scene} :
           /\ world'[k] = world[k] /\ (k = "seeded" => \A c \in Card : <<k, c>> \notin blurred')
           /\ (k # "seeded" /\ check'[k].on => check'[k].left = Cards!Asked(k))

MCNext ==
    /\ UNCHANGED scene
    /\ \/ scene = "login" /\ LoginNext
       \/ scene = "hooks" /\ HooksNext
       \/ scene = "cleanup" /\ CleanupNext
       \/ scene = "sources" /\ SourcesNext
       \/ scene \in Cards!Kind /\ GalleryNext

MCSpec == MCInit /\ [][MCNext]_mcVars

(* Retention: a sweep removes what was chosen, and says so.                *)
PurgeAsChosen == Cleanup!PurgeAsChosen

(* HookSettings: nothing is replaced that is not known and kept.           *)
BytesKept == Hooks!BytesKept

(* HookSettings: the notice of a removal is true and on the record.        *)
NoticeTruthful == Hooks!NoticeTruthful

(* Sources: what the notice of vanished connectors says is so.             *)
VanishedTruthful == List!VanishedTruthful

(* Gallery: what the cards of "Add source" say is so.                      *)
GalleryTruthful == Cards!GalleryTruthful
=============================================================================
