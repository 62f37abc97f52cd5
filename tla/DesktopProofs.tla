---------------------------- MODULE DesktopProofs ----------------------------
(***************************************************************************)
(* Proofs about five parts of the desktop app: the capture hook in Claude  *)
(* Code's settings (what a write of the app may replace, and when the user *)
(* is told of a removal); the cleanup of the trail (what a sweep may       *)
(* remove); the interactive login (what the browser and the trail are      *)
(* told); what the gallery of sources shows as added; and the connectors   *)
(* of which the window tells that another program removed them. For any    *)
(* events, files, logins, connectors, messages on their way, writes of     *)
(* others and failures.                                                    *)
(***************************************************************************)
EXTENDS MCDesktop, FiniteSetTheorems, WellFoundedInduction, TLAPS

Item == {"std", "stale", "custom", "user"}
Entry == [bare : BOOLEAN, items : SUBSET Item]

\* The assumptions of MCDesktop, as the lemmas cite them.
HookConstants ==
    /\ Kept \in Nat \ {0}
    /\ \E e \in Event : e \notin Elicitation
    /\ HandMade \subseteq Entry
    /\ MaxOtherWrites \in Nat /\ MaxActs \in Nat /\ MaxHookFaults \in Nat

-----------------------------------------------------------------------------
(* The hook: the shape of the state.                                       *)

Hook == [Event -> SUBSET Entry]
File == [kind : {"absent", "ours", "link", "invalid"}, hooks : Hook, mention : BOOLEAN, rev : Nat]
Remembered == [known : BOOLEAN, expected : BOOLEAN, notice : BOOLEAN]

Writing == {"create", "copy", "compare", "rename", "verify", "record"}
Ops == {"install", "update", "uninstall"}

Activity == [at : Writing \cup {"idle", "mark", "persist"}, op : Ops \cup {"none", "seed", "vanished", "restored"},
             events : SUBSET Event, read : File, next : Remembered]

CopiesType == IsFiniteSet(copies) /\ copies \subseteq [stamp : Nat, of : File] /\ clock \in Nat
HistoryType ==
    /\ cause \in {"none", "others", "unrecorded", "uninstall"}
    /\ gap \in BOOLEAN /\ lost \in BOOLEAN /\ marks \in Nat /\ told \in Nat

HookTypeOK ==
    /\ settings \in File
    /\ CopiesType
    /\ memory \in Remembered
    /\ app \in Activity
    /\ HistoryType
    /\ count \in [others : Nat, acts : Nat, faults : Nat]

-----------------------------------------------------------------------------
(* The inductive invariant.                                                *)

Registered == Hooks!IsHookRegistered(settings)
Suspect == cause \in {"others", "unrecorded"}

\* A write under way is one of the three, for some events.
WorkInv == app.at \in Writing => app.op \in Ops /\ app.events # {}

\* What the comparison found is still so at the rename, but for the gap.
GapInv ==
    /\ app.at = "rename" /\ ~gap => settings = app.read
    /\ lost => gap

CopyInv ==
    app.at \in {"compare", "rename"} =>
        app.read \in {c.of : c \in copies} \/ \E c \in copies : c.stamp > clock

\* The hook is expected, or about to be, and gone: then somebody removed it.
\* While an install or update is being recorded it can only be another.
CauseInv ==
    /\ memory.expected /\ ~Registered => Suspect
    /\ app.at = "record" /\ app.op # "uninstall" /\ ~Registered => cause = "others"
    /\ app.at = "persist" /\ app.next.expected /\ ~Registered => Suspect
    /\ app.at = "mark" => Suspect

\* The mark is on the trail before the memory keeps the notice.
MarkInv ==
    /\ told <= marks
    /\ app.at = "persist" /\ app.op = "vanished" => told < marks

HookInv == HookTypeOK /\ WorkInv /\ GapInv /\ CopyInv /\ CauseInv /\ MarkInv

-----------------------------------------------------------------------------
(* The hooks of a file.                                                    *)

LEMMA OurEntryFacts == Hooks!OurEntry \in Entry
BY DEF Hooks!OurEntry, Entry, Item

LEMMA HookFacts ==
    ASSUME NEW hooks \in Hook, NEW events \in SUBSET Event
    PROVE  /\ Hooks!MergeHooks(hooks, events) \in Hook
           /\ Hooks!UpdateHooks(hooks, events) \in Hook
           /\ Hooks!RemoveHooks(hooks) \in Hook
<1>2. Hooks!MergeHooks(hooks, events) \in Hook
  BY OurEntryFacts DEF Hooks!MergeHooks, Hook
<1>3. Hooks!RemoveHooks(hooks) \in Hook
  BY DEF Hooks!RemoveHooks, Hook
<1>4. ASSUME NEW x \in Entry
      PROVE  Hooks!UpdateEntry(x) \in Entry
  <2> DEFINE items == {IF i = "stale" THEN "std" ELSE i : i \in x.items}
  <2>1. x.items \in SUBSET Item
    BY DEF Entry
  <2>2. items \in SUBSET Item
    BY <2>1 DEF Item
  <2>3. Hooks!UpdateEntry(x) = IF x.bare THEN x ELSE [x EXCEPT !.items = items]
    BY DEF Hooks!UpdateEntry
  <2> HIDE DEF items
  <2> QED  BY <2>2, <2>3 DEF Entry
<1>5. Hooks!UpdateHooks(hooks, events) \in Hook
  <2> DEFINE merged == Hooks!MergeHooks(hooks, events)
  <2>1. Hooks!UpdateHooks(hooks, events) =
            [e \in Event |-> IF e \in events THEN {Hooks!UpdateEntry(x) : x \in merged[e]} ELSE merged[e]]
    BY DEF Hooks!UpdateHooks
  <2> HIDE DEF merged
  <2>2. merged \in Hook
    BY <1>2 DEF merged
  <2> QED  BY <1>4, <2>1, <2>2 DEF Hook
<1> QED  BY <1>2, <1>3, <1>5

LEMMA TransformType ==
    ASSUME NEW op \in Ops, NEW hooks \in Hook, NEW events \in SUBSET Event
    PROVE  Hooks!Transform(op, hooks, events) \in Hook
BY HookFacts DEF Hooks!Transform, Ops

\* A command of ours in some entry is a hook registered.
LEMMA RegisteredFacts ==
    ASSUME NEW file \in File, file.kind \in {"ours", "link"}, NEW e \in Event, Hooks!Problems(file.hooks, e) # {"missing"}
    PROVE  Hooks!IsHookRegistered(file)
<1> DEFINE items == (UNION {x.items : x \in file.hooks[e]}) \ {"user"}
<1>1. items # {}
  BY DEF Hooks!Problems
<1>2. PICK x \in file.hooks[e] : \E i \in x.items : i # "user"
  BY <1>1
<1>3. Hooks!HasMarker(x)
  BY <1>2 DEF Hooks!HasMarker
<1> QED  BY <1>2, <1>3 DEF Hooks!IsHookRegistered, Hooks!HooksMarked

LEMMA ReadFacts ==
    ASSUME NEW file \in File
    PROVE  Hooks!ReadSettingsGuarded(file) = "ok" <=> file.kind = "ours"
BY DEF Hooks!ReadSettingsGuarded, File

\* An install or update that found nothing to do, or was verified.
LEMMA NothingToDo ==
    ASSUME NEW file \in File, file.kind = "ours", NEW events \in SUBSET Event, events # {},
           Hooks!MergeHooks(file.hooks, events) = file.hooks
    PROVE  Hooks!IsHookRegistered(file)
<1>1. PICK e \in events : TRUE
  OBVIOUS
<1>2. \E x \in file.hooks[e] : Hooks!HasMarker(x)
  <2>1. SUFFICES ASSUME ~\E x \in file.hooks[e] : Hooks!HasMarker(x)
                 PROVE  FALSE
    OBVIOUS
  <2>2. Hooks!MergeHooks(file.hooks, events)[e] = file.hooks[e] \cup {Hooks!OurEntry}
    BY <2>1 DEF Hooks!MergeHooks
  <2>3. Hooks!OurEntry \in file.hooks[e] /\ Hooks!HasMarker(Hooks!OurEntry)
    BY <2>2 DEF Hooks!HasMarker, Hooks!OurEntry
  <2> QED  BY <2>1, <2>3
<1> QED  BY <1>2 DEF Hooks!IsHookRegistered, Hooks!HooksMarked

LEMMA VerifiedFacts ==
    ASSUME NEW file \in File, NEW op \in {"install", "update"}, NEW events \in SUBSET Event, events # {},
           Hooks!Verified(op, file, events)
    PROVE  Hooks!IsHookRegistered(file)
<1>1. PICK e \in events : TRUE
  OBVIOUS
<1>2. file.kind = "ours"
  BY ReadFacts DEF Hooks!Verified
<1>3. Hooks!Problems(file.hooks, e) # {"missing"}
  <2>1. CASE op = "install"
    BY <2>1 DEF Hooks!Verified
  <2>2. CASE op = "update"
    <3>1. Hooks!Problems(file.hooks, e) \ {"custom"} = {}
      BY <2>2 DEF Hooks!Verified, Hooks!Fixable
    <3> QED  BY <3>1
  <2> QED  BY <2>1, <2>2
<1> QED  BY <1>2, <1>3, RegisteredFacts

-----------------------------------------------------------------------------
(* The copies.                                                             *)

\* One cardinality, under the two names it has here.
LEMMA SameCardinality ==
    ASSUME NEW S
    PROVE  Hooks!Cardinality(S) = Cardinality(S)
BY DEF Hooks!Cardinality, Cardinality

\* One of the copies has the greatest stamp, and is kept.
LEMMA NewestFacts ==
    ASSUME HookConstants, NEW all, IsFiniteSet(all), all \subseteq [stamp : Nat, of : File], NEW new \in all
    PROVE  /\ Hooks!Newest(all) \subseteq all /\ IsFiniteSet(Hooks!Newest(all))
           /\ new \in Hooks!Newest(all) \/ \E c \in Hooks!Newest(all) : c.stamp > new.stamp
<1> DEFINE Above(c) == {d \in all : d.stamp > c.stamp}
           above == [c \in all |-> Cardinality(Above(c))]
           counts == {above[c] : c \in all}
<1>1. \A c \in all : IsFiniteSet(Above(c)) /\ Cardinality(Above(c)) \in Nat
  BY FS_Subset, FS_CardinalityType
<1>2. Hooks!Newest(all) \subseteq all /\ IsFiniteSet(Hooks!Newest(all))
  BY FS_Subset DEF Hooks!Newest
<1>3. SUFFICES ASSUME new \notin Hooks!Newest(all)
               PROVE  \E c \in Hooks!Newest(all) : c.stamp > new.stamp
  BY <1>2
<1>4. PICK d \in all : d.stamp > new.stamp
  <2>1. ~(Cardinality(Above(new)) < Kept)
    BY <1>3, SameCardinality DEF Hooks!Newest
  <2>2. Cardinality(Above(new)) # 0
    BY <2>1 DEF HookConstants
  <2>3. Above(new) # {}
    BY <2>2, FS_EmptySet
  <2> QED  BY <2>3
<1>5. PICK c \in all : \A b \in all : ~(above[b] < above[c])
  <2>1. counts \subseteq Nat /\ counts # {}
    BY <1>1
  <2>2. PICK n \in counts : \A m \in counts : ~(<<m, n>> \in OpToRel(<, Nat))
    BY <2>1, NatLessThanWellFounded, WFMin
  <2>3. \A m \in counts : ~(m < n)
    BY <2>1, <2>2 DEF OpToRel
  <2> QED  BY <2>2, <2>3
<1>6. \A b \in all : ~(b.stamp > c.stamp)
  <2>1. SUFFICES ASSUME NEW b \in all, b.stamp > c.stamp
                 PROVE  FALSE
    OBVIOUS
  <2>2. Above(b) \subseteq Above(c) /\ b \in Above(c) /\ b \notin Above(b)
    BY <2>1
  <2>3. Above(b) \subseteq Above(c) /\ Above(b) # Above(c)
    BY <2>2
  <2> HIDE DEF Above
  <2>4. Cardinality(Above(b)) < Cardinality(Above(c))
    BY <1>1, <2>3, FS_Subset
  <2> QED  BY <1>5, <2>4
<1>7. Above(c) = {} /\ c.stamp > new.stamp
  BY <1>4, <1>6
<1>8. Cardinality(Above(c)) = 0
  BY <1>7, FS_EmptySet
<1>9. c \in Hooks!Newest(all) <=> Cardinality(Above(c)) < Kept
  BY SameCardinality DEF Hooks!Newest
<1> QED  BY <1>7, <1>8, <1>9 DEF HookConstants

-----------------------------------------------------------------------------
(* A handler begins.                                                       *)

LEMMA BeginStep ==
    ASSUME HookInv, NEW op \in Ops, NEW events \in SUBSET Event, events # {}, Hooks!Begin(op, events)
    PROVE  HookInv'
<1> DEFINE started(at) == [Hooks!Idle EXCEPT !.at = at, !.op = op, !.events = events, !.read = settings]
<1>1. /\ settings' = settings /\ copies' = copies /\ clock' = clock /\ memory' = memory
      /\ cause' = cause /\ marks' = marks /\ told' = told /\ gap' = FALSE /\ lost' = FALSE
      /\ count' = [count EXCEPT !.acts = @ + 1] /\ app.at = "idle"
  BY DEF Hooks!Begin
<1>2. HookTypeOK /\ settings \in File
  BY DEF HookInv, HookTypeOK
<1>3. Hooks!Idle \in Activity /\ Hooks!Idle.at = "idle"
  BY DEF Hooks!Idle, Activity, Hooks!Absent, Hooks!NoHooks, Hooks!NoMemory, File, Hook, Remembered
<1>4. PICK at \in {"create", "copy", "record"} :
          /\ app' = started(at)
          /\ at = "record" => /\ Hooks!ReadSettingsGuarded(settings) = "ok"
                              /\ Hooks!Transform(op, settings.hooks, events) = settings.hooks /\ op # "uninstall"
                              /\ op = "update" => ~Hooks!NotInstalled(settings.hooks, events)
  BY DEF Hooks!Begin
<1>5. /\ app' \in Activity /\ app'.at = at /\ app'.op = op /\ app'.events = events
  BY <1>2, <1>3, <1>4 DEF Activity, Writing
<1>6. HookTypeOK'
  <2>1. CopiesType' /\ HistoryType'
    BY <1>1, <1>2 DEF HookTypeOK, CopiesType, HistoryType
  <2>2. count' \in [others : Nat, acts : Nat, faults : Nat]
    BY <1>1, <1>2 DEF HookTypeOK
  <2> QED  BY <1>1, <1>2, <1>5, <2>1, <2>2 DEF HookTypeOK
<1>7. at = "record" => Registered
  <2> SUFFICES ASSUME at = "record"
               PROVE  Registered
    OBVIOUS
  <2>1. settings.kind = "ours"
    BY <1>2, <1>4, ReadFacts
  <2>2. CASE op = "install"
    BY <1>2, <1>4, <2>1, <2>2, NothingToDo DEF Hooks!Transform, Registered
  <2>3. CASE op = "update"
    <3>1. PICK e \in events : Hooks!Problems(settings.hooks, e) # {"missing"}
      BY <1>4, <2>3 DEF Hooks!NotInstalled
    <3> QED  BY <1>2, <2>1, <3>1, RegisteredFacts DEF Registered
  <2> QED  BY <1>4, <2>2, <2>3 DEF Ops
<1>8. WorkInv'
  BY <1>5 DEF WorkInv
<1>9. GapInv' /\ CopyInv' /\ MarkInv'
  BY <1>1, <1>5 DEF HookInv, GapInv, CopyInv, MarkInv
<1>10. CauseInv'
  BY <1>1, <1>5, <1>7 DEF HookInv, CauseInv, Registered, Suspect
<1> QED  BY <1>6, <1>8, <1>9, <1>10 DEF HookInv

LEMMA HandlerStep ==
    ASSUME HookConstants, HookInv, Hooks!Install \/ Hooks!Update \/ Hooks!Uninstall
    PROVE  HookInv'
<1>1. \A events \in Hooks!SupportedEvents : events \in SUBSET Event /\ events # {}
  BY DEF Hooks!SupportedEvents, HookConstants
<1>2. PICK op \in Ops, events \in Hooks!SupportedEvents : Hooks!Begin(op, events)
  BY DEF Hooks!Install, Hooks!Update, Hooks!Uninstall, Ops, Hooks!SupportedEvents
<1> QED  BY <1>1, <1>2, BeginStep

-----------------------------------------------------------------------------
(* The write.                                                              *)

\* What a step of the app leaves of its activity.
LEMMA AtFacts ==
    ASSUME HookInv, NEW step \in Writing \cup {"persist"}, Hooks!At(step)
    PROVE  /\ app' \in Activity /\ app'.at = step /\ app'.op = app.op /\ app'.events = app.events
           /\ app'.read = app.read /\ app'.next = app.next
BY DEF Hooks!At, HookInv, HookTypeOK, Activity

LEMMA IdleFacts == Hooks!Idle \in Activity /\ Hooks!Idle.at = "idle"
BY DEF Hooks!Idle, Activity, Hooks!Absent, Hooks!NoHooks, Hooks!NoMemory, File, Hook, Remembered

FaultsOnly == count' = count \/ Hooks!Failed

LEMMA UsedFacts ==
    ASSUME HookTypeOK, FaultsOnly
    PROVE  count' \in [others : Nat, acts : Nat, faults : Nat]
BY DEF HookTypeOK, FaultsOnly, Hooks!Failed

\* The app does nothing more of what it was doing.
LEMMA IdleStep ==
    ASSUME HookInv, app' = Hooks!Idle, FaultsOnly, memory' \in Remembered, memory'.expected => memory.expected,
           UNCHANGED <<settings, copies, clock, Hooks!history>>
    PROVE  HookInv'
<1>1. app' \in Activity /\ app'.at = "idle"
  BY IdleFacts
<1>2. UNCHANGED <<cause, gap, lost, marks, told>>
  BY DEF Hooks!history
<1>3. HookTypeOK'
  BY <1>1, <1>2, UsedFacts DEF HookInv, HookTypeOK, CopiesType, HistoryType
<1>4. WorkInv' /\ GapInv' /\ CopyInv' /\ MarkInv'
  BY <1>1, <1>2 DEF HookInv, WorkInv, Writing, GapInv, CopyInv, MarkInv
<1>5. CauseInv'
  BY <1>1, <1>2 DEF HookInv, CauseInv, Registered, Suspect
<1> QED  BY <1>3, <1>4, <1>5 DEF HookInv

\* The app goes on, with nothing of the file or its memory changed.
LEMMA GoOnStep ==
    ASSUME HookInv, NEW step \in {"compare", "rename", "record"}, Hooks!At(step), app.at \in Writing, FaultsOnly,
           UNCHANGED <<settings, memory, Hooks!history>>, CopiesType',
           step = "rename" => settings = app.read,
           step \in {"compare", "rename"} =>
               app.read \in {c.of : c \in copies'} \/ \E c \in copies' : c.stamp > clock',
           step = "record" => app.op = "uninstall" \/ Registered
    PROVE  HookInv'
<1>1. /\ app' \in Activity /\ app'.at = step /\ app'.op = app.op /\ app'.events = app.events
      /\ app'.read = app.read /\ app'.next = app.next
  BY AtFacts DEF Writing
<1>2. UNCHANGED <<cause, gap, lost, marks, told>>
  BY DEF Hooks!history
<1>3. HookTypeOK'
  BY <1>1, <1>2, UsedFacts DEF HookInv, HookTypeOK, HistoryType
<1>4. WorkInv' /\ GapInv' /\ MarkInv'
  BY <1>1, <1>2 DEF HookInv, WorkInv, Writing, GapInv, MarkInv
<1>5. CopyInv'
  BY <1>1 DEF CopyInv
<1>6. CauseInv'
  BY <1>1, <1>2 DEF HookInv, CauseInv, Registered, Suspect
<1> QED  BY <1>3, <1>4, <1>5, <1>6 DEF HookInv

LEMMA CopyStep ==
    ASSUME HookConstants, HookInv, Hooks!Copy
    PROVE  HookInv'
<1> DEFINE new == [stamp |-> clock', of |-> app.read]
           all == copies \cup {new}
<1>1. UNCHANGED <<settings, memory, Hooks!history>> /\ app.at = "copy" /\ app.at \in Writing /\ HookTypeOK
  BY DEF Hooks!Copy, Writing, HookInv
<1>2. CASE Hooks!CanFail /\ Hooks!Failed /\ app' = Hooks!Idle /\ UNCHANGED <<copies, clock>>
  BY <1>1, <1>2, IdleStep DEF FaultsOnly, HookTypeOK
<1>3. CASE /\ clock' \in {clock + 1, 0} /\ FaultsOnly /\ copies' = Hooks!Newest(all) /\ Hooks!At("compare")
  <2>1. new \in [stamp : Nat, of : File] /\ clock' \in Nat
    BY <1>1, <1>3 DEF HookTypeOK, CopiesType, Activity
  <2>2. IsFiniteSet(all) /\ all \subseteq [stamp : Nat, of : File] /\ new \in all
    BY <1>1, <2>1, FS_AddElement DEF HookTypeOK, CopiesType
  <2>3. new.stamp = clock' /\ new.of = app.read
    OBVIOUS
  <2> HIDE DEF all, new
  <2>4. /\ copies' \subseteq all /\ IsFiniteSet(copies')
        /\ new \in copies' \/ \E c \in copies' : c.stamp > new.stamp
    BY <1>3, <2>2, NewestFacts
  <2>5. CopiesType'
    BY <2>1, <2>2, <2>4 DEF CopiesType
  <2>6. app.read \in {c.of : c \in copies'} \/ \E c \in copies' : c.stamp > clock'
    BY <2>3, <2>4
  <2> QED  BY <1>1, <1>3, <2>5, <2>6, GoOnStep
<1> QED  BY <1>2, <1>3 DEF Hooks!Copy, FaultsOnly

LEMMA CompareStep ==
    ASSUME HookInv, Hooks!Compare
    PROVE  HookInv'
<1>1. /\ UNCHANGED <<settings, copies, clock, memory, Hooks!history>> /\ FaultsOnly /\ HookTypeOK
      /\ app.at = "compare" /\ app.at \in Writing
  BY DEF Hooks!Compare, Writing, FaultsOnly, HookInv
<1>2. CASE settings = app.read
  <2>1. CopiesType' /\ Hooks!At("rename")
    BY <1>1, <1>2 DEF HookTypeOK, CopiesType, Hooks!Compare
  <2>2. app.read \in {c.of : c \in copies'} \/ \E c \in copies' : c.stamp > clock'
    BY <1>1 DEF HookInv, CopyInv
  <2> QED  BY <1>1, <1>2, <2>1, <2>2, GoOnStep
<1>3. CASE settings # app.read
  BY <1>1, <1>3, IdleStep DEF Hooks!Compare, HookTypeOK
<1> QED  BY <1>2, <1>3

\* The file has been replaced, by what was planned.
LEMMA SwapStep ==
    ASSUME HookInv, app.at \in Writing, settings' \in File, Hooks!AfterSwap, UNCHANGED <<copies, clock, memory, marks, told>>,
           cause' \in {"none", "others", "unrecorded", "uninstall"},
           gap' = gap, lost' \in BOOLEAN, lost' => gap,
           memory.expected /\ ~Registered' => Suspect'
    PROVE  HookInv'
<1>1. /\ app' \in Activity /\ app'.at \in {"verify", "idle"}
      /\ app'.at = "verify" => app'.op = app.op /\ app'.events = app.events
  BY AtFacts, IdleFacts DEF Hooks!AfterSwap, Writing
<1>2. FaultsOnly /\ HookTypeOK
  BY DEF Hooks!AfterSwap, FaultsOnly, HookInv
<1>3. HookTypeOK'
  BY <1>1, <1>2, UsedFacts DEF HookTypeOK, CopiesType, HistoryType
<1>4. WorkInv'
  BY <1>1 DEF HookInv, WorkInv, Writing
<1>5. GapInv' /\ CopyInv' /\ MarkInv'
  BY <1>1 DEF HookInv, GapInv, CopyInv, MarkInv
<1>6. CauseInv'
  BY <1>1 DEF CauseInv
<1> QED  BY <1>3, <1>4, <1>5, <1>6 DEF HookInv

LEMMA PlannedFacts ==
    ASSUME HookInv, app.at \in Writing
    PROVE  Hooks!Planned \in File
<1> DEFINE hooks == Hooks!Transform(app.op, app.read.hooks, app.events)
<1>1. app.read \in File /\ app.op \in Ops /\ app.events \in SUBSET Event
  BY DEF HookInv, HookTypeOK, Activity, WorkInv
<1>2. hooks \in Hook
  BY <1>1, TransformType DEF File
<1>3. Hooks!Planned = [[app.read EXCEPT !.kind = "ours"] EXCEPT !.hooks = hooks]
  BY <1>1 DEF Hooks!Planned, File
<1> HIDE DEF hooks
<1> QED  BY <1>1, <1>2, <1>3 DEF File

LEMMA RenameStep ==
    ASSUME HookInv, Hooks!Rename
    PROVE  HookInv'
<1>1. /\ app.at = "rename" /\ app.at \in Writing /\ settings' = Hooks!Planned /\ Hooks!AfterSwap
      /\ UNCHANGED <<copies, clock, memory, marks, told>> /\ gap' = gap /\ lost' = (settings # app.read)
  BY DEF Hooks!Rename, Writing
<1>2. settings' \in File
  BY <1>1, PlannedFacts
<1>3. lost' \in BOOLEAN /\ (lost' => gap)
  BY <1>1 DEF HookInv, GapInv, HookTypeOK, HistoryType
<1>4. cause' = IF Registered /\ ~Registered' THEN "unrecorded" ELSE cause
  BY DEF Hooks!Rename, Hooks!CausedBy, Registered
<1>5. cause' \in {"none", "others", "unrecorded", "uninstall"}
  BY <1>4 DEF HookInv, HookTypeOK, HistoryType
<1>6. memory.expected /\ ~Registered' => Suspect'
  BY <1>4 DEF HookInv, CauseInv, Suspect
<1> QED  BY <1>1, <1>2, <1>3, <1>5, <1>6, SwapStep

LEMMA CreateStep ==
    ASSUME HookInv, Hooks!Create
    PROVE  HookInv'
<1>1. /\ app.at \in Writing /\ UNCHANGED <<copies, clock, memory, Hooks!history>> /\ HookTypeOK
      /\ UNCHANGED <<cause, gap, lost, marks, told>>
  BY DEF Hooks!Create, Writing, Hooks!history, HookInv
<1>2. CASE settings.kind = "absent"
  <2>1. settings' = Hooks!Planned /\ Hooks!AfterSwap /\ ~Registered
    BY <1>2 DEF Hooks!Create, Registered, Hooks!IsHookRegistered
  <2>2. settings' \in File
    BY <1>1, <2>1, PlannedFacts
  <2>3. memory.expected => Suspect'
    BY <1>1, <2>1 DEF HookInv, CauseInv, Suspect
  <2>4. cause' \in {"none", "others", "unrecorded", "uninstall"} /\ lost' \in BOOLEAN /\ (lost' => gap)
    BY <1>1 DEF HookTypeOK, HistoryType, HookInv, GapInv
  <2> QED  BY <1>1, <2>1, <2>2, <2>3, <2>4, SwapStep
<1>3. CASE settings.kind # "absent"
  BY <1>1, <1>3, IdleStep DEF Hooks!Create, HookTypeOK, FaultsOnly
<1> QED  BY <1>2, <1>3

LEMMA VerifyStep ==
    ASSUME HookInv, Hooks!Verify
    PROVE  HookInv'
<1>1. /\ app.at = "verify" /\ app.at \in Writing /\ UNCHANGED <<settings, copies, clock, memory, Hooks!history>>
      /\ FaultsOnly /\ HookTypeOK
  BY DEF Hooks!Verify, Writing, FaultsOnly, HookInv
<1>2. CASE Hooks!Verified(app.op, settings, app.events)
  <2>1. CopiesType' /\ Hooks!At("record")
    BY <1>1, <1>2 DEF HookTypeOK, CopiesType, Hooks!Verify
  <2>2. app.op \in Ops /\ app.events # {} /\ app.events \in SUBSET Event /\ settings \in File
    BY <1>1 DEF HookInv, WorkInv, HookTypeOK, Activity
  <2>3. app.op = "uninstall" \/ Registered
    BY <1>2, <2>2, VerifiedFacts DEF Ops, Registered
  <2> QED  BY <1>1, <2>1, <2>3, GoOnStep
<1>3. CASE ~Hooks!Verified(app.op, settings, app.events)
  BY <1>1, <1>3, IdleStep DEF Hooks!Verify, HookTypeOK
<1> QED  BY <1>2, <1>3

\* The intent is kept, or the old memory stays.
LEMMA RecordStep ==
    ASSUME HookInv, Hooks!Record
    PROVE  HookInv'
<1> DEFINE wanted == app.op # "uninstall"
           notice == ~wanted /\ memory.notice
           next == Hooks!ApplyExpected(memory, wanted)
<1>1. /\ app.at = "record" /\ app' = Hooks!Idle /\ UNCHANGED <<settings, copies, clock, gap, lost, marks, told>>
      /\ memory' \in {next, memory} /\ FaultsOnly /\ HookTypeOK
      /\ cause' = IF cause = "unrecorded" /\ memory' = next THEN "uninstall" ELSE cause
  BY DEF Hooks!Record, Hooks!Persist, FaultsOnly, HookInv
<1>2. memory \in Remembered /\ wanted \in BOOLEAN
  BY <1>1 DEF HookTypeOK
<1>3. next = [known |-> TRUE, expected |-> wanted, notice |-> notice] /\ notice \in BOOLEAN
  BY <1>2 DEF Hooks!ApplyExpected, Hooks!Memory, Remembered
<1> HIDE DEF next, notice
<1>4. next \in Remembered /\ (next.expected <=> wanted)
  <2>1. next \in Remembered
    BY <1>2, <1>3, Zenon DEF Remembered
  <2> QED  BY <1>2, <1>3, <2>1
<1>5. app' \in Activity /\ app'.at = "idle"
  BY <1>1, IdleFacts
<1>6. HookTypeOK'
  BY <1>1, <1>2, <1>4, <1>5, UsedFacts DEF HookTypeOK, CopiesType, HistoryType
<1>7. WorkInv' /\ GapInv' /\ CopyInv' /\ MarkInv'
  BY <1>1, <1>5 DEF HookInv, WorkInv, Writing, GapInv, CopyInv, MarkInv
<1>8. memory'.expected /\ ~Registered' => Suspect'
  <2> SUFFICES ASSUME memory'.expected, ~Registered
               PROVE  Suspect'
    BY <1>1 DEF Registered
  <2>1. CASE wanted
    BY <1>1, <2>1 DEF HookInv, CauseInv, Suspect
  <2>2. CASE ~wanted
    <3>1. memory' = memory /\ memory' # next
      BY <1>1, <1>4, <2>2
    <3> QED  BY <1>1, <3>1 DEF HookInv, CauseInv, Suspect
  <2> QED  BY <2>1, <2>2
<1>9. CauseInv'
  BY <1>5, <1>8 DEF CauseInv
<1> QED  BY <1>6, <1>7, <1>9 DEF HookInv

-----------------------------------------------------------------------------
(* The integrity check.                                                    *)

LEMMA MemoryType ==
    ASSUME NEW expected \in BOOLEAN, NEW notice \in BOOLEAN
    PROVE  Hooks!Memory(expected, notice) \in Remembered /\ (Hooks!Memory(expected, notice).expected <=> expected)
<1>1. Hooks!Memory(expected, notice) \in Remembered
  BY Zenon DEF Hooks!Memory, Remembered
<1> QED  BY <1>1 DEF Hooks!Memory

LEMMA ProbeStep ==
    ASSUME HookInv, Hooks!Probe
    PROVE  HookInv'
<1>1. /\ UNCHANGED <<settings, copies, clock, memory, cause, gap, lost, marks, told, count>> /\ HookTypeOK
      /\ app.at = "idle"
  BY DEF Hooks!Probe, Hooks!history, HookInv
<1> DEFINE doing(at, op, next) == [Hooks!Idle EXCEPT !.at = at, !.op = op, !.next = next]
<1>2. PICK at \in {"persist", "mark"}, op \in {"seed", "vanished", "restored"}, expected \in BOOLEAN, notice \in BOOLEAN :
          /\ app' = doing(at, op, Hooks!Memory(expected, notice))
          /\ expected => Registered
          /\ at = "persist" => op # "vanished"
          /\ at = "mark" => memory.expected /\ ~Registered
  <2>1. Registered \in BOOLEAN
    BY DEF Registered, Hooks!IsHookRegistered, Hooks!HooksMarked
  <2>2. \/ app' = doing("persist", "seed", Hooks!Memory(Registered, FALSE))
        \/ app' = doing("mark", "vanished", Hooks!Memory(FALSE, TRUE)) /\ memory.expected /\ ~Registered
        \/ app' = doing("persist", "restored", Hooks!Memory(TRUE, FALSE)) /\ Registered
    BY DEF Hooks!Probe, Registered
  <2> HIDE DEF Registered
  <2>3. CASE app' = doing("persist", "seed", Hooks!Memory(Registered, FALSE))
    BY <2>1, <2>3
  <2>4. CASE app' = doing("mark", "vanished", Hooks!Memory(FALSE, TRUE)) /\ memory.expected /\ ~Registered
    BY <2>4
  <2>5. CASE app' = doing("persist", "restored", Hooks!Memory(TRUE, FALSE)) /\ Registered
    BY <2>5
  <2> QED  BY <2>2, <2>3, <2>4, <2>5
<1>3. Hooks!Memory(expected, notice) \in Remembered /\ (Hooks!Memory(expected, notice).expected <=> expected)
  BY MemoryType
<1>4. /\ app' \in Activity /\ app'.at = at /\ app'.op = op /\ app'.next = Hooks!Memory(expected, notice)
  BY <1>2, <1>3, IdleFacts DEF Activity
<1>5. HookTypeOK'
  BY <1>1, <1>4 DEF HookTypeOK, CopiesType, HistoryType
<1>6. WorkInv' /\ GapInv' /\ CopyInv' /\ MarkInv'
  BY <1>1, <1>2, <1>4 DEF HookInv, WorkInv, Writing, GapInv, CopyInv, MarkInv
<1>7. CauseInv'
  BY <1>1, <1>2, <1>3, <1>4 DEF HookInv, CauseInv, Registered, Suspect
<1> QED  BY <1>5, <1>6, <1>7 DEF HookInv

LEMMA MarkStep ==
    ASSUME HookInv, Hooks!Mark
    PROVE  HookInv'
<1>1. /\ UNCHANGED <<settings, copies, clock, memory, cause, gap, lost, told, count>> /\ HookTypeOK
      /\ app.at = "mark" /\ marks' = marks + 1
  BY DEF Hooks!Mark, HookInv
<1>2. /\ app' \in Activity /\ app'.at = "persist" /\ app'.op = app.op /\ app'.next = app.next
  BY AtFacts DEF Hooks!Mark
<1>3. HookTypeOK'
  BY <1>1, <1>2 DEF HookTypeOK, CopiesType, HistoryType
<1>4. WorkInv' /\ GapInv' /\ CopyInv'
  BY <1>1, <1>2 DEF HookInv, WorkInv, Writing, GapInv, CopyInv
<1>5. MarkInv'
  BY <1>1 DEF HookInv, MarkInv, HookTypeOK, HistoryType
<1>6. CauseInv'
  BY <1>1, <1>2 DEF HookInv, CauseInv, Registered, Suspect
<1> QED  BY <1>3, <1>4, <1>5, <1>6 DEF HookInv

LEMMA PersistStep ==
    ASSUME HookInv, Hooks!PersistPlan
    PROVE  HookInv'
<1>1. /\ app.at = "persist" /\ app' = Hooks!Idle /\ UNCHANGED <<settings, copies, clock, cause, gap, lost, marks>>
      /\ memory' \in {app.next, memory} /\ FaultsOnly /\ HookTypeOK
      /\ told' = told \/ (told' = told + 1 /\ app.op = "vanished")
  BY DEF Hooks!PersistPlan, Hooks!Persist, FaultsOnly, HookInv
<1>2. memory' \in Remembered
  BY <1>1 DEF HookTypeOK, Activity
<1>3. app' \in Activity /\ app'.at = "idle"
  BY <1>1, IdleFacts
<1>4. told' \in Nat
  BY <1>1 DEF HookTypeOK, HistoryType
<1>5. HookTypeOK'
  BY <1>1, <1>2, <1>3, <1>4, UsedFacts DEF HookTypeOK, CopiesType, HistoryType
<1>6. WorkInv' /\ GapInv' /\ CopyInv'
  BY <1>1, <1>3 DEF HookInv, WorkInv, Writing, GapInv, CopyInv
<1>7. MarkInv'
  BY <1>1, <1>3 DEF HookInv, MarkInv, HookTypeOK, HistoryType
<1>8. CauseInv'
  BY <1>1, <1>3 DEF HookInv, CauseInv, Registered, Suspect
<1> QED  BY <1>5, <1>6, <1>7, <1>8 DEF HookInv

\* The memory is dismissed or lost while the app rests.
LEMMA MemoryStep ==
    ASSUME HookInv, Hooks!DismissNotice \/ Hooks!MemoryCorrupt
    PROVE  HookInv'
<1>1. /\ UNCHANGED <<settings, copies, clock, app, cause, gap, lost, marks, told>> /\ FaultsOnly /\ HookTypeOK
      /\ app.at = "idle" /\ memory \in Remembered
  BY DEF Hooks!DismissNotice, Hooks!MemoryCorrupt, Hooks!history, FaultsOnly, HookInv, HookTypeOK
<1>2. memory' \in Remembered /\ (memory'.expected => memory.expected)
  <2>1. CASE memory' = Hooks!Memory(memory.expected, FALSE)
    BY <1>1, <2>1, MemoryType DEF Remembered
  <2>2. CASE memory' = Hooks!NoMemory
    BY <2>2 DEF Hooks!NoMemory, Remembered
  <2> QED  BY <2>1, <2>2 DEF Hooks!DismissNotice, Hooks!MemoryCorrupt
<1>3. HookTypeOK'
  BY <1>1, <1>2, UsedFacts DEF HookTypeOK, CopiesType, HistoryType
<1>4. WorkInv' /\ GapInv' /\ CopyInv' /\ MarkInv'
  BY <1>1 DEF HookInv, WorkInv, GapInv, CopyInv, MarkInv
<1>5. CauseInv'
  BY <1>1, <1>2 DEF HookInv, CauseInv, Registered, Suspect
<1> QED  BY <1>3, <1>4, <1>5 DEF HookInv

LEMMA EndStep ==
    ASSUME HookInv, Hooks!RenameFails \/ Hooks!Crash
    PROVE  HookInv'
BY IdleStep DEF Hooks!RenameFails, Hooks!Crash, FaultsOnly, HookInv, HookTypeOK

-----------------------------------------------------------------------------
(* The others.                                                             *)

LEMMA ByOthersStep ==
    ASSUME HookInv, NEW file \in File, Hooks!ByOthers(file)
    PROVE  HookInv'
<1> DEFINE rev == IF file.kind = "absent" THEN 0 ELSE count.others + 1
<1>1. /\ UNCHANGED <<copies, clock, memory, app, lost, marks, told>> /\ HookTypeOK
      /\ gap' = (gap \/ app.at = "rename")
      /\ settings' = [file EXCEPT !.rev = rev] /\ count' = [count EXCEPT !.others = @ + 1]
      /\ cause' = IF Registered /\ ~Registered' THEN "others" ELSE cause
  BY DEF Hooks!ByOthers, Hooks!CausedBy, Registered, HookInv
<1>2. rev \in Nat
  BY <1>1 DEF HookTypeOK
<1> HIDE DEF rev
<1>3. settings' \in File /\ gap' \in BOOLEAN
  BY <1>1, <1>2 DEF File, HookTypeOK, HistoryType
<1>4. cause' \in {"none", "others", "unrecorded", "uninstall"}
  BY <1>1 DEF HookTypeOK, HistoryType
<1>5. HookTypeOK'
  BY <1>1, <1>3, <1>4 DEF HookTypeOK, CopiesType, HistoryType
<1>6. WorkInv' /\ CopyInv' /\ MarkInv'
  BY <1>1 DEF HookInv, WorkInv, CopyInv, MarkInv
<1>7. GapInv'
  BY <1>1 DEF HookInv, GapInv
<1>8. CauseInv'
  BY <1>1 DEF HookInv, CauseInv, Suspect
<1> QED  BY <1>5, <1>6, <1>7, <1>8 DEF HookInv

LEMMA OthersStep ==
    ASSUME HookConstants, HookInv, Hooks!OthersChange \/ Hooks!OthersAdd \/ Hooks!OthersPaste \/ Hooks!OthersDelete
    PROVE  HookInv'
<1>1. settings \in File /\ settings.hooks \in Hook
  BY DEF HookInv, HookTypeOK, File
<1>2. CASE Hooks!OthersChange
  <2>1. [settings EXCEPT !.hooks = Hooks!RemoveHooks(@)] \in File
    <3>1. Hooks!RemoveHooks(settings.hooks) \in Hook
      BY <1>1, HookFacts
    <3> QED  BY <1>1, <3>1 DEF File
  <2>2. [settings EXCEPT !.mention = ~@] \in File
    <3>1. (~settings.mention) \in BOOLEAN
      OBVIOUS
    <3> QED  BY <1>1, <3>1 DEF File
  <2>3. [settings EXCEPT !.kind = IF @ = "ours" THEN "invalid" ELSE "ours"] \in File
    BY <1>1 DEF File
  <2> QED  BY <1>1, <1>2, <2>1, <2>2, <2>3, ByOthersStep DEF Hooks!OthersChange
<1>3. CASE Hooks!OthersAdd
  <2>1. PICK e \in Event, x \in HandMade : Hooks!ByOthers([settings EXCEPT !.kind = "ours", !.hooks[e] = @ \cup {x}])
    BY <1>3 DEF Hooks!OthersAdd
  <2> DEFINE hooks == [settings.hooks EXCEPT ![e] = @ \cup {x}]
  <2>2. hooks \in Hook
    BY <1>1 DEF Hook, HookConstants
  <2>3. [settings EXCEPT !.kind = "ours", !.hooks[e] = @ \cup {x}] =
            [[settings EXCEPT !.kind = "ours"] EXCEPT !.hooks = hooks]
    BY <1>1 DEF File
  <2> HIDE DEF hooks
  <2>4. [[settings EXCEPT !.kind = "ours"] EXCEPT !.hooks = hooks] \in File
    BY <1>1, <2>2 DEF File
  <2> QED  BY <2>1, <2>3, <2>4, ByOthersStep
<1>4. CASE Hooks!OthersPaste
  <2>1. PICK offered : Hooks!ByOthers([settings EXCEPT !.hooks =
                                     [e \in Event |-> IF e \in offered THEN @[e] \cup {Hooks!OurEntry} ELSE @[e]]])
    BY <1>4 DEF Hooks!OthersPaste
  <2> DEFINE hooks == [e \in Event |-> IF e \in offered THEN settings.hooks[e] \cup {Hooks!OurEntry} ELSE settings.hooks[e]]
  <2>2. hooks \in Hook
    BY <1>1, OurEntryFacts DEF Hook
  <2>3. Hooks!ByOthers([settings EXCEPT !.hooks = hooks])
    BY <1>1, <2>1 DEF File
  <2> HIDE DEF hooks
  <2>4. [settings EXCEPT !.hooks = hooks] \in File
    BY <1>1, <2>2 DEF File
  <2> QED  BY <2>3, <2>4, ByOthersStep
<1>5. CASE Hooks!OthersDelete
  <2>1. Hooks!Absent \in File
    BY DEF Hooks!Absent, Hooks!NoHooks, File, Hook
  <2> QED  BY <1>5, <2>1, ByOthersStep DEF Hooks!OthersDelete
<1> QED  BY <1>2, <1>3, <1>4, <1>5

-----------------------------------------------------------------------------
(* The whole.                                                              *)

LEMMA InitInv ==
    ASSUME HookConstants, Hooks!Init
    PROVE  HookInv
<1>1. Hooks!Absent \in File /\ Hooks!NoHooks \in Hook
  BY DEF Hooks!Absent, Hooks!NoHooks, File, Hook
<1>2. settings \in File
  <2>1. [Hooks!Absent EXCEPT !.kind = "ours"] \in File
    BY <1>1 DEF File
  <2>2. ASSUME NEW k \in {"ours", "link"}, NEW e \in Event, NEW x \in HandMade \cup {Hooks!OurEntry}
        PROVE  [kind |-> k, hooks |-> [Hooks!NoHooks EXCEPT ![e] = {x}], mention |-> FALSE, rev |-> 0] \in File
    <3>1. x \in Entry
      BY <2>2, OurEntryFacts DEF HookConstants
    <3>2. [Hooks!NoHooks EXCEPT ![e] = {x}] \in Hook
      BY <1>1, <3>1 DEF Hook
    <3> QED  BY <3>2 DEF File
  <2> QED  BY <1>1, <2>1, <2>2 DEF Hooks!Init
<1>3. /\ copies = {} /\ clock = 1 /\ memory = Hooks!NoMemory /\ app = Hooks!Idle /\ cause = "none" /\ gap = FALSE /\ lost = FALSE
      /\ marks = 0 /\ told = 0 /\ count = [others |-> 0, acts |-> 0, faults |-> 0]
  BY DEF Hooks!Init
<1>4. memory \in Remembered /\ ~memory.expected
  BY <1>3 DEF Hooks!NoMemory, Remembered
<1>5. CopiesType /\ HistoryType
  BY <1>3, FS_EmptySet DEF CopiesType, HistoryType
<1>6. HookTypeOK
  BY <1>2, <1>3, <1>4, <1>5, IdleFacts DEF HookTypeOK
<1>7. WorkInv /\ GapInv /\ CopyInv /\ CauseInv /\ MarkInv
  BY <1>3, <1>4, IdleFacts DEF WorkInv, Writing, GapInv, CopyInv, CauseInv, MarkInv
<1> QED  BY <1>6, <1>7 DEF HookInv

LEMMA StepInv ==
    ASSUME HookConstants, HookInv, [Hooks!Next]_(Hooks!hvars)
    PROVE  HookInv'
<1>1. CASE UNCHANGED Hooks!hvars
  <2>1. UNCHANGED <<settings, copies, clock, memory, app, cause, gap, lost, marks, told, count>>
    BY <1>1 DEF Hooks!hvars
  <2>2. HookTypeOK'
    BY <2>1 DEF HookInv, HookTypeOK, CopiesType, HistoryType
  <2>3. WorkInv' /\ GapInv' /\ CopyInv' /\ MarkInv'
    BY <2>1 DEF HookInv, WorkInv, GapInv, CopyInv, MarkInv
  <2>4. CauseInv'
    BY <2>1 DEF HookInv, CauseInv, Registered, Suspect
  <2> QED  BY <2>2, <2>3, <2>4 DEF HookInv
<1>2. CASE Hooks!Install \/ Hooks!Update \/ Hooks!Uninstall \/ Hooks!Copy \/ Hooks!OthersChange \/ Hooks!OthersAdd \/ Hooks!OthersPaste \/ Hooks!OthersDelete
  BY <1>2, HandlerStep, CopyStep, OthersStep
<1>3. CASE Hooks!Compare \/ Hooks!Rename \/ Hooks!RenameFails \/ Hooks!Create \/ Hooks!Verify \/ Hooks!Record
  BY <1>3, CompareStep, RenameStep, EndStep, CreateStep, VerifyStep, RecordStep
<1>4. CASE Hooks!Probe \/ Hooks!Mark \/ Hooks!PersistPlan \/ Hooks!DismissNotice \/ Hooks!Crash \/ Hooks!MemoryCorrupt
  BY <1>4, ProbeStep, MarkStep, PersistStep, MemoryStep, EndStep
<1> QED  BY <1>1, <1>2, <1>3, <1>4 DEF Hooks!Next

LEMMA InvHolds == Hooks!Spec => []HookInv
<1>0. HookConstants
  BY HookAssumption DEF HookConstants, Entry, Item
<1>1. Hooks!Init => HookInv
  BY <1>0, InitInv
<1>2. HookInv /\ [Hooks!Next]_(Hooks!hvars) => HookInv'
  BY <1>0, StepInv
<1> QED  BY <1>1, <1>2, PTL DEF Hooks!Spec

\* Every state of the settings file, the copies, the memory and the app is one
\* the code can hold.
THEOREM TypeCorrect == Hooks!Spec => []HookTypeOK
<1>1. HookInv => HookTypeOK
  BY DEF HookInv
<1> QED  BY <1>1, InvHolds, PTL

\* swapSettingsIfUnchanged and backupSettings: whoever else writes, a rename
\* replaces bytes the app never read only within the comparison's gap, and the
\* bytes it read are in a kept copy unless the clock was set back.
THEOREM BytesKeptHolds == Hooks!Spec => []BytesKept
<1>1. HookInv => BytesKept
  BY DEF HookInv, GapInv, CopyInv, BytesKept, Hooks!BytesKept
<1> QED  BY <1>1, InvHolds, PTL

\* checkCchookIntegrity: whatever crashes, failures and writers come between,
\* the user reads of a removal only if somebody removed the hook or an Uninstall
\* ended unrecorded, and never before the trail was told.
THEOREM NoticeTruthfulHolds == Hooks!Spec => []NoticeTruthful
<1>1. HookInv => NoticeTruthful
  BY DEF HookInv, CauseInv, MarkInv, Suspect, NoticeTruthful, Hooks!NoticeTruthful
<1> QED  BY <1>1, InvHolds, PTL

-----------------------------------------------------------------------------
(* The cleanup.                                                            *)

CleanupConstants ==
    /\ SessionFile # {} /\ IsFiniteSet(SessionFile)
    /\ SessionFile \cap OtherFile = {}
    /\ Born \in [SessionFile -> Int]

Ages == Cleanup!Modes \ {"never"}
Chosen == Cleanup!Modes \cup {Cleanup!NoMode}
Cutoff(at, mode) == at - Cleanup!Threshold[mode]

SweepType == [pc : {"idle", "reading", "read", "stat", "unlink"}, mode : Chosen, at : Int,
              todo : SUBSET SessionFile, targets : SUBSET SessionFile, done : SUBSET SessionFile]

DrawerType == [open : BOOLEAN, saved : Chosen, pending : Chosen, ref : Chosen, estimate : Chosen, status : Chosen,
               last : (SUBSET SessionFile) \cup {Cleanup!NoMarker}, asked : SUBSET Cleanup!Modes, setting : Chosen]

CleanupTypeOK ==
    /\ prefs \in [is : {"there", "unreadable"}, mode : Chosen, marks : SUBSET OtherKey]
    /\ cache \in Chosen /\ now \in Int
    /\ OtherFile \subseteq DOMAIN files /\ DOMAIN files \subseteq SessionFile \cup OtherFile
    /\ files \in [DOMAIN files -> Int]
    /\ sweep \in SweepType
    /\ markers \in Seq(SUBSET SessionFile)
    /\ drawer \in DrawerType
    /\ seen \subseteq Cleanup!Modes
    /\ removed \subseteq [file : SessionFile, mode : Ages, at : Int, written : Int]
    /\ untold \subseteq SessionFile

\* The mode the sweep works under is one settings.json had since it began, and
\* what it is to remove is old, or written since.
SweepInv ==
    /\ sweep.pc = "idle" => sweep = Cleanup!NoSweep
    /\ sweep.pc # "idle" => Cleanup!ModeIn(prefs) \in seen
    /\ sweep.pc \in {"read", "stat", "unlink"} => sweep.mode \in seen
    /\ sweep.pc \in {"reading", "read"} => sweep.targets = {}
    /\ sweep.pc # "unlink" => sweep.done = {}
    /\ sweep.pc \in {"stat", "unlink"} => sweep.mode \in Ages /\ sweep.at <= now
    /\ \A f \in sweep.targets :
          /\ f \in DOMAIN files /\ Born[f] < Cutoff(sweep.at, sweep.mode)
          /\ files[f] < Cutoff(sweep.at, sweep.mode) \/ files[f] >= sweep.at

Removed == {r.file : r \in removed}

RemovedInv ==
    /\ \A r \in removed :
          /\ Born[r.file] < Cutoff(r.at, r.mode)
          /\ r.written < Cutoff(r.at, r.mode) \/ r.written >= r.at
          /\ r.file \in sweep.done \cup untold \cup UNION {markers[i] : i \in DOMAIN markers}
    /\ sweep.done \subseteq Removed
    /\ \A i \in DOMAIN markers : markers[i] \subseteq Removed
    /\ drawer.last # Cleanup!NoMarker => drawer.last \subseteq Removed

\* Only the unlinks of a sweep outdate the size.
SizeInv == sweep.pc # "unlink" => sized \in {Cleanup!NoSize, DOMAIN files}

\* The estimate waited for is that of the pending mode.
AskedInv == drawer.pending # Cleanup!NoMode =>
                drawer.ref = drawer.pending /\ drawer.estimate \in {Cleanup!NoMode, drawer.pending}

CleanupInv == CleanupTypeOK /\ SweepInv /\ RemovedInv /\ SizeInv /\ AskedInv

-----------------------------------------------------------------------------
(* A greatest number.                                                      *)

LEMMA Greatest ==
    ASSUME NEW S, S \subseteq Int, IsFiniteSet(S), S # {}
    PROVE  Cleanup!Max(S) \in S /\ \A y \in S : Cleanup!Max(S) >= y
<1> DEFINE Above(x) == {y \in S : y > x}
           above == [x \in S |-> Cardinality(Above(x))]
           counts == {above[x] : x \in S}
<1>1. \A x \in S : IsFiniteSet(Above(x)) /\ Cardinality(Above(x)) \in Nat
  BY FS_Subset, FS_CardinalityType
<1>2. PICK x \in S : \A y \in S : ~(above[y] < above[x])
  <2>1. counts \subseteq Nat /\ counts # {}
    BY <1>1
  <2>2. PICK n \in counts : \A m \in counts : ~(<<m, n>> \in OpToRel(<, Nat))
    BY <2>1, NatLessThanWellFounded, WFMin
  <2>3. \A m \in counts : ~(m < n)
    BY <2>1, <2>2 DEF OpToRel
  <2> QED  BY <2>2, <2>3
<1>3. \A y \in S : x >= y
  <2>1. SUFFICES ASSUME NEW y \in S, y > x
                 PROVE  FALSE
    OBVIOUS
  <2>2. x \in Int /\ y \in Int /\ \A z \in S : z \in Int
    OBVIOUS
  <2>3. Above(y) \subseteq Above(x)
    <3>1. SUFFICES ASSUME NEW z \in S, z > y
                   PROVE  z > x
      OBVIOUS
    <3>2. z \in Int
      BY <2>2
    <3> QED  BY <2>1, <2>2, <3>1, <3>2
  <2>4. y \in Above(x) /\ y \notin Above(y)
    BY <2>1, <2>2
  <2>5. Above(y) # Above(x)
    BY <2>4
  <2> HIDE DEF Above
  <2>6. Cardinality(Above(y)) < Cardinality(Above(x))
    BY <1>1, <2>3, <2>5, FS_Subset
  <2> QED  BY <1>2, <2>6
<1> QED  BY <1>3 DEF Cleanup!Max

\* Of the two times of a file, the name's and the last write's, the later one.
LEMMA LaterFacts ==
    ASSUME NEW a \in Int, NEW b \in Int, NEW c \in Int, Cleanup!Max({a, b}) < c
    PROVE  a < c /\ b < c
<1>1. IsFiniteSet({a, b})
  <2>1. IsFiniteSet({a})
    BY FS_Singleton
  <2>2. IsFiniteSet({a} \cup {b})
    BY <2>1, FS_AddElement
  <2>3. {a} \cup {b} = {a, b}
    OBVIOUS
  <2> QED  BY <2>2, <2>3
<1>2. Cleanup!Max({a, b}) >= a /\ Cleanup!Max({a, b}) >= b /\ Cleanup!Max({a, b}) \in Int
  BY <1>1, Greatest
<1> QED  BY <1>2

LEMMA ModeFacts ==
    /\ Ages = {"30d", "90d"} /\ Cleanup!Modes = {"never", "30d", "90d"}
    /\ Cleanup!NoMode \notin Cleanup!Modes
    /\ \A m \in Ages : Cleanup!Threshold[m] \in Nat
BY DEF Ages, Cleanup!Modes, Cleanup!NoMode, Cleanup!Threshold

LEMMA ModeInFacts ==
    ASSUME NEW s \in [is : {"there", "unreadable"}, mode : Chosen, marks : SUBSET OtherKey]
    PROVE  Cleanup!ModeIn(s) \in Cleanup!Modes
BY DEF Cleanup!ModeIn, Chosen, Cleanup!Modes

LEMMA NoSweepFacts ==
    /\ Cleanup!NoSweep \in SweepType /\ Cleanup!NoSweep.pc = "idle"
    /\ Cleanup!NoSweep.todo = {} /\ Cleanup!NoSweep.targets = {} /\ Cleanup!NoSweep.done = {}
BY DEF Cleanup!NoSweep, SweepType, Chosen

LEMMA ClosedFacts ==
    /\ Cleanup!Closed \in DrawerType
    /\ Cleanup!Closed.pending = Cleanup!NoMode /\ Cleanup!Closed.last = Cleanup!NoMarker
<1>1. Cleanup!NoMode \in Chosen /\ Cleanup!NoMarker \in (SUBSET SessionFile) \cup {Cleanup!NoMarker}
  BY DEF Chosen
<1>2. Cleanup!Closed \in DrawerType
  BY <1>1 DEF Cleanup!Closed, DrawerType
<1> QED  BY <1>2 DEF Cleanup!Closed

-----------------------------------------------------------------------------
(* settings.json.                                                          *)

\* A new settings.json, and the mode in it.
LEMMA WriteFacts ==
    ASSUME CleanupInv, NEW s \in [is : {"there", "unreadable"}, mode : Chosen, marks : SUBSET OtherKey],
           Cleanup!Write(s)
    PROVE  /\ prefs' \in [is : {"there", "unreadable"}, mode : Chosen, marks : SUBSET OtherKey]
           /\ seen' \subseteq Cleanup!Modes
           /\ sweep.pc # "idle" => Cleanup!ModeIn(prefs)' \in seen' /\ seen \subseteq seen'
<1>1. prefs' = s /\ seen' = IF sweep = Cleanup!NoSweep THEN {} ELSE seen \cup {Cleanup!ModeIn(s)}
  BY DEF Cleanup!Write
<1>2. Cleanup!ModeIn(s) \in Cleanup!Modes /\ Cleanup!ModeIn(prefs)' = Cleanup!ModeIn(s)
  BY <1>1, ModeInFacts DEF Cleanup!ModeIn
<1>3. sweep.pc # "idle" => sweep # Cleanup!NoSweep
  BY NoSweepFacts
<1> QED  BY <1>1, <1>2, <1>3 DEF CleanupInv, CleanupTypeOK

\* A step of settings.json and the drawer: the files and the sweep rest.
LEMMA DrawerFacts ==
    ASSUME CleanupConstants, CleanupInv,
           UNCHANGED <<now, files, sweep, sized, markers, removed, untold>>,
           prefs' \in [is : {"there", "unreadable"}, mode : Chosen, marks : SUBSET OtherKey],
           seen' \subseteq Cleanup!Modes,
           sweep.pc # "idle" => Cleanup!ModeIn(prefs)' \in seen' /\ seen \subseteq seen',
           cache' \in Chosen,
           drawer' \in DrawerType,
           drawer'.last = Cleanup!NoMarker \/ drawer'.last = drawer.last \/ drawer'.last = Cleanup!ReadLastPurgeMarker,
           AskedInv'
    PROVE  CleanupInv'
<1>1. CleanupTypeOK'
  BY DEF CleanupInv, CleanupTypeOK
<1>2. SweepInv'
  BY DEF CleanupInv, SweepInv, Cutoff
<1>3. drawer'.last # Cleanup!NoMarker => drawer'.last \subseteq Removed
  <2>1. CASE drawer'.last = Cleanup!ReadLastPurgeMarker
    <3>1. CASE markers = <<>>
      BY <2>1, <3>1 DEF Cleanup!ReadLastPurgeMarker
    <3>2. CASE markers # <<>>
      <4>1. Len(markers) \in DOMAIN markers /\ drawer'.last = markers[Len(markers)]
        BY <2>1, <3>2 DEF Cleanup!ReadLastPurgeMarker, CleanupInv, CleanupTypeOK
      <4> QED  BY <4>1 DEF CleanupInv, RemovedInv
    <3> QED  BY <3>1, <3>2
  <2> QED  BY <2>1 DEF CleanupInv, RemovedInv
<1>4. RemovedInv'
  BY <1>3 DEF CleanupInv, RemovedInv, Removed, Cutoff
<1>5. SizeInv'
  BY DEF CleanupInv, SizeInv
<1> QED  BY <1>1, <1>2, <1>4, <1>5 DEF CleanupInv

LEMMA SettingsStep ==
    ASSUME CleanupConstants, CleanupInv,
           (\E k \in OtherKey : Cleanup!PutOff(k)) \/ Cleanup!SettingsBreak
    PROVE  CleanupInv'
<1>1. PICK s \in [is : {"there", "unreadable"}, mode : Chosen, marks : SUBSET OtherKey] :
         /\ Cleanup!Write(s)
         /\ UNCHANGED <<cache, now, files, sweep, sized, markers, drawer, removed, untold>>
  <2>1. CASE \E k \in OtherKey : Cleanup!PutOff(k)
    <3>1. PICK k \in OtherKey : Cleanup!PutOff(k)
      BY <2>1
    <3>2. prefs.mode \in Chosen /\ Cleanup!Marks \cup {k} \subseteq OtherKey
      BY DEF CleanupInv, CleanupTypeOK, Cleanup!Marks
    <3>3. Cleanup!Settings("there", prefs.mode, Cleanup!Marks \cup {k})
              \in [is : {"there", "unreadable"}, mode : Chosen, marks : SUBSET OtherKey]
      BY <3>2 DEF Cleanup!Settings
    <3> QED  BY <3>1, <3>3 DEF Cleanup!PutOff
  <2>2. CASE Cleanup!SettingsBreak
    <3>1. Cleanup!Settings("unreadable", Cleanup!NoMode, {})
              \in [is : {"there", "unreadable"}, mode : Chosen, marks : SUBSET OtherKey]
      BY DEF Cleanup!Settings, Chosen
    <3> QED  BY <2>2, <3>1 DEF Cleanup!SettingsBreak
  <2> QED  BY <2>1, <2>2
<1>2. cache' \in Chosen /\ drawer' \in DrawerType /\ AskedInv'
  BY <1>1 DEF CleanupInv, CleanupTypeOK, AskedInv
<1> QED  BY <1>1, <1>2, WriteFacts, DrawerFacts

\* A step of the drawer that leaves settings.json and what is cached of it.
LEMMA RestFacts ==
    ASSUME CleanupInv, UNCHANGED <<prefs, seen>>
    PROVE  /\ prefs' \in [is : {"there", "unreadable"}, mode : Chosen, marks : SUBSET OtherKey]
           /\ seen' \subseteq Cleanup!Modes
           /\ sweep.pc # "idle" => Cleanup!ModeIn(prefs)' \in seen' /\ seen \subseteq seen'
BY DEF CleanupInv, CleanupTypeOK, SweepInv, Cleanup!ModeIn

LEMMA DrawerStepFacts ==
    ASSUME NEW d, Cleanup!DrawerStep(d)
    PROVE  drawer' = d /\ UNCHANGED <<now, files, sweep, sized, markers, removed, untold>>
BY DEF Cleanup!DrawerStep

LEMMA MarkerType ==
    ASSUME CleanupInv
    PROVE  Cleanup!ReadLastPurgeMarker \in (SUBSET SessionFile) \cup {Cleanup!NoMarker}
<1>1. CASE markers = <<>>
  BY <1>1 DEF Cleanup!ReadLastPurgeMarker
<1>2. CASE markers # <<>>
  <2>1. markers[Len(markers)] \in SUBSET SessionFile
    BY <1>2 DEF CleanupInv, CleanupTypeOK
  <2> QED  BY <1>2, <2>1 DEF Cleanup!ReadLastPurgeMarker
<1> QED  BY <1>1, <1>2

LEMMA OpenStep ==
    ASSUME CleanupConstants, CleanupInv, Cleanup!Open \/ Cleanup!Close
    PROVE  CleanupInv'
<1>1. PICK d : Cleanup!DrawerStep(d) /\ d \in DrawerType /\ d.last = Cleanup!NoMarker /\ d.pending = Cleanup!NoMode
  <2>1. CASE Cleanup!Open
    <3>1. Cleanup!ModeIn(prefs) \in Chosen
      BY ModeInFacts DEF CleanupInv, CleanupTypeOK, Chosen
    <3>2. [Cleanup!Closed EXCEPT !.open = TRUE, !.status = Cleanup!ModeIn(prefs)] \in DrawerType
      BY <3>1, ClosedFacts DEF DrawerType
    <3>3. /\ [Cleanup!Closed EXCEPT !.open = TRUE, !.status = Cleanup!ModeIn(prefs)].last = Cleanup!NoMarker
          /\ [Cleanup!Closed EXCEPT !.open = TRUE, !.status = Cleanup!ModeIn(prefs)].pending = Cleanup!NoMode
      BY ClosedFacts DEF DrawerType
    <3> QED  BY <2>1, <3>2, <3>3 DEF Cleanup!Open
  <2>2. CASE Cleanup!Close
    <3>1. drawer.status \in Chosen
      BY DEF CleanupInv, CleanupTypeOK, DrawerType
    <3>2. [Cleanup!Closed EXCEPT !.status = drawer.status] \in DrawerType
      BY <3>1, ClosedFacts DEF DrawerType
    <3>3. /\ [Cleanup!Closed EXCEPT !.status = drawer.status].last = Cleanup!NoMarker
          /\ [Cleanup!Closed EXCEPT !.status = drawer.status].pending = Cleanup!NoMode
      BY ClosedFacts DEF DrawerType
    <3> QED  BY <2>2, <3>2, <3>3 DEF Cleanup!Close
  <2> QED  BY <2>1, <2>2
<1>2. UNCHANGED <<prefs, cache, seen>>
  BY DEF Cleanup!Open, Cleanup!Close
<1>3. cache' \in Chosen /\ AskedInv'
  BY <1>1, <1>2, DrawerStepFacts DEF CleanupInv, CleanupTypeOK, AskedInv
<1> QED  BY <1>1, <1>2, <1>3, DrawerStepFacts, RestFacts, DrawerFacts

LEMMA StatusStep ==
    ASSUME CleanupConstants, CleanupInv, Cleanup!Status
    PROVE  CleanupInv'
<1> DEFINE d == IF drawer.open
                THEN [drawer EXCEPT !.saved = drawer.status, !.last = Cleanup!ReadLastPurgeMarker,
                                    !.status = Cleanup!NoMode]
                ELSE [drawer EXCEPT !.status = Cleanup!NoMode]
<1>1. Cleanup!DrawerStep(d) /\ cache' = drawer.status /\ UNCHANGED <<prefs, seen>>
  BY DEF Cleanup!Status
<1>2. Cleanup!NoMode \in Chosen /\ drawer \in DrawerType
  BY DEF Chosen, CleanupInv, CleanupTypeOK
<1>3. drawer.status \in Chosen /\ drawer.open \in BOOLEAN
  BY <1>2 DEF DrawerType
<1>4. [drawer EXCEPT !.status = Cleanup!NoMode] \in DrawerType
  BY <1>2 DEF DrawerType
<1>5. [drawer EXCEPT !.saved = drawer.status, !.last = Cleanup!ReadLastPurgeMarker, !.status = Cleanup!NoMode]
          \in DrawerType
  BY <1>2, <1>3, MarkerType DEF DrawerType
<1>6. d \in DrawerType
  BY <1>3, <1>4, <1>5
<1>7. /\ d.pending = drawer.pending /\ d.ref = drawer.ref /\ d.estimate = drawer.estimate
      /\ d.last = drawer.last \/ d.last = Cleanup!ReadLastPurgeMarker
  BY <1>2 DEF DrawerType
<1> HIDE DEF d
<1>8. drawer' = d /\ UNCHANGED <<now, files, sweep, sized, markers, removed, untold>>
  BY <1>1, DrawerStepFacts
<1>9. AskedInv' /\ cache' \in Chosen
  BY <1>1, <1>3, <1>7, <1>8 DEF CleanupInv, AskedInv
<1> QED  BY <1>1, <1>6, <1>7, <1>8, <1>9, RestFacts, DrawerFacts

LEMMA ClickStep ==
    ASSUME CleanupConstants, CleanupInv, NEW mode \in Cleanup!Modes, Cleanup!Click(mode)
    PROVE  CleanupInv'
<1> DEFINE d == IF mode = drawer.saved
                THEN [drawer EXCEPT !.pending = Cleanup!NoMode, !.ref = Cleanup!NoMode, !.estimate = Cleanup!NoMode]
                ELSE [drawer EXCEPT !.pending = mode, !.ref = mode, !.estimate = Cleanup!NoMode,
                                    !.asked = IF mode = "never" THEN @ ELSE @ \cup {mode}]
<1>1. Cleanup!DrawerStep(d) /\ UNCHANGED <<prefs, cache, seen>>
  BY DEF Cleanup!Click
<1>2. Cleanup!NoMode \in Chosen /\ mode \in Chosen /\ drawer \in DrawerType
  BY DEF Chosen, CleanupInv, CleanupTypeOK
<1>3. drawer.asked \in SUBSET Cleanup!Modes
  BY <1>2 DEF DrawerType
<1>4. (IF mode = "never" THEN drawer.asked ELSE drawer.asked \cup {mode}) \in SUBSET Cleanup!Modes
  BY <1>3
<1>5. d \in DrawerType
  BY <1>2, <1>4 DEF DrawerType
<1>6. /\ d.pending # Cleanup!NoMode => d.ref = d.pending
      /\ d.estimate = Cleanup!NoMode /\ d.last = drawer.last
  BY <1>2 DEF DrawerType
<1> HIDE DEF d
<1>7. drawer' = d /\ UNCHANGED <<now, files, sweep, sized, markers, removed, untold>>
  BY <1>1, DrawerStepFacts
<1>8. AskedInv' /\ cache' \in Chosen
  BY <1>1, <1>6, <1>7 DEF CleanupInv, CleanupTypeOK, AskedInv
<1> QED  BY <1>1, <1>5, <1>6, <1>7, <1>8, RestFacts, DrawerFacts

LEMMA EstimateStep ==
    ASSUME CleanupConstants, CleanupInv, NEW mode \in Cleanup!Modes, Cleanup!Estimate(mode)
    PROVE  CleanupInv'
<1> DEFINE d == [drawer EXCEPT !.asked = @ \ {mode},
                               !.estimate = IF drawer.open /\ drawer.ref = mode THEN mode ELSE @]
<1>1. Cleanup!DrawerStep(d) /\ UNCHANGED <<prefs, cache, seen>>
  BY DEF Cleanup!Estimate
<1>2. mode \in Chosen /\ drawer \in DrawerType
  BY DEF Chosen, CleanupInv, CleanupTypeOK
<1>3. /\ drawer.asked \ {mode} \in SUBSET Cleanup!Modes
      /\ (IF drawer.open /\ drawer.ref = mode THEN mode ELSE drawer.estimate) \in Chosen
  BY <1>2 DEF DrawerType
<1>4. d \in DrawerType
  BY <1>2, <1>3 DEF DrawerType
<1>5. /\ d.pending = drawer.pending /\ d.ref = drawer.ref /\ d.last = drawer.last
      /\ d.estimate = IF drawer.open /\ drawer.ref = mode THEN mode ELSE drawer.estimate
  BY <1>2 DEF DrawerType
<1> HIDE DEF d
<1>6. drawer' = d /\ UNCHANGED <<now, files, sweep, sized, markers, removed, untold>>
  BY <1>1, DrawerStepFacts
<1>7. AskedInv' /\ cache' \in Chosen
  BY <1>1, <1>5, <1>6 DEF CleanupInv, CleanupTypeOK, AskedInv
<1> QED  BY <1>1, <1>4, <1>5, <1>6, <1>7, RestFacts, DrawerFacts

LEMMA ApplyStep ==
    ASSUME CleanupConstants, CleanupInv, Cleanup!Apply
    PROVE  CleanupInv'
<1>1. drawer \in DrawerType /\ drawer.pending \in Chosen
  BY DEF CleanupInv, CleanupTypeOK, DrawerType
<1>2. CASE /\ Cleanup!Write(Cleanup!Settings("there", drawer.pending, Cleanup!Marks)) /\ cache' = drawer.pending
           /\ Cleanup!DrawerStep([drawer EXCEPT !.setting = drawer.pending])
  <2> DEFINE d == [drawer EXCEPT !.setting = drawer.pending]
  <2>1. d \in DrawerType /\ d.pending = drawer.pending /\ d.ref = drawer.ref /\ d.estimate = drawer.estimate
        /\ d.last = drawer.last
    BY <1>1 DEF DrawerType
  <2>2. Cleanup!Settings("there", drawer.pending, Cleanup!Marks)
            \in [is : {"there", "unreadable"}, mode : Chosen, marks : SUBSET OtherKey]
    BY <1>1 DEF Cleanup!Settings, Cleanup!Marks, CleanupInv, CleanupTypeOK
  <2>3. drawer' = d /\ UNCHANGED <<now, files, sweep, sized, markers, removed, untold>>
    BY <1>2, DrawerStepFacts
  <2> HIDE DEF d
  <2>4. AskedInv' /\ cache' \in Chosen
    BY <1>1, <1>2, <2>1, <2>3 DEF CleanupInv, AskedInv
  <2> QED  BY <1>2, <2>1, <2>2, <2>3, <2>4, WriteFacts, DrawerFacts
<1>3. CASE Cleanup!DrawerStep(drawer) /\ UNCHANGED <<prefs, cache, seen>>
  <2>1. drawer' = drawer /\ UNCHANGED <<now, files, sweep, sized, markers, removed, untold>>
    BY <1>3, DrawerStepFacts
  <2>2. AskedInv' /\ cache' \in Chosen
    BY <1>3, <2>1 DEF CleanupInv, CleanupTypeOK, AskedInv
  <2> QED  BY <1>1, <1>3, <2>1, <2>2, RestFacts, DrawerFacts
<1> QED  BY <1>2, <1>3 DEF Cleanup!Apply

LEMMA AppliedStep ==
    ASSUME CleanupConstants, CleanupInv, Cleanup!Applied \/ Cleanup!Cancel
    PROVE  CleanupInv'
<1>1. Cleanup!NoMode \in Chosen /\ drawer \in DrawerType /\ drawer.setting \in Chosen
  BY DEF Chosen, CleanupInv, CleanupTypeOK, DrawerType
<1>2. PICK d \in DrawerType : Cleanup!DrawerStep(d) /\ d.pending = Cleanup!NoMode /\ d.last = drawer.last
  <2>1. CASE Cleanup!Applied
    <3> DEFINE d == [drawer EXCEPT !.saved = drawer.setting, !.pending = Cleanup!NoMode,
                                   !.estimate = Cleanup!NoMode, !.setting = Cleanup!NoMode]
    <3>1. d \in DrawerType /\ d.pending = Cleanup!NoMode /\ d.last = drawer.last
      BY <1>1 DEF DrawerType
    <3>2. Cleanup!DrawerStep(d)
      BY <2>1 DEF Cleanup!Applied
    <3> HIDE DEF d
    <3> QED  BY <3>1, <3>2
  <2>2. CASE Cleanup!Cancel
    <3> DEFINE d == [drawer EXCEPT !.pending = Cleanup!NoMode, !.ref = Cleanup!NoMode, !.estimate = Cleanup!NoMode]
    <3>1. d \in DrawerType /\ d.pending = Cleanup!NoMode /\ d.last = drawer.last
      BY <1>1 DEF DrawerType
    <3>2. Cleanup!DrawerStep(d)
      BY <2>2 DEF Cleanup!Cancel
    <3> HIDE DEF d
    <3> QED  BY <3>1, <3>2
  <2> QED  BY <2>1, <2>2
<1>3. UNCHANGED <<prefs, cache, seen>>
  BY DEF Cleanup!Applied, Cleanup!Cancel
<1>4. drawer' = d /\ UNCHANGED <<now, files, sweep, sized, markers, removed, untold>>
  BY <1>2, DrawerStepFacts
<1>5. AskedInv' /\ cache' \in Chosen
  BY <1>2, <1>3, <1>4 DEF CleanupInv, CleanupTypeOK, AskedInv
<1> QED  BY <1>2, <1>3, <1>4, <1>5, RestFacts, DrawerFacts

-----------------------------------------------------------------------------
(* The sweep.                                                              *)

\* What the sweep's phase says of it.
LEMMA SweepFacts ==
    ASSUME CleanupInv
    PROVE  /\ sweep \in SweepType
           /\ sweep.mode \in Chosen /\ sweep.at \in Int /\ sweep.todo \subseteq SessionFile
           /\ sweep.targets \subseteq SessionFile /\ sweep.done \subseteq SessionFile
BY DEF CleanupInv, CleanupTypeOK, SweepType

\* A sweep that starts, reads the mode or lists the files, or stats one of
\* them: nothing of the trail changes.
LEMMA LookFacts ==
    ASSUME CleanupConstants, CleanupInv,
           UNCHANGED <<prefs, now, files, markers, drawer, removed, untold>>,
           sweep' \in SweepType,
           seen' \subseteq Cleanup!Modes,
           sized' \in {sized, DOMAIN files},
           cache' \in Chosen,
           sweep.done = {}, sweep'.done = {},
           sweep.pc # "unlink",
           SweepInv'
    PROVE  CleanupInv'
<1>1. CleanupTypeOK'
  BY DEF CleanupInv, CleanupTypeOK
<1>2. RemovedInv'
  BY DEF CleanupInv, RemovedInv, Removed, Cutoff
<1>3. AskedInv'
  BY DEF CleanupInv, AskedInv
<1>4. SizeInv'
  BY DEF CleanupInv, SizeInv
<1> QED  BY <1>1, <1>2, <1>3, <1>4 DEF CleanupInv

LEMMA BeginSweepStep ==
    ASSUME CleanupConstants, CleanupInv, Cleanup!BeginSweep
    PROVE  CleanupInv'
<1>1. /\ sweep.pc = "idle" /\ sweep' = [Cleanup!NoSweep EXCEPT !.pc = "reading"] /\ seen' = {Cleanup!ModeIn(prefs)}
      /\ UNCHANGED <<prefs, cache, now, files, sized, markers, drawer, removed, untold>>
  BY DEF Cleanup!BeginSweep
<1>2. sweep' \in SweepType /\ sweep'.pc = "reading" /\ sweep'.targets = {} /\ sweep'.done = {}
  BY <1>1, NoSweepFacts DEF SweepType
<1>3. Cleanup!ModeIn(prefs) \in Cleanup!Modes /\ Cleanup!ModeIn(prefs)' = Cleanup!ModeIn(prefs)
  BY <1>1, ModeInFacts DEF CleanupInv, CleanupTypeOK, Cleanup!ModeIn
<1>4. SweepInv'
  BY <1>1, <1>2, <1>3 DEF SweepInv
<1>5. sweep.done = {} /\ cache' \in Chosen
  BY <1>1 DEF CleanupInv, CleanupTypeOK, SweepInv
<1> QED  BY <1>1, <1>2, <1>3, <1>4, <1>5, LookFacts

LEMMA SweepReadsStep ==
    ASSUME CleanupConstants, CleanupInv, Cleanup!SweepReads
    PROVE  CleanupInv'
<1>1. /\ sweep.pc = "reading" /\ sweep' = [sweep EXCEPT !.pc = "read", !.mode = Cleanup!ModeIn(prefs)]
      /\ UNCHANGED <<prefs, cache, now, files, sized, markers, drawer, seen, removed, untold>>
  BY DEF Cleanup!SweepReads
<1>2. Cleanup!ModeIn(prefs) \in Cleanup!Modes /\ Cleanup!ModeIn(prefs)' = Cleanup!ModeIn(prefs)
  BY <1>1, ModeInFacts DEF CleanupInv, CleanupTypeOK, Cleanup!ModeIn
<1>3. /\ sweep' \in SweepType /\ sweep'.pc = "read" /\ sweep'.mode = Cleanup!ModeIn(prefs)
      /\ sweep'.targets = sweep.targets /\ sweep'.done = sweep.done
  BY <1>1, <1>2, SweepFacts DEF SweepType, Chosen
<1>4. sweep.done = {} /\ sweep.targets = {} /\ Cleanup!ModeIn(prefs) \in seen
  BY <1>1 DEF CleanupInv, SweepInv
<1>5. SweepInv'
  BY <1>1, <1>2, <1>3, <1>4 DEF SweepInv
<1>6. cache' \in Chosen /\ seen' \subseteq Cleanup!Modes
  BY <1>1 DEF CleanupInv, CleanupTypeOK
<1> QED  BY <1>1, <1>3, <1>4, <1>5, <1>6, LookFacts

LEMMA ListStep ==
    ASSUME CleanupConstants, CleanupInv, Cleanup!List
    PROVE  CleanupInv'
<1>1. /\ sweep.pc = "read" /\ cache' = sweep.mode
      /\ UNCHANGED <<prefs, now, files, markers, drawer, seen, removed, untold>>
  BY DEF Cleanup!List
<1>2. sized' = sized \/ sized' = DOMAIN files
  BY DEF Cleanup!List, Cleanup!ComputeDirSize, Cleanup!Names
<1>3. /\ sweep.done = {} /\ sweep.targets = {} /\ sweep.mode \in seen /\ Cleanup!ModeIn(prefs) \in seen
      /\ Cleanup!ModeIn(prefs)' = Cleanup!ModeIn(prefs) /\ seen \subseteq Cleanup!Modes
  BY <1>1 DEF CleanupInv, CleanupTypeOK, SweepInv, Cleanup!ModeIn
<1>4. cache' \in Chosen /\ seen' \subseteq Cleanup!Modes
  BY <1>1, <1>3, SweepFacts
<1>5. CASE sweep.mode = "never"
  <2>1. sweep' = Cleanup!NoSweep
    BY <1>5 DEF Cleanup!List
  <2>2. sweep' \in SweepType /\ sweep'.pc = "idle" /\ sweep'.targets = {} /\ sweep'.done = {}
    BY <2>1, NoSweepFacts
  <2>3. SweepInv'
    BY <2>1, <2>2 DEF SweepInv, Cleanup!NoSweep
  <2> QED  BY <1>1, <1>2, <1>3, <1>4, <2>2, <2>3, LookFacts
<1>6. CASE sweep.mode # "never"
  <2>1. sweep' = [sweep EXCEPT !.pc = "stat", !.at = now, !.todo = Cleanup!Names \cap SessionFile]
    BY <1>6 DEF Cleanup!List
  <2>2. now \in Int
    BY DEF CleanupInv, CleanupTypeOK
  <2>3. /\ sweep' \in SweepType /\ sweep'.pc = "stat" /\ sweep'.mode = sweep.mode /\ sweep'.at = now
        /\ sweep'.targets = {} /\ sweep'.done = {}
    BY <1>3, <2>1, <2>2, SweepFacts DEF SweepType
  <2>4. sweep.mode \in Ages /\ now <= now
    BY <1>3, <1>6, <2>2 DEF Ages
  <2>5. SweepInv'
    BY <1>1, <1>3, <2>3, <2>4 DEF SweepInv
  <2> QED  BY <1>1, <1>2, <1>3, <1>4, <2>3, <2>5, LookFacts
<1> QED  BY <1>5, <1>6

\* collectPurgable: of a file that is old by both its times, the name and the
\* last write; the others are left alone.
LEMMA StatStep ==
    ASSUME CleanupConstants, CleanupInv, Cleanup!Stat
    PROVE  CleanupInv'
<1>1. sweep.pc = "stat" /\ UNCHANGED <<prefs, cache, now, files, sized, markers, drawer, seen, removed, untold>>
  BY DEF Cleanup!Stat
<1>2. /\ sweep.done = {} /\ sweep.mode \in seen /\ sweep.mode \in Ages /\ sweep.at <= now
      /\ Cleanup!ModeIn(prefs) \in seen /\ Cleanup!ModeIn(prefs)' = Cleanup!ModeIn(prefs)
  BY <1>1 DEF CleanupInv, SweepInv, Cleanup!ModeIn
<1>3. cache' \in Chosen /\ seen' \subseteq Cleanup!Modes
  BY <1>1 DEF CleanupInv, CleanupTypeOK
<1>4. CASE sweep.todo = {}
  <2>1. sweep' = [sweep EXCEPT !.pc = "unlink"]
    BY <1>4 DEF Cleanup!Stat
  <2>2. /\ sweep' \in SweepType /\ sweep'.pc = "unlink" /\ sweep'.mode = sweep.mode /\ sweep'.at = sweep.at
        /\ sweep'.targets = sweep.targets /\ sweep'.done = {}
    BY <1>2, <2>1, SweepFacts DEF SweepType
  <2>3. SweepInv'
    BY <1>1, <1>2, <2>2 DEF SweepInv, CleanupInv, Cutoff
  <2> QED  BY <1>1, <1>2, <1>3, <2>2, <2>3, LookFacts
<1>5. CASE sweep.todo # {}
  <2> DEFINE f == CHOOSE x \in sweep.todo : TRUE
             old == {g \in {f} \cap Cleanup!Names : Cleanup!Old(Cleanup!Max({Born[f], files[f]}))}
  <2>1. f \in sweep.todo /\ f \in SessionFile
    BY <1>5, SweepFacts
  <2>2. sweep' = [sweep EXCEPT !.todo = @ \ {f}, !.targets = @ \cup old]
    BY <1>5 DEF Cleanup!Stat
  <2>3. \A g \in old : /\ g = f /\ g \in DOMAIN files
                       /\ Cleanup!Max({Born[g], files[g]}) < Cutoff(sweep.at, sweep.mode)
    BY DEF Cleanup!Names, Cleanup!Old, Cutoff
  <2> HIDE DEF f, old
  <2>4. \A g \in old : g \in DOMAIN files /\ Born[g] < Cutoff(sweep.at, sweep.mode) /\ files[g] < Cutoff(sweep.at, sweep.mode)
    <3>1. SUFFICES ASSUME NEW g \in old
                   PROVE  Born[g] < Cutoff(sweep.at, sweep.mode) /\ files[g] < Cutoff(sweep.at, sweep.mode)
      BY <2>3
    <3>2. g \in SessionFile /\ g \in DOMAIN files
      BY <2>1, <2>3
    <3>3. Born[g] \in Int /\ files[g] \in Int
      BY <3>2 DEF CleanupConstants, CleanupInv, CleanupTypeOK
    <3>4. Cutoff(sweep.at, sweep.mode) \in Int
      BY <1>2, ModeFacts, SweepFacts DEF Cutoff
    <3> QED  BY <2>3, <3>3, <3>4, LaterFacts
  <2>5. old \subseteq SessionFile
    BY <2>1, <2>3
  <2>6. /\ sweep' \in SweepType /\ sweep'.pc = "stat" /\ sweep'.mode = sweep.mode /\ sweep'.at = sweep.at
        /\ sweep'.targets = sweep.targets \cup old /\ sweep'.done = {}
    BY <1>1, <1>2, <2>2, <2>5, SweepFacts DEF SweepType
  <2>7. SweepInv'
    <3>1. \A g \in sweep.targets \cup old :
              /\ g \in DOMAIN files /\ Born[g] < Cutoff(sweep.at, sweep.mode)
              /\ files[g] < Cutoff(sweep.at, sweep.mode) \/ files[g] >= sweep.at
      BY <2>4 DEF CleanupInv, SweepInv
    <3> QED  BY <1>1, <1>2, <2>6, <3>1 DEF SweepInv, Cutoff
  <2> QED  BY <1>1, <1>2, <1>3, <2>6, <2>7, LookFacts
<1> QED  BY <1>4, <1>5

\* purge: a file that cannot be removed is left behind; one that can is gone
\* and counted.
LEMMA UnlinkStep ==
    ASSUME CleanupConstants, CleanupInv, Cleanup!Unlink
    PROVE  CleanupInv'
<1> DEFINE f == CHOOSE x \in sweep.targets : TRUE
<1>1. /\ sweep.pc = "unlink" /\ f \in sweep.targets
      /\ UNCHANGED <<prefs, cache, now, sized, markers, drawer, seen, untold>>
  BY DEF Cleanup!Unlink
<1>2. /\ \/ /\ sweep' = [sweep EXCEPT !.targets = @ \ {f}] /\ UNCHANGED <<files, removed>>
         \/ /\ sweep' = [sweep EXCEPT !.targets = @ \ {f}, !.done = @ \cup {f}]
            /\ files' = [g \in DOMAIN files \ {f} |-> files[g]]
            /\ removed' = removed \cup
                   {[file |-> f, mode |-> sweep.mode, at |-> sweep.at, written |-> files[f]]}
  BY DEF Cleanup!Unlink, Cleanup!Names
<1> HIDE DEF f
<1>3. /\ f \in SessionFile /\ f \in DOMAIN files /\ Born[f] < Cutoff(sweep.at, sweep.mode)
      /\ files[f] < Cutoff(sweep.at, sweep.mode) \/ files[f] >= sweep.at
      /\ sweep.mode \in Ages /\ sweep.mode \in seen /\ Cleanup!ModeIn(prefs) \in seen /\ sweep.at <= now
      /\ files[f] \in Int
  BY <1>1, SweepFacts DEF CleanupInv, SweepInv, CleanupTypeOK
<1>4. Cleanup!ModeIn(prefs)' = Cleanup!ModeIn(prefs)
  BY <1>1 DEF Cleanup!ModeIn
<1>5. CASE sweep' = [sweep EXCEPT !.targets = @ \ {f}] /\ UNCHANGED <<files, removed>>
  <2>1. /\ sweep' \in SweepType /\ sweep'.pc = "unlink" /\ sweep'.mode = sweep.mode /\ sweep'.at = sweep.at
        /\ sweep'.targets = sweep.targets \ {f} /\ sweep'.done = sweep.done
    BY <1>1, <1>5, SweepFacts DEF SweepType
  <2>2. CleanupTypeOK'
    BY <1>1, <1>5, <2>1 DEF CleanupInv, CleanupTypeOK
  <2>3. SweepInv'
    BY <1>1, <1>3, <1>4, <1>5, <2>1 DEF CleanupInv, SweepInv, Cutoff
  <2>4. RemovedInv'
    BY <1>1, <1>5, <2>1 DEF CleanupInv, RemovedInv, Removed, Cutoff
  <2>5. SizeInv' /\ AskedInv'
    BY <1>1, <2>1 DEF CleanupInv, SizeInv, AskedInv
  <2> QED  BY <2>2, <2>3, <2>4, <2>5 DEF CleanupInv
<1>6. CASE /\ sweep' = [sweep EXCEPT !.targets = @ \ {f}, !.done = @ \cup {f}]
           /\ files' = [g \in DOMAIN files \ {f} |-> files[g]]
           /\ removed' = removed \cup
                  {[file |-> f, mode |-> sweep.mode, at |-> sweep.at, written |-> files[f]]}
  <2> DEFINE r == [file |-> f, mode |-> sweep.mode, at |-> sweep.at, written |-> files[f]]
  <2>1. /\ sweep' \in SweepType /\ sweep'.pc = "unlink" /\ sweep'.mode = sweep.mode /\ sweep'.at = sweep.at
        /\ sweep'.targets = sweep.targets \ {f} /\ sweep'.done = sweep.done \cup {f}
    BY <1>1, <1>3, <1>6, SweepFacts DEF SweepType
  <2>2. /\ DOMAIN files' = DOMAIN files \ {f}
        /\ \A g \in DOMAIN files \ {f} : files'[g] = files[g]
        /\ files' \in [DOMAIN files \ {f} -> Int]
    BY <1>6 DEF CleanupInv, CleanupTypeOK
  <2>3. /\ removed' = removed \cup {r} /\ r.file = f /\ r.mode = sweep.mode /\ r.at = sweep.at /\ r.written = files[f]
        /\ r \in [file : SessionFile, mode : Ages, at : Int, written : Int]
    BY <1>3, <1>6, SweepFacts
  <2> HIDE DEF r
  <2>4. OtherFile \subseteq DOMAIN files'
    BY <1>3, <2>2 DEF CleanupConstants, CleanupInv, CleanupTypeOK
  <2>5. CleanupTypeOK'
    BY <1>1, <2>1, <2>2, <2>3, <2>4 DEF CleanupInv, CleanupTypeOK
  <2>6. SweepInv'
    BY <1>1, <1>3, <1>4, <2>1, <2>2 DEF CleanupInv, SweepInv, Cutoff
  <2>7. Removed' = Removed \cup {f}
    BY <2>3 DEF Removed
  <2>8. \A x \in removed' :
            /\ Born[x.file] < Cutoff(x.at, x.mode)
            /\ x.written < Cutoff(x.at, x.mode) \/ x.written >= x.at
            /\ x.file \in (sweep.done \cup {f}) \cup untold \cup UNION {markers[i] : i \in DOMAIN markers}
    BY <1>3, <2>3 DEF CleanupInv, RemovedInv
  <2>9. RemovedInv'
    BY <1>1, <2>1, <2>7, <2>8 DEF CleanupInv, RemovedInv, Cutoff
  <2>10. SizeInv' /\ AskedInv'
    BY <1>1, <2>1 DEF CleanupInv, SizeInv, AskedInv
  <2> QED  BY <2>5, <2>6, <2>9, <2>10 DEF CleanupInv
<1> QED  BY <1>2, <1>5, <1>6

\* A sweep that is over, at its end or with the app: what it removed is in a
\* marker, or counts as untold.
LEMMA SweepOver ==
    ASSUME CleanupConstants, CleanupInv,
           UNCHANGED <<prefs, now, files, seen, removed>>, sweep' = Cleanup!NoSweep,
           cache' \in Chosen,
           sized' \in {Cleanup!NoSize, DOMAIN files},
           drawer' \in {drawer, Cleanup!Closed},
           untold' \subseteq SessionFile, untold \subseteq untold',
           \/ markers' = markers /\ sweep.done \subseteq untold'
           \/ markers' = Append(markers, sweep.done)
    PROVE  CleanupInv'
<1>1. sweep' \in SweepType /\ sweep'.pc = "idle" /\ sweep'.targets = {} /\ sweep'.done = {}
  BY NoSweepFacts
<1>2. drawer' \in DrawerType
  BY ClosedFacts DEF CleanupInv, CleanupTypeOK
<1>3. markers \in Seq(SUBSET SessionFile) /\ sweep.done \in SUBSET SessionFile
  BY SweepFacts DEF CleanupInv, CleanupTypeOK
<1>4. /\ markers' \in Seq(SUBSET SessionFile)
      /\ \A i \in DOMAIN markers : i \in DOMAIN markers' /\ markers'[i] = markers[i]
      /\ \A i \in DOMAIN markers' : i \in DOMAIN markers \/ markers'[i] = sweep.done
      /\ sweep.done \subseteq untold' \/ \E i \in DOMAIN markers' : markers'[i] = sweep.done
  <2>1. CASE markers' = markers /\ sweep.done \subseteq untold'
    BY <1>3, <2>1
  <2>2. CASE markers' = Append(markers, sweep.done)
    <3>1. /\ DOMAIN markers = 1 .. Len(markers) /\ DOMAIN markers' = 1 .. Len(markers) + 1
          /\ Len(markers) \in Nat
      BY <1>3, <2>2
    <3>2. \A i \in 1 .. Len(markers) : markers'[i] = markers[i]
      BY <1>3, <2>2
    <3>3. markers'[Len(markers) + 1] = sweep.done
      BY <1>3, <2>2
    <3>4. markers' \in Seq(SUBSET SessionFile)
      BY <1>3, <2>2
    <3> QED  BY <3>1, <3>2, <3>3, <3>4
  <2> QED  BY <2>1, <2>2
<1>5. CleanupTypeOK'
  BY <1>1, <1>2, <1>4 DEF CleanupInv, CleanupTypeOK
<1>6. SweepInv'
  BY <1>1 DEF SweepInv
<1>7. Removed' = Removed
  BY DEF Removed
<1>8. \A r \in removed : r.file \in untold' \cup UNION {markers'[i] : i \in DOMAIN markers'}
  <2>1. SUFFICES ASSUME NEW r \in removed
                 PROVE  r.file \in untold' \cup UNION {markers'[i] : i \in DOMAIN markers'}
    OBVIOUS
  <2>2. r.file \in (sweep.done \cup untold) \/ \E i \in DOMAIN markers : r.file \in markers[i]
    BY DEF CleanupInv, RemovedInv
  <2> QED  BY <1>4, <2>2
<1>9. \A i \in DOMAIN markers' : markers'[i] \subseteq Removed
  BY <1>4 DEF CleanupInv, RemovedInv
<1>10. drawer'.last # Cleanup!NoMarker => drawer'.last \subseteq Removed
  BY ClosedFacts DEF CleanupInv, RemovedInv
<1>11. \A r \in removed : /\ Born[r.file] < Cutoff(r.at, r.mode)
                          /\ r.written < Cutoff(r.at, r.mode) \/ r.written >= r.at
  BY DEF CleanupInv, RemovedInv
<1>12. RemovedInv'
  BY <1>1, <1>7, <1>8, <1>9, <1>10, <1>11 DEF RemovedInv, Cutoff
<1>13. SizeInv' /\ AskedInv'
  BY ClosedFacts DEF CleanupInv, SizeInv, AskedInv
<1> QED  BY <1>5, <1>6, <1>12, <1>13 DEF CleanupInv

LEMMA EndSweepStep ==
    ASSUME CleanupConstants, CleanupInv, Cleanup!EndSweep \/ Cleanup!Restart
    PROVE  CleanupInv'
<1>1. sweep.done \subseteq SessionFile /\ untold \subseteq SessionFile /\ cache \in Chosen
  BY SweepFacts DEF CleanupInv, CleanupTypeOK
<1>2. CASE Cleanup!EndSweep
  <2>1. PICK told1 \in {sweep.done, {}} :
          /\ markers' = IF told1 = {} THEN markers ELSE Append(markers, told1)
          /\ untold' = untold \cup (sweep.done \ told1)
    BY <1>2 DEF Cleanup!EndSweep
  <2>2. /\ sweep' = Cleanup!NoSweep /\ sized' = DOMAIN files
        /\ UNCHANGED <<prefs, cache, now, files, drawer, seen, removed>>
    BY <1>2 DEF Cleanup!EndSweep, Cleanup!ComputeDirSize, Cleanup!Names
  <2>3. \/ markers' = markers /\ sweep.done \subseteq untold'
        \/ markers' = Append(markers, sweep.done)
    BY <2>1
  <2> QED  BY <1>1, <2>1, <2>2, <2>3, SweepOver
<1>3. CASE Cleanup!Restart
  <2>1. /\ cache' = Cleanup!NoMode /\ sweep' = Cleanup!NoSweep /\ sized' = Cleanup!NoSize /\ drawer' = Cleanup!Closed
        /\ untold' = untold \cup sweep.done
        /\ UNCHANGED <<prefs, now, files, markers, seen, removed>>
    BY <1>3 DEF Cleanup!Restart
  <2>2. Cleanup!NoMode \in Chosen
    BY DEF Chosen
  <2> QED  BY <1>1, <2>1, <2>2, SweepOver
<1> QED  BY <1>2, <1>3

-----------------------------------------------------------------------------
(* The clock, the sessions, and the whole.                                 *)

LEMMA TickStep ==
    ASSUME CleanupInv, Cleanup!Tick
    PROVE  CleanupInv'
<1>1. /\ now' = now + 1 /\ now \in Int
      /\ UNCHANGED <<prefs, cache, files, sweep, sized, markers, drawer, seen, removed, untold>>
  BY DEF Cleanup!Tick, CleanupInv, CleanupTypeOK
<1>2. CleanupTypeOK'
  BY <1>1 DEF CleanupInv, CleanupTypeOK
<1>3. sweep.at <= now => sweep.at <= now'
  BY <1>1, SweepFacts
<1>4. SweepInv'
  BY <1>1, <1>3 DEF CleanupInv, SweepInv, Cutoff, Cleanup!ModeIn
<1>5. RemovedInv' /\ SizeInv' /\ AskedInv'
  BY <1>1 DEF CleanupInv, RemovedInv, Removed, Cutoff, SizeInv, AskedInv
<1> QED  BY <1>2, <1>4, <1>5 DEF CleanupInv

\* A session that writes while a sweep goes on writes after it began.
LEMMA SessionStep ==
    ASSUME CleanupInv, NEW f \in SessionFile, Cleanup!SessionWrites(f)
    PROVE  CleanupInv'
<1>1. /\ f \in DOMAIN files /\ files' = [files EXCEPT ![f] = now] /\ now \in Int
      /\ UNCHANGED <<prefs, cache, now, sweep, sized, markers, drawer, seen, removed, untold>>
  BY DEF Cleanup!SessionWrites, Cleanup!Names, CleanupInv, CleanupTypeOK
<1>2. files' \in [DOMAIN files -> Int] /\ DOMAIN files' = DOMAIN files
  BY <1>1 DEF CleanupInv, CleanupTypeOK
<1>3. CleanupTypeOK'
  BY <1>1, <1>2 DEF CleanupInv, CleanupTypeOK
<1>4. sweep.targets # {} => sweep.at <= now
  BY NoSweepFacts DEF CleanupInv, CleanupTypeOK, SweepType, SweepInv
<1>5. \A g \in sweep.targets :
          /\ g \in DOMAIN files' /\ Born[g] < Cutoff(sweep.at, sweep.mode)
          /\ files'[g] < Cutoff(sweep.at, sweep.mode) \/ files'[g] >= sweep.at
  <2>1. SUFFICES ASSUME NEW g \in sweep.targets
                 PROVE  /\ g \in DOMAIN files /\ Born[g] < Cutoff(sweep.at, sweep.mode)
                        /\ files'[g] < Cutoff(sweep.at, sweep.mode) \/ files'[g] >= sweep.at
    BY <1>2
  <2>2. CASE g = f
    <3>1. files'[g] = now /\ sweep.at <= now /\ sweep.at \in Int
      BY <1>1, <1>2, <1>4, <2>2, SweepFacts
    <3>2. files'[g] >= sweep.at
      BY <1>1, <3>1
    <3> QED  BY <3>2 DEF CleanupInv, SweepInv
  <2>3. CASE g # f
    <3>1. g \in DOMAIN files
      BY DEF CleanupInv, SweepInv
    <3>2. files'[g] = files[g]
      BY <1>1, <2>3, <3>1 DEF CleanupInv, CleanupTypeOK
    <3> QED  BY <3>2 DEF CleanupInv, SweepInv
  <2> QED  BY <2>2, <2>3
<1>6. SweepInv'
  BY <1>1, <1>5 DEF CleanupInv, SweepInv, Cutoff, Cleanup!ModeIn
<1>7. RemovedInv' /\ SizeInv' /\ AskedInv'
  BY <1>1, <1>2 DEF CleanupInv, RemovedInv, Removed, Cutoff, SizeInv, AskedInv
<1> QED  BY <1>3, <1>6, <1>7 DEF CleanupInv

LEMMA CleanupInitInv ==
    ASSUME CleanupConstants, Cleanup!Init
    PROVE  CleanupInv
<1>1. /\ prefs \in {Cleanup!Settings("unreadable", Cleanup!NoMode, {}), Cleanup!Settings("there", "30d", OtherKey)}
      /\ cache = Cleanup!NoMode /\ now = Cleanup!Max({Born[f] : f \in SessionFile})
      /\ files = [f \in SessionFile \cup OtherFile |-> IF f \in SessionFile THEN Born[f] ELSE 0]
      /\ sweep = Cleanup!NoSweep /\ sized = Cleanup!NoSize /\ markers = <<>> /\ drawer = Cleanup!Closed
      /\ seen = {} /\ removed = {} /\ untold = {}
  BY DEF Cleanup!Init
<1>2. now \in Int
  <2> DEFINE times == {Born[f] : f \in SessionFile}
  <2>1. times \subseteq Int /\ times # {}
    BY DEF CleanupConstants
  <2>2. IsFiniteSet(times)
    <3>1. Born \in Surjection(SessionFile, times)
      BY DEF CleanupConstants, Surjection
    <3> QED  BY <3>1, FS_Surjection DEF CleanupConstants
  <2> HIDE DEF times
  <2>3. Cleanup!Max(times) \in Int
    BY <2>1, <2>2, Greatest
  <2> QED  BY <1>1, <2>3 DEF times
<1>3. prefs \in [is : {"there", "unreadable"}, mode : Chosen, marks : SUBSET OtherKey]
  BY <1>1, ModeFacts DEF Cleanup!Settings, Chosen
<1>4. /\ DOMAIN files = SessionFile \cup OtherFile
      /\ files \in [DOMAIN files -> Int]
  <2>1. \A f \in SessionFile \cup OtherFile : (IF f \in SessionFile THEN Born[f] ELSE 0) \in Int
    BY DEF CleanupConstants
  <2> QED  BY <1>1, <2>1
<1>5. markers \in Seq(SUBSET SessionFile) /\ DOMAIN markers = {} /\ cache \in Chosen
  BY <1>1 DEF Chosen
<1>6. CleanupTypeOK
  BY <1>1, <1>2, <1>3, <1>4, <1>5, NoSweepFacts, ClosedFacts DEF CleanupTypeOK
<1>7. SweepInv
  BY <1>1, NoSweepFacts DEF SweepInv
<1>8. RemovedInv
  BY <1>1, <1>5, NoSweepFacts, ClosedFacts DEF RemovedInv
<1>9. SizeInv /\ AskedInv
  BY <1>1, ClosedFacts DEF SizeInv, AskedInv
<1> QED  BY <1>6, <1>7, <1>8, <1>9 DEF CleanupInv

LEMMA CleanupStep ==
    ASSUME CleanupConstants, CleanupInv, [Cleanup!Next]_(Cleanup!retentionVars)
    PROVE  CleanupInv'
<1>1. CASE UNCHANGED Cleanup!retentionVars
  <2>1. UNCHANGED <<prefs, cache, now, files, sweep, sized, markers, drawer, seen, removed, untold>>
    BY <1>1 DEF Cleanup!retentionVars
  <2>2. cache' \in Chosen /\ drawer' \in DrawerType /\ AskedInv'
    BY <2>1 DEF CleanupInv, CleanupTypeOK, AskedInv
  <2> QED  BY <2>1, <2>2, RestFacts, DrawerFacts
<1>2. CASE Cleanup!BeginSweep \/ Cleanup!SweepReads \/ Cleanup!List \/ Cleanup!Stat \/ Cleanup!Unlink \/ Cleanup!EndSweep \/ Cleanup!Restart
  BY <1>2, BeginSweepStep, SweepReadsStep, ListStep, StatStep, UnlinkStep, EndSweepStep
<1>3. CASE \/ Cleanup!Open \/ Cleanup!Status \/ Cleanup!Apply \/ Cleanup!Applied \/ Cleanup!Cancel \/ Cleanup!Close
           \/ \E m \in Cleanup!Modes : Cleanup!Click(m) \/ Cleanup!Estimate(m)
  BY <1>3, OpenStep, StatusStep, ApplyStep, AppliedStep, ClickStep, EstimateStep
<1>4. CASE \/ Cleanup!SettingsBreak \/ Cleanup!Tick
           \/ \E k \in OtherKey : Cleanup!PutOff(k)
           \/ \E f \in SessionFile : Cleanup!SessionWrites(f)
  BY <1>4, SettingsStep, TickStep, SessionStep
<1> QED  BY <1>1, <1>2, <1>3, <1>4 DEF Cleanup!Next

LEMMA CleanupHolds == Cleanup!Spec => []CleanupInv
<1>0. CleanupConstants
  BY FileAssumption DEF CleanupConstants
<1>1. Cleanup!Init => CleanupInv
  BY <1>0, CleanupInitInv
<1>2. CleanupInv /\ [Cleanup!Next]_(Cleanup!retentionVars) => CleanupInv'
  BY <1>0, CleanupStep
<1> QED  BY <1>1, <1>2, PTL DEF Cleanup!Spec

LEMMA PurgeFollows ==
    ASSUME CleanupInv
    PROVE  PurgeAsChosen
<1>1. sweep.done # {} => sweep.mode \in seen
  BY DEF CleanupInv, SweepInv
<1>2. \A r \in removed :
          /\ r.file \in SessionFile /\ Born[r.file] < r.at - Cleanup!Threshold[r.mode]
          /\ r.written < r.at - Cleanup!Threshold[r.mode] \/ r.written >= r.at
          /\ r.file \in sweep.done \cup untold \cup UNION {markers[i] : i \in DOMAIN markers}
  BY DEF CleanupInv, CleanupTypeOK, RemovedInv, Cutoff
<1>3. drawer.last = Cleanup!NoMarker \/ drawer.last \subseteq {r.file : r \in removed}
  BY DEF CleanupInv, RemovedInv, Removed
<1>4. sweep = Cleanup!NoSweep => Cleanup!RetentionBanner \in {Cleanup!NoSize, Cleanup!Names}
  BY NoSweepFacts DEF CleanupInv, SizeInv, Cleanup!RetentionBanner, Cleanup!Names
<1>5. OtherFile \subseteq Cleanup!Names
  BY DEF CleanupInv, CleanupTypeOK, Cleanup!Names
<1>6. drawer.pending # Cleanup!NoMode => drawer.estimate \in {Cleanup!NoMode, drawer.pending}
  BY DEF CleanupInv, AskedInv
<1> QED  BY <1>1, <1>2, <1>3, <1>4, <1>5, <1>6 DEF PurgeAsChosen, Cleanup!PurgeAsChosen

\* Every state of settings.json, the files, the sweep and the drawer is one the
\* code can hold: no sweep removes a file of another kind.
THEOREM CleanupTypeCorrect == Cleanup!Spec => []CleanupTypeOK
<1>1. CleanupInv => CleanupTypeOK
  BY DEF CleanupInv
<1> QED  BY <1>1, CleanupHolds, PTL

\* purge and its handlers: for any files, any writers of settings.json and any
\* session that goes on writing, a sweep removes only what the chosen mode let
\* it, and what the drawer tells of it is so.
THEOREM PurgeAsChosenHolds == Cleanup!Spec => []PurgeAsChosen
<1>1. CleanupInv => PurgeAsChosen
  BY PurgeFollows
<1> QED  BY <1>1, CleanupHolds, PTL


-----------------------------------------------------------------------------
(* The login: the shape of the state.                                      *)

Who == Logins \cup {Nobody}
As == AuthServer \cup {"none", "any"}
Client == [by : Who, as : As]
Tokens == [by : Who, client : Client, rt : BOOLEAN]

\* Where a login process is; past the start of its callback it has the port.
Ats == {"unborn", "listen", "probe", "stored", "discover", "auth", "client", "tokens", "refresh",
        "redirect", "wait", "exchange", "keepClient", "keepTokens", "finish", "record", "reference",
        "close", "exited"}
Active == Ats \ {"unborn", "listen", "exited"}

Process == [at : Ats, scoped : BOOLEAN, as : As, own : Client, read : BOOLEAN, new : BOOLEAN,
            seen : Tokens, code : Who, held : Tokens, told : BOOLEAN, exit : {"none", "ok", "failed"}]
Pages == [at : {"closed", "asking", "waiting", "complete", "failed", "refused", "unanswered"},
          by : Who, as : As]
Handler == [at : {"idle", "login", "done"}, reconnecting : BOOLEAN,
            answer : {"none", "name-exists", "login-failed", "wrote", "unreadable"}]
Reference == [kind : {"missing", "ok", "corrupt", "newer"}, as : As, fits : BOOLEAN]
Authorization == [as : As, fits : BOOLEAN, changed : BOOLEAN]

StoreType == client \in Client /\ tokens \in Tokens
BrowserType == port \in Who /\ tab \in [Logins -> Pages]
RecordType == ref \in Reference /\ trail \in Seq(Authorization) /\ happened \subseteq Logins
WorldType ==
    /\ conn \in [Logins -> Handler] /\ entry \in {"absent", "bridge", "foreign"}
    /\ removal \subseteq {"tokens", "client"} /\ wrapper \in Tokens /\ server \in AuthServer

LoginTypeOK ==
    /\ proc \in [Logins -> Process]
    /\ StoreType /\ BrowserType /\ RecordType /\ WorldType
    /\ used \in [faults : Nat, others : Nat]

-----------------------------------------------------------------------------
(* The inductive invariant.                                                *)

\* One login at a time is past the start of its callback: the one at the port.
PortInv == \A l \in Logins : proc[l].at \in Active => port = l

\* What finish says to the browsers that wait, and to those that come later.
ToldInv ==
    \A l \in Logins : proc[l].at \in {"finish", "record", "reference"} \/ proc[l].told => l \in happened

\* A reference that fits is that of the last record.
RefInv == ref.fits => ref.kind = "ok" /\ trail # <<>> /\ ref.as = trail[Len(trail)].as

\* Between the record and the write of the reference there is no other record.
RecordInv ==
    \A l \in Logins : proc[l].at = "reference" => trail # <<>> /\ trail[Len(trail)].as = proc[l].as

TruthInv == ToldInv /\ RefInv /\ RecordInv /\ CompleteIsStored /\ ChangeReportedOnce
LoginInv == LoginTypeOK /\ PortInv /\ TruthInv

-----------------------------------------------------------------------------
(* One process at a time moves.                                            *)

Moved(l, r) == proc' = [proc EXCEPT ![l] = r]

LEMMA MovedFacts ==
    ASSUME LoginTypeOK, NEW l \in Logins, NEW r \in Process, Moved(l, r)
    PROVE  /\ proc' \in [Logins -> Process] /\ proc'[l] = r
           /\ \A k \in Logins : k # l => proc'[k] = proc[k]
BY DEF LoginTypeOK, Moved

LEMMA FreshFacts == Fresh \in Process /\ NoProc \in Process /\ NoTokens \in Tokens /\ NoClient \in Client
BY DEF Fresh, NoProc, Process, Ats, NoClient, NoTokens, Tokens, Client, Who, As

\* Out of the try block, and out of the process.
LEMMA OverFacts ==
    ASSUME LoginTypeOK, NEW l \in Logins, NEW e \in {"ok", "failed"}, Over(l, e)
    PROVE  \E r \in Process : Moved(l, r) /\ r.at = "close" /\ r.told = proc[l].told
<1> DEFINE r == With(Fresh, [at |-> "close", exit |-> e, as |-> proc[l].as, code |-> proc[l].code, told |-> proc[l].told])
<1>1. proc[l] \in Process
  BY DEF LoginTypeOK
<1>2. "close" \in Ats
  BY DEF Ats
<1>3. r \in Process /\ r.at = "close" /\ r.told = proc[l].told
  BY <1>1, <1>2, FreshFacts DEF With, Process
<1>4. Moved(l, r)
  BY DEF Over, Moved
<1> QED  BY <1>3, <1>4

LEMMA ExitedFacts ==
    ASSUME LoginTypeOK, NEW l \in Logins, NEW e \in {"none", "ok", "failed"}, Exited(l, e)
    PROVE  \E r \in Process : Moved(l, r) /\ r.at = "exited" /\ r.told = FALSE
<1> DEFINE r == With(Fresh, [at |-> "exited", exit |-> e])
<1>1. "exited" \in Ats /\ Fresh.told = FALSE
  BY DEF Ats, Fresh
<1>2. r \in Process /\ r.at = "exited" /\ r.told = FALSE
  BY <1>1, FreshFacts DEF With, Process
<1>3. Moved(l, r)
  BY DEF Exited, Moved
<1> QED  BY <1>2, <1>3

LEMMA GoFacts ==
    ASSUME LoginTypeOK, NEW l \in Logins, NEW at \in Ats, Go(l, at)
    PROVE  \E r \in Process : Moved(l, r) /\ r.at = at /\ r.told = proc[l].told /\ r.as = proc[l].as
<1> DEFINE r == With(proc[l], [at |-> at])
<1>1. proc[l] \in Process
  BY DEF LoginTypeOK
<1>2. r \in Process /\ r.at = at /\ r.told = proc[l].told /\ r.as = proc[l].as
  BY <1>1 DEF With, Process
<1>3. Moved(l, r)
  BY DEF Go, Set, Moved
<1> QED  BY <1>2, <1>3

-----------------------------------------------------------------------------
(* What a step may do to keep the invariant.                               *)

\* A step of one process, with what it shows in the browser; it records nothing.
LEMMA ProcessStep ==
    ASSUME LoginInv, LoginTypeOK', NEW l \in Logins, NEW r \in Process, Moved(l, r),
           r.at \in Active => port' = l,
           \A k \in Logins : k # l /\ proc[k].at \in Active => port' = k,
           happened \subseteq happened',
           r.at \in {"finish", "record", "reference"} \/ r.told => l \in happened',
           r.at = "reference" => proc[l].at = "reference" /\ r.as = proc[l].as,
           \A t \in Logins : tab'[t].at = "complete" => tab'[t] = tab[t] \/ tab'[t].by \in happened',
           Record
    PROVE  LoginInv'
<1>1. /\ proc'[l] = r /\ \A k \in Logins : k # l => proc'[k] = proc[k]
      /\ ref' = ref /\ trail' = trail
  BY MovedFacts DEF LoginInv, Record
<1>2. PortInv'
  BY <1>1 DEF LoginInv, PortInv
<1>3. ToldInv'
  BY <1>1 DEF LoginInv, TruthInv, ToldInv
<1>4. RefInv'
  BY <1>1 DEF LoginInv, TruthInv, RefInv
<1>5. RecordInv'
  BY <1>1 DEF LoginInv, TruthInv, RecordInv
<1>6. CompleteIsStored'
  BY DEF LoginInv, TruthInv, CompleteIsStored
<1>7. ChangeReportedOnce'
  BY <1>1 DEF LoginInv, TruthInv, ChangeReportedOnce
<1> QED  BY <1>2, <1>3, <1>4, <1>5, <1>6, <1>7 DEF LoginInv, TruthInv

\* No process moves.
LEMMA OtherStep ==
    ASSUME LoginInv, LoginTypeOK', UNCHANGED <<proc, port, tab, trail, happened>>,
           ref' = ref \/ ~ref'.fits
    PROVE  LoginInv'
<1>1. PortInv'
  BY DEF LoginInv, PortInv
<1>2. ToldInv' /\ RecordInv' /\ CompleteIsStored' /\ ChangeReportedOnce'
  BY DEF LoginInv, TruthInv, ToldInv, RecordInv, CompleteIsStored, ChangeReportedOnce
<1>3. RefInv'
  BY DEF LoginInv, TruthInv, RefInv
<1> QED  BY <1>1, <1>2, <1>3 DEF LoginInv, TruthInv

LoginFaultsOnly == used' \in {used, [used EXCEPT !.faults = @ + 1]}

\* A step of the process at the port that only it sees, and the stored items.
LEMMA InnerStep ==
    ASSUME LoginInv, NEW l \in Logins, NEW r \in Process, Moved(l, r), proc[l].at \in Active,
           r.at \notin {"finish", "record", "reference"}, r.told = proc[l].told,
           StoreType', Quiet, LoginFaultsOnly
    PROVE  LoginInv'
<1>1. /\ UNCHANGED <<port, tab, conn, entry, removal, wrapper, server, ref, trail, happened>>
  BY DEF Quiet, Browser, World, Record
<1>2. proc' \in [Logins -> Process]
  BY MovedFacts DEF LoginInv
<1>3. used' \in [faults : Nat, others : Nat]
  BY DEF LoginInv, LoginTypeOK, LoginFaultsOnly
<1>4. BrowserType' /\ RecordType' /\ WorldType'
  BY <1>1 DEF LoginInv, LoginTypeOK, BrowserType, RecordType, WorldType
<1>5. LoginTypeOK'
  BY <1>2, <1>3, <1>4 DEF LoginTypeOK
<1>6. port' = l /\ \A k \in Logins : k # l => proc[k].at \notin Active
  BY <1>1 DEF LoginInv, PortInv
<1>7. r.told => l \in happened
  BY DEF LoginInv, TruthInv, ToldInv
<1>8. Record /\ happened' = happened /\ tab' = tab
  BY <1>1 DEF Record
<1> QED  BY <1>5, <1>6, <1>7, <1>8, ProcessStep

LEMMA StoreKept ==
    ASSUME LoginTypeOK, Store
    PROVE  StoreType'
BY DEF LoginTypeOK, Store, StoreType

LEMMA LoginUsedFacts ==
    /\ Fault => LoginFaultsOnly
    /\ used' = used => LoginFaultsOnly
BY DEF Fault, LoginFaultsOnly

LEMMA ThrowsStep ==
    ASSUME LoginInv, NEW l \in Logins, proc[l].at \in Active, Throws(l)
    PROVE  LoginInv'
<1>1. PICK r \in Process : Moved(l, r) /\ r.at = "close" /\ r.told = proc[l].told
  BY OverFacts DEF LoginInv, Throws
<1> QED  BY <1>1, StoreKept, LoginUsedFacts, InnerStep DEF LoginInv, Throws

LEMMA OverStep ==
    ASSUME LoginInv, NEW l \in Logins, proc[l].at \in Active, NEW e \in {"ok", "failed"}, Over(l, e),
           StoreType', Quiet, LoginFaultsOnly
    PROVE  LoginInv'
<1>1. PICK r \in Process : Moved(l, r) /\ r.at = "close" /\ r.told = proc[l].told
  BY OverFacts DEF LoginInv
<1> QED  BY <1>1, InnerStep

LEMMA GoStep ==
    ASSUME LoginInv, NEW l \in Logins, proc[l].at \in Active, NEW at \in Ats, Go(l, at),
           at \notin {"finish", "record", "reference"}, StoreType', Quiet, LoginFaultsOnly
    PROVE  LoginInv'
<1>1. PICK r \in Process : Moved(l, r) /\ r.at = at /\ r.told = proc[l].told
  BY GoFacts DEF LoginInv
<1> QED  BY <1>1, InnerStep

LEMMA SetStep ==
    ASSUME LoginInv, NEW l \in Logins, proc[l].at \in Active, NEW change, Set(l, change),
           With(proc[l], change) \in Process,
           With(proc[l], change).at \notin {"finish", "record", "reference"},
           With(proc[l], change).told = proc[l].told, StoreType', Quiet, LoginFaultsOnly
    PROVE  LoginInv'
<1>1. Moved(l, With(proc[l], change))
  BY DEF Set, Moved
<1> QED  BY <1>1, InnerStep

LEMMA PortAtFacts ==
    ASSUME NEW l, NEW at \in Active, At(l, at)
    PROVE  proc[l].at \in Active
BY DEF At

-----------------------------------------------------------------------------
(* The steps before the tokens are written.                                *)

LEMMA StartStep ==
    ASSUME LoginInv, NEW l \in Logins, StartCallback(l)
    PROVE  LoginInv'
<1>1. /\ Store /\ World /\ Record /\ tab' = tab /\ happened' = happened /\ used' = used
      /\ ref' = ref /\ trail' = trail /\ proc[l].at = "listen" /\ proc[l] \in Process
  BY DEF StartCallback, Record, At, LoginInv, LoginTypeOK
<1>2. ASSUME NEW r \in Process, Moved(l, r), port' \in Who, r.told => proc[l].told,
             r.at \notin {"finish", "record", "reference"},
             r.at \in Active => port' = l,
             \A k \in Logins : k # l /\ proc[k].at \in Active => port' = k
      PROVE  LoginInv'
  <2>1. LoginTypeOK'
    <3>1. proc' \in [Logins -> Process]
      BY <1>2, MovedFacts DEF LoginInv
    <3>2. StoreType' /\ BrowserType' /\ RecordType' /\ WorldType'
      BY <1>1, <1>2, StoreKept DEF LoginInv, LoginTypeOK, BrowserType, RecordType, WorldType, World
    <3> QED  BY <1>1, <3>1, <3>2 DEF LoginInv, LoginTypeOK
  <2>2. r.told => l \in happened
    BY <1>2 DEF LoginInv, TruthInv, ToldInv
  <2> QED  BY <1>1, <1>2, <2>1, <2>2, ProcessStep
<1>3. CASE port = Nobody
  <2> DEFINE change == [at |-> IF proc[l].scoped THEN "discover" ELSE "probe", scoped |-> FALSE]
             r == With(proc[l], change)
  <2>1. port' = l /\ Set(l, change)
    BY <1>3 DEF StartCallback
  <2>2. r \in Process /\ r.told = proc[l].told /\ r.at \in {"discover", "probe"}
    <3>1. change.at \in {"discover", "probe"} /\ {"discover", "probe"} \subseteq Ats
      BY DEF Ats
    <3> QED  BY <1>1, <3>1 DEF With, Process
  <2>3. Moved(l, r)
    BY <2>1 DEF Set, Moved
  <2>4. \A k \in Logins : proc[k].at \notin Active
    BY <1>3, LoginsAssumption DEF LoginInv, PortInv
  <2> HIDE DEF r
  <2> QED  BY <1>2, <2>1, <2>2, <2>3, <2>4 DEF Who
<1>4. CASE port # Nobody
  <2>1. PICK r \in Process : Moved(l, r) /\ r.at = "exited" /\ r.told = FALSE
    BY <1>4, ExitedFacts DEF StartCallback, LoginInv
  <2>2. port' = port
    BY <1>4 DEF StartCallback
  <2> QED  BY <1>2, <2>1, <2>2 DEF LoginInv, PortInv, LoginTypeOK, BrowserType, Active
<1> QED  BY <1>3, <1>4

LEMMA EarlyStep ==
    ASSUME LoginInv, NEW l \in Logins,
           \/ ProbeAuthorization(l) \/ HasStored(l) \/ Discover(l) \/ SaveDiscoveryState(l)
           \/ ReadTokens(l) \/ WaitForCode(l)
    PROVE  LoginInv'
<1>1. proc[l].at \in Active /\ Quiet /\ LoginFaultsOnly /\ StoreType' /\ proc[l] \in Process
  <2>1. proc[l].at \in {"probe", "stored", "discover", "auth", "tokens", "wait"} /\ Quiet /\ Store
        /\ (used' = used \/ Fault)
    BY DEF ProbeAuthorization, HasStored, Discover, SaveDiscoveryState, ReadTokens, WaitForCode, Throws, At
  <2> QED  BY <2>1, StoreKept, LoginUsedFacts DEF LoginInv, LoginTypeOK, Active, Ats
<1>2. CASE \/ \E e \in {"ok", "failed"} : Over(l, e)
           \/ \E at \in {"auth", "stored", "discover", "exchange"} : Go(l, at)
  BY <1>1, <1>2, OverStep, GoStep DEF Ats
<1>3. CASE SaveDiscoveryState(l) /\ ~Throws(l)
  <2> DEFINE change == [at |-> "client", as |-> server]
  <2>1. Set(l, change)
    BY <1>3 DEF SaveDiscoveryState
  <2>2. /\ With(proc[l], change) \in Process /\ With(proc[l], change).at = "client"
        /\ With(proc[l], change).told = proc[l].told
    BY <1>1 DEF With, Process, Ats, As, LoginInv, LoginTypeOK, WorldType
  <2> HIDE DEF change
  <2> QED  BY <1>1, <2>1, <2>2, SetStep
<1>4. CASE ReadTokens(l)
  <2> DEFINE at == IF tokens.rt /\ tokens.client = proc[l].own THEN "refresh" ELSE "redirect"
             change == [at |-> at, seen |-> tokens]
  <2>1. Set(l, change)
    BY <1>4 DEF ReadTokens
  <2>2. at \in {"refresh", "redirect"} /\ at \in Ats /\ tokens \in Tokens
    BY DEF Ats, LoginInv, LoginTypeOK, StoreType
  <2> HIDE DEF at
  <2>3. /\ With(proc[l], change) \in Process /\ With(proc[l], change).at = at
        /\ With(proc[l], change).told = proc[l].told
    BY <1>1, <2>2 DEF With, Process
  <2> HIDE DEF change
  <2> QED  BY <1>1, <2>1, <2>2, <2>3, SetStep
<1> QED  BY <1>1, <1>2, <1>3, <1>4, ThrowsStep
         DEF ProbeAuthorization, HasStored, Discover, SaveDiscoveryState, WaitForCode

LEMMA ClientStep ==
    ASSUME LoginInv, NEW l \in Logins, ClientInformation(l)
    PROVE  LoginInv'
<1> DEFINE c == IF proc[l].new \/ proc[l].read THEN proc[l].own ELSE client
           new == [by |-> l, as |-> proc[l].as]
           found == [at |-> "tokens", read |-> TRUE, own |-> c]
           saved == [at |-> "tokens", read |-> TRUE, own |-> new, new |-> TRUE]
<1>1. proc[l].at \in Active /\ proc[l] \in Process
  BY DEF ClientInformation, At, Active, Ats, LoginInv, LoginTypeOK
<1>2. c \in Client /\ new \in Client /\ "tokens" \in Ats
  BY <1>1 DEF Client, Process, Who, As, Ats, LoginInv, LoginTypeOK, StoreType
<1>3. \/ Throws(l)
      \/ Quiet /\ Store /\ used' = used /\ (Set(l, found) \/ Set(l, saved))
  BY DEF ClientInformation, SaveClientInformation
<1> HIDE DEF c, new
<1>4. /\ With(proc[l], found) \in Process /\ With(proc[l], found).at = "tokens"
      /\ With(proc[l], found).told = proc[l].told
  BY <1>1, <1>2 DEF With, Process
<1>5. /\ With(proc[l], saved) \in Process /\ With(proc[l], saved).at = "tokens"
      /\ With(proc[l], saved).told = proc[l].told
  BY <1>1, <1>2 DEF With, Process
<1> HIDE DEF found, saved
<1>6. CASE Throws(l)
  BY <1>1, <1>6, ThrowsStep
<1>7. CASE Quiet /\ Store /\ used' = used /\ (Set(l, found) \/ Set(l, saved))
  <2>1. StoreType' /\ LoginFaultsOnly
    BY <1>7, StoreKept, LoginUsedFacts DEF LoginInv
  <2> QED  BY <1>1, <1>4, <1>5, <1>7, <2>1, SetStep
<1> QED  BY <1>3, <1>6, <1>7

-----------------------------------------------------------------------------
(* The steps that write what is stored.                                    *)

LEMMA RejectedFacts ==
    ASSUME LoginTypeOK, NEW l \in Logins, Rejected(l)
    PROVE  StoreType'
BY StoreKept, FreshFacts DEF Rejected, LoginTypeOK, StoreType

LEMMA EmptiedFacts ==
    ASSUME client' = NoClient, tokens' = NoTokens
    PROVE  StoreType'
BY FreshFacts DEF StoreType

LEMMA RefreshStep ==
    ASSUME LoginInv, NEW l \in Logins, Refresh(l)
    PROVE  LoginInv'
<1> DEFINE new == [by |-> l, client |-> proc[l].own, rt |-> TRUE]
           again == [at |-> "auth", read |-> FALSE, new |-> FALSE]
<1>1. proc[l].at \in Active /\ proc[l] \in Process /\ LoginTypeOK
  BY DEF Refresh, At, Active, Ats, LoginInv, LoginTypeOK
<1>2. new \in Tokens
  BY <1>1 DEF Tokens, Process, Who
<1>3. /\ With(proc[l], again) \in Process /\ With(proc[l], again).at = "auth"
      /\ With(proc[l], again).told = proc[l].told
  BY <1>1 DEF With, Process, Ats
<1>4. /\ Quiet
      /\ \/ tokens' = new /\ client' = client /\ used' = used /\ Over(l, "ok")
         \/ Fault /\ Rejected(l) /\ Go(l, "auth")
         \/ Fault /\ client' = NoClient /\ tokens' = NoTokens /\ Set(l, again)
         \/ Fault /\ Store /\ Go(l, "redirect")
  BY DEF Refresh
<1> HIDE DEF new, again
<1>5. "auth" \in Ats /\ "redirect" \in Ats
  BY DEF Ats
<1>6. CASE tokens' = new /\ client' = client /\ used' = used /\ Over(l, "ok")
  <2>1. StoreType' /\ LoginFaultsOnly
    BY <1>1, <1>2, <1>6, LoginUsedFacts DEF LoginTypeOK, StoreType
  <2> QED  BY <1>1, <1>4, <1>6, <2>1, OverStep
<1>7. CASE Fault /\ Rejected(l) /\ Go(l, "auth")
  BY <1>1, <1>4, <1>5, <1>7, RejectedFacts, LoginUsedFacts, GoStep
<1>8. CASE Fault /\ client' = NoClient /\ tokens' = NoTokens /\ Set(l, again)
  BY <1>1, <1>3, <1>4, <1>8, EmptiedFacts, LoginUsedFacts, SetStep
<1>9. CASE Fault /\ Store /\ Go(l, "redirect")
  BY <1>1, <1>4, <1>5, <1>9, StoreKept, LoginUsedFacts, GoStep
<1> QED  BY <1>4, <1>6, <1>7, <1>8, <1>9

LEMMA FinishAuthStep ==
    ASSUME LoginInv, NEW l \in Logins, FinishAuth(l)
    PROVE  LoginInv'
<1> DEFINE own == [proc[l].own EXCEPT !.as = proc[l].as]
           new == proc[l].new \/ proc[l].own.as = "any"
           held == [by |-> l, client |-> own, rt |-> TRUE]
           change == [at |-> "keepClient", held |-> held, own |-> own, new |-> new]
<1>1. proc[l].at \in Active /\ proc[l] \in Process /\ LoginTypeOK
  BY DEF FinishAuth, At, Active, Ats, LoginInv, LoginTypeOK
<1>2. own \in Client /\ held \in Tokens /\ new \in BOOLEAN
  <2>1. own \in Client
    BY <1>1 DEF Client, Process
  <2>2. new \in BOOLEAN
    BY <1>1 DEF Process
  <2> HIDE DEF own
  <2> QED  BY <2>1, <2>2 DEF Tokens, Who
<1>3. /\ Quiet
      /\ \/ used' = used /\ Store /\ Set(l, change)
         \/ used' = used /\ Rejected(l) /\ Over(l, "failed")
         \/ Fault /\ Store /\ Over(l, "failed")
         \/ Fault /\ client' = NoClient /\ tokens' = NoTokens /\ Over(l, "failed")
  BY DEF FinishAuth
<1> HIDE DEF own, new, held
<1>4. "keepClient" \in Ats
  BY DEF Ats
<1>5. /\ With(proc[l], change) \in Process /\ With(proc[l], change).at = "keepClient"
      /\ With(proc[l], change).told = proc[l].told
  BY <1>1, <1>2, <1>4 DEF With, Process
<1> HIDE DEF change
<1>6. CASE used' = used /\ Store /\ Set(l, change)
  BY <1>1, <1>3, <1>5, <1>6, StoreKept, LoginUsedFacts, SetStep
<1>7. CASE used' = used /\ Rejected(l) /\ Over(l, "failed")
  BY <1>1, <1>3, <1>7, RejectedFacts, LoginUsedFacts, OverStep
<1>8. CASE Fault /\ Store /\ Over(l, "failed")
  BY <1>1, <1>3, <1>8, StoreKept, LoginUsedFacts, OverStep
<1>9. CASE Fault /\ client' = NoClient /\ tokens' = NoTokens /\ Over(l, "failed")
  BY <1>1, <1>3, <1>9, EmptiedFacts, LoginUsedFacts, OverStep
<1> QED  BY <1>3, <1>6, <1>7, <1>8, <1>9

LEMMA PersistClientStep ==
    ASSUME LoginInv, NEW l \in Logins, PersistClient(l)
    PROVE  LoginInv'
<1> DEFINE change == [at |-> "keepTokens", own |-> NoClient, new |-> FALSE, seen |-> NoTokens]
<1>1. proc[l].at \in Active /\ proc[l] \in Process /\ LoginTypeOK
  BY DEF PersistClient, At, Active, Ats, LoginInv, LoginTypeOK
<1>2. /\ With(proc[l], change) \in Process /\ With(proc[l], change).at = "keepTokens"
      /\ With(proc[l], change).told = proc[l].told
  BY <1>1, FreshFacts DEF With, Process, Ats
<1>3. \/ /\ Set(l, change) /\ Quiet /\ tokens' = tokens /\ used' = used
         /\ client' = IF proc[l].new THEN proc[l].own ELSE client
      \/ Throws(l)
  BY DEF PersistClient
<1> HIDE DEF change
<1>4. CASE /\ Set(l, change) /\ Quiet /\ tokens' = tokens /\ used' = used
           /\ client' = IF proc[l].new THEN proc[l].own ELSE client
  <2>1. StoreType'
    BY <1>1, <1>4 DEF LoginTypeOK, StoreType, Process
  <2> QED  BY <1>1, <1>2, <1>4, <2>1, LoginUsedFacts, SetStep
<1> QED  BY <1>1, <1>3, <1>4, ThrowsStep

\* happened grows by this login, which has written what it had to.
LEMMA PersistTokensStep ==
    ASSUME LoginInv, NEW l \in Logins, PersistTokens(l)
    PROVE  LoginInv'
<1> DEFINE change == [at |-> "finish", held |-> NoTokens]
           r == With(proc[l], change)
<1>1. proc[l].at \in Active /\ proc[l] \in Process /\ LoginTypeOK /\ port = l
  BY DEF PersistTokens, At, Active, Ats, LoginInv, LoginTypeOK, PortInv
<1>2. r \in Process /\ r.at = "finish" /\ r.told = proc[l].told
  BY <1>1, FreshFacts DEF With, Process, Ats
<1>3. \/ /\ Set(l, change) /\ tokens' = proc[l].held /\ client' = client /\ used' = used
         /\ happened' = happened \union {l} /\ Browser /\ World /\ Record
      \/ Throws(l)
  BY DEF PersistTokens
<1>4. CASE /\ Set(l, change) /\ tokens' = proc[l].held /\ client' = client /\ used' = used
           /\ happened' = happened \union {l} /\ Browser /\ World /\ Record
  <2>1. Moved(l, r)
    BY <1>4 DEF Set, Moved
  <2> HIDE DEF r, change
  <2>2. LoginTypeOK'
    <3>1. proc' \in [Logins -> Process]
      BY <1>1, <1>2, <2>1, MovedFacts
    <3>2. StoreType'
      BY <1>1, <1>4 DEF LoginTypeOK, StoreType, Process
    <3>3. BrowserType' /\ RecordType' /\ WorldType'
      BY <1>1, <1>4 DEF LoginTypeOK, BrowserType, RecordType, WorldType, Browser, World, Record
    <3> QED  BY <1>1, <1>4, <3>1, <3>2, <3>3 DEF LoginTypeOK
  <2>3. port' = port /\ tab' = tab
    BY <1>4 DEF Browser
  <2>4. \A k \in Logins : k # l => proc[k].at \notin Active
    BY <1>1 DEF LoginInv, PortInv
  <2> QED  BY <1>1, <1>2, <1>4, <2>1, <2>2, <2>3, <2>4, ProcessStep
<1> QED  BY <1>1, <1>3, <1>4, ThrowsStep

-----------------------------------------------------------------------------
(* The browser.                                                            *)

LEMMA TabsFacts ==
    ASSUME LoginTypeOK, NEW l \in Logins, NEW at \in {"complete", "failed", "unanswered"}, tab' = Tabs(l, at)
    PROVE  /\ tab' \in [Logins -> Pages]
           /\ \A t \in Logins : tab'[t].at = "complete" =>
                 tab'[t] = tab[t] \/ (at = "complete" /\ tab'[t].by = l)
<1> DEFINE page == Page(at, IF at = "complete" THEN l ELSE Nobody, "none")
<1>1. page \in Pages /\ page.at = at /\ (at = "complete" => page.by = l)
  BY DEF Page, Pages, Who, As
<1>2. \A t \in Logins : tab'[t] \in {tab[t], page}
  BY DEF Tabs
<1>3. tab' = [t \in Logins |-> tab'[t]] /\ tab \in [Logins -> Pages]
  BY DEF Tabs, LoginTypeOK, BrowserType
<1> HIDE DEF page
<1> QED  BY <1>1, <1>2, <1>3

\* A step of one process that leaves the store, the trail and the world alone.
LEMMA BrowserStep ==
    ASSUME LoginInv, NEW l \in Logins, NEW r \in Process, Moved(l, r), LoginFaultsOnly,
           Store, World, Record, happened' = happened,
           port' \in Who, tab' \in [Logins -> Pages],
           r.at \in Active => port' = l,
           \A k \in Logins : k # l /\ proc[k].at \in Active => port' = k,
           r.at \notin {"finish", "record", "reference"} \/ (r.at = "record" /\ l \in happened) \/ r.at = proc[l].at,
           r.at = "reference" => r.as = proc[l].as,
           r.told => proc[l].told \/ l \in happened,
           \A t \in Logins : tab'[t].at = "complete" => tab'[t] = tab[t] \/ tab'[t].by \in happened
    PROVE  LoginInv'
<1>1. LoginTypeOK /\ ToldInv
  BY DEF LoginInv, TruthInv
<1>2. LoginTypeOK'
  <2>1. proc' \in [Logins -> Process]
    BY <1>1, MovedFacts
  <2>2. StoreType' /\ BrowserType' /\ RecordType' /\ WorldType'
    BY <1>1, StoreKept DEF LoginTypeOK, BrowserType, RecordType, WorldType, World, Record
  <2>3. used' \in [faults : Nat, others : Nat]
    BY <1>1 DEF LoginTypeOK, LoginFaultsOnly
  <2> QED  BY <2>1, <2>2, <2>3 DEF LoginTypeOK
<1>3. r.at \in {"finish", "record", "reference"} \/ r.told => l \in happened
  BY <1>1 DEF ToldInv
<1> QED  BY <1>2, <1>3, ProcessStep

LEMMA RedirectStep ==
    ASSUME LoginInv, NEW l \in Logins, RedirectToAuthorization(l)
    PROVE  LoginInv'
<1>1. proc[l].at \in Active /\ proc[l] \in Process /\ LoginTypeOK /\ port = l
  BY DEF RedirectToAuthorization, At, Active, Ats, LoginInv, LoginTypeOK, PortInv
<1>2. PICK r \in Process : Moved(l, r) /\ r.at = "wait" /\ r.told = proc[l].told
  BY <1>1, GoFacts DEF RedirectToAuthorization, Ats
<1> DEFINE page == Page("asking", Nobody, proc[l].as)
<1>3. page \in Pages /\ page.at = "asking"
  BY <1>1 DEF Page, Pages, Who, Process
<1>4. /\ tab' = [tab EXCEPT ![l] = page] /\ Store /\ World /\ Record /\ port' = port /\ happened' = happened
      /\ LoginFaultsOnly
  BY LoginUsedFacts DEF RedirectToAuthorization
<1> HIDE DEF page
<1>5. tab' \in [Logins -> Pages] /\ \A t \in Logins : tab'[t].at = "complete" => tab'[t] = tab[t]
  BY <1>1, <1>3, <1>4 DEF LoginTypeOK, BrowserType
<1>6. port' = l /\ port' \in Who /\ \A k \in Logins : k # l => proc[k].at \notin Active
  BY <1>1, <1>4 DEF LoginInv, PortInv, Who
<1>7. /\ r.at \notin {"finish", "record", "reference"} \/ (r.at = "record" /\ l \in happened) \/ r.at = proc[l].at
      /\ r.at = "reference" => r.as = proc[l].as
      /\ r.told => proc[l].told \/ l \in happened
  BY <1>2
<1>8. \A t \in Logins : tab'[t].at = "complete" => tab'[t] = tab[t] \/ tab'[t].by \in happened
  BY <1>5
<1> QED  BY <1>2, <1>4, <1>5, <1>6, <1>7, <1>8, BrowserStep

LEMMA FinishStep ==
    ASSUME LoginInv, NEW l \in Logins, Finish(l)
    PROVE  LoginInv'
<1> DEFINE change == [at |-> "record", told |-> TRUE]
           r == With(proc[l], change)
<1>1. proc[l].at \in Active /\ proc[l] \in Process /\ LoginTypeOK /\ port = l /\ l \in happened
  BY DEF Finish, At, Active, Ats, LoginInv, LoginTypeOK, PortInv, TruthInv, ToldInv
<1>2. r \in Process /\ r.at = "record"
  BY <1>1 DEF With, Process, Ats
<1>3. Moved(l, r)
  BY DEF Finish, Set, Moved
<1> HIDE DEF r, change
<1>4. /\ tab' = Tabs(l, "complete") /\ Store /\ World /\ Record /\ port' = port /\ happened' = happened
      /\ LoginFaultsOnly
  BY LoginUsedFacts DEF Finish
<1>5. /\ tab' \in [Logins -> Pages]
      /\ \A t \in Logins : tab'[t].at = "complete" => tab'[t] = tab[t] \/ tab'[t].by \in happened
  BY <1>1, <1>4, TabsFacts
<1>6. port' = l /\ port' \in Who /\ \A k \in Logins : k # l => proc[k].at \notin Active
  BY <1>1, <1>4 DEF LoginInv, PortInv, Who
<1> QED  BY <1>1, <1>2, <1>3, <1>4, <1>5, <1>6, BrowserStep

LEMMA CloseStep ==
    ASSUME LoginInv, NEW l \in Logins, Close(l)
    PROVE  LoginInv'
<1>1. proc[l].at \in Active /\ proc[l] \in Process /\ LoginTypeOK /\ port = l
  BY DEF Close, At, Active, Ats, LoginInv, LoginTypeOK, PortInv
<1>2. PICK r \in Process : Moved(l, r) /\ r.at = "exited" /\ r.told = FALSE
  BY <1>1, ExitedFacts DEF Close, Process
<1>3. /\ tab' = Tabs(l, "failed") /\ Store /\ World /\ Record /\ port' = Nobody /\ happened' = happened
      /\ LoginFaultsOnly
  BY LoginUsedFacts DEF Close
<1>4. /\ tab' \in [Logins -> Pages]
      /\ \A t \in Logins : tab'[t].at = "complete" => tab'[t] = tab[t]
  BY <1>1, <1>3, TabsFacts
<1>5. port' \in Who /\ \A k \in Logins : k # l => proc[k].at \notin Active
  BY <1>1, <1>3 DEF LoginInv, PortInv, Who
<1>6. /\ r.at \notin {"finish", "record", "reference"} \/ (r.at = "record" /\ l \in happened) \/ r.at = proc[l].at
      /\ r.at = "reference" => r.as = proc[l].as
      /\ r.told => proc[l].told \/ l \in happened
      /\ r.at \in Active => port' = l
  BY <1>2 DEF Active
<1>7. \A t \in Logins : tab'[t].at = "complete" => tab'[t] = tab[t] \/ tab'[t].by \in happened
  BY <1>4
<1> QED  BY <1>2, <1>3, <1>4, <1>5, <1>6, <1>7, BrowserStep

LEMMA KilledStep ==
    ASSUME LoginInv, NEW l \in Logins, Killed(l)
    PROVE  LoginInv'
<1>1. proc[l] \in Process /\ LoginTypeOK
  BY DEF LoginInv, LoginTypeOK
<1>2. PICK r \in Process : Moved(l, r) /\ r.at = "exited" /\ r.told = FALSE
  BY <1>1, ExitedFacts DEF Killed, Gone
<1>3. /\ tab' = Tabs(l, "unanswered") /\ Store /\ World /\ Record /\ happened' = happened
      /\ LoginFaultsOnly /\ port' = IF port = l THEN Nobody ELSE port
  BY LoginUsedFacts DEF Killed, Gone
<1>4. /\ tab' \in [Logins -> Pages]
      /\ \A t \in Logins : tab'[t].at = "complete" => tab'[t] = tab[t]
  BY <1>1, <1>3, TabsFacts
<1>5. port' \in Who /\ \A k \in Logins : k # l /\ proc[k].at \in Active => port' = k
  BY <1>1, <1>3 DEF LoginInv, PortInv, Who, LoginTypeOK, BrowserType
<1>6. /\ r.at \notin {"finish", "record", "reference"} \/ (r.at = "record" /\ l \in happened) \/ r.at = proc[l].at
      /\ r.at = "reference" => r.as = proc[l].as
      /\ r.told => proc[l].told \/ l \in happened
      /\ r.at \in Active => port' = l
  BY <1>2 DEF Active
<1>7. \A t \in Logins : tab'[t].at = "complete" => tab'[t] = tab[t] \/ tab'[t].by \in happened
  BY <1>4
<1> QED  BY <1>2, <1>3, <1>4, <1>5, <1>6, <1>7, BrowserStep

-----------------------------------------------------------------------------
(* The record and its reference.                                           *)

\* Only the login at the port is between the record and the reference, so the
\* trail's last entry is still that of the reference when one is recorded.
LEMMA RecordedStep ==
    ASSUME LoginInv, NEW l \in Logins, RecordAuthorization(l), ~Record
    PROVE  LoginInv'
<1> DEFINE fits == ref.fits
           changed == ref.kind = "ok" /\ ref.as # proc[l].as
           e == [as |-> proc[l].as, fits |-> fits, changed |-> changed]
<1>1. /\ proc[l].at \in Active /\ proc[l] \in Process /\ LoginTypeOK /\ port = l /\ l \in happened
      /\ trail \in Seq(Authorization) /\ ref \in Reference /\ TruthInv /\ PortInv
  BY DEF RecordAuthorization, At, Active, Ats, LoginInv, LoginTypeOK, RecordType, PortInv, TruthInv, ToldInv
<1>2. /\ trail' = Append(trail, e) /\ ref' = [ref EXCEPT !.fits = FALSE]
      /\ Store /\ World /\ port' = port /\ tab' = tab /\ happened' = happened /\ used' = used
      /\ (Over(l, "ok") \/ Go(l, "reference"))
  BY DEF RecordAuthorization, Browser
<1>3. PICK r \in Process : Moved(l, r) /\ r.at \in {"close", "reference"} /\ (r.at = "reference" => r.as = proc[l].as)
  <2>1. "reference" \in Ats
    BY DEF Ats
  <2> QED  BY <1>1, <1>2, <2>1, OverFacts, GoFacts
<1>4. fits \in BOOLEAN /\ changed \in BOOLEAN /\ proc[l].as \in As
  BY <1>1 DEF Reference, Process
<1>5. fits => (changed <=> trail[Len(trail)].as # proc[l].as) /\ trail # <<>>
  BY <1>1 DEF TruthInv, RefInv
<1> HIDE DEF fits, changed
<1>6. e \in Authorization /\ e.as = proc[l].as /\ (e.fits <=> fits) /\ (e.changed <=> changed)
  <2>1. e \in Authorization
    BY <1>4, Zenon DEF Authorization
  <2> QED  BY <2>1
<1> HIDE DEF e
<1>7. /\ trail' \in Seq(Authorization) /\ Len(trail') = Len(trail) + 1 /\ trail'[Len(trail) + 1] = e
      /\ \A k \in 1..Len(trail) : trail'[k] = trail[k]
      /\ Len(trail) \in Nat /\ (trail # <<>> => Len(trail) > 0)
  BY <1>1, <1>2, <1>6
<1>8. ref' \in Reference /\ ~ref'.fits
  BY <1>1, <1>2 DEF Reference
<1>9. proc' \in [Logins -> Process] /\ proc'[l] = r /\ \A k \in Logins : k # l => proc'[k] = proc[k]
  BY <1>1, <1>3, MovedFacts
<1>10. \A k \in Logins : k # l => proc[k].at \notin Active
  BY <1>1 DEF PortInv
<1>11. LoginTypeOK'
  <2>1. StoreType' /\ BrowserType' /\ WorldType'
    BY <1>1, <1>2, StoreKept DEF LoginTypeOK, BrowserType, WorldType, World
  <2>2. RecordType'
    BY <1>1, <1>2, <1>7, <1>8 DEF LoginTypeOK, RecordType
  <2> QED  BY <1>1, <1>2, <1>9, <2>1, <2>2 DEF LoginTypeOK
<1>12. PortInv'
  BY <1>1, <1>2, <1>9 DEF PortInv
<1>13. ToldInv'
  BY <1>1, <1>2, <1>9 DEF TruthInv, ToldInv
<1>14. RefInv'
  BY <1>8 DEF RefInv
<1>15. RecordInv'
  <2>1. \A k \in Logins : k # l => proc'[k].at # "reference"
    BY <1>9, <1>10 DEF Active, Ats
  <2>2. proc'[l].at = "reference" => trail' # <<>> /\ trail'[Len(trail')].as = proc'[l].as
    BY <1>3, <1>6, <1>7, <1>9
  <2> QED  BY <2>1, <2>2 DEF RecordInv
<1>16. CompleteIsStored'
  BY <1>1, <1>2 DEF TruthInv, CompleteIsStored
<1>17. ChangeReportedOnce'
  <2> SUFFICES ASSUME NEW k \in 2..Len(trail'), trail'[k].fits
               PROVE  trail'[k].changed <=> trail'[k].as # trail'[k - 1].as
    BY DEF ChangeReportedOnce
  <2>1. CASE k \in 2..Len(trail)
    <3>1. trail'[k] = trail[k] /\ trail'[k - 1] = trail[k - 1]
      BY <1>7, <2>1
    <3> QED  BY <1>1, <2>1, <3>1 DEF TruthInv, ChangeReportedOnce
  <2>2. CASE k = Len(trail) + 1
    <3>1. trail'[k] = e /\ trail'[k - 1] = trail[Len(trail)]
      BY <1>7, <2>2
    <3>2. e.fits
      BY <3>1
    <3> QED  BY <1>5, <1>6, <3>1, <3>2
  <2> QED  BY <1>7, <2>1, <2>2
<1> QED  BY <1>11, <1>12, <1>13, <1>14, <1>15, <1>16, <1>17 DEF LoginInv, TruthInv

\* A record that fails ends the login and leaves trail and reference alone.
LEMMA LoginRecordStep ==
    ASSUME LoginInv, NEW l \in Logins, RecordAuthorization(l)
    PROVE  LoginInv'
<1>1. CASE ~Record
  BY <1>1, RecordedStep
<1>2. CASE Record
  <2>1. \A e : trail' # Append(trail, e)
    BY <1>2 DEF Record, LoginInv, LoginTypeOK, RecordType
  <2>2. Fault /\ Over(l, "ok") /\ Quiet /\ Store /\ proc[l].at \in Active
    BY <1>2, <2>1 DEF RecordAuthorization, At, Active, Ats, Quiet
  <2>3. StoreType' /\ LoginFaultsOnly
    BY <2>2, StoreKept, LoginUsedFacts DEF LoginInv, LoginTypeOK
  <2> QED  BY <2>2, <2>3, OverStep
<1> QED  BY <1>1, <1>2

LEMMA ReferenceStep ==
    ASSUME LoginInv, NEW l \in Logins, WriteReference(l)
    PROVE  LoginInv'
<1> DEFINE new == [kind |-> "ok", as |-> proc[l].as, fits |-> TRUE]
<1>1. /\ proc[l].at = "reference" /\ proc[l].at \in Active /\ proc[l] \in Process /\ LoginTypeOK
      /\ port = l /\ l \in happened /\ TruthInv /\ PortInv
      /\ trail # <<>> /\ trail[Len(trail)].as = proc[l].as
  BY DEF WriteReference, At, Active, Ats, LoginInv, LoginTypeOK, PortInv, TruthInv, ToldInv, RecordInv
<1>2. PICK r \in Process : Moved(l, r) /\ r.at = "close" /\ r.told = proc[l].told
  BY <1>1, OverFacts DEF WriteReference
<1>3. /\ Store /\ World /\ port' = port /\ tab' = tab /\ trail' = trail /\ happened' = happened
      /\ LoginFaultsOnly /\ ref' \in {new, ref}
  BY LoginUsedFacts DEF WriteReference, Browser
<1>4. new \in Reference /\ new.kind = "ok" /\ new.as = proc[l].as
  BY <1>1 DEF Reference, Process
<1> HIDE DEF new
<1>5. proc' \in [Logins -> Process] /\ proc'[l] = r /\ \A k \in Logins : k # l => proc'[k] = proc[k]
  BY <1>1, <1>2, MovedFacts
<1>6. LoginTypeOK'
  <2>1. StoreType' /\ BrowserType' /\ WorldType'
    BY <1>1, <1>3, StoreKept DEF LoginTypeOK, BrowserType, WorldType, World
  <2>2. RecordType'
    BY <1>1, <1>3, <1>4 DEF LoginTypeOK, RecordType
  <2>3. used' \in [faults : Nat, others : Nat]
    BY <1>1, <1>3 DEF LoginTypeOK, LoginFaultsOnly
  <2> QED  BY <1>5, <2>1, <2>2, <2>3 DEF LoginTypeOK
<1>7. PortInv'
  BY <1>1, <1>3, <1>5 DEF PortInv
<1>8. ToldInv'
  BY <1>1, <1>2, <1>3, <1>5 DEF TruthInv, ToldInv
<1>9. RefInv'
  BY <1>1, <1>3, <1>4 DEF TruthInv, RefInv
<1>10. RecordInv'
  BY <1>1, <1>2, <1>3, <1>5 DEF TruthInv, RecordInv
<1>11. CompleteIsStored' /\ ChangeReportedOnce'
  BY <1>1, <1>3 DEF TruthInv, CompleteIsStored, ChangeReportedOnce
<1> QED  BY <1>6, <1>7, <1>8, <1>9, <1>10, <1>11 DEF LoginInv, TruthInv

-----------------------------------------------------------------------------
(* What the browser brings.                                                *)

LEMMA AnsweredFacts ==
    ASSUME LoginTypeOK, NEW t \in Logins, NEW by \in Who,
           NEW at \in {"waiting", "complete", "failed", "refused"}, Answered(t, at, by)
    PROVE  /\ tab' \in [Logins -> Pages]
           /\ \A s \in Logins : tab'[s].at = "complete" =>
                 tab'[s] = tab[s] \/ (at = "complete" /\ tab'[s].by = by)
<1> DEFINE page == Page(at, by, "none")
<1>1. page \in Pages /\ page.at = at /\ page.by = by
  BY DEF Page, Pages, As
<1>2. tab' = [tab EXCEPT ![t] = page] /\ tab \in [Logins -> Pages]
  BY DEF Answered, LoginTypeOK, BrowserType
<1> HIDE DEF page
<1> QED  BY <1>1, <1>2

\* Another listener than the one told cannot answer "complete".
LEMMA CallbackStep ==
    ASSUME LoginInv, NEW t \in Logins, Callback(t)
    PROVE  LoginInv'
<1>1. /\ LoginTypeOK /\ port \in Who /\ proc \in [Logins -> Process] /\ ToldInv /\ PortInv
      /\ Store /\ World /\ Record /\ happened' = happened /\ used' = used
  BY DEF Callback, LoginInv, LoginTypeOK, BrowserType, TruthInv
<1> DEFINE h == port
<1>2. CASE UNCHANGED <<proc, port>> /\ \E at \in {"refused", "failed"} : Answered(t, at, Nobody)
  <2>1. tab' \in [Logins -> Pages] /\ \A s \in Logins : tab'[s].at = "complete" => tab'[s] = tab[s]
    BY <1>1, <1>2, AnsweredFacts DEF Who
  <2>2. Moved(t, proc[t]) /\ proc[t] \in Process
    BY <1>1, <1>2 DEF Moved
  <2>3. /\ proc[t].at \in Active => port' = t
        /\ \A k \in Logins : k # t /\ proc[k].at \in Active => port' = k
        /\ port' \in Who
    BY <1>1, <1>2 DEF PortInv
  <2>4. \A s \in Logins : tab'[s].at = "complete" => tab'[s] = tab[s] \/ tab'[s].by \in happened
    BY <2>1
  <2>5. LoginFaultsOnly
    BY <1>1, LoginUsedFacts
  <2> QED  BY <1>1, <2>1, <2>2, <2>3, <2>4, <2>5, BrowserStep
<1>3. CASE /\ h # Nobody /\ port' = port
           /\ Answered(t, IF proc[h].told THEN "complete" ELSE "waiting", h)
           /\ Set(h, [code |-> IF proc[h].code = Nobody THEN t ELSE proc[h].code])
  <2> DEFINE code == IF proc[h].code = Nobody THEN t ELSE proc[h].code
             change == [code |-> code]
             r == With(proc[h], change)
             at == IF proc[h].told THEN "complete" ELSE "waiting"
  <2>1. h \in Logins /\ proc[h] \in Process
    BY <1>1, <1>3 DEF Who
  <2>2. code \in Who
    BY <2>1 DEF Process, Who
  <2> HIDE DEF code
  <2>3. r \in Process /\ r.at = proc[h].at /\ r.told = proc[h].told /\ r.as = proc[h].as
    BY <2>1, <2>2 DEF With, Process
  <2>4. Moved(h, r)
    BY <1>3 DEF Set, Moved, code
  <2> HIDE DEF r
  <2>5. /\ tab' \in [Logins -> Pages]
        /\ \A s \in Logins : tab'[s].at = "complete" =>
              tab'[s] = tab[s] \/ (at = "complete" /\ tab'[s].by = h)
    <3>1. Answered(t, at, h) /\ at \in {"waiting", "complete", "failed", "refused"} /\ h \in Who
      BY <1>1, <1>3
    <3> HIDE DEF at, h
    <3> QED  BY <1>1, <3>1, AnsweredFacts
  <2>6. \A s \in Logins : tab'[s].at = "complete" => tab'[s] = tab[s] \/ tab'[s].by \in happened
    BY <1>1, <2>1, <2>5 DEF ToldInv
  <2>7. /\ r.at \notin {"finish", "record", "reference"} \/ (r.at = "record" /\ h \in happened) \/ r.at = proc[h].at
        /\ r.at = "reference" => r.as = proc[h].as
        /\ r.told => proc[h].told \/ h \in happened
    BY <2>3
  <2>8. /\ r.at \in Active => port' = h
        /\ \A k \in Logins : k # h /\ proc[k].at \in Active => port' = k
        /\ port' \in Who /\ LoginFaultsOnly
    BY <1>1, <1>3, <2>3, LoginUsedFacts DEF PortInv
  <2> QED  BY <1>1, <2>1, <2>3, <2>4, <2>5, <2>6, <2>7, <2>8, BrowserStep
<1>4. CASE /\ h # Nobody /\ Answered(t, "failed", Nobody)
           /\ \/ Over(h, "failed") /\ At(h, "wait") /\ port' = port
              \/ Exited(h, "failed") /\ port' = Nobody
  <2>1. h \in Logins /\ proc[h] \in Process
    BY <1>1, <1>4 DEF Who
  <2>2. tab' \in [Logins -> Pages] /\ \A s \in Logins : tab'[s].at = "complete" => tab'[s] = tab[s]
    BY <1>1, <1>4, AnsweredFacts DEF Who
  <2>3. PICK r \in Process : /\ Moved(h, r) /\ r.at \in {"close", "exited"} /\ (r.told => proc[h].told)
                             /\ r.at = "close" => port' = port
    BY <1>1, <1>4, <2>1, OverFacts, ExitedFacts
  <2>4. \A s \in Logins : tab'[s].at = "complete" => tab'[s] = tab[s] \/ tab'[s].by \in happened
    BY <2>2
  <2>5. /\ r.at \notin {"finish", "record", "reference"} \/ (r.at = "record" /\ h \in happened) \/ r.at = proc[h].at
        /\ r.at = "reference" => r.as = proc[h].as
        /\ r.told => proc[h].told \/ h \in happened
    BY <2>3
  <2>6. /\ r.at \in Active => port' = h
        /\ \A k \in Logins : k # h /\ proc[k].at \in Active => port' = k
        /\ port' \in Who /\ LoginFaultsOnly
    BY <1>1, <1>4, <2>3, LoginUsedFacts DEF PortInv, Active, Who
  <2> QED  BY <1>1, <2>1, <2>2, <2>3, <2>4, <2>5, <2>6, BrowserStep
<1> QED  BY <1>1, <1>2, <1>3, <1>4 DEF Callback

-----------------------------------------------------------------------------
(* The handlers of the app, and others.                                    *)

LEMMA ConnectStep ==
    ASSUME LoginInv, NEW l \in Logins, Connect(l)
    PROVE  LoginInv'
<1>1. LoginTypeOK /\ PortInv
  BY DEF LoginInv
<1>2. /\ Store /\ port' = port /\ tab' = tab /\ wrapper' = wrapper /\ server' = server /\ Record
      /\ entry' = entry /\ removal' = removal /\ happened' = happened /\ used' = used
  BY DEF Connect, Rest
<1>3. conn' \in [Logins -> Handler]
  <2> DEFINE reply == [at |-> "done", reconnecting |-> FALSE, answer |-> "name-exists"]
  <2>1. CASE Reply(l, "name-exists")
    <3>1. reply \in Handler /\ conn' = [conn EXCEPT ![l] = reply]
      BY <2>1 DEF Reply, Handler
    <3> QED  BY <1>1, <3>1 DEF LoginTypeOK, WorldType
  <2>2. CASE conn' = [conn EXCEPT ![l].at = "login", ![l].reconnecting = entry = "bridge"]
    <3> DEFINE again == entry = "bridge"
               new == [at |-> "login", reconnecting |-> again, answer |-> conn[l].answer]
    <3>1. again \in BOOLEAN /\ conn[l] \in Handler
      BY <1>1 DEF LoginTypeOK, WorldType
    <3>2. conn' = [conn EXCEPT ![l] = [[conn[l] EXCEPT !.at = "login"] EXCEPT !.reconnecting = again]]
      BY <1>1, <2>2 DEF LoginTypeOK, WorldType
    <3> HIDE DEF again
    <3>3. [[conn[l] EXCEPT !.at = "login"] EXCEPT !.reconnecting = again] \in Handler
      BY <3>1 DEF Handler
    <3> QED  BY <1>1, <3>2, <3>3 DEF LoginTypeOK, WorldType
  <2> QED  BY <2>1, <2>2 DEF Connect
<1>4. PICK r \in Process : Moved(l, r) /\ r.at \in {"listen", proc[l].at} /\ (r.told => proc[l].told)
                            /\ (r.at = "reference" => r.as = proc[l].as)
  <2>1. CASE proc' = proc
    BY <1>1, <2>1 DEF Moved, LoginTypeOK
  <2>2. CASE \E scoped \in BOOLEAN : proc' = [proc EXCEPT ![l] = [Fresh EXCEPT !.scoped = scoped]]
    <3>1. PICK scoped \in BOOLEAN : proc' = [proc EXCEPT ![l] = [Fresh EXCEPT !.scoped = scoped]]
      BY <2>2
    <3>2. [Fresh EXCEPT !.scoped = scoped] \in Process
      BY FreshFacts DEF Process
    <3>3. [Fresh EXCEPT !.scoped = scoped].at = "listen" /\ ~[Fresh EXCEPT !.scoped = scoped].told
      BY DEF Fresh
    <3> QED  BY <3>1, <3>2, <3>3 DEF Moved
  <2> QED  BY <2>1, <2>2 DEF Connect
<1>5. LoginTypeOK'
  <2>1. proc' \in [Logins -> Process]
    BY <1>1, <1>4, MovedFacts
  <2>2. StoreType' /\ BrowserType' /\ RecordType' /\ WorldType'
    BY <1>1, <1>2, <1>3, StoreKept DEF LoginTypeOK, BrowserType, RecordType, WorldType, Record
  <2> QED  BY <1>1, <1>2, <2>1, <2>2 DEF LoginTypeOK
<1>6. /\ r.at \in Active => port' = l
      /\ \A k \in Logins : k # l /\ proc[k].at \in Active => port' = k
      /\ r.at \in {"finish", "record", "reference"} \/ r.told => l \in happened'
      /\ r.at = "reference" => proc[l].at = "reference" /\ r.as = proc[l].as
  BY <1>1, <1>2, <1>4 DEF PortInv, Active, LoginInv, TruthInv, ToldInv
<1> QED  BY <1>2, <1>4, <1>5, <1>6, ProcessStep

LEMMA ConnectedStep ==
    ASSUME LoginInv, NEW l \in Logins, Connected(l)
    PROVE  LoginInv'
<1>1. LoginTypeOK /\ PortInv
  BY DEF LoginInv
<1>2. /\ Store /\ port' = port /\ tab' = tab /\ wrapper' = wrapper /\ server' = server /\ Record
      /\ entry' \in {entry, "bridge"} /\ removal' = removal /\ happened' = happened /\ LoginFaultsOnly
  BY LoginUsedFacts DEF Connected, Rest
<1>3. conn' \in [Logins -> Handler]
  <2>1. PICK answer \in {"login-failed", "name-exists", "wrote", "unreadable"} : Reply(l, answer)
    BY DEF Connected
  <2> DEFINE reply == [at |-> "done", reconnecting |-> FALSE, answer |-> answer]
  <2>2. reply \in Handler /\ conn' = [conn EXCEPT ![l] = reply]
    BY <2>1 DEF Reply, Handler
  <2> QED  BY <1>1, <2>2 DEF LoginTypeOK, WorldType
<1>4. Moved(l, NoProc) /\ NoProc \in Process /\ NoProc.at = "unborn" /\ ~NoProc.told
  BY FreshFacts DEF Connected, Moved, NoProc, Fresh
<1>5. LoginTypeOK'
  <2>1. proc' \in [Logins -> Process]
    BY <1>1, <1>4, MovedFacts
  <2>2. StoreType' /\ BrowserType' /\ RecordType' /\ WorldType'
    BY <1>1, <1>2, <1>3, StoreKept DEF LoginTypeOK, BrowserType, RecordType, WorldType, Record
  <2>3. used' \in [faults : Nat, others : Nat]
    BY <1>1, <1>2 DEF LoginTypeOK, LoginFaultsOnly
  <2> QED  BY <2>1, <2>2, <2>3 DEF LoginTypeOK
<1>6. /\ NoProc.at \in Active => port' = l
      /\ \A k \in Logins : k # l /\ proc[k].at \in Active => port' = k
      /\ NoProc.at \in {"finish", "record", "reference"} \/ NoProc.told => l \in happened'
      /\ NoProc.at = "reference" => proc[l].at = "reference" /\ NoProc.as = proc[l].as
  BY <1>1, <1>2, <1>4 DEF PortInv, Active
<1> QED  BY <1>2, <1>4, <1>5, <1>6, ProcessStep

\* What happens outside the logins: the store, the config, the server, the
\* reference that can no longer be read.
LEMMA LoginOthersStep ==
    ASSUME LoginInv,
           \/ RemoveRemote \/ DeleteCredentials
           \/ SeedClient \/ UserEdits \/ ServerMoves \/ RefBroken \/ WrapperRefreshes \/ WrapperEnds
    PROVE  LoginInv'
<1>1. /\ LoginTypeOK /\ client \in Client /\ tokens \in Tokens /\ wrapper \in Tokens /\ used.others \in Nat
      /\ used \in [faults : Nat, others : Nat] /\ Seeded \in Client
  BY DEF LoginInv, LoginTypeOK, StoreType, WorldType, Seeded, Client, Who, As
<1>2. UNCHANGED <<proc, conn, port, tab, trail, happened>>
  BY DEF RemoveRemote, DeleteCredentials, SeedClient, UserEdits, ServerMoves, RefBroken, WrapperRefreshes,
         WrapperEnds, Other, Rest, Record
<1>3. ref' = ref \/ (ref' \in Reference /\ ~ref'.fits)
  BY DEF RemoveRemote, DeleteCredentials, SeedClient, UserEdits, ServerMoves, RefBroken, WrapperRefreshes,
         WrapperEnds, Other, Rest, Record, Reference, As
<1>4. used' \in {used, [used EXCEPT !.others = @ + 1]}
  BY DEF RemoveRemote, DeleteCredentials, SeedClient, UserEdits, ServerMoves, RefBroken, WrapperRefreshes,
         WrapperEnds, Other
<1>5. StoreType'
  <2>1. client' \in {client, NoClient, Seeded}
    BY DEF RemoveRemote, DeleteCredentials, SeedClient, UserEdits, ServerMoves, RefBroken, WrapperRefreshes,
           WrapperEnds, Store
  <2>2. tokens' \in {tokens, NoTokens, [wrapper EXCEPT !.by = Nobody]}
    BY DEF RemoveRemote, DeleteCredentials, SeedClient, UserEdits, ServerMoves, RefBroken, WrapperRefreshes,
           WrapperEnds, Store
  <2>3. [wrapper EXCEPT !.by = Nobody] \in Tokens
    BY <1>1 DEF Tokens, Who
  <2> QED  BY <1>1, <2>1, <2>2, <2>3, FreshFacts DEF StoreType
<1>6. WorldType'
  <2>1. entry' \in {"absent", "bridge", "foreign"} /\ removal' \subseteq {"tokens", "client"}
    BY <1>1 DEF LoginTypeOK, WorldType, RemoveRemote, DeleteCredentials, SeedClient, UserEdits, ServerMoves, RefBroken,
                WrapperRefreshes, WrapperEnds, Other
  <2>2. wrapper' \in {wrapper, tokens, NoTokens} /\ server' \in AuthServer
    BY <1>1 DEF LoginTypeOK, WorldType, RemoveRemote, DeleteCredentials, SeedClient, UserEdits, ServerMoves, RefBroken,
                WrapperRefreshes, WrapperEnds, Rest
  <2> QED  BY <1>1, <1>2, <2>1, <2>2, FreshFacts DEF LoginTypeOK, WorldType
<1>7. LoginTypeOK'
  <2>1. proc' \in [Logins -> Process] /\ BrowserType' /\ RecordType'
    BY <1>1, <1>2, <1>3 DEF LoginTypeOK, BrowserType, RecordType
  <2>2. used' \in [faults : Nat, others : Nat]
    BY <1>1, <1>4
  <2> QED  BY <1>5, <1>6, <2>1, <2>2 DEF LoginTypeOK
<1> QED  BY <1>2, <1>3, <1>7, OtherStep

-----------------------------------------------------------------------------
(* The whole.                                                              *)

LEMMA LoginInitInv ==
    ASSUME Init
    PROVE  LoginInv
<1>1. proc \in [Logins -> Process] /\ \A l \in Logins : proc[l].at = "unborn" /\ ~proc[l].told
  BY FreshFacts DEF Init, NoProc, Fresh
<1>2. BrowserType /\ \A t \in Logins : tab[t].at = "closed"
  BY DEF Init, BrowserType, Pages, Page, Who, As
<1>3. RecordType /\ trail = <<>> /\ ~ref.fits
  BY DEF Init, RecordType, NoRef, Reference, As
<1>4. StoreType
  <2>1. NoClient \in Client /\ Seeded \in Client
    BY FreshFacts DEF Seeded, Client, Who, As
  <2>2. client \in {NoClient, Seeded} /\ tokens \in {NoTokens, [by |-> Nobody, client |-> client, rt |-> TRUE]}
    BY DEF Init
  <2>3. [by |-> Nobody, client |-> client, rt |-> TRUE] \in Tokens
    BY <2>1, <2>2 DEF Tokens, Who
  <2> QED  BY <2>1, <2>2, <2>3, FreshFacts DEF StoreType
<1>5. WorldType
  BY FreshFacts DEF Init, WorldType, Handler
<1>6. LoginTypeOK
  BY <1>1, <1>2, <1>3, <1>4, <1>5 DEF LoginTypeOK, Init
<1>7. PortInv /\ ToldInv /\ RecordInv
  BY <1>1 DEF PortInv, ToldInv, RecordInv, Active
<1>8. RefInv /\ CompleteIsStored /\ ChangeReportedOnce
  BY <1>2, <1>3 DEF RefInv, CompleteIsStored, ChangeReportedOnce
<1> QED  BY <1>6, <1>7, <1>8 DEF LoginInv, TruthInv

LEMMA LoginStepInv ==
    ASSUME LoginInv, [Next]_vars
    PROVE  LoginInv'
<1>1. CASE Next
  <2>1. ASSUME NEW l \in Logins, Connect(l) \/ LoginStep(l) \/ Killed(l) \/ Callback(l) \/ Connected(l)
        PROVE  LoginInv'
    <3>1. CASE LoginStep(l)
      <4>1. CASE \/ StartCallback(l) \/ ClientInformation(l) \/ Refresh(l) \/ RedirectToAuthorization(l)
                 \/ FinishAuth(l)
        BY <4>1, StartStep, ClientStep, RefreshStep, RedirectStep, FinishAuthStep
      <4>2. CASE \/ ProbeAuthorization(l) \/ HasStored(l) \/ Discover(l) \/ SaveDiscoveryState(l)
                 \/ ReadTokens(l) \/ WaitForCode(l)
        BY <4>2, EarlyStep
      <4>3. CASE \/ PersistClient(l) \/ PersistTokens(l) \/ Finish(l) \/ RecordAuthorization(l)
                 \/ WriteReference(l) \/ Close(l)
        BY <4>3, PersistClientStep, PersistTokensStep, FinishStep, LoginRecordStep, ReferenceStep, CloseStep
      <4> QED  BY <3>1, <4>1, <4>2, <4>3 DEF LoginStep
    <3> QED  BY <2>1, <3>1, ConnectStep, KilledStep, CallbackStep, ConnectedStep
  <2> QED  BY <1>1, <2>1, LoginOthersStep DEF Next
<1>2. CASE UNCHANGED vars
  <2>1. LoginTypeOK'
    BY <1>2 DEF vars, LoginInv, LoginTypeOK, StoreType, BrowserType, RecordType, WorldType
  <2> QED  BY <1>2, <2>1, OtherStep DEF vars
<1> QED  BY <1>1, <1>2

LEMMA LoginInvHolds == Spec => []LoginInv
BY LoginInitInv, LoginStepInv, PTL DEF Spec

\* Every state of the handlers, the login processes, the browser, the Keychain
\* items and the trail is one the code can hold.
THEOREM LoginTypeCorrect == Spec => []LoginTypeOK
<1>1. LoginInv => LoginTypeOK
  BY DEF LoginInv
<1> QED  BY <1>1, LoginInvHolds, PTL

\* Of any number of logins and others, a browser reads "login complete" only of
\* a login that has written its tokens (connect-flow's finish after
\* persistAuthorization), and a record whose reference is in place says
\* "changed" exactly when the authorization server is another one than in the
\* record before it (recordAuthorization of login.ts).
THEOREM LoginTruthfulHolds == Spec => []LoginTruthful
<1>1. LoginInv => LoginTruthful
  BY DEF LoginInv, TruthInv, LoginTruthful
<1> QED  BY <1>1, LoginInvHolds, PTL

-----------------------------------------------------------------------------
(* The gallery.                                                            *)

\* What a card may be about.
Source == Card \cup {HookCard}

CallRecord == [kind : Cards!Kind, cards : SUBSET Source, left : SUBSET Source,
               at : {"idle", "asked", "sent"}, ok : BOOLEAN, mine : BOOLEAN]
CheckRecord == [on : BOOLEAN, left : SUBSET Source, found : SUBSET Source]
WizardRecord == [screen : Nat, filled : SUBSET {"id", "secret"}, saving : Call \cup {NoOne}, saved : BOOLEAN]

ShownType == world \in [Cards!Kind -> SUBSET Source] /\ display \in [Cards!Kind -> SUBSET Source]
ModalType ==
    /\ mounted \in BOOLEAN /\ open \in BOOLEAN /\ known \in BOOLEAN
    /\ busyName \in Source \cup {NoOne} /\ setupEntry \in Cards!Byo \cup {NoOne} /\ wizard \in WizardRecord
GalleryTypeOK ==
    /\ ShownType /\ ModalType
    /\ check \in [Cards!Kind -> CheckRecord] /\ calls \in [Call -> CallRecord]
    /\ behind \in Nat /\ blurred \subseteq Cards!Kind \X Source

\* It is there, or it was changed behind the gallery's back.
Excused(k, c) == c \in world[k] \/ <<k, c>> \in blurred

\* A call has written it, and its answer has not come.
Under(k, c) == \E o \in Call : calls[o].kind = k /\ calls[o].at # "idle" /\ c \in calls[o].cards \ calls[o].left

Told(k, c) ==
    \/ <<k, c>> \in blurred \/ Under(k, c)
    \/ check[k].on /\ (c \in check[k].left \/ (c \in check[k].found <=> c \in world[k]))
    \/ ~ check[k].on /\ (c \in display[k] <=> c \in world[k])

ToldOfCards == mounted /\ open => \A k \in Cards!Kind : \A c \in Cards!Asked(k) : Told(k, c)

\* What the questions of this opening found.
FoundInv == mounted /\ open => \A k \in Cards!Kind : check[k].on => \A c \in check[k].found : Excused(k, c)

\* What a call whose answer is waited for has written.
CallFacts(o) ==
    LET m == calls[o] IN
    /\ m.left \subseteq m.cards /\ m.cards \subseteq Cards!Asked(m.kind)
    /\ m.kind # "seeded" /\ m.at = "asked" => m.left = m.cards
    /\ m.at = "sent" /\ m.ok => m.left = {}
    /\ m.mine => mounted
    /\ m.mine /\ m.kind = "seeded" => open /\ \A c \in m.cards \ m.left : Excused("seeded", c)
    /\ m.mine /\ m.kind # "seeded" /\ m.at = "sent" /\ m.ok /\ open =>
          \A c \in m.cards : Excused(m.kind, c) \/ (check[m.kind].on /\ c \in check[m.kind].left)

CallInv == \A o \in Call : CallFacts(o)

ModalInv == open => mounted

GInv == GalleryTypeOK /\ ModalInv /\ ToldOfCards /\ FoundInv /\ CallInv

LEMMA AskedFacts ==
    /\ Cards!Byo \subseteq Card
    /\ \A c \in Cards!Byo : Cards!FamilyOf(c) \in Family /\ TargetsOf[Cards!FamilyOf(c)] \subseteq Cards!Byo
    /\ \A k \in Cards!Kind : Cards!Asked(k) \subseteq Source
    /\ Cards!Kind = {"connected", "seeded", "hook"}
    /\ Cards!Asked("connected") = Card /\ Cards!Asked("seeded") = Cards!Byo /\ Cards!Asked("hook") = {HookCard}
<1>1. Cards!Byo \subseteq Card
  BY GalleryAssumption, SMT DEF Cards!Byo
<1>2. ASSUME NEW c \in Cards!Byo
      PROVE  Cards!FamilyOf(c) \in Family /\ TargetsOf[Cards!FamilyOf(c)] \subseteq Cards!Byo
  <2>1. PICK f \in Family : c \in TargetsOf[f]
    BY SMT DEF Cards!Byo
  <2>2. Cards!FamilyOf(c) \in Family
    BY <2>1, Zenon DEF Cards!FamilyOf
  <2>. QED BY <2>2, SMT DEF Cards!Byo
<1>. QED BY <1>1, <1>2, SMT DEF Cards!Asked, Cards!Kind, Source

LEMMA PendingFacts == ASSUME NEW k, NEW c PROVE c \in Cards!Pending(k) <=> Under(k, c)
  BY Zenon DEF Cards!Pending, Under

\* Nothing the invariant reads changes but the wizard and the buttons.
LEMMA StillStep ==
    ASSUME GInv, ModalType', UNCHANGED <<world, display, check, mounted, open, calls, behind, blurred>>
    PROVE  GInv'
  BY SMT DEF GInv, GalleryTypeOK, ShownType, ModalInv, ToldOfCards, FoundInv, CallInv, CallFacts, Told, Under, Excused,
         Cards!Kind, Cards!Asked, Cards!Byo, CallRecord, CheckRecord

LEMMA OthersChangeStep ==
    ASSUME GInv, NEW k \in Cards!Kind, NEW c \in Cards!Asked(k), Cards!OthersChange(k, c)
    PROVE  GInv'
<1>1. c \in Source
  BY AskedFacts
<1>2. GalleryTypeOK'
  BY <1>1, SMT DEF GInv, GalleryTypeOK, ShownType, ModalType, Cards!OthersChange, Cards!asking, Cards!doing
<1>3. ASSUME NEW j \in Cards!Kind, NEW d
      PROVE  /\ Excused(j, d) => Excused(j, d)'
             /\ <<j, d>> \in blurred => <<j, d>> \in blurred'
             /\ <<j, d>> # <<k, c>> => (d \in world'[j] <=> d \in world[j])
             /\ <<k, c>> \in blurred'
  BY SMT DEF GInv, GalleryTypeOK, ShownType, Cards!OthersChange, Excused
<1>4. UNCHANGED <<mounted, open, display, check, calls>>
  BY DEF Cards!OthersChange, Cards!asking
<1>5. ToldOfCards'
  <2>1. SUFFICES ASSUME mounted, open, NEW j \in Cards!Kind, NEW d \in Cards!Asked(j) PROVE Told(j, d)'
    BY <1>4 DEF ToldOfCards
  <2>2. Told(j, d)
    BY <2>1 DEF GInv, ToldOfCards
  <2>3. Under(j, d) => Under(j, d)'
    BY <1>4 DEF Under
  <2>4. CASE <<j, d>> = <<k, c>>
    BY <1>3, <2>4 DEF Told
  <2>5. CASE <<j, d>> # <<k, c>>
    BY <1>3, <1>4, <2>2, <2>3, <2>5 DEF Told
  <2>. QED BY <2>4, <2>5
<1>6. FoundInv'
  <2>1. SUFFICES ASSUME mounted, open, NEW j \in Cards!Kind, check[j].on, NEW d \in check[j].found
                 PROVE  Excused(j, d)'
    BY <1>4 DEF FoundInv
  <2>. QED BY <1>3, <2>1 DEF GInv, FoundInv
<1>7. ASSUME NEW o \in Call PROVE CallFacts(o)'
  <2>1. calls[o].kind \in Cards!Kind /\ "seeded" \in Cards!Kind
    BY AskedFacts DEF GInv, GalleryTypeOK, CallRecord
  <2>2. CallFacts(o)
    BY DEF GInv, CallInv
  <2>. QED BY <1>3, <1>4, <2>1, <2>2 DEF CallFacts
<1>8. ModalInv'
  BY <1>4 DEF GInv, ModalInv
<1>. QED BY <1>2, <1>5, <1>6, <1>7, <1>8 DEF GInv, CallInv

\* An opening: nothing is told before the questions are answered.
LEMMA OpensStep ==
    ASSUME GInv, mounted', Cards!Opens, UNCHANGED <<world, display, known, busyName, setupEntry, wizard, calls, behind>>,
           \A o \in Call : calls[o].mine => mounted /\ ~ open
    PROVE  GInv'
<1>1. /\ check' \in [Cards!Kind -> CheckRecord]
      /\ \A k \in Cards!Kind : check'[k].on /\ check'[k].left = Cards!Asked(k) /\ check'[k].found = {}
  BY AskedFacts, SMT DEF Cards!Opens, CheckRecord
<1>2. GalleryTypeOK'
  BY <1>1, SMT DEF GInv, GalleryTypeOK, ShownType, ModalType, Cards!Opens, Cards!Byo
<1>3. ToldOfCards' /\ FoundInv'
  BY <1>1 DEF ToldOfCards, FoundInv, Told
<1>4. ASSUME NEW o \in Call PROVE CallFacts(o)'
  <2>1. calls[o].kind \in Cards!Kind
    BY SMT DEF GInv, GalleryTypeOK, CallRecord
  <2>2. CallFacts(o)
    BY DEF GInv, CallInv
  <2>3. calls'[o] = calls[o]
    OBVIOUS
  <2>4. calls[o].mine => mounted /\ ~ open
    OBVIOUS
  <2>. QED BY <1>1, <2>1, <2>2, <2>3, <2>4 DEF CallFacts
<1>. QED BY <1>2, <1>3, <1>4 DEF GInv, CallInv, ModalInv

LEMMA GalleryOpenStep == ASSUME GInv, Cards!Open PROVE GInv'
<1>1. /\ mounted' /\ Cards!Opens
      /\ UNCHANGED <<world, display, known, busyName, setupEntry, wizard, calls, behind>>
  BY SMT DEF Cards!Open, Cards!doing
<1>2. \A o \in Call : calls[o].mine => mounted /\ ~ open
  BY SMT DEF Cards!Open, GInv, CallInv, CallFacts
<1>. QED BY <1>1, <1>2, OpensStep

\* Who asked is told nothing any more.
LEMMA AbandonFacts ==
    ASSUME GInv, NEW kinds, Cards!Abandon(kinds)
    PROVE  /\ calls' \in [Call -> CallRecord]
           /\ \A o \in Call :
                 /\ calls'[o].kind = calls[o].kind /\ calls'[o].cards = calls[o].cards /\ calls'[o].left = calls[o].left
                 /\ calls'[o].at = calls[o].at /\ calls'[o].ok = calls[o].ok
                 /\ calls'[o].mine <=> calls[o].mine /\ calls[o].kind \notin kinds
<1>1. calls \in [Call -> CallRecord]
  BY DEF GInv, GalleryTypeOK
<1>2. calls' = [o \in Call |-> IF calls[o].kind \in kinds THEN [calls[o] EXCEPT !.mine = FALSE] ELSE calls[o]]
  BY DEF Cards!Abandon
<1>3. ASSUME NEW o \in Call
      PROVE  /\ calls'[o] \in CallRecord
             /\ calls'[o].kind = calls[o].kind /\ calls'[o].cards = calls[o].cards /\ calls'[o].left = calls[o].left
             /\ calls'[o].at = calls[o].at /\ calls'[o].ok = calls[o].ok
             /\ calls'[o].mine <=> calls[o].mine /\ calls[o].kind \notin kinds
  <2>1. calls[o] \in CallRecord
    BY <1>1
  <2>2. CASE calls[o].kind \in kinds
    <3>1. calls'[o] = [calls[o] EXCEPT !.mine = FALSE]
      BY <1>2, <2>2
    <3>. QED BY <2>1, <2>2, <3>1 DEF CallRecord
  <2>3. CASE calls[o].kind \notin kinds
    BY <1>2, <2>1, <2>3
  <2>. QED BY <2>2, <2>3
<1>4. DOMAIN calls' = Call /\ calls' = [o \in Call |-> calls'[o]]
  BY <1>2
<1>. QED BY <1>3, <1>4

LEMMA CloseModalStep == ASSUME GInv, Cards!Close PROVE GInv'
<1>1. Cards!Abandon({"seeded"}) /\ mounted /\ open /\ ~ open' /\ check' = [k \in Cards!Kind |-> Cards!NoCheck]
      /\ wizard' = Cards!Fresh
      /\ UNCHANGED <<world, mounted, display, known, busyName, setupEntry, behind, blurred>>
  BY DEF Cards!Close
<1>2. check' \in [Cards!Kind -> CheckRecord] /\ wizard' \in WizardRecord
  BY <1>1, SMT DEF Cards!NoCheck, Cards!Fresh, CheckRecord, WizardRecord
<1>3. GalleryTypeOK'
  <2>1. calls' \in [Call -> CallRecord] /\ open' \in BOOLEAN
    BY <1>1, AbandonFacts DEF Cards!Close
  <2>. QED BY <1>1, <1>2, <2>1 DEF GInv, GalleryTypeOK, ShownType, ModalType
<1>4. ToldOfCards' /\ FoundInv'
  BY <1>1 DEF ToldOfCards, FoundInv
<1>5. ASSUME NEW o \in Call PROVE CallFacts(o)'
  <2>1. CallFacts(o)
    BY DEF GInv, CallInv
  <2>. QED BY <1>1, <2>1, AbandonFacts DEF CallFacts
<1>. QED BY <1>1, <1>3, <1>4, <1>5 DEF GInv, CallInv, ModalInv

LEMMA LeaveTabStep == ASSUME GInv, Cards!LeaveTab PROVE GInv'
<1>1. Cards!Abandon(Cards!Kind) /\ ~ mounted' /\ ~ open' /\ display' = [k \in Cards!Kind |-> {}]
      /\ wizard' = Cards!Fresh /\ known' = FALSE /\ busyName' = NoOne /\ setupEntry' = NoOne
      /\ UNCHANGED <<world, check, behind, blurred>>
  BY DEF Cards!LeaveTab
<1>2. wizard' \in WizardRecord
  BY <1>1, SMT DEF Cards!Fresh, WizardRecord
<1>3. mounted' = FALSE /\ open' = FALSE
  BY DEF Cards!LeaveTab, GInv, GalleryTypeOK, ModalType
<1>4. GalleryTypeOK'
  <2>1. calls' \in [Call -> CallRecord]
    BY <1>1, AbandonFacts
  <2>. QED BY <1>1, <1>2, <1>3, <2>1 DEF GInv, GalleryTypeOK, ShownType, ModalType
<1>5. ToldOfCards' /\ FoundInv'
  BY <1>1 DEF ToldOfCards, FoundInv
<1>6. ASSUME NEW o \in Call PROVE CallFacts(o)'
  <2>1. CallFacts(o) /\ calls[o].kind \in Cards!Kind
    BY DEF GInv, CallInv, GalleryTypeOK, CallRecord
  <2>. QED BY <1>1, <2>1, AbandonFacts DEF CallFacts
<1>. QED BY <1>1, <1>4, <1>5, <1>6 DEF GInv, CallInv, ModalInv

LEMMA EnterTabStep == ASSUME GInv, Cards!EnterTab PROVE GInv'
<1>1. ~ mounted /\ mounted' = TRUE /\ \A o \in Call : ~ calls[o].mine
  BY DEF Cards!EnterTab, GInv, CallInv, CallFacts
<1>2. UNCHANGED <<world, display, known, busyName, setupEntry, wizard, calls, behind>>
  BY DEF Cards!EnterTab, Cards!doing
<1>3. CASE Cards!Opens
  BY <1>1, <1>2, <1>3, OpensStep
<1>4. CASE UNCHANGED <<open, check, blurred>>
  <2>1. GalleryTypeOK' /\ ~ open'
    BY <1>1, <1>2, <1>4 DEF GInv, GalleryTypeOK, ShownType, ModalType, ModalInv
  <2>2. ASSUME NEW o \in Call PROVE CallFacts(o)'
    <3>1. CallFacts(o) /\ ~ calls[o].mine
      BY <1>1 DEF GInv, CallInv
    <3>. QED BY <1>2, <3>1 DEF CallFacts
  <2>. QED BY <1>1, <2>1, <2>2 DEF GInv, CallInv, ModalInv, ToldOfCards, FoundInv
<1>. QED BY <1>3, <1>4 DEF Cards!EnterTab

(* An answer to a question.  A failing one leaves the card unsaid of; that  *)
(* of the hook ends the check.                                             *)
LEMMA QueryStep ==
    ASSUME GInv, NEW k \in Cards!Kind, NEW c \in Cards!Asked(k), Cards!Query(k, c)
    PROVE  GInv'
<1>1. /\ check[k].on /\ \A o \in Call : calls[o].at # "sent"
      /\ UNCHANGED <<world, mounted, open, display, known, busyName, setupEntry, wizard, calls, behind>>
  BY DEF Cards!Query, Cards!doing
<1>2. check \in [Cards!Kind -> CheckRecord] /\ c \in Source /\ check[k] \in CheckRecord
  BY AskedFacts DEF GInv, GalleryTypeOK
<1>3. PICK r \in CheckRecord :
        /\ check' = [check EXCEPT ![k] = r]
        /\ \/ /\ r = [check[k] EXCEPT !.left = @ \ {c}, !.found = IF c \in world[k] THEN @ \cup {c} ELSE @]
              /\ blurred' = blurred
           \/ /\ r \in {Cards!NoCheck, [check[k] EXCEPT !.left = @ \ {c}]} /\ (r.on \/ k = "hook")
              /\ blurred' = blurred \cup {<<k, c>>}
  <2>1. CASE /\ check' = [check EXCEPT ![k].left = @ \ {c}, ![k].found = IF c \in world[k] THEN @ \cup {c} ELSE @]
             /\ blurred' = blurred
    <3> DEFINE r == [check[k] EXCEPT !.left = @ \ {c}, !.found = IF c \in world[k] THEN @ \cup {c} ELSE @]
    <3>1. r \in CheckRecord
      <4>1. check[k].left \ {c} \in SUBSET Source /\ check[k].found \cup {c} \in SUBSET Source
        BY <1>2 DEF CheckRecord
      <4>2. CASE c \in world[k]
        <5>1. r = [check[k] EXCEPT !.left = check[k].left \ {c}, !.found = check[k].found \cup {c}]
          BY <4>2
        <5>. QED BY <1>2, <4>1, <5>1 DEF CheckRecord
      <4>3. CASE c \notin world[k]
        <5>1. r = [check[k] EXCEPT !.left = check[k].left \ {c}, !.found = check[k].found]
          BY <4>3
        <5>. QED BY <1>2, <4>1, <5>1 DEF CheckRecord
      <4>. QED BY <4>2, <4>3
    <3>2. check' = [check EXCEPT ![k] = r]
      BY <1>2, <2>1
    <3>. QED BY <2>1, <3>1, <3>2
  <2>2. CASE k = "hook" /\ check' = [check EXCEPT ![k] = Cards!NoCheck] /\ blurred' = blurred \cup {<<k, c>>}
    BY <2>2 DEF CheckRecord, Cards!NoCheck
  <2>3. CASE check' = [check EXCEPT ![k].left = @ \ {c}] /\ blurred' = blurred \cup {<<k, c>>}
    <3> DEFINE r == [check[k] EXCEPT !.left = @ \ {c}]
    <3>1. r \in CheckRecord /\ r.on
      BY <1>1, <1>2, SMT DEF CheckRecord
    <3>2. check' = [check EXCEPT ![k] = r]
      BY <1>2, <2>3
    <3>. QED BY <2>3, <3>1, <3>2
  <2>. QED BY <2>1, <2>2, <2>3 DEF Cards!Query
<1>4. /\ check' \in [Cards!Kind -> CheckRecord] /\ check'[k] = r
      /\ \A j \in Cards!Kind \ {k} : check'[j] = check[j]
      /\ blurred \subseteq blurred' /\ blurred' \subseteq blurred \cup {<<k, c>>}
  BY <1>2, <1>3
<1>5. /\ r.on => r.left = check[k].left \ {c} /\ r.found \subseteq check[k].found \cup {c}
      /\ r.on /\ c \in r.found => c \in world[k] \/ c \in check[k].found
      /\ r.on /\ <<k, c>> \notin blurred' => (c \in r.found <=> c \in world[k] \/ c \in check[k].found)
      /\ r.on => \A d : d # c => (d \in r.found <=> d \in check[k].found)
      /\ ~ r.on => <<k, c>> \in blurred' /\ Cards!Asked(k) = {c}
  <2>1. CASE r = [check[k] EXCEPT !.left = @ \ {c}, !.found = IF c \in world[k] THEN @ \cup {c} ELSE @]
    <3>1. r.on /\ r.left = check[k].left \ {c} /\ r.found = IF c \in world[k] THEN check[k].found \cup {c} ELSE check[k].found
      BY <1>1, <1>2, <2>1 DEF CheckRecord
    <3>. QED BY <3>1
  <2>2. CASE r = [check[k] EXCEPT !.left = @ \ {c}] /\ blurred' = blurred \cup {<<k, c>>}
    <3>1. r.on /\ r.left = check[k].left \ {c} /\ r.found = check[k].found
      BY <1>1, <1>2, <2>2 DEF CheckRecord
    <3>. QED BY <2>2, <3>1
  <2>3. CASE r = Cards!NoCheck /\ k = "hook" /\ blurred' = blurred \cup {<<k, c>>}
    BY <2>3, AskedFacts DEF Cards!NoCheck
  <2>. QED BY <1>3, <2>1, <2>2, <2>3 DEF Cards!NoCheck
<1>6. GalleryTypeOK'
  BY <1>1, <1>2, <1>4, SMT DEF GInv, GalleryTypeOK, ShownType, ModalType
<1>7. ASSUME mounted, open, NEW d \in check[k].found PROVE Excused(k, d)
  BY <1>1, <1>7 DEF GInv, FoundInv
<1>8. ToldOfCards'
  <2>1. SUFFICES ASSUME mounted, open, NEW j \in Cards!Kind, NEW d \in Cards!Asked(j) PROVE Told(j, d)'
    BY <1>1 DEF ToldOfCards
  <2>2. Told(j, d) /\ (Under(j, d) => Under(j, d)')
    BY <1>1, <2>1 DEF GInv, ToldOfCards, Under
  <2>3. CASE j # k
    BY <1>1, <1>4, <2>2, <2>3 DEF Told
  <2>4. CASE j = k /\ d = c
    <3>1. CASE <<k, c>> \in blurred'
      BY <2>4, <3>1 DEF Told
    <3>2. CASE <<k, c>> \notin blurred'
      <4>1. check'[k].on /\ (c \in check'[k].found <=> c \in world[k] \/ c \in check[k].found)
        BY <1>4, <1>5, <3>2
      <4>2. c \in check[k].found => c \in world[k]
        BY <1>4, <1>7, <2>1, <3>2 DEF Excused
      <4>. QED BY <1>1, <2>4, <4>1, <4>2 DEF Told
    <3>. QED BY <3>1, <3>2
  <2>5. CASE j = k /\ d # c
    <3>1. check'[k].on /\ (d \in check'[k].left <=> d \in check[k].left) /\ (d \in check'[k].found <=> d \in check[k].found)
      BY <1>4, <1>5, <2>5
    <3>. QED BY <1>1, <1>4, <2>2, <2>5, <3>1 DEF Told
  <2>. QED BY <2>3, <2>4, <2>5
<1>9. FoundInv'
  <2>1. SUFFICES ASSUME mounted, open, NEW j \in Cards!Kind, check'[j].on, NEW d \in check'[j].found
                 PROVE  Excused(j, d)'
    BY <1>1 DEF FoundInv
  <2>2. Excused(j, d)
    <3>1. CASE j = k
      BY <1>4, <1>5, <1>7, <2>1, <3>1 DEF Excused
    <3>2. CASE j # k
      BY <1>4, <2>1, <3>2 DEF GInv, FoundInv
    <3>. QED BY <3>1, <3>2
  <2>. QED BY <1>1, <1>4, <2>2 DEF Excused
<1>10. ASSUME NEW o \in Call PROVE CallFacts(o)'
  <2>1. CallFacts(o)
    BY DEF GInv, CallInv
  <2>2. \A d : Excused("seeded", d) => Excused("seeded", d)'
    BY <1>1, <1>4 DEF Excused
  <2>. QED BY <1>1, <2>1, <2>2 DEF CallFacts
<1>. QED BY <1>1, <1>6, <1>8, <1>9, <1>10 DEF GInv, CallInv, ModalInv

LEMMA CheckEndsStep == ASSUME GInv, NEW k \in Cards!Kind, Cards!CheckEnds(k) PROVE GInv'
<1>1. /\ check[k].on /\ check[k].left = {} /\ known' \in BOOLEAN
      /\ UNCHANGED <<world, mounted, open, busyName, setupEntry, wizard, calls, behind, blurred>>
  BY DEF Cards!CheckEnds, Cards!doing, GInv, GalleryTypeOK, ModalType
<1>2. /\ check' \in [Cards!Kind -> CheckRecord] /\ display' \in [Cards!Kind -> SUBSET Source]
      /\ ~ check'[k].on /\ display'[k] = check[k].found
      /\ \A j \in Cards!Kind \ {k} : check'[j] = check[j] /\ display'[j] = display[j]
  BY SMT DEF Cards!CheckEnds, Cards!NoCheck, GInv, GalleryTypeOK, ShownType, CheckRecord
<1>3. GalleryTypeOK'
  BY <1>1, <1>2 DEF GInv, GalleryTypeOK, ShownType, ModalType
<1>4. ToldOfCards'
  <2>1. SUFFICES ASSUME mounted, open, NEW j \in Cards!Kind, NEW d \in Cards!Asked(j) PROVE Told(j, d)'
    BY <1>1 DEF ToldOfCards
  <2>2. Told(j, d) /\ (Under(j, d) => Under(j, d)')
    BY <1>1, <2>1 DEF GInv, ToldOfCards, Under
  <2>3. CASE j # k
    BY <1>1, <1>2, <2>2, <2>3 DEF Told
  <2>4. CASE j = k
    BY <1>1, <1>2, <2>2, <2>4 DEF Told
  <2>. QED BY <2>3, <2>4
<1>5. FoundInv'
  BY <1>1, <1>2 DEF GInv, FoundInv, Excused
<1>6. ASSUME NEW o \in Call PROVE CallFacts(o)'
  <2>1. CallFacts(o) /\ calls[o].kind \in Cards!Kind
    BY DEF GInv, CallInv, GalleryTypeOK, CallRecord
  <2>2. \A j, d : Excused(j, d)' <=> Excused(j, d)
    BY <1>1 DEF Excused
  <2>3. \A d : check[calls[o].kind].on /\ d \in check[calls[o].kind].left
           => check'[calls[o].kind].on /\ d \in check'[calls[o].kind].left
    BY <1>1, <1>2, <2>1
  <2>. QED BY <1>1, <2>1, <2>2, <2>3 DEF CallFacts
<1>. QED BY <1>1, <1>3, <1>4, <1>5, <1>6 DEF GInv, CallInv, ModalInv

\* One call moves, and what it has written is told of no less.
LEMMA CallStep ==
    ASSUME GInv, NEW o \in Call, NEW r \in CallRecord, calls' = [calls EXCEPT ![o] = r], ModalType',
           UNCHANGED <<world, display, check, mounted, open, behind, blurred>>,
           \A c : calls[o].at # "idle" /\ c \in calls[o].cards \ calls[o].left =>
                    r.kind = calls[o].kind /\ r.at # "idle" /\ c \in r.cards \ r.left,
           CallFacts(o)'
    PROVE  GInv'
<1>1. calls' \in [Call -> CallRecord] /\ calls'[o] = r /\ \A p \in Call \ {o} : calls'[p] = calls[p]
  BY DEF GInv, GalleryTypeOK
<1>2. GalleryTypeOK' /\ ModalInv'
  BY <1>1 DEF GInv, GalleryTypeOK, ShownType, ModalInv
<1>3. \A k, c : Excused(k, c)' <=> Excused(k, c)
  BY DEF Excused
<1>4. ASSUME NEW k, NEW c, Under(k, c) PROVE Under(k, c)'
  <2>1. PICK p \in Call : calls[p].kind = k /\ calls[p].at # "idle" /\ c \in calls[p].cards \ calls[p].left
    BY <1>4 DEF Under
  <2>2. calls'[p].kind = k /\ calls'[p].at # "idle" /\ c \in calls'[p].cards \ calls'[p].left
    BY <1>1, <2>1
  <2>. QED BY <2>2 DEF Under
<1>5. ToldOfCards' /\ FoundInv'
  BY <1>3, <1>4 DEF GInv, ToldOfCards, FoundInv, Told
<1>6. ASSUME NEW p \in Call PROVE CallFacts(p)'
  <2>1. CASE p # o
    <3>1. CallFacts(p) /\ calls'[p] = calls[p]
      BY <1>1, <2>1 DEF GInv, CallInv
    <3>. QED BY <1>3, <3>1 DEF CallFacts
  <2>. QED BY <2>1
<1>. QED BY <1>2, <1>5, <1>6 DEF GInv, CallInv

\* Something is asked of the main process.
LEMMA AskStep ==
    ASSUME GInv, NEW o \in Call, NEW kind \in Cards!Kind, NEW cards \in SUBSET Cards!Asked(kind),
           Cards!Ask(o, kind, cards), mounted, open, ModalType',
           UNCHANGED <<world, display, check, mounted, open, behind, blurred>>
    PROVE  GInv'
<1> DEFINE r == [kind |-> kind, cards |-> cards, left |-> cards, at |-> "asked", ok |-> FALSE, mine |-> TRUE]
<1>1. calls[o].at = "idle" /\ calls' = [calls EXCEPT ![o] = r] /\ r \in CallRecord
  BY AskedFacts DEF Cards!Ask, CallRecord
<1>2. calls'[o] = r
  BY <1>1 DEF GInv, GalleryTypeOK
<1>3. CallFacts(o)'
  BY <1>2 DEF CallFacts
<1> HIDE DEF r
<1>. QED BY <1>1, <1>3, CallStep

LEMMA handleConnectStep ==
    ASSUME GInv, NEW o \in Call, NEW c \in Card, Cards!handleConnect(o, c) PROVE GInv'
<1>1. /\ mounted /\ open /\ Cards!Ask(o, "connected", {c}) /\ busyName' = c
      /\ UNCHANGED <<world, mounted, open, display, known, check, setupEntry, wizard, behind, blurred>>
  BY DEF Cards!handleConnect, Cards!AtGallery, Cards!asking
<1>2. ModalType' /\ {c} \in SUBSET Cards!Asked("connected") /\ "connected" \in Cards!Kind
  BY <1>1, AskedFacts DEF GInv, GalleryTypeOK, ModalType, Source
<1>. QED BY <1>1, <1>2, AskStep

LEMMA handleInstallHookStep ==
    ASSUME GInv, NEW o \in Call, Cards!handleInstallHook(o) PROVE GInv'
<1>1. /\ mounted /\ open /\ Cards!Ask(o, "hook", {HookCard}) /\ busyName' = HookCard
      /\ UNCHANGED <<world, mounted, open, display, known, check, setupEntry, wizard, behind, blurred>>
  BY DEF Cards!handleInstallHook, Cards!AtGallery, Cards!asking
<1>2. ModalType' /\ {HookCard} \in SUBSET Cards!Asked("hook") /\ "hook" \in Cards!Kind
  BY <1>1, AskedFacts DEF GInv, GalleryTypeOK, ModalType, Source
<1>. QED BY <1>1, <1>2, AskStep

LEMMA handleSaveStep ==
    ASSUME GInv, NEW o \in Call, Cards!handleSave(o) PROVE GInv'
<1> DEFINE targets == TargetsOf[Cards!catalog]
<1>1. /\ mounted /\ open /\ setupEntry # NoOne /\ Cards!Ask(o, "seeded", targets)
      /\ wizard' = [wizard EXCEPT !.saving = o]
      /\ UNCHANGED <<world, mounted, open, display, known, check, busyName, setupEntry, behind, blurred>>
  BY DEF Cards!handleSave, Cards!Editable, Cards!AtWizard, Cards!asking
<1>2. wizard' \in WizardRecord
  BY <1>1 DEF GInv, GalleryTypeOK, ModalType, WizardRecord
<1>3. ModalType'
  BY <1>1, <1>2 DEF GInv, GalleryTypeOK, ModalType
<1>4. targets \in SUBSET Cards!Asked("seeded") /\ "seeded" \in Cards!Kind
  BY <1>1, AskedFacts DEF GInv, GalleryTypeOK, ModalType, Cards!catalog
<1> HIDE DEF targets
<1>. QED BY <1>1, <1>3, <1>4, AskStep

LEMMA SetUpStep == ASSUME GInv, NEW c \in Cards!Byo, Cards!SetUp(c) PROVE GInv'
<1>1. UNCHANGED <<world, display, check, mounted, open, calls, behind, blurred>>
  BY DEF Cards!SetUp, Cards!asking
<1>2. ModalType'
  BY DEF Cards!SetUp, Cards!asking, GInv, GalleryTypeOK, ModalType
<1>. QED BY <1>1, <1>2, StillStep

LEMMA ForwardStep == ASSUME GInv, Cards!Forward PROVE GInv'
<1>1. UNCHANGED <<world, display, check, mounted, open, calls, behind, blurred>>
  BY DEF Cards!Forward, Cards!asking
<1>2. wizard' \in WizardRecord
  BY SMT DEF Cards!Forward, GInv, GalleryTypeOK, ModalType, WizardRecord
<1>3. ModalType'
  BY <1>2 DEF Cards!Forward, Cards!asking, GInv, GalleryTypeOK, ModalType
<1>. QED BY <1>1, <1>3, StillStep

LEMMA TypeStep == ASSUME GInv, NEW field \in {"id", "secret"}, Cards!Type(field) PROVE GInv'
<1>1. UNCHANGED <<world, display, check, mounted, open, calls, behind, blurred>>
  BY DEF Cards!Type, Cards!asking
<1>2. wizard' \in WizardRecord
  BY SMT DEF Cards!Type, GInv, GalleryTypeOK, ModalType, WizardRecord
<1>3. ModalType'
  BY <1>2 DEF Cards!Type, Cards!asking, GInv, GalleryTypeOK, ModalType
<1>. QED BY <1>1, <1>3, StillStep

LEMMA onBackStep ==
    ASSUME GInv, Cards!onBack,
           UNCHANGED <<world, mounted, open, display, known, check, busyName, behind, blurred>>
    PROVE  GInv'
<1>1. Cards!Abandon({"seeded"}) /\ setupEntry' = NoOne /\ wizard' = Cards!Fresh
  BY DEF Cards!onBack
<1>2. wizard' \in WizardRecord
  BY <1>1, SMT DEF Cards!Fresh, WizardRecord
<1>3. calls' \in [Call -> CallRecord]
  BY <1>1, AbandonFacts
<1>4. GalleryTypeOK' /\ ModalInv'
  BY <1>1, <1>2, <1>3 DEF GInv, GalleryTypeOK, ShownType, ModalType, ModalInv
<1>5. ASSUME NEW k, NEW c PROVE (Excused(k, c)' <=> Excused(k, c)) /\ (Under(k, c)' <=> Under(k, c))
  BY <1>1, AbandonFacts DEF Excused, Under
<1>6. ToldOfCards' /\ FoundInv'
  BY <1>5 DEF GInv, ToldOfCards, FoundInv, Told
<1>7. ASSUME NEW o \in Call PROVE CallFacts(o)'
  <2>1. CallFacts(o)
    BY DEF GInv, CallInv
  <2>. QED BY <1>1, <1>5, <2>1, AbandonFacts DEF CallFacts
<1>. QED BY <1>4, <1>6, <1>7 DEF GInv, CallInv

LEMMA BackStep == ASSUME GInv, Cards!Back PROVE GInv'
<1>1. UNCHANGED <<world, mounted, open, display, known, check, busyName, behind, blurred>>
  BY DEF Cards!Back, Cards!asking
<1>2. CASE Cards!onBack
  BY <1>1, <1>2, onBackStep
<1>3. CASE wizard.screen > 0 /\ wizard' = [wizard EXCEPT !.screen = @ - 1] /\ UNCHANGED <<setupEntry, calls>>
  <2>1. wizard' \in WizardRecord
    BY <1>3, SMT DEF GInv, GalleryTypeOK, ModalType, WizardRecord
  <2>2. ModalType'
    BY <1>1, <1>3, <2>1 DEF GInv, GalleryTypeOK, ModalType
  <2>. QED BY <1>1, <1>3, <2>2, StillStep
<1>. QED BY <1>2, <1>3 DEF Cards!Back

-----------------------------------------------------------------------------
(* The main process, and its answers.                                      *)

\* A card more is there, and a call answers for it.
LEMMA WritesStep ==
    ASSUME GInv, NEW o \in Call, NEW r \in CallRecord, calls' = [calls EXCEPT ![o] = r],
           NEW k \in Cards!Kind, NEW new \in SUBSET Source, world' = [world EXCEPT ![k] = @ \cup new],
           UNCHANGED <<display, check, mounted, open, known, busyName, setupEntry, wizard, behind, blurred>>,
           r.kind = k /\ calls[o].kind = k /\ r.at # "idle" /\ new \subseteq r.cards \ r.left,
           calls[o].cards \ calls[o].left \subseteq r.cards \ r.left,
           CallFacts(o)'
    PROVE  GInv'
<1>1. calls' \in [Call -> CallRecord] /\ calls'[o] = r /\ \A p \in Call \ {o} : calls'[p] = calls[p]
  BY DEF GInv, GalleryTypeOK
<1>2. /\ world' \in [Cards!Kind -> SUBSET Source] /\ world'[k] = world[k] \cup new
      /\ \A j \in Cards!Kind \ {k} : world'[j] = world[j]
  BY DEF GInv, GalleryTypeOK, ShownType
<1>3. GalleryTypeOK' /\ ModalInv'
  BY <1>1, <1>2 DEF GInv, GalleryTypeOK, ShownType, ModalType, ModalInv
<1>4. ASSUME NEW j \in Cards!Kind, NEW c, Excused(j, c) PROVE Excused(j, c)'
  BY <1>2, <1>4 DEF Excused
<1>5. ASSUME NEW j, NEW c, Under(j, c) PROVE Under(j, c)'
  <2>1. PICK p \in Call : calls[p].kind = j /\ calls[p].at # "idle" /\ c \in calls[p].cards \ calls[p].left
    BY <1>5 DEF Under
  <2>2. calls'[p].kind = j /\ calls'[p].at # "idle" /\ c \in calls'[p].cards \ calls'[p].left
    BY <1>1, <2>1
  <2>. QED BY <2>2 DEF Under
<1>6. ASSUME NEW c \in new PROVE Under(k, c)'
  BY <1>1 DEF Under
<1>7. ToldOfCards'
  <2>1. SUFFICES ASSUME mounted, open, NEW j \in Cards!Kind, NEW c \in Cards!Asked(j) PROVE Told(j, c)'
    BY DEF ToldOfCards
  <2>2. Told(j, c)
    BY <2>1 DEF GInv, ToldOfCards
  <2>3. CASE j = k /\ c \in new
    BY <1>6, <2>3 DEF Told
  <2>4. CASE ~ (j = k /\ c \in new)
    <3>1. c \in world'[j] <=> c \in world[j]
      BY <1>2, <2>1, <2>4
    <3>. QED BY <1>5, <2>2, <3>1 DEF Told
  <2>. QED BY <2>3, <2>4
<1>8. FoundInv'
  BY <1>4 DEF GInv, FoundInv
<1>9. ASSUME NEW p \in Call PROVE CallFacts(p)'
  <2>1. CASE p # o
    <3>1. CallFacts(p) /\ calls'[p] = calls[p] /\ calls[p].kind \in Cards!Kind /\ "seeded" \in Cards!Kind
      BY <1>1, <2>1, AskedFacts DEF GInv, CallInv, GalleryTypeOK, CallRecord
    <3>. QED BY <1>4, <3>1 DEF CallFacts
  <2>. QED BY <2>1
<1>. QED BY <1>3, <1>7, <1>8, <1>9 DEF GInv, CallInv

LEMMA SeedsStep == ASSUME GInv, NEW o \in Call, NEW c \in Cards!Byo, Cards!Seeds(o, c) PROVE GInv'
<1> DEFINE r == [calls[o] EXCEPT !.left = @ \ {c}]
<1>1. /\ calls[o] \in CallRecord /\ calls[o].at = "asked" /\ calls[o].kind = "seeded" /\ c \in calls[o].left
      /\ calls' = [calls EXCEPT ![o] = r] /\ world' = [world EXCEPT !["seeded"] = @ \cup {c}]
      /\ UNCHANGED <<display, check, mounted, open, known, busyName, setupEntry, wizard, behind, blurred>>
  BY DEF Cards!Seeds, Cards!asking, Cards!doing, GInv, GalleryTypeOK
<1>2. /\ r \in CallRecord /\ r.left = calls[o].left \ {c} /\ r.cards = calls[o].cards
      /\ r.kind = "seeded" /\ r.at = "asked" /\ r.mine = calls[o].mine /\ r.ok = calls[o].ok
  BY <1>1, SMT DEF CallRecord
<1> HIDE DEF r
<1>3. calls'[o] = r /\ {c} \in SUBSET Source /\ "seeded" \in Cards!Kind /\ CallFacts(o)
  BY <1>1, AskedFacts DEF GInv, GalleryTypeOK, CallInv, Source
<1>4. c \in world'["seeded"] /\ \A d : Excused("seeded", d) => Excused("seeded", d)'
  BY <1>1, <1>3 DEF Excused, GInv, GalleryTypeOK, ShownType
<1>5. CallFacts(o)'
  BY <1>1, <1>2, <1>3, <1>4 DEF CallFacts, Excused
<1>6. {c} \subseteq r.cards \ r.left /\ calls[o].cards \ calls[o].left \subseteq r.cards \ r.left
  BY <1>1, <1>2, <1>3 DEF CallFacts
<1>. QED BY <1>1, <1>2, <1>3, <1>5, <1>6, WritesStep

LEMMA EndsStep == ASSUME GInv, NEW o \in Call, NEW ok \in BOOLEAN, Cards!Ends(o, ok) PROVE GInv'
<1> DEFINE k == calls[o].kind
           r == Cards!Sent(calls[o], ok)
<1>1. /\ calls[o] \in CallRecord /\ calls[o].at = "asked" /\ calls' = [calls EXCEPT ![o] = r]
      /\ UNCHANGED <<display, check, mounted, open, known, busyName, setupEntry, wizard, behind, blurred>>
  BY DEF Cards!Ends, Cards!asking, Cards!doing, GInv, GalleryTypeOK
<1>2. /\ r.left = (IF ok THEN {} ELSE calls[o].left) /\ r.cards = calls[o].cards
      /\ r.kind = calls[o].kind /\ r.at = "sent" /\ r.mine = calls[o].mine /\ r.ok = ok
  BY <1>1, SMT DEF CallRecord, Cards!Sent
<1>3. r \in CallRecord
  <2>1. CASE ok
    <3>1. r = [calls[o] EXCEPT !.at = "sent", !.ok = ok, !.left = {}]
      BY <2>1 DEF Cards!Sent
    <3>. QED BY <1>1, <3>1 DEF CallRecord
  <2>2. CASE ~ ok
    <3>1. r = [calls[o] EXCEPT !.at = "sent", !.ok = ok]
      BY <1>1, <2>2 DEF CallRecord, Cards!Sent
    <3>. QED BY <1>1, <3>1 DEF CallRecord
  <2>. QED BY <2>1, <2>2
<1> HIDE DEF r
<1>4. calls'[o] = r /\ CallFacts(o) /\ k \in Cards!Kind /\ k = r.kind
  BY <1>1, <1>2 DEF GInv, GalleryTypeOK, CallInv, CallRecord
<1>5. ModalType'
  BY <1>1 DEF GInv, GalleryTypeOK, ModalType
<1>6. CASE k # "seeded" /\ ok /\ world' = [world EXCEPT ![k] = @ \cup calls[o].cards]
  <2>1. \A d \in calls[o].cards : d \in world'[k]
    BY <1>4, <1>6 DEF GInv, GalleryTypeOK, ShownType
  <2>2. CallFacts(o)'
    BY <1>1, <1>2, <1>4, <1>6, <2>1 DEF CallFacts, Excused
  <2>3. calls[o].cards \in SUBSET Source /\ calls[o].cards \subseteq r.cards \ r.left
        /\ calls[o].cards \ calls[o].left \subseteq r.cards \ r.left
    BY <1>1, <1>2, <1>6 DEF CallRecord
  <2> HIDE DEF k
  <2>. QED BY <1>1, <1>2, <1>3, <1>4, <1>6, <2>2, <2>3, WritesStep DEF k
<1>7. CASE (k = "seeded" \/ ~ ok) /\ (ok => calls[o].left = {}) /\ world' = world
  <2>1. r.left = calls[o].left
    BY <1>2, <1>7
  <2>2. CallFacts(o)'
    BY <1>1, <1>2, <1>4, <1>7, <2>1 DEF CallFacts, Excused
  <2>. QED BY <1>1, <1>2, <1>3, <1>5, <1>7, <2>1, <2>2, CallStep
<1>. QED BY <1>1, <1>6, <1>7 DEF Cards!Ends

(* An answer.  One that is heard shows its sources as added: they are, or  *)
(* somebody removed them since, or they are still to be asked about.       *)
LEMMA AnswerStep == ASSUME GInv, NEW o \in Call, NEW heard \in BOOLEAN, Cards!Answer(o, heard) PROVE GInv'
<1> DEFINE k == calls[o].kind
           cards == calls[o].cards
           blur == {<<k, c>> : c \in IF heard THEN Cards!Overtaken(k, cards) ELSE cards \ calls[o].left}
<1>1. /\ calls[o].at = "sent" /\ calls' = [calls EXCEPT ![o] = Cards!Idle]
      /\ IF calls[o].mine /\ calls[o].ok THEN heard \/ k = "hook" ELSE ~ heard
      /\ display' = IF ~ heard THEN display ELSE [display EXCEPT ![k] = IF k = "hook" THEN world[k] ELSE @ \cup cards]
      /\ busyName' \in {busyName, NoOne}
      /\ wizard' = IF wizard.saving # o THEN wizard
                   ELSE [wizard EXCEPT !.saving = NoOne, !.saved = calls[o].ok]
      /\ blurred' = blurred \cup blur
      /\ UNCHANGED <<world, mounted, open, known, check, setupEntry, behind>>
  BY DEF Cards!Answer
<1>2. calls[o] \in CallRecord /\ k \in Cards!Kind /\ cards \subseteq Source /\ CallFacts(o)
  BY DEF GInv, GalleryTypeOK, CallRecord, CallInv
<1>3. Cards!Idle \in CallRecord
  BY AskedFacts, SMT DEF Cards!Idle, CallRecord
<1>4. calls' \in [Call -> CallRecord] /\ calls'[o] = Cards!Idle /\ \A p \in Call \ {o} : calls'[p] = calls[p]
  BY <1>1, <1>3 DEF GInv, GalleryTypeOK
<1>5. wizard' \in WizardRecord
  <2>1. wizard \in WizardRecord /\ calls[o].ok \in BOOLEAN
    BY <1>2 DEF GInv, GalleryTypeOK, ModalType, CallRecord
  <2>2. [wizard EXCEPT !.saving = NoOne, !.saved = calls[o].ok] \in WizardRecord
    BY <2>1 DEF WizardRecord
  <2>. QED BY <1>1, <2>1, <2>2
<1>6. Cards!Overtaken(k, cards) \subseteq cards
  BY DEF Cards!Overtaken
<1>7. blur \subseteq Cards!Kind \X Source
  BY <1>2, <1>6
<1> HIDE DEF blur
<1>8. /\ display' \in [Cards!Kind -> SUBSET Source]
      /\ \A j \in Cards!Kind \ {k} : display'[j] = display[j]
      /\ ~ heard => display'[k] = display[k]
      /\ heard /\ k = "hook" => display'[k] = world[k]
      /\ heard /\ k # "hook" => display'[k] = display[k] \cup cards
  <2>1. CASE ~ heard
    BY <1>1, <2>1 DEF GInv, GalleryTypeOK, ShownType
  <2>2. CASE heard
    <3> DEFINE e == IF k = "hook" THEN world[k] ELSE display[k] \cup cards
    <3>1. e \in SUBSET Source
      BY <1>2 DEF GInv, GalleryTypeOK, ShownType
    <3>2. display' = [display EXCEPT ![k] = e]
      BY <1>1, <2>2
    <3> HIDE DEF e
    <3>3. display' \in [Cards!Kind -> SUBSET Source] /\ display'[k] = e /\ \A j \in Cards!Kind \ {k} : display'[j] = display[j]
      BY <1>2, <3>1, <3>2 DEF GInv, GalleryTypeOK, ShownType
    <3>4. (k = "hook" => e = world[k]) /\ (k # "hook" => e = display[k] \cup cards)
      BY DEF e
    <3>. QED BY <2>2, <3>3, <3>4
  <2>. QED BY <2>1, <2>2
<1>9. GalleryTypeOK' /\ ModalInv'
  <2>1. busyName' \in Source \cup {NoOne}
    BY <1>1 DEF GInv, GalleryTypeOK, ModalType
  <2>. QED BY <1>1, <1>4, <1>5, <1>7, <1>8, <2>1 DEF GInv, GalleryTypeOK, ShownType, ModalType, ModalInv
<1>10. ASSUME NEW j, NEW c, Excused(j, c) PROVE Excused(j, c)'
  BY <1>1, <1>10 DEF Excused
<1>11. ASSUME NEW j, NEW c, Under(j, c), ~ (j = k /\ c \in cards \ calls[o].left) PROVE Under(j, c)'
  <2>1. PICK p \in Call : calls[p].kind = j /\ calls[p].at # "idle" /\ c \in calls[p].cards \ calls[p].left
    BY <1>11 DEF Under
  <2>2. p # o
    BY <1>11, <2>1
  <2>3. calls'[p].kind = j /\ calls'[p].at # "idle" /\ c \in calls'[p].cards \ calls'[p].left
    BY <1>4, <2>1, <2>2
  <2>. QED BY <2>3 DEF Under
<1>12. ToldOfCards'
  <2>1. SUFFICES ASSUME mounted, open, NEW j \in Cards!Kind, NEW c \in Cards!Asked(j) PROVE Told(j, c)'
    BY <1>1 DEF ToldOfCards
  <2>2. Told(j, c)
    BY <2>1 DEF GInv, ToldOfCards
  <2>3. CASE j # k
    <3>1. Under(j, c) => Under(j, c)'
      BY <1>11, <2>3
    <3>. QED BY <1>1, <1>8, <2>2, <2>3, <3>1 DEF Told
  <2>4. CASE j = k /\ ~ heard
    <3>1. CASE c \in cards \ calls[o].left
      BY <1>1, <2>4, <3>1 DEF Told, blur
    <3>2. CASE c \notin cards \ calls[o].left
      BY <1>1, <1>8, <1>11, <2>2, <2>4, <3>2 DEF Told
    <3>. QED BY <3>1, <3>2
  <2>5. CASE j = k /\ heard /\ c \notin cards
    <3>1. Under(j, c) => Under(j, c)'
      BY <1>11, <2>5
    <3>2. k # "hook" => (c \in display'[k] <=> c \in display[k])
      BY <1>8, <2>5
    <3>3. k = "hook" => display'[k] = world[k]
      BY <1>8, <2>5
    <3>. QED BY <1>1, <2>2, <2>5, <3>1, <3>2, <3>3 DEF Told
  <2>6. CASE j = k /\ heard /\ c \in cards
    <3>1. calls[o].mine /\ calls[o].ok /\ calls[o].left = {}
      BY <1>1, <1>2, <2>6 DEF CallFacts
    <3>2. Excused(k, c) \/ (check[k].on /\ c \in check[k].left)
      BY <1>1, <1>2, <2>1, <2>6, <3>1 DEF CallFacts
    <3>3. CASE ~ check[k].on
      <4>1. c \in display'[k] \/ (k = "hook" /\ display'[k] = world[k])
        BY <1>8, <2>6
      <4>. QED BY <1>1, <2>6, <3>2, <3>3, <4>1 DEF Told, Excused
    <3>4. CASE check[k].on /\ c \in check[k].left
      BY <1>1, <2>6, <3>4 DEF Told
    <3>5. CASE check[k].on /\ c \notin check[k].left /\ c \notin check[k].found
      BY <1>1, <2>6, <3>5 DEF Told, blur, Cards!Overtaken
    <3>6. CASE check[k].on /\ c \notin check[k].left /\ c \in check[k].found
      BY <1>1, <2>6, <3>2, <3>6 DEF Told, Excused
    <3>. QED BY <3>3, <3>4, <3>5, <3>6
  <2>. QED BY <2>3, <2>4, <2>5, <2>6
<1>13. FoundInv'
  BY <1>1, <1>10 DEF GInv, FoundInv
<1>14. ASSUME NEW p \in Call PROVE CallFacts(p)'
  <2>1. CASE p # o
    <3>1. CallFacts(p) /\ calls'[p] = calls[p]
      BY <1>4, <2>1 DEF GInv, CallInv
    <3>. QED BY <1>1, <1>10, <3>1 DEF CallFacts
  <2>2. CASE p = o
    BY <1>4, <2>2, AskedFacts DEF CallFacts, Cards!Idle
  <2>. QED BY <2>1, <2>2
<1>. QED BY <1>9, <1>12, <1>13, <1>14 DEF GInv, CallInv

-----------------------------------------------------------------------------
LEMMA GalleryInit == Cards!Init => GInv
<1>1. SUFFICES ASSUME Cards!Init PROVE GInv
  OBVIOUS
<1>2. GalleryTypeOK
  <2>1. world \in [Cards!Kind -> SUBSET Source] /\ display \in [Cards!Kind -> SUBSET Source]
    BY <1>1 DEF Cards!Init, Source
  <2>2. wizard \in WizardRecord /\ check \in [Cards!Kind -> CheckRecord]
    BY <1>1, SMT DEF Cards!Init, Cards!Fresh, Cards!NoCheck, WizardRecord, CheckRecord
  <2>3. calls \in [Call -> CallRecord]
    BY <1>1, AskedFacts, SMT DEF Cards!Init, Cards!Idle, CallRecord
  <2>. QED BY <1>1, <2>1, <2>2, <2>3 DEF Cards!Init, GalleryTypeOK, ShownType, ModalType
<1>3. ModalInv /\ ToldOfCards /\ FoundInv
  BY <1>1 DEF Cards!Init, ModalInv, ToldOfCards, FoundInv
<1>4. CallInv
  BY <1>1, AskedFacts DEF Cards!Init, Cards!Idle, CallInv, CallFacts
<1>. QED BY <1>2, <1>3, <1>4 DEF GInv

LEMMA GalleryStep == GInv /\ [Cards!Next]_(Cards!gvars) => GInv'
<1>1. SUFFICES ASSUME GInv, [Cards!Next]_(Cards!gvars) PROVE GInv'
  OBVIOUS
<1>2. CASE UNCHANGED Cards!gvars
  <2>1. UNCHANGED <<world, display, check, mounted, open, calls, behind, blurred, known, busyName, setupEntry, wizard>>
    BY <1>2 DEF Cards!gvars
  <2>2. ModalType'
    BY <1>1, <2>1 DEF GInv, GalleryTypeOK, ModalType
  <2>. QED BY <1>1, <2>1, <2>2, StillStep
<1>3. CASE Cards!Next
  BY <1>1, <1>3, GalleryOpenStep, CloseModalStep, LeaveTabStep, EnterTabStep, BackStep, ForwardStep, CheckEndsStep,
     OthersChangeStep, QueryStep, SetUpStep, TypeStep, handleInstallHookStep, handleSaveStep, EndsStep,
     AnswerStep, handleConnectStep, SeedsStep DEF Cards!Next
<1>. QED BY <1>1, <1>2, <1>3

LEMMA GalleryInv == Cards!Spec => []GInv
  BY GalleryInit, GalleryStep, PTL DEF Cards!Spec

THEOREM GalleryTypeCorrect == Cards!Spec => []GalleryTypeOK
  BY GalleryInv, PTL DEF GInv

THEOREM GalleryTruthfulHolds == Cards!Spec => []GalleryTruthful
<1>1. GInv => GalleryTruthful
  BY PendingFacts DEF GInv, ToldOfCards, Told, GalleryTruthful, Cards!GalleryTruthful
<1>. QED BY <1>1, GalleryInv, PTL

-----------------------------------------------------------------------------
(* The sources of the window.                                              *)

Listing == {"absent", "bridge", "foreign"}
Result == [ok : BOOLEAN, entries : [Name -> Listing], taken : SUBSET Name]
Message == [op : Op \cup {NoOne}, read : Result]
Request == [kind : {"none", "remove", "connect"}, name : Name \cup {NoOne},
            at : {"none", "asked", "clearing", "sent", "over"}, outcome : {"none", "noop", "error", "wrote", "left"}]
Inspector == [at : {"closed", "viewing", "confirming", "removing", "busy"}, op : Op \cup {NoOne}]

ConfigType == config \in [ok : BOOLEAN, entries : [Name -> Listing]] /\ taken \subseteq Name /\ elsewhere \in Nat
MainType == ConfigType /\ asked \in BOOLEAN /\ answers \in Seq(Message) /\ ops \in [Op -> Request]
WindowType ==
    /\ snap \in [current : Result, previous : Result] /\ drawn \in BOOLEAN /\ shown \in Result
    /\ selected \in Name \cup {NoOne} /\ inspector \in Inspector
    /\ inAppRemoves \subseteq Name /\ vanished \subseteq Name /\ residualCreds \subseteq Name
    /\ mistold \subseteq Name /\ crossed \subseteq Name

SourcesTypeOK == MainType /\ WindowType

(* What the window has yet to compare, in order: the pair of results that  *)
(* is not rendered, the results on their way, and the config itself.       *)
Places == (IF drawn THEN 0 ELSE -1)..(Len(answers) + 1)

ToSee(p) ==
    IF p = -1 THEN snap.previous ELSE IF p = 0 THEN snap.current
    ELSE IF p <= Len(answers) THEN answers[p].read ELSE [ok |-> TRUE, entries |-> config.entries, taken |-> taken]

Is(p, n, e) == ToSee(p).ok /\ ToSee(p).entries[n] = e

\* Absent, and no other program took it.
Ours(p, n) == Is(p, n, "absent") /\ n \notin ToSee(p).taken

Removes(i, n) == ops[i].kind = "remove" /\ ops[i].name = n /\ ops[i].at # "over"

\* A remove that has not written, or that failed.
Unwritten(i) == ops[i].at = "asked" \/ (ops[i].at = "sent" /\ ops[i].outcome \notin {"wrote", "left"})

OneRemove(n) == \A i, j \in Op : Removes(i, n) /\ Removes(j, n) => i = j

BridgeTill(n) == \A i \in Op : Removes(i, n) /\ Unwritten(i) =>
                    \A p \in Places : ToSee(p).ok => ToSee(p).entries[n] = "bridge"

AskedFor(n) == \A i \in Op : Removes(i, n) /\ ops[i].at = "asked" => n \in inAppRemoves

\* What the window will see go is excluded, and goes but once.
GoesExcluded(n) == \A p, q \in Places : p <= q /\ Is(p, n, "bridge") /\ Ours(q, n) => n \in inAppRemoves

GoesOnce(n) == \A p, q, r \in Places : ~ (p <= q /\ q <= r /\ Is(p, n, "absent") /\ Is(q, n, "bridge") /\ Ours(r, n))

NameFacts(n) == OneRemove(n) /\ BridgeTill(n) /\ AskedFor(n) /\ GoesExcluded(n) /\ GoesOnce(n)

NamesInv == \A n \in Name \ crossed : NameFacts(n)

AnswersInv ==
    /\ \A k \in 1..Len(answers) : answers[k].op # NoOne => ops[answers[k].op].at = "sent" /\ ~ answers[k].read.ok
    /\ \A k, m \in 1..Len(answers) : answers[k].op = answers[m].op /\ answers[k].op # NoOne => k = m

ScreenInv ==
    /\ drawn => shown = snap.current
    /\ IF inspector.at = "closed" THEN inspector.op = NoOne ELSE selected \in Name
    /\ \A i \in Op : ops[i].kind # "none" => ops[i].name \in Name
    /\ \A i \in Op : ops[i].at = "clearing" => ops[i].kind = "remove"
    /\ \A i \in Op : ops[i].kind = "none" <=> ops[i].at = "none"

SInv == SourcesTypeOK /\ NamesInv /\ AnswersInv /\ ScreenInv /\ mistold \subseteq crossed

-----------------------------------------------------------------------------
(* From one state to the next: each place shows what a place before showed, *)
(* in the same order, but for the last one, the config.                    *)
Last == Len(answers) + 1

AsBefore(p, q, n) ==
    /\ ToSee(q).ok /\ ToSee(p)'.entries[n] = ToSee(q).entries[n]
    /\ n \in ToSee(p)'.taken <=> n \in ToSee(q).taken

Mapped(p, n, f) == ToSee(p)'.ok => f[p] \in Places /\ AsBefore(p, f[p], n)

Monotone == {f \in [Int -> Int] : \A p, q \in Int : p <= q => f[p] <= f[q]}

LEMMA PlacesFacts ==
    ASSUME SInv
    PROVE  /\ Len(answers) \in Nat /\ Places \subseteq Int /\ Last \in Places /\ \A p \in Places : p <= Last
           /\ \A p \in Places : ToSee(p) \in Result
<1>1. Len(answers) \in Nat /\ \A k \in 1..Len(answers) : answers[k] \in Message
  BY SMT DEF SInv, SourcesTypeOK, MainType
<1>2. Places \subseteq Int /\ Last \in Places /\ \A p \in Places : p <= Last
  BY <1>1, SMT DEF Places, Last
<1>3. ASSUME NEW p \in Places PROVE ToSee(p) \in Result
  <2>1. snap.previous \in Result /\ snap.current \in Result
    BY DEF SInv, SourcesTypeOK, WindowType
  <2>2. [ok |-> TRUE, entries |-> config.entries, taken |-> taken] \in Result
    BY DEF SInv, SourcesTypeOK, MainType, ConfigType, Result
  <2>3. CASE p \in 1..Len(answers)
    <3>1. ToSee(p) = answers[p].read
      BY <1>1, <2>3, SMT DEF ToSee
    <3>. QED BY <1>1, <2>3, <3>1 DEF Message
  <2>4. CASE p \notin 1..Len(answers)
    <3>1. p \in {-1, 0, Len(answers) + 1}
      BY <1>1, <2>4, SMT DEF Places
    <3>2. ToSee(-1) = snap.previous /\ ToSee(0) = snap.current
      BY DEF ToSee
    <3>3. ToSee(Len(answers) + 1) = [ok |-> TRUE, entries |-> config.entries, taken |-> taken]
      BY <1>1, SMT DEF ToSee
    <3>. QED BY <2>1, <2>2, <3>1, <3>2, <3>3
  <2>. QED BY <2>3, <2>4
<1>. QED BY <1>1, <1>2, <1>3

(* What keeps the facts of a name.                                         *)
LEMMA NameStep ==
    ASSUME SInv, NEW n \in Name, NameFacts(n), Len(answers') \in Nat, Places' \subseteq Int, NEW f \in Monotone,
           \A p \in Places' : Mapped(p, n, f)
             \/ (p = Last' /\ (Is(p, n, "bridge")' \/ (~ Ours(p, n)' /\ \A i \in Op : ~ Removes(i, n)'))),
           \A i \in Op : Removes(i, n)' => Removes(i, n) /\ (Unwritten(i)' => Unwritten(i)),
           AskedFor(n)',
           n \in inAppRemoves => n \in inAppRemoves' \/ GoesExcluded(n)'
    PROVE  NameFacts(n)'
<1>1. \A p \in Places' : p <= Last' /\ Last' \in Int
  BY SMT DEF Places, Last
<1>2. f \in [Int -> Int] /\ \A p, q \in Int : p <= q => f[p] <= f[q]
  BY DEF Monotone
<1>3. \A p \in Places : p \in Int
  BY PlacesFacts
<1>4. ASSUME NEW p \in Places', Mapped(p, n, f), NEW e, Is(p, n, e)'
      PROVE  f[p] \in Places /\ Is(f[p], n, e) /\ (Ours(p, n)' => Ours(f[p], n))
  BY <1>4 DEF Mapped, AsBefore, Is, Ours
<1>5. ASSUME NEW p \in Places', Ours(p, n)' PROVE Mapped(p, n, f)
  BY <1>5 DEF Ours, Is
<1>6. ASSUME NEW p \in Places', NEW q \in Places', p <= q, Ours(q, n)', NEW e, Is(p, n, e)', e = "bridge" \/ p # q
      PROVE  Mapped(p, n, f)
  <2>1. CASE p # Last'
    BY <2>1
  <2>2. CASE p = Last'
    <3>1. q = p
      BY <1>1, <1>6, <2>2, SMT
    <3>. QED BY <1>5, <1>6, <3>1
  <2>. QED BY <2>1, <2>2
<1>7. OneRemove(n)'
  BY DEF NameFacts, OneRemove
<1>8. BridgeTill(n)'
  <2>1. SUFFICES ASSUME NEW i \in Op, Removes(i, n)', Unwritten(i)', NEW p \in Places', ToSee(p)'.ok
                 PROVE  ToSee(p)'.entries[n] = "bridge"
    BY DEF BridgeTill
  <2>2. Removes(i, n) /\ Unwritten(i)
    BY <2>1
  <2>3. CASE Mapped(p, n, f)
    BY <2>1, <2>2, <2>3 DEF NameFacts, BridgeTill, Mapped, AsBefore
  <2>4. CASE ~ Mapped(p, n, f)
    BY <2>1, <2>4 DEF Is
  <2>. QED BY <2>3, <2>4
<1>9. GoesExcluded(n)'
  <2>1. SUFFICES ASSUME NEW p \in Places', NEW q \in Places', p <= q, Is(p, n, "bridge")', Ours(q, n)'
                 PROVE  n \in inAppRemoves' \/ GoesExcluded(n)'
    BY DEF GoesExcluded
  <2>2. Mapped(p, n, f) /\ Mapped(q, n, f) /\ Is(q, n, "absent")'
    BY <1>5, <1>6, <2>1 DEF Ours
  <2>3. f[p] \in Places /\ f[q] \in Places /\ Is(f[p], n, "bridge") /\ Ours(f[q], n) /\ f[p] <= f[q]
    BY <1>2, <1>4, <2>1, <2>2
  <2>. QED BY <2>3 DEF NameFacts, GoesExcluded
<1>10. GoesOnce(n)'
  <2>1. SUFFICES ASSUME NEW p \in Places', NEW q \in Places', NEW r \in Places', p <= q, q <= r,
                        Is(p, n, "absent")', Is(q, n, "bridge")', Ours(r, n)'
                 PROVE  FALSE
    BY DEF GoesOnce
  <2>2. Mapped(q, n, f) /\ Mapped(r, n, f) /\ Is(r, n, "absent")'
    BY <1>5, <1>6, <2>1 DEF Ours
  <2>3. q # r /\ p # q
    BY <2>1 DEF Is, Ours
  <2>4. p # r
    BY <2>1, <2>3, SMT
  <2>5. p <= r
    BY <2>1, SMT
  <2>6. Mapped(p, n, f)
    BY <1>6, <2>1, <2>4, <2>5
  <2>7. /\ f[p] \in Places /\ f[q] \in Places /\ f[r] \in Places
        /\ Is(f[p], n, "absent") /\ Is(f[q], n, "bridge") /\ Ours(f[r], n)
    BY <1>4, <2>1, <2>2, <2>6
  <2>8. f[p] <= f[q] /\ f[q] <= f[r]
    BY <1>2, <2>1
  <2>. QED BY <2>7, <2>8 DEF NameFacts, GoesOnce
<1>. QED BY <1>7, <1>8, <1>9, <1>10 DEF NameFacts

(* The main process adds at most one message, after what it shows now.     *)
Added ==
    \/ answers' = answers
    \/ \E m \in Message : answers' = Append(answers, m) /\ (m.read.ok => m.read = ToSee(Last))

Queue == [p \in Int |-> IF p <= Len(answers) THEN p ELSE Last]

LEMMA AddedFacts ==
    ASSUME SInv, Added, UNCHANGED <<snap, drawn>>
    PROVE  /\ Len(answers') \in Nat /\ Places' \subseteq Int /\ Queue \in Monotone /\ answers' \in Seq(Message)
           /\ ToSee(Last)' = [ok |-> TRUE, entries |-> config'.entries, taken |-> taken'] /\ Queue[Last'] = Last
           /\ \A p \in Places' : p # Last' /\ ToSee(p)'.ok => Queue[p] \in Places /\ ToSee(p)' = ToSee(Queue[p])
<1>1. answers \in Seq(Message) /\ Len(answers) \in Nat /\ drawn \in BOOLEAN
  BY PlacesFacts DEF SInv, SourcesTypeOK, MainType, WindowType
<1>2. /\ answers' \in Seq(Message) /\ Len(answers') \in {Len(answers), Len(answers) + 1}
      /\ \A k \in 1..Len(answers) : answers'[k] = answers[k]
      /\ Len(answers') # Len(answers) /\ answers'[Len(answers) + 1].read.ok
            => answers'[Len(answers) + 1].read = ToSee(Last)
  <2>1. CASE answers' = answers
    BY <1>1, <2>1
  <2>2. ASSUME NEW m \in Message, answers' = Append(answers, m), m.read.ok => m.read = ToSee(Last)
        PROVE  /\ answers' \in Seq(Message) /\ Len(answers') = Len(answers) + 1
               /\ \A k \in 1..Len(answers) : answers'[k] = answers[k]
               /\ answers'[Len(answers) + 1] = m
    BY <1>1, <2>2, SMT
  <2>. QED BY <2>1, <2>2 DEF Added
<1>3. Len(answers') \in Nat /\ Last \in Int /\ Last' \in Int /\ Last = Len(answers) + 1 /\ Last' = Len(answers') + 1
  BY <1>1, <1>2 DEF Last
<1>4. Places' = (IF drawn THEN 0 ELSE -1)..(Len(answers') + 1) /\ Places = (IF drawn THEN 0 ELSE -1)..(Len(answers) + 1)
  BY DEF Places
<1>5. Queue \in Monotone
  <2>1. Queue \in [Int -> Int]
    BY <1>1, <1>3, SMT DEF Queue
  <2>2. ASSUME NEW p \in Int, NEW q \in Int, p <= q PROVE Queue[p] <= Queue[q]
    BY <1>1, <1>3, <2>2, SMT DEF Queue
  <2>. QED BY <2>1, <2>2 DEF Monotone
<1>6. ToSee(Last)' = [ok |-> TRUE, entries |-> config'.entries, taken |-> taken']
  BY <1>3, SMT DEF ToSee
<1>7. Queue[Last'] = Last
  BY <1>2, <1>3, SMT DEF Queue
<1>8. ASSUME NEW p \in Places', p # Last', ToSee(p)'.ok PROVE Queue[p] \in Places /\ ToSee(p)' = ToSee(Queue[p])
  <2>1. p \in Int
    BY <1>2, <1>3, <1>4, SMT
  <2>2. CASE p \in {-1, 0}
    <3>1. Queue[p] = p /\ p \in Places
      BY <1>1, <1>2, <1>4, <2>1, <2>2, SMT DEF Queue
    <3>. QED BY <2>2, <3>1, SMT DEF ToSee
  <2>3. CASE p \in 1..Len(answers)
    <3>1. Queue[p] = p /\ p \in Places
      BY <1>1, <1>2, <1>4, <2>1, <2>3, SMT DEF Queue
    <3>2. ToSee(p) = answers[p].read /\ ToSee(p)' = answers'[p].read
      BY <1>1, <1>2, <2>1, <2>3, SMT DEF ToSee
    <3>. QED BY <1>2, <2>3, <3>1, <3>2
  <2>4. CASE p = Last /\ Len(answers') # Len(answers)
    <3>1. Queue[p] = Last /\ Last \in Places
      BY <1>1, <1>3, <1>4, <2>4, SMT DEF Queue
    <3>2. ToSee(p)' = answers'[Len(answers) + 1].read
      BY <1>1, <1>2, <1>3, <2>4, SMT DEF ToSee
    <3>. QED BY <1>2, <1>8, <2>4, <3>1, <3>2
  <2>. QED BY <1>1, <1>2, <1>3, <1>4, <1>8, <2>1, <2>2, <2>3, <2>4, SMT
<1>. QED BY <1>2, <1>3, <1>4, <1>5, <1>6, <1>7, <1>8

\* A step of the main process, seen from one name.
LEMMA MainStep ==
    ASSUME SInv, Added, UNCHANGED <<snap, drawn>>, NEW n \in Name, NameFacts(n),
           n \in inAppRemoves => n \in inAppRemoves',
           \/ config'.entries[n] = config.entries[n] /\ (n \in taken' <=> n \in taken)
           \/ config'.entries[n] = "bridge"
           \/ (config'.entries[n] = "absent" => n \in taken') /\ \A i \in Op : ~ Removes(i, n)',
           \A i \in Op : Removes(i, n)' => Removes(i, n) /\ (Unwritten(i)' => Unwritten(i)),
           AskedFor(n)'
    PROVE  NameFacts(n)'
<1>1. ToSee(Last) = [ok |-> TRUE, entries |-> config.entries, taken |-> taken] /\ Last \in Places
  BY PlacesFacts, SMT DEF ToSee, Last
<1>2. ASSUME NEW p \in Places', p # Last' PROVE Mapped(p, n, Queue)
  BY <1>2, AddedFacts DEF Mapped, AsBefore
<1>3. ASSUME NEW p \in Places', p = Last'
      PROVE  /\ ToSee(p)' = [ok |-> TRUE, entries |-> config'.entries, taken |-> taken'] /\ Queue[p] = Last
             /\ Mapped(p, n, Queue) \/ Is(p, n, "bridge")' \/ (~ Ours(p, n)' /\ \A i \in Op : ~ Removes(i, n)')
  <2>1. ToSee(p)' = [ok |-> TRUE, entries |-> config'.entries, taken |-> taken'] /\ Queue[p] = Last
    BY <1>3, AddedFacts
  <2>2. CASE config'.entries[n] = config.entries[n] /\ (n \in taken' <=> n \in taken)
    BY <1>1, <2>1, <2>2 DEF Mapped, AsBefore
  <2>3. CASE config'.entries[n] = "bridge"
    BY <2>1, <2>3 DEF Is
  <2>4. CASE (config'.entries[n] = "absent" => n \in taken') /\ \A i \in Op : ~ Removes(i, n)'
    BY <2>1, <2>4 DEF Is, Ours
  <2>. QED BY <2>1, <2>2, <2>3, <2>4
<1>4. \A p \in Places' : Mapped(p, n, Queue)
        \/ (p = Last' /\ (Is(p, n, "bridge")' \/ (~ Ours(p, n)' /\ \A i \in Op : ~ Removes(i, n)')))
  BY <1>2, <1>3
<1>5. Queue \in Monotone /\ Len(answers') \in Nat /\ Places' \subseteq Int
  BY AddedFacts
<1>. QED BY <1>4, <1>5, NameStep

-----------------------------------------------------------------------------
(* Steps that the names do not notice.                                     *)
LEMMA QuietStep ==
    ASSUME SInv, SourcesTypeOK', ScreenInv',
           UNCHANGED <<config, taken, answers, ops, snap, drawn, inAppRemoves, mistold, crossed>>
    PROVE  SInv'
<1>1. Places' = Places /\ \A p : ToSee(p)' = ToSee(p)
  BY DEF Places, ToSee
<1>2. \A p, n, e : (Is(p, n, e)' <=> Is(p, n, e)) /\ (Ours(p, n)' <=> Ours(p, n))
  BY <1>1 DEF Is, Ours
<1>3. \A i, n : (Removes(i, n)' <=> Removes(i, n)) /\ (Unwritten(i)' <=> Unwritten(i))
  BY DEF Removes, Unwritten
<1>4. ASSUME NEW n \in Name \ crossed PROVE NameFacts(n)'
  <2>1. NameFacts(n)
    BY DEF SInv, NamesInv
  <2>2. OneRemove(n)' /\ BridgeTill(n)' /\ AskedFor(n)'
    BY <1>1, <1>3, <2>1 DEF NameFacts, OneRemove, BridgeTill, AskedFor
  <2>3. GoesExcluded(n)' /\ GoesOnce(n)'
    BY <1>1, <1>2, <2>1 DEF NameFacts, GoesExcluded, GoesOnce
  <2>. QED BY <2>2, <2>3 DEF NameFacts
<1>5. AnswersInv'
  BY DEF SInv, AnswersInv
<1>. QED BY <1>4, <1>5 DEF SInv, NamesInv

LEMMA PollTickStep == ASSUME SInv, List!Tick PROVE SInv'
<1>1. /\ asked' = TRUE
      /\ UNCHANGED <<config, ops, elsewhere, taken, answers, snap, drawn, shown, vanished, mistold, selected, inspector,
                     inAppRemoves, residualCreds, crossed>>
  BY DEF List!Tick, List!window, List!user
<1>2. SourcesTypeOK' /\ ScreenInv'
  BY <1>1 DEF SInv, SourcesTypeOK, MainType, ConfigType, WindowType, ScreenInv
<1>. QED BY <1>1, <1>2, QuietStep

\* Clicks that ask for nothing, and notices that are dismissed.
LEMMA SourcesClickStep ==
    ASSUME SInv, UNCHANGED <<config, asked, ops, elsewhere, taken, answers, snap, drawn, shown, mistold, inAppRemoves, crossed>>,
           selected' \in Name \cup {NoOne}, inspector' \in Inspector,
           IF inspector'.at = "closed" THEN inspector'.op = NoOne ELSE selected' \in Name,
           vanished' \subseteq Name, residualCreds' \subseteq Name
    PROVE  SInv'
<1>1. SourcesTypeOK' /\ ScreenInv'
  BY DEF SInv, SourcesTypeOK, MainType, ConfigType, WindowType, ScreenInv
<1>. QED BY <1>1, QuietStep

LEMMA InspectorFacts ==
    ASSUME SInv
    PROVE  /\ List!Closed \in Inspector /\ List!Closed.at = "closed"
           /\ List!Closed.op = NoOne /\ List!Viewing \in Inspector /\ List!Viewing.at = "viewing"
           /\ [List!Viewing EXCEPT !.at = "confirming"] \in Inspector /\ [List!Viewing EXCEPT !.at = "confirming"].at = "confirming"
           /\ \A at \in SUBSET {"viewing", "confirming"} : List!Offered(at) => selected \in Name /\ shown.entries[selected] = "bridge"
           /\ selected \in Name \cup {NoOne} /\ inspector \in Inspector /\ vanished \subseteq Name /\ residualCreds \subseteq Name
           /\ IF inspector.at = "closed" THEN inspector.op = NoOne ELSE selected \in Name
  BY SMT DEF SInv, SourcesTypeOK, WindowType, ScreenInv, List!Closed, List!Viewing, List!Offered, Inspector

LEMMA ClicksStep ==
    ASSUME SInv,
           \/ List!LeaveTab \/ List!RemoveClick \/ List!CancelRemove \/ List!Dismiss \/ List!DismissResidual
           \/ \E n \in Name : List!Select(n)
    PROVE  SInv'
<1>1. CASE List!LeaveTab
  BY <1>1, InspectorFacts, SourcesClickStep DEF List!LeaveTab, List!main, List!window
<1>2. CASE List!RemoveClick
  BY <1>2, InspectorFacts, SourcesClickStep DEF List!RemoveClick, List!main, List!window
<1>3. CASE List!CancelRemove
  BY <1>3, InspectorFacts, SourcesClickStep DEF List!CancelRemove, List!main, List!window
<1>4. CASE List!Dismiss
  BY <1>4, InspectorFacts, SourcesClickStep DEF List!Dismiss, List!main, List!user
<1>5. CASE List!DismissResidual
  BY <1>5, InspectorFacts, SourcesClickStep DEF List!DismissResidual, List!main, List!window, List!user
<1>6. ASSUME NEW n \in Name, List!Select(n) PROVE SInv'
  BY <1>6, InspectorFacts, SourcesClickStep DEF List!Select, List!main, List!window
<1>. QED BY <1>1, <1>2, <1>3, <1>4, <1>5, <1>6

-----------------------------------------------------------------------------
(* The main process.                                                       *)

LEMMA ReadStep == ASSUME SInv, List!Read PROVE SInv'
<1> DEFINE m == [op |-> NoOne, read |-> List!Status]
<1>1. /\ asked' = FALSE /\ answers' = Append(answers, m)
      /\ UNCHANGED <<config, ops, elsewhere, taken, snap, drawn, shown, vanished, mistold, selected, inspector,
                     inAppRemoves, residualCreds, crossed>>
  BY DEF List!Read, List!Send, List!window, List!user
<1>2. List!Status \in Result
  BY SMT DEF SInv, SourcesTypeOK, MainType, ConfigType, List!Status, List!NoList, List!Nothing, Result, Listing
<1>3. m \in Message /\ m.op = NoOne /\ m.read = List!Status
  BY <1>2 DEF Message
<1>4. List!Status.ok => List!Status = ToSee(Last)
  BY PlacesFacts, SMT DEF List!Status, List!NoList, ToSee, Last
<1> HIDE DEF m
<1>5. Added
  BY <1>1, <1>3, <1>4 DEF Added
<1>6. SourcesTypeOK' /\ ScreenInv'
  BY <1>1, <1>5, AddedFacts DEF SInv, SourcesTypeOK, MainType, ConfigType, WindowType, ScreenInv
<1>7. ASSUME NEW n \in Name \ crossed' PROVE NameFacts(n)'
  <2>1. NameFacts(n) /\ n \in Name
    BY <1>1 DEF SInv, NamesInv
  <2>2. \A i \in Op : Removes(i, n)' => Removes(i, n) /\ (Unwritten(i)' => Unwritten(i))
    BY <1>1 DEF Removes, Unwritten
  <2>3. AskedFor(n)'
    BY <1>1, <2>1 DEF NameFacts, AskedFor, Removes
  <2>. QED BY <1>1, <1>5, <2>1, <2>2, <2>3, MainStep
<1>8. AnswersInv'
  <2>1. Len(answers) \in Nat /\ answers \in Seq(Message)
    BY PlacesFacts DEF SInv, SourcesTypeOK, MainType
  <2>2. Len(answers') = Len(answers) + 1 /\ answers'[Len(answers) + 1] = m
        /\ \A k \in 1..Len(answers) : answers'[k] = answers[k]
    BY <1>1, <1>3, <2>1, SMT
  <2>3. \A k \in 1..Len(answers') : k \in 1..Len(answers) \/ answers'[k].op = NoOne
    BY <1>3, <2>1, <2>2, SMT
  <2>. QED BY <1>1, <2>2, <2>3 DEF SInv, AnswersInv
<1>. QED BY <1>1, <1>6, <1>7, <1>8 DEF SInv, NamesInv

\* One request moves; what it was asked for stays.
OpMoves(i, at, outcome) ==
    /\ ops' \in [Op -> Request]
    /\ ops'[i].kind = ops[i].kind /\ ops'[i].name = ops[i].name /\ ops'[i].at = at /\ ops'[i].outcome = outcome
    /\ \A j \in Op \ {i} : ops'[j] = ops[j]

LEMMA FinishFacts ==
    ASSUME SInv, NEW i \in Op, ops[i].at \in {"asked", "clearing"},
           NEW outcome \in {"noop", "error", "wrote", "left"}, List!Finish(i, outcome)
    PROVE  Added /\ OpMoves(i, "sent", outcome) /\ AnswersInv'
<1> DEFINE m == [op |-> i, read |-> List!NoList]
<1>1. answers' = Append(answers, m) /\ ops' = [ops EXCEPT ![i] = [@ EXCEPT !.at = "sent", !.outcome = outcome]]
  BY DEF List!Finish, List!Send
<1>2. m \in Message /\ m.op = i /\ ~ m.read.ok
  BY SMT DEF List!NoList, List!Nothing, Result, Message, Listing
<1> HIDE DEF m
<1>3. Added
  BY <1>1, <1>2 DEF Added
<1>4. OpMoves(i, "sent", outcome)
  <2>1. ops \in [Op -> Request] /\ ops[i] \in Request
    BY DEF SInv, SourcesTypeOK, MainType
  <2> DEFINE r == [ops[i] EXCEPT !.at = "sent", !.outcome = outcome]
  <2>2. r \in Request
    BY <2>1 DEF Request
  <2>3. r.kind = ops[i].kind /\ r.name = ops[i].name /\ r.at = "sent" /\ r.outcome = outcome
    BY <2>1 DEF Request
  <2>4. ops' = [ops EXCEPT ![i] = r]
    BY <1>1
  <2> HIDE DEF r
  <2>. QED BY <2>1, <2>2, <2>3, <2>4 DEF OpMoves
<1>5. AnswersInv'
  <2>1. Len(answers) \in Nat /\ answers \in Seq(Message)
    BY PlacesFacts DEF SInv, SourcesTypeOK, MainType
  <2>2. Len(answers') = Len(answers) + 1 /\ answers'[Len(answers) + 1] = m
        /\ \A k \in 1..Len(answers) : answers'[k] = answers[k] /\ answers[k] \in Message
    BY <1>1, <1>2, <2>1, SMT
  <2>3. ASSUME NEW k \in 1..Len(answers') PROVE (k \in 1..Len(answers) /\ answers'[k].op # i) \/ k = Len(answers) + 1
    <3>1. k \in 1..Len(answers) \/ k = Len(answers) + 1
      BY <2>1, <2>2, SMT
    <3>2. CASE k \in 1..Len(answers)
      <4>1. answers[k].op # NoOne => ops[answers[k].op].at = "sent"
        BY <3>2 DEF SInv, AnswersInv
      <4>. QED BY <2>2, <3>2, <4>1, SourcesAssumption
    <3>. QED BY <3>1, <3>2
  <2>4. ASSUME NEW k \in 1..Len(answers'), answers'[k].op # NoOne
        PROVE  ops'[answers'[k].op].at = "sent" /\ ~ answers'[k].read.ok
    <3>1. CASE k \in 1..Len(answers) /\ answers'[k].op # i
      <4>1. answers[k] \in Message /\ answers'[k] = answers[k]
        BY <2>2, <3>1
      <4>2. answers[k].op \in Op \ {i}
        BY <2>4, <3>1, <4>1 DEF Message
      <4>. QED BY <1>4, <2>4, <3>1, <4>1, <4>2 DEF SInv, AnswersInv, OpMoves
    <3>2. CASE k = Len(answers) + 1
      BY <1>2, <1>4, <2>2, <3>2 DEF OpMoves
    <3>. QED BY <2>3, <3>1, <3>2
  <2>5. ASSUME NEW k \in 1..Len(answers'), NEW l \in 1..Len(answers'),
               answers'[k].op = answers'[l].op, answers'[k].op # NoOne
        PROVE  k = l
    <3>1. CASE k \in 1..Len(answers) /\ l \in 1..Len(answers)
      BY <2>2, <2>5, <3>1 DEF SInv, AnswersInv
    <3>2. CASE k \notin 1..Len(answers) \/ l \notin 1..Len(answers)
      BY <1>2, <2>2, <2>3, <2>5, <3>2
    <3>. QED BY <3>1, <3>2
  <2>. QED BY <2>4, <2>5 DEF AnswersInv
<1>. QED BY <1>3, <1>4, <1>5

\* One request moves on; at most one name becomes a bridge.
LEMMA MovesStep ==
    ASSUME SInv, NEW i \in Op, NEW at, NEW outcome, Added, OpMoves(i, at, outcome), AnswersInv', ConfigType',
           UNCHANGED <<asked, snap, drawn, shown, vanished, mistold, selected, inspector, inAppRemoves, residualCreds, crossed>>,
           ops[i].kind = "none" <=> at = "none", at = "clearing" => ops[i].kind = "remove", at # "asked",
           \A n \in Name : \/ config'.entries[n] = config.entries[n] /\ (n \in taken' <=> n \in taken)
                           \/ config'.entries[n] = "bridge",
           ops[i].at # "over",
           ops[i].kind = "remove" /\ at = "sent" /\ outcome \notin {"wrote", "left"} => Unwritten(i)
    PROVE  SInv'
<1>1. SourcesTypeOK' /\ ScreenInv'
  BY AddedFacts DEF SInv, SourcesTypeOK, MainType, WindowType, ScreenInv, OpMoves
<1>2. ASSUME NEW n \in Name \ crossed' PROVE NameFacts(n)'
  <2>1. NameFacts(n) /\ n \in Name
    BY DEF SInv, NamesInv
  <2>2. \A j \in Op : Removes(j, n)' => Removes(j, n) /\ (Unwritten(j)' => Unwritten(j))
    BY DEF Removes, Unwritten, OpMoves
  <2>3. AskedFor(n)'
    BY <2>1 DEF NameFacts, AskedFor, Removes, OpMoves
  <2>. QED BY <2>1, <2>2, <2>3, MainStep
<1>. QED BY <1>1, <1>2 DEF SInv, NamesInv

LEMMA DeleteCredentialsStep == ASSUME SInv, NEW i \in Op, List!DeleteCredentials(i) PROVE SInv'
<1>1. ops[i].at = "clearing" /\ ops[i].kind = "remove"
  BY DEF List!DeleteCredentials, SInv, ScreenInv
<1>2. PICK o \in {"wrote", "left"} : List!Finish(i, o)
  BY DEF List!DeleteCredentials
<1>3. UNCHANGED <<config, asked, elsewhere, taken, snap, drawn, shown, vanished, mistold, selected, inspector,
                  inAppRemoves, residualCreds, crossed>>
  BY DEF List!DeleteCredentials, List!window, List!user
<1>4. Added /\ OpMoves(i, "sent", o) /\ AnswersInv'
  BY <1>1, <1>2, FinishFacts
<1>5. ConfigType'
  BY <1>3 DEF SInv, SourcesTypeOK, MainType, ConfigType
<1>. QED BY <1>1, <1>3, <1>4, <1>5, MovesStep

\* The entry that a handler writes.
LEMMA BecomesFacts ==
    ASSUME SInv, NEW n \in Name, NEW e \in Listing, List!Becomes(n, e), UNCHANGED elsewhere
    PROVE  /\ ConfigType' /\ config'.entries[n] = e /\ n \notin taken'
           /\ \A m \in Name \ {n} : config'.entries[m] = config.entries[m] /\ (m \in taken' <=> m \in taken)
<1>1. config' = [config EXCEPT !.entries[n] = e] /\ taken' = taken \ {n}
  BY DEF List!Becomes
<1>2. config \in [ok : BOOLEAN, entries : [Name -> Listing]] /\ taken \subseteq Name /\ elsewhere \in Nat
  BY DEF SInv, SourcesTypeOK, MainType, ConfigType
<1>3. config' = [ok |-> config.ok, entries |-> [config.entries EXCEPT ![n] = e]]
  BY <1>1, <1>2
<1>4. /\ config'.entries = [config.entries EXCEPT ![n] = e] /\ config'.ok \in BOOLEAN
      /\ [config.entries EXCEPT ![n] = e] \in [Name -> Listing]
  BY <1>2, <1>3
<1>5. config' \in [ok : BOOLEAN, entries : [Name -> Listing]]
  BY <1>2, <1>3, <1>4
<1>. QED BY <1>1, <1>2, <1>4, <1>5 DEF ConfigType

LEMMA EntryAddedStep == ASSUME SInv, NEW i \in Op, List!Connected(i) PROVE SInv'
<1>1. ops[i].at = "asked" /\ ops[i].kind = "connect" /\ ops[i].name \in Name
  BY DEF List!Connected, SInv, ScreenInv
<1>2. UNCHANGED <<asked, elsewhere, snap, drawn, shown, vanished, mistold, selected, inspector,
                  inAppRemoves, residualCreds, crossed>>
  BY DEF List!Connected, List!window, List!user
<1>3. CASE List!Becomes(ops[i].name, "bridge") /\ List!Finish(i, "wrote")
  <2>1. Added /\ OpMoves(i, "sent", "wrote") /\ AnswersInv'
    BY <1>1, <1>3, FinishFacts
  <2>2. /\ ConfigType'
        /\ \A n \in Name : \/ config'.entries[n] = config.entries[n] /\ (n \in taken' <=> n \in taken)
                           \/ config'.entries[n] = "bridge"
    BY <1>1, <1>2, <1>3, BecomesFacts DEF Listing
  <2>. QED BY <1>1, <1>2, <2>1, <2>2, MovesStep
<1>4. CASE List!Finish(i, "error") /\ UNCHANGED <<config, taken>>
  <2>1. Added /\ OpMoves(i, "sent", "error") /\ AnswersInv'
    BY <1>1, <1>4, FinishFacts
  <2>2. ConfigType'
    BY <1>2, <1>4 DEF SInv, SourcesTypeOK, MainType, ConfigType
  <2>. QED BY <1>1, <1>2, <1>4, <2>1, <2>2, MovesStep
<1>. QED BY <1>3, <1>4 DEF List!Connected

(* The remove that writes: what its name showed till now was the bridge,   *)
(* and it is excluded.                                                     *)
LEMMA RemoveWritesStep ==
    ASSUME SInv, NEW i \in Op, ops[i].kind = "remove", ops[i].at = "asked", config.entries[ops[i].name] = "bridge",
           List!Becomes(ops[i].name, "absent"), ops' = [ops EXCEPT ![i].at = "clearing"],
           UNCHANGED <<asked, elsewhere, answers, snap, drawn, shown, vanished, mistold, selected, inspector,
                       inAppRemoves, residualCreds, crossed>>
    PROVE  SInv'
<1> DEFINE name == ops[i].name
<1>1. name \in Name /\ "absent" \in Listing /\ ops[i] \in Request
  BY DEF SInv, ScreenInv, SourcesTypeOK, MainType, Listing
<1>2. OpMoves(i, "clearing", ops[i].outcome)
  <2>1. ops \in [Op -> Request]
    BY DEF SInv, SourcesTypeOK, MainType
  <2> DEFINE r == [ops[i] EXCEPT !.at = "clearing"]
  <2>2. r \in Request
    BY <1>1 DEF Request
  <2>3. r.kind = ops[i].kind /\ r.name = ops[i].name /\ r.at = "clearing" /\ r.outcome = ops[i].outcome
    BY <1>1 DEF Request
  <2>4. ops' = [ops EXCEPT ![i] = r]
    BY <2>1
  <2> HIDE DEF r
  <2>. QED BY <2>1, <2>2, <2>3, <2>4 DEF OpMoves
<1>3. /\ ConfigType' /\ config'.entries[name] = "absent" /\ name \notin taken'
      /\ \A m \in Name \ {name} : config'.entries[m] = config.entries[m] /\ (m \in taken' <=> m \in taken)
  BY <1>1, BecomesFacts
<1>4. Added
  BY DEF Added
<1>5. SourcesTypeOK' /\ ScreenInv'
  BY <1>2, <1>3 DEF SInv, SourcesTypeOK, MainType, WindowType, ScreenInv, OpMoves
<1>6. AnswersInv'
  <2>1. ASSUME NEW k \in 1..Len(answers), answers[k].op # NoOne PROVE ops'[answers[k].op].at = "sent" /\ ~ answers[k].read.ok
    <3>1. answers[k] \in Message /\ ops[answers[k].op].at = "sent" /\ ~ answers[k].read.ok
      BY <2>1, SMT DEF SInv, AnswersInv, SourcesTypeOK, MainType
    <3>2. answers[k].op \in Op \ {i}
      BY <2>1, <3>1 DEF Message
    <3>. QED BY <1>2, <3>1, <3>2 DEF OpMoves
  <2>. QED BY <2>1 DEF SInv, AnswersInv
<1>7. ASSUME NEW n, NEW j \in Op, Removes(j, n)' PROVE Removes(j, n) /\ (Unwritten(j)' => Unwritten(j) /\ j # i)
  BY <1>2, <1>7 DEF Removes, Unwritten, OpMoves
<1>8. ASSUME NEW n \in Name \ crossed' PROVE NameFacts(n)'
  <2>1. NameFacts(n) /\ n \in Name
    BY DEF SInv, NamesInv
  <2>2. AskedFor(n)'
    BY <1>2, <2>1 DEF NameFacts, AskedFor, Removes, OpMoves
  <2>3. CASE n # name
    BY <1>3, <1>4, <1>7, <2>1, <2>2, <2>3, MainStep
  <2>4. CASE n = name
    <3>1. Removes(i, n) /\ Unwritten(i) /\ n \in inAppRemoves
      BY <2>1, <2>4 DEF Removes, Unwritten, NameFacts, AskedFor
    <3>2. \A j \in Op : Removes(j, n) => j = i
      BY <2>1, <3>1 DEF NameFacts, OneRemove
    <3>3. OneRemove(n)' /\ BridgeTill(n)'
      BY <1>7, <3>2 DEF OneRemove, BridgeTill
    <3>4. GoesExcluded(n)'
      BY <3>1 DEF GoesExcluded
    <3>5. Places' = Places /\ Last' = Last
      BY DEF Places, Last
    <3>6. ASSUME NEW p \in Places', Is(p, n, "absent")' PROVE p = Last
      <4>1. SUFFICES ASSUME p # Last PROVE FALSE
        OBVIOUS
      <4>2. ToSee(p)' = ToSee(p)
        BY <3>5, <4>1, PlacesFacts, SMT DEF ToSee, Last, Places
      <4>. QED BY <2>1, <3>1, <3>5, <3>6, <4>2 DEF NameFacts, BridgeTill, Is
    <3>7. GoesOnce(n)'
      <4>1. SUFFICES ASSUME NEW p \in Places', NEW q \in Places', p <= q, Is(p, n, "absent")', Is(q, n, "bridge")'
                     PROVE  FALSE
        BY DEF GoesOnce
      <4>2. p = Last
        BY <3>6, <4>1
      <4>3. q = p
        BY <3>5, <4>1, <4>2, PlacesFacts, SMT
      <4>. QED BY <4>1, <4>3 DEF Is
    <3>. QED BY <2>2, <3>3, <3>4, <3>7 DEF NameFacts
  <2>. QED BY <2>3, <2>4
<1>. QED BY <1>5, <1>6, <1>8 DEF SInv, NamesInv

LEMMA RemoveRemoteStep == ASSUME SInv, NEW i \in Op, List!RemoveRemote(i) PROVE SInv'
<1>1. ops[i].at = "asked" /\ ops[i].kind = "remove"
  BY DEF List!RemoveRemote
<1>2. UNCHANGED <<asked, elsewhere, snap, drawn, shown, vanished, mistold, selected, inspector,
                  inAppRemoves, residualCreds, crossed>>
  BY DEF List!RemoveRemote, List!window, List!user
<1>3. ASSUME NEW o \in {"noop", "error"}, List!Finish(i, o), UNCHANGED <<config, taken>> PROVE SInv'
  <2>1. Added /\ OpMoves(i, "sent", o) /\ AnswersInv'
    BY <1>1, <1>3, FinishFacts
  <2>2. ConfigType' /\ Unwritten(i)
    BY <1>1, <1>2, <1>3 DEF SInv, SourcesTypeOK, MainType, ConfigType, Unwritten
  <2>. QED BY <1>1, <1>2, <1>3, <2>1, <2>2, MovesStep
<1>4. \/ /\ config.entries[ops[i].name] = "bridge" /\ List!Becomes(ops[i].name, "absent")
         /\ ops' = [ops EXCEPT ![i].at = "clearing"] /\ UNCHANGED answers
      \/ \E o \in {"noop", "error"} : List!Finish(i, o) /\ UNCHANGED <<config, taken>>
  BY DEF List!RemoveRemote
<1>. QED BY <1>1, <1>2, <1>3, <1>4, RemoveWritesStep

(* Another program: on a name that is being removed it is excused.         *)
LEMMA OtherWritesStep == ASSUME SInv, List!OtherWrites PROVE SInv'
<1>1. /\ elsewhere' = elsewhere + 1
      /\ UNCHANGED <<asked, answers, ops, snap, drawn, shown, vanished, mistold, selected, inspector, inAppRemoves, residualCreds>>
  BY DEF List!OtherWrites, List!window, List!user
<1>2. config \in [ok : BOOLEAN, entries : [Name -> Listing]] /\ taken \subseteq Name /\ elsewhere' \in Nat
  BY <1>1, SMT DEF SInv, SourcesTypeOK, MainType, ConfigType
<1>3. /\ ConfigType' /\ crossed \subseteq crossed' /\ crossed' \subseteq Name
      /\ \A n \in Name : \/ config'.entries[n] = config.entries[n] /\ (n \in taken' <=> n \in taken)
                         \/ (config'.entries[n] = "absent" => n \in taken') /\ (n \in crossed' \/ ~ List!Removing(n))
  <2>1. CASE \E n \in Name, e \in {"absent", "bridge", "foreign"} :
               /\ config' = [config EXCEPT !.entries[n] = e]
               /\ taken' = IF e = "absent" THEN taken \cup {n} ELSE taken \ {n}
               /\ crossed' = IF List!Removing(n) THEN crossed \cup {n} ELSE crossed
    <3>1. PICK m \in Name, e \in Listing :
               /\ config' = [config EXCEPT !.entries[m] = e]
               /\ taken' = IF e = "absent" THEN taken \cup {m} ELSE taken \ {m}
               /\ crossed' = IF List!Removing(m) THEN crossed \cup {m} ELSE crossed
      BY <2>1 DEF Listing
    <3>2. config' = [ok |-> config.ok, entries |-> [config.entries EXCEPT ![m] = e]]
      BY <1>2, <3>1
    <3>3. /\ config'.entries = [config.entries EXCEPT ![m] = e] /\ config'.ok \in BOOLEAN
          /\ [config.entries EXCEPT ![m] = e] \in [Name -> Listing]
      BY <1>2, <3>1, <3>2
    <3>4. ConfigType'
      BY <1>2, <3>1, <3>2, <3>3 DEF ConfigType
    <3>5. crossed \subseteq crossed' /\ crossed' \subseteq Name
      BY <3>1 DEF SInv, SourcesTypeOK, WindowType
    <3>6. ASSUME NEW n \in Name
          PROVE  \/ config'.entries[n] = config.entries[n] /\ (n \in taken' <=> n \in taken)
                 \/ (config'.entries[n] = "absent" => n \in taken') /\ (n \in crossed' \/ ~ List!Removing(n))
      BY <1>2, <3>1, <3>3
    <3>. QED BY <3>4, <3>5, <3>6
  <2>2. CASE config' = [config EXCEPT !.ok = ~ @] /\ UNCHANGED <<taken, crossed>>
    <3>1. config' = [ok |-> ~ config.ok, entries |-> config.entries]
      BY <1>2, <2>2
    <3>. QED BY <1>2, <2>2, <3>1 DEF ConfigType, SInv, SourcesTypeOK, WindowType
  <2>. QED BY <2>1, <2>2 DEF List!OtherWrites
<1>4. SourcesTypeOK' /\ ScreenInv' /\ AnswersInv' /\ mistold' \subseteq crossed'
  BY <1>1, <1>3 DEF SInv, SourcesTypeOK, MainType, WindowType, ScreenInv, AnswersInv
<1>5. Added
  BY <1>1 DEF Added
<1>6. ASSUME NEW n \in Name \ crossed' PROVE NameFacts(n)'
  <2>1. NameFacts(n) /\ n \in Name /\ n \notin crossed'
    BY <1>3 DEF SInv, NamesInv
  <2>2. \A i \in Op : Removes(i, n)' => Removes(i, n) /\ (Unwritten(i)' => Unwritten(i))
    BY <1>1 DEF Removes, Unwritten
  <2>3. AskedFor(n)'
    BY <1>1, <2>1 DEF NameFacts, AskedFor, Removes
  <2>4. \/ config'.entries[n] = config.entries[n] /\ (n \in taken' <=> n \in taken)
        \/ (config'.entries[n] = "absent" => n \in taken') /\ \A i \in Op : ~ Removes(i, n)'
    <3>1. ~ List!Removing(n) => \A i \in Op : ~ Removes(i, n)'
      BY <1>1 DEF List!Removing, Removes
    <3>. QED BY <1>3, <2>1, <3>1
  <2>. QED BY <1>1, <1>5, <2>1, <2>2, <2>3, <2>4, MainStep
<1>. QED BY <1>4, <1>6 DEF SInv, NamesInv

-----------------------------------------------------------------------------
(* What the user asks for.                                                 *)
Asked(i, kind, n) == [kind |-> kind, name |-> n, at |-> "asked", outcome |-> "none"]

LEMMA AskFacts ==
    ASSUME SInv, NEW i \in Op, NEW kind \in {"remove", "connect"}, NEW n \in Name, List!Ask(i, kind, n)
    PROVE  /\ ops[i].at = "none" /\ ops[i].kind = "none" /\ ops' \in [Op -> Request]
           /\ ops'[i] = Asked(i, kind, n) /\ \A j \in Op \ {i} : ops'[j] = ops[j]
           /\ \A k \in 1..Len(answers) : answers[k].op # i
<1>1. ops \in [Op -> Request] /\ ops[i].at = "none" /\ ops' = [ops EXCEPT ![i] = Asked(i, kind, n)]
  BY DEF SInv, SourcesTypeOK, MainType, List!Ask, Asked
<1>2. Asked(i, kind, n) \in Request
  BY DEF Asked, Request
<1>3. \A k \in 1..Len(answers) : answers[k].op # i
  BY <1>1, SourcesAssumption DEF SInv, AnswersInv
<1>. QED BY <1>1, <1>2, <1>3 DEF SInv, ScreenInv

LEMMA AskConnectStep ==
    ASSUME SInv, NEW i \in Op, NEW n \in Name, List!Ask(i, "connect", n), inspector' \in Inspector,
           IF inspector'.at = "closed" THEN inspector'.op = NoOne ELSE selected \in Name,
           UNCHANGED <<config, asked, elsewhere, taken, answers, snap, drawn, shown, vanished, mistold, selected,
                       inAppRemoves, residualCreds, crossed>>
    PROVE  SInv'
<1>1. /\ ops[i].at = "none" /\ ops[i].kind = "none" /\ ops' \in [Op -> Request]
      /\ ops'[i] = Asked(i, "connect", n) /\ \A j \in Op \ {i} : ops'[j] = ops[j]
      /\ \A k \in 1..Len(answers) : answers[k].op # i
  BY AskFacts
<1>2. SourcesTypeOK' /\ ScreenInv'
  BY <1>1 DEF SInv, SourcesTypeOK, MainType, ConfigType, WindowType, ScreenInv, Asked
<1>3. AnswersInv'
  <2>1. ASSUME NEW k \in 1..Len(answers), answers[k].op # NoOne PROVE ops'[answers[k].op] = ops[answers[k].op]
    <3>1. answers[k] \in Message
      BY <2>1, SMT DEF SInv, SourcesTypeOK, MainType
    <3>. QED BY <1>1, <2>1, <3>1 DEF Message
  <2>. QED BY <2>1 DEF SInv, AnswersInv
<1>4. ASSUME NEW m, NEW j \in Op, Removes(j, m)' PROVE Removes(j, m) /\ (Unwritten(j)' <=> Unwritten(j)) /\ ops'[j] = ops[j]
  BY <1>1, <1>4 DEF Removes, Unwritten, Asked
<1>5. Added
  BY DEF Added
<1>6. ASSUME NEW m \in Name \ crossed' PROVE NameFacts(m)'
  <2>1. NameFacts(m) /\ m \in Name
    BY DEF SInv, NamesInv
  <2>2. AskedFor(m)'
    BY <1>4, <2>1 DEF NameFacts, AskedFor
  <2>. QED BY <1>4, <1>5, <2>1, <2>2, MainStep
<1>. QED BY <1>2, <1>3, <1>6 DEF SInv, NamesInv

LEMMA GalleryConnectStep == ASSUME SInv, NEW i \in Op, NEW n \in Name, List!Connect(i, n) PROVE SInv'
<1>1. /\ List!Ask(i, "connect", n)
      /\ UNCHANGED <<config, asked, elsewhere, taken, answers, snap, drawn, shown, vanished, mistold, selected, inspector,
                     inAppRemoves, residualCreds, crossed>>
  BY DEF List!Connect, List!window, List!user
<1>2. inspector' \in Inspector /\ (IF inspector'.at = "closed" THEN inspector'.op = NoOne ELSE selected \in Name)
  BY <1>1 DEF SInv, SourcesTypeOK, WindowType, ScreenInv
<1>. QED BY <1>1, <1>2, AskConnectStep

LEMMA ReconnectStep == ASSUME SInv, NEW i \in Op, List!Reconnect(i) PROVE SInv'
<1>1. /\ inspector.at \in {"viewing", "confirming"} /\ List!Ask(i, "connect", selected) /\ inspector' = [at |-> "busy", op |-> i]
      /\ UNCHANGED <<config, asked, elsewhere, taken, answers, snap, drawn, shown, vanished, mistold, selected,
                     inAppRemoves, residualCreds, crossed>>
  BY DEF List!Reconnect, List!Offered, List!window
<1>2. inspector' \in Inspector /\ selected \in Name
  BY <1>1 DEF SInv, ScreenInv, Inspector
<1>. QED BY <1>1, <1>2, AskConnectStep

LEMMA ConfirmRemoveStep == ASSUME SInv, NEW i \in Op, List!ConfirmRemove(i) PROVE SInv'
<1>1. /\ inspector.at = "confirming" /\ shown.entries[selected] = "bridge" /\ List!Ask(i, "remove", selected)
      /\ inAppRemoves' = inAppRemoves \cup {selected} /\ inspector' = [at |-> "removing", op |-> i]
      /\ crossed' = IF List!Behind(selected) THEN crossed \cup {selected} ELSE crossed
      /\ UNCHANGED <<config, asked, elsewhere, taken, answers, snap, drawn, shown, vanished, mistold, selected, residualCreds>>
  BY DEF List!ConfirmRemove, List!Offered, List!window
<1>2. inspector' \in Inspector /\ selected \in Name /\ inspector'.at # "closed"
  BY <1>1 DEF SInv, ScreenInv, Inspector
<1>3. /\ ops[i].at = "none" /\ ops[i].kind = "none" /\ ops' \in [Op -> Request]
      /\ ops'[i] = Asked(i, "remove", selected) /\ \A j \in Op \ {i} : ops'[j] = ops[j]
      /\ \A k \in 1..Len(answers) : answers[k].op # i
  BY <1>1, <1>2, AskFacts
<1>4. crossed \subseteq crossed' /\ crossed' \subseteq Name /\ inAppRemoves' \subseteq Name
  BY <1>1, <1>2 DEF SInv, SourcesTypeOK, WindowType
<1>5. SourcesTypeOK' /\ ScreenInv' /\ mistold' \subseteq crossed'
  BY <1>1, <1>2, <1>3, <1>4 DEF SInv, SourcesTypeOK, MainType, ConfigType, WindowType, ScreenInv, Asked
<1>6. AnswersInv'
  <2>1. ASSUME NEW k \in 1..Len(answers), answers[k].op # NoOne PROVE ops'[answers[k].op] = ops[answers[k].op]
    <3>1. answers[k] \in Message
      BY <2>1, SMT DEF SInv, SourcesTypeOK, MainType
    <3>. QED BY <1>3, <2>1, <3>1 DEF Message
  <2>. QED BY <1>1, <2>1 DEF SInv, AnswersInv
<1>7. ASSUME NEW m, NEW j \in Op, Removes(j, m)'
      PROVE  \/ Removes(j, m) /\ (Unwritten(j)' <=> Unwritten(j)) /\ ops'[j] = ops[j]
             \/ m = selected /\ j = i
  BY <1>3, <1>7 DEF Removes, Unwritten, Asked
<1>8. Added
  BY <1>1 DEF Added
<1>9. ASSUME NEW m \in Name \ crossed' PROVE NameFacts(m)'
  <2>1. NameFacts(m) /\ m \in Name
    BY <1>4 DEF SInv, NamesInv
  <2>2. AskedFor(m)'
    BY <1>1, <1>7, <2>1 DEF NameFacts, AskedFor
  <2>3. CASE m # selected
    BY <1>1, <1>7, <1>8, <2>1, <2>2, <2>3, MainStep
  <2>4. CASE m = selected
    <3>1. /\ drawn /\ config.entries[m] = "bridge" /\ ~ List!Removing(m)
          /\ \A k \in DOMAIN answers : answers[k].op = NoOne => answers[k].read.entries[m] = "bridge"
      BY <1>1, <2>4 DEF List!Behind
    <3>2. snap.current.entries[m] = "bridge"
      BY <1>1, <2>4, <3>1 DEF SInv, ScreenInv
    <3>3. ASSUME NEW p \in Places, ToSee(p).ok PROVE ToSee(p).entries[m] = "bridge"
      <4>1. p \in Int /\ answers \in Seq(Message)
        BY PlacesFacts DEF SInv, SourcesTypeOK, MainType
      <4>2. CASE p \in 1..Len(answers)
        <5>1. ToSee(p) = answers[p].read /\ p \in DOMAIN answers
          BY <4>1, <4>2, SMT DEF ToSee
        <5>. QED BY <3>1, <3>3, <4>2, <5>1 DEF SInv, AnswersInv
      <4>3. CASE p \notin 1..Len(answers)
        <5>1. p = 0 \/ p = Len(answers) + 1
          BY <3>1, <4>1, <4>3, SMT DEF Places
        <5>. QED BY <3>1, <3>2, <4>1, <5>1, SMT DEF ToSee
      <4>. QED BY <4>2, <4>3
    <3>4. Places' = Places /\ \A p : ToSee(p)' = ToSee(p)
      BY <1>1 DEF Places, ToSee
    <3>5. \A j \in Op : ~ Removes(j, m)
      BY <3>1 DEF List!Removing, Removes
    <3>6. OneRemove(m)' /\ BridgeTill(m)'
      BY <1>7, <3>3, <3>4, <3>5 DEF OneRemove, BridgeTill
    <3>7. GoesExcluded(m)' /\ GoesOnce(m)'
      BY <3>3, <3>4 DEF GoesExcluded, GoesOnce, Is, Ours
    <3>. QED BY <2>2, <3>6, <3>7 DEF NameFacts
  <2>. QED BY <2>3, <2>4
<1>. QED BY <1>5, <1>6, <1>9 DEF SInv, NamesInv

-----------------------------------------------------------------------------
(* What is delivered: the first message goes, the later places move up.    *)
LEMMA TailFacts ==
    ASSUME SInv, answers # <<>>, answers' = Tail(answers)
    PROVE  /\ Len(answers) \in Nat \ {0} /\ answers' \in Seq(Message) /\ Len(answers') = Len(answers) - 1
           /\ \A k \in 1..Len(answers') : answers'[k] = answers[k + 1] /\ k + 1 \in 1..Len(answers)
           /\ 1 \in 1..Len(answers) /\ Head(answers) = answers[1] /\ answers[1] \in Message
           /\ AnswersInv' \/ ops' # ops
           /\ \A k \in 1..Len(answers') : answers'[k] \in Message /\ (answers'[k].op # NoOne => answers'[k].op # answers[1].op)
<1>1. answers \in Seq(Message)
  BY DEF SInv, SourcesTypeOK, MainType
<1>2. /\ Len(answers) \in Nat \ {0} /\ answers' \in Seq(Message) /\ Len(answers') = Len(answers) - 1
      /\ \A k \in 1..Len(answers') : answers'[k] = answers[k + 1] /\ k + 1 \in 1..Len(answers)
      /\ 1 \in 1..Len(answers) /\ Head(answers) = answers[1] /\ answers[1] \in Message
      /\ \A k \in 1..Len(answers') : answers'[k] \in Message
  BY <1>1, SMT
<1>3. \A k \in 1..Len(answers') : k \in Int
  BY <1>2, SMT
<1>4. ASSUME NEW k \in 1..Len(answers'), NEW m \in 1..Len(answers'), k + 1 = m + 1 PROVE k = m
  BY <1>3, <1>4, SMT
<1>5. AnswersInv' \/ ops' # ops
  BY <1>2, <1>4 DEF SInv, AnswersInv
<1>6. ASSUME NEW k \in 1..Len(answers'), answers'[k].op # NoOne PROVE answers'[k].op # answers[1].op
  <2>1. k + 1 # 1
    BY <1>2, <1>6, SMT
  <2>. QED BY <1>2, <1>6, <2>1 DEF SInv, AnswersInv
<1>. QED BY <1>2, <1>5, <1>6

Drop == [p \in Int |-> IF p <= 0 THEN p ELSE p + 1]

LEMMA DropFacts ==
    ASSUME SInv, answers # <<>>, answers' = Tail(answers), UNCHANGED <<config, taken, snap, drawn>>
    PROVE  /\ Drop \in Monotone /\ Len(answers') \in Nat /\ Places' \subseteq Int
           /\ \A p \in Places' : Drop[p] \in Places /\ ToSee(p)' = ToSee(Drop[p])
<1>1. /\ Len(answers) \in Nat \ {0} /\ Len(answers') = Len(answers) - 1
      /\ \A k \in 1..Len(answers') : answers'[k] = answers[k + 1]
  BY TailFacts
<1>2. Drop \in [Int -> Int] /\ \A p, q \in Int : p <= q => Drop[p] <= Drop[q]
  BY SMT DEF Drop
<1>3. Places' = (IF drawn THEN 0 ELSE -1)..(Len(answers') + 1) /\ Places = (IF drawn THEN 0 ELSE -1)..(Len(answers) + 1)
  BY DEF Places
<1>4. Places' \subseteq Int /\ Len(answers') \in Nat
  BY <1>1, <1>3, SMT
<1>5. ASSUME NEW p \in Places' PROVE Drop[p] \in Places /\ ToSee(p)' = ToSee(Drop[p])
  <2>1. Drop[p] \in Places
    BY <1>1, <1>3, SMT DEF Drop
  <2>2. CASE p \in {-1, 0}
    <3>1. Drop[p] = p
      BY <1>4, <2>2, SMT DEF Drop
    <3>. QED BY <2>1, <2>2, <3>1, SMT DEF ToSee
  <2>3. CASE p \in 1..Len(answers')
    <3>1. Drop[p] = p + 1
      BY <1>1, <2>3, SMT DEF Drop
    <3>2. ToSee(p)' = answers'[p].read /\ ToSee(p + 1) = answers[p + 1].read
      BY <1>1, <2>3, SMT DEF ToSee
    <3>. QED BY <1>1, <2>1, <2>3, <3>1, <3>2
  <2>4. CASE p = Len(answers') + 1
    <3>1. Drop[p] = Len(answers) + 1
      BY <1>1, <2>4, SMT DEF Drop
    <3>2. ToSee(p)' = [ok |-> TRUE, entries |-> config'.entries, taken |-> taken']
      BY <1>1, <2>4, SMT DEF ToSee
    <3>3. ToSee(Len(answers) + 1) = [ok |-> TRUE, entries |-> config.entries, taken |-> taken]
      BY <1>1, SMT DEF ToSee
    <3>. QED BY <2>1, <3>1, <3>2, <3>3
  <2>5. p \in {-1, 0} \/ p \in 1..Len(answers') \/ p = Len(answers') + 1
    <3>1. p \in Int /\ p >= -1 /\ p <= Len(answers') + 1 /\ Len(answers') \in Nat
      BY <1>1, <1>3, <1>4, SMT
    <3>. QED BY <3>1, SMT
  <2>. QED BY <2>2, <2>3, <2>4, <2>5
<1>. QED BY <1>2, <1>4, <1>5 DEF Monotone

Shift == [p \in Int |-> p + 1]

LEMMA ShiftFacts ==
    ASSUME SInv, answers # <<>>, answers' = Tail(answers), UNCHANGED <<config, taken>>, drawn' = FALSE,
           snap' = [current |-> Head(answers).read, previous |-> snap.current]
    PROVE  /\ Shift \in Monotone /\ Len(answers') \in Nat /\ Places' \subseteq Int
           /\ \A p \in Places' : Shift[p] \in Places /\ ToSee(p)' = ToSee(Shift[p])
<1>1. /\ Len(answers) \in Nat \ {0} /\ Len(answers') = Len(answers) - 1
      /\ \A k \in 1..Len(answers') : answers'[k] = answers[k + 1]
      /\ Head(answers) = answers[1]
  BY TailFacts
<1>2. Shift \in [Int -> Int] /\ \A p, q \in Int : p <= q => Shift[p] <= Shift[q]
  BY SMT DEF Shift
<1>3. Places' = -1..(Len(answers') + 1) /\ Places = (IF drawn THEN 0 ELSE -1)..(Len(answers) + 1)
  BY DEF Places
<1>4. Places' \subseteq Int /\ Len(answers') \in Nat
  BY <1>1, <1>3, SMT
<1>5. ASSUME NEW p \in Places' PROVE Shift[p] \in Places /\ ToSee(p)' = ToSee(Shift[p])
  <2>1. Shift[p] \in Places /\ Shift[p] = p + 1
    BY <1>1, <1>3, SMT DEF Shift
  <2>2. CASE p = -1
    <3>1. ToSee(p)' = snap.current /\ ToSee(0) = snap.current
      BY <2>2 DEF ToSee
    <3>2. Shift[p] = 0
      BY <2>1, <2>2, SMT
    <3>. QED BY <2>1, <3>1, <3>2
  <2>3. CASE p = 0
    <3>1. ToSee(p)' = answers[1].read
      BY <1>1, <2>3 DEF ToSee
    <3>2. Shift[p] = 1 /\ ToSee(1) = answers[1].read
      BY <1>1, <2>1, <2>3, SMT DEF ToSee
    <3>. QED BY <2>1, <3>1, <3>2
  <2>4. CASE p \in 1..Len(answers')
    <3>2. ToSee(p)' = answers'[p].read /\ ToSee(p + 1) = answers[p + 1].read
      BY <1>1, <2>4, SMT DEF ToSee
    <3>. QED BY <1>1, <2>1, <2>4, <3>2
  <2>5. CASE p = Len(answers') + 1
    <3>1. Shift[p] = Len(answers) + 1
      BY <1>1, <2>1, <2>5, SMT
    <3>2. ToSee(p)' = [ok |-> TRUE, entries |-> config'.entries, taken |-> taken']
      BY <1>1, <2>5, SMT DEF ToSee
    <3>3. ToSee(Len(answers) + 1) = [ok |-> TRUE, entries |-> config.entries, taken |-> taken]
      BY <1>1, SMT DEF ToSee
    <3>. QED BY <2>1, <3>1, <3>2, <3>3
  <2>6. p \in {-1, 0} \/ p \in 1..Len(answers') \/ p = Len(answers') + 1
    <3>1. p \in Int /\ p >= -1 /\ p <= Len(answers') + 1 /\ Len(answers') \in Nat
      BY <1>1, <1>3, <1>4, SMT
    <3>. QED BY <3>1, SMT
  <2>. QED BY <2>2, <2>3, <2>4, <2>5, <2>6
<1>. QED BY <1>2, <1>4, <1>5 DEF Monotone

LEMMA StatusArrivesStep == ASSUME SInv, List!StatusArrives PROVE SInv'
<1>1. /\ answers # <<>> /\ answers' = Tail(answers)
      /\ UNCHANGED <<config, asked, ops, elsewhere, taken, shown, vanished, mistold, selected, inspector,
                     inAppRemoves, residualCreds, crossed>>
      /\ \/ UNCHANGED <<snap, drawn>>
         \/ snap' = [current |-> Head(answers).read, previous |-> snap.current] /\ drawn' = FALSE
  BY DEF List!StatusArrives, List!Apply, List!main, List!user
<1>2. answers' \in Seq(Message) /\ AnswersInv' /\ Head(answers).read \in Result
  BY <1>1, TailFacts DEF Message
<1>3. SourcesTypeOK' /\ ScreenInv'
  <2>1. snap' \in [current : Result, previous : Result] /\ drawn' \in BOOLEAN /\ (drawn' => shown' = snap'.current)
    <3>1. snap \in [current : Result, previous : Result] /\ drawn \in BOOLEAN /\ (drawn => shown = snap.current)
      BY DEF SInv, SourcesTypeOK, WindowType, ScreenInv
    <3>2. snap.current \in Result
      BY <3>1
    <3>3. CASE UNCHANGED <<snap, drawn>>
      BY <1>1, <3>1, <3>3
    <3>4. CASE snap' = [current |-> Head(answers).read, previous |-> snap.current] /\ drawn' = FALSE
      BY <1>2, <3>2, <3>4
    <3>. QED BY <1>1, <3>3, <3>4
  <2>2. MainType'
    BY <1>1, <1>2 DEF SInv, SourcesTypeOK, MainType, ConfigType
  <2>3. WindowType'
    BY <1>1, <2>1 DEF SInv, SourcesTypeOK, WindowType
  <2>4. ScreenInv'
    BY <1>1, <2>1 DEF SInv, ScreenInv
  <2>. QED BY <2>2, <2>3, <2>4 DEF SourcesTypeOK
<1>4. PICK f \in Monotone : \A p \in Places' : f[p] \in Places /\ ToSee(p)' = ToSee(f[p])
  BY <1>1, DropFacts, ShiftFacts
<1>5. Len(answers') \in Nat /\ Places' \subseteq Int
  BY <1>1, DropFacts, ShiftFacts
<1>6. ASSUME NEW n \in Name \ crossed' PROVE NameFacts(n)'
  <2>1. NameFacts(n) /\ n \in Name
    BY <1>1 DEF SInv, NamesInv
  <2>2. \A i \in Op : Removes(i, n)' => Removes(i, n) /\ (Unwritten(i)' => Unwritten(i))
    BY <1>1 DEF Removes, Unwritten
  <2>3. AskedFor(n)'
    BY <1>1, <2>1 DEF NameFacts, AskedFor, Removes
  <2>4. \A p \in Places' : Mapped(p, n, f)
    BY <1>4 DEF Mapped, AsBefore
  <2>. QED BY <1>1, <1>5, <2>1, <2>2, <2>3, <2>4, NameStep
<1>. QED BY <1>1, <1>2, <1>3, <1>6 DEF SInv, NamesInv

LEMMA AnswerArrivesStep == ASSUME SInv, List!AnswerArrives PROVE SInv'
<1> DEFINE i == Head(answers).op
<1> DEFINE done == ops[i].kind = "remove" /\ ops[i].outcome \in {"wrote", "left"}
<1>1. /\ answers # <<>> /\ i # NoOne /\ answers' = Tail(answers) /\ ops' = [ops EXCEPT ![i].at = "over"]
      /\ inAppRemoves' = IF ops[i].kind = "remove" /\ ~ done
                         THEN inAppRemoves \ {ops[i].name} ELSE inAppRemoves
      /\ residualCreds' = IF ops[i].outcome = "left" THEN residualCreds \cup {ops[i].name} ELSE residualCreds
      /\ asked' = (asked \/ ops[i].outcome # "error")
      /\ inspector' = IF inspector.op # i THEN inspector
                      ELSE IF done THEN [at |-> "confirming", op |-> NoOne] ELSE [at |-> "viewing", op |-> NoOne]
      /\ UNCHANGED <<config, elsewhere, taken, snap, drawn, shown, vanished, mistold, selected, crossed>>
  BY DEF List!AnswerArrives, List!window, List!Viewing, List!Told, List!Wrote, List!accumulateResidualCredentials
<1>2. /\ Len(answers) \in Nat \ {0} /\ answers' \in Seq(Message) /\ Len(answers') = Len(answers) - 1
      /\ \A k \in 1..Len(answers') : answers'[k] = answers[k + 1] /\ k + 1 \in 1..Len(answers)
      /\ 1 \in 1..Len(answers) /\ Head(answers) = answers[1] /\ answers[1] \in Message
      /\ \A k \in 1..Len(answers') : answers'[k] \in Message /\ (answers'[k].op # NoOne => answers'[k].op # answers[1].op)
  BY <1>1, TailFacts
<1>3. i \in Op /\ i = answers[1].op
  BY <1>1, <1>2 DEF Message
<1>4. ops[i].at = "sent" /\ ops[i].kind # "none" /\ ops[i].name \in Name /\ ops[i] \in Request
  BY <1>1, <1>2, <1>3 DEF SInv, AnswersInv, ScreenInv, SourcesTypeOK, MainType
<1>5. OpMoves(i, "over", ops[i].outcome)
  <2>1. ops \in [Op -> Request]
    BY DEF SInv, SourcesTypeOK, MainType
  <2> DEFINE r == [ops[i] EXCEPT !.at = "over"]
  <2>2. r \in Request
    BY <1>4 DEF Request
  <2>3. r.kind = ops[i].kind /\ r.name = ops[i].name /\ r.at = "over" /\ r.outcome = ops[i].outcome
    BY <1>4 DEF Request
  <2>4. ops' = [ops EXCEPT ![i] = r]
    BY <1>1, <1>3, <2>1
  <2> HIDE DEF r, i
  <2>. QED BY <1>3, <2>1, <2>2, <2>3, <2>4 DEF OpMoves
<1> HIDE DEF i
<1>6. MainType'
  <2>1. asked' \in BOOLEAN
    BY <1>1
  <2>. QED BY <1>1, <1>2, <1>5, <2>1 DEF SInv, SourcesTypeOK, MainType, ConfigType, OpMoves
<1>7. WindowType' /\ ScreenInv'
  <2>1. inspector' \in Inspector /\ (IF inspector'.at = "closed" THEN inspector'.op = NoOne ELSE selected' \in Name)
    BY <1>1, <1>3, SourcesAssumption DEF SInv, SourcesTypeOK, WindowType, ScreenInv, Inspector
  <2>2. inAppRemoves' \subseteq Name /\ residualCreds' \subseteq Name
    BY <1>1, <1>4 DEF SInv, SourcesTypeOK, WindowType
  <2>3. WindowType'
    BY <1>1, <2>1, <2>2 DEF SInv, SourcesTypeOK, WindowType
  <2>4. ScreenInv'
    BY <1>1, <1>4, <1>5, <2>1 DEF SInv, ScreenInv, OpMoves
  <2>. QED BY <2>3, <2>4
<1>8. AnswersInv'
  <2>1. ASSUME NEW k \in 1..Len(answers'), answers'[k].op # NoOne
        PROVE  ops'[answers'[k].op].at = "sent" /\ ~ answers'[k].read.ok
    <3>1. answers'[k].op \in Op \ {i}
      BY <1>2, <1>3, <2>1 DEF Message
    <3>. QED BY <1>2, <1>5, <2>1, <3>1 DEF SInv, AnswersInv, OpMoves
  <2>2. ASSUME NEW k \in 1..Len(answers'), NEW m \in 1..Len(answers'),
               answers'[k].op = answers'[m].op, answers'[k].op # NoOne
        PROVE  k = m
    <3>1. k + 1 = m + 1
      BY <1>2, <2>2 DEF SInv, AnswersInv
    <3>2. k \in Int /\ m \in Int
      BY <1>2, SMT
    <3>. QED BY <3>1, <3>2, SMT
  <2>. QED BY <2>1, <2>2 DEF AnswersInv
<1>9. ASSUME NEW n, NEW j \in Op, Removes(j, n)' PROVE Removes(j, n) /\ (Unwritten(j)' <=> Unwritten(j)) /\ j # i /\ ops'[j] = ops[j]
  BY <1>5, <1>9 DEF Removes, Unwritten, OpMoves
<1>10. ASSUME NEW n \in Name \ crossed' PROVE NameFacts(n)'
  <2>1. NameFacts(n) /\ n \in Name
    BY <1>1 DEF SInv, NamesInv
  <2>2. /\ Drop \in Monotone /\ Len(answers') \in Nat /\ Places' \subseteq Int
        /\ \A p \in Places' : Drop[p] \in Places /\ ToSee(p)' = ToSee(Drop[p])
    BY <1>1, DropFacts
  <2>3. ASSUME n \notin inAppRemoves', n \in inAppRemoves PROVE Removes(i, n) /\ Unwritten(i)
    BY <1>1, <1>4, <2>3 DEF Removes, Unwritten
  <2>4. AskedFor(n)'
    <3>1. SUFFICES ASSUME NEW j \in Op, Removes(j, n)', ops'[j].at = "asked", n \notin inAppRemoves' PROVE FALSE
      BY DEF AskedFor
    <3>2. Removes(j, n) /\ j # i /\ n \in inAppRemoves
      BY <1>9, <2>1, <3>1 DEF NameFacts, AskedFor
    <3>. QED BY <1>3, <2>1, <2>3, <3>1, <3>2 DEF NameFacts, OneRemove
  <2>5. n \in inAppRemoves => n \in inAppRemoves' \/ GoesExcluded(n)'
    <3>1. SUFFICES ASSUME n \in inAppRemoves, n \notin inAppRemoves', NEW q \in Places', Ours(q, n)' PROVE FALSE
      BY DEF GoesExcluded
    <3>2. \A p \in Places : ToSee(p).ok => ToSee(p).entries[n] = "bridge"
      BY <1>3, <2>1, <2>3, <3>1 DEF NameFacts, BridgeTill
    <3>. QED BY <2>2, <3>1, <3>2 DEF Ours, Is
  <2>6. \A p \in Places' : Mapped(p, n, Drop)
    BY <2>2 DEF Mapped, AsBefore
  <2>. QED BY <1>9, <2>1, <2>2, <2>4, <2>5, <2>6, NameStep
<1>. QED BY <1>1, <1>6, <1>7, <1>8, <1>10 DEF SInv, NamesInv, SourcesTypeOK

(* The effect of a new pair: what it tells of is not ours, and what it     *)
(* ages out will not go again.                                             *)
LEMMA RenderStep == ASSUME SInv, List!Render PROVE SInv'
<1> DEFINE gone == List!diffVanishedConnectors(snap.previous, snap.current)
<1>1. /\ ~ drawn /\ drawn' = TRUE /\ shown' = snap.current /\ vanished' = vanished \cup gone
      /\ inAppRemoves' = IF snap.previous.ok THEN inAppRemoves \cap List!Listed(snap.previous) ELSE inAppRemoves
      /\ inspector' = IF selected \notin List!Listed(snap.current) THEN List!Closed
                      ELSE IF inspector = List!Closed THEN List!Viewing ELSE inspector
      /\ mistold' = mistold \cup (gone \ snap.current.taken)
      /\ UNCHANGED <<config, asked, ops, elsewhere, taken, answers, snap, selected, residualCreds, crossed>>
  BY DEF List!Render, List!main, List!pruneAgedRemoves, List!Inspected
<1>2. /\ gone \subseteq Name
      /\ \A n \in gone : /\ snap.previous.ok /\ snap.current.ok /\ n \notin inAppRemoves
                         /\ snap.previous.entries[n] = "bridge" /\ snap.current.entries[n] = "absent"
  BY DEF List!diffVanishedConnectors, List!Remote, List!Listed
<1> HIDE DEF gone
<1>3. ToSee(-1) = snap.previous /\ ToSee(0) = snap.current
  BY DEF ToSee
<1>4. Len(answers) \in Nat /\ -1 \in Places /\ 0 \in Places /\ Places' \subseteq Places /\ Places' \subseteq Int
      /\ \A p \in Places' : p >= 0
  <2>1. Places = -1..(Len(answers) + 1) /\ Places' = 0..(Len(answers) + 1) /\ Len(answers) \in Nat
    BY <1>1, PlacesFacts DEF Places
  <2>. QED BY <2>1, SMT
<1>5. \A p \in Places' : ToSee(p)' = ToSee(p)
  BY <1>1 DEF ToSee
<1>6. mistold' \subseteq crossed'
  <2>1. SUFFICES ASSUME NEW n \in gone, n \notin snap.current.taken, n \notin crossed PROVE FALSE
    BY <1>1 DEF SInv
  <2>2. GoesExcluded(n) /\ n \notin inAppRemoves
    BY <1>2, <2>1 DEF SInv, NamesInv, NameFacts
  <2>3. Is(-1, n, "bridge") /\ Ours(0, n)
    BY <1>2, <1>3, <2>1 DEF Is, Ours
  <2>. QED BY <1>4, <2>2, <2>3, SMT DEF GoesExcluded
<1>7. SourcesTypeOK' /\ ScreenInv'
  <2>1. inspector' \in Inspector /\ (IF inspector'.at = "closed" THEN inspector'.op = NoOne ELSE selected' \in Name)
    BY <1>1 DEF SInv, SourcesTypeOK, WindowType, ScreenInv, Inspector, List!Closed, List!Viewing, List!Listed
  <2>2. snap.current \in Result /\ gone \subseteq Name
    BY <1>2 DEF SInv, SourcesTypeOK, WindowType
  <2>3. vanished' \subseteq Name /\ mistold' \subseteq Name /\ inAppRemoves' \subseteq Name
    BY <1>1, <2>2 DEF SInv, SourcesTypeOK, WindowType
  <2>4. WindowType'
    BY <1>1, <2>1, <2>2, <2>3 DEF SInv, SourcesTypeOK, WindowType
  <2>5. MainType'
    BY <1>1 DEF SInv, SourcesTypeOK, MainType, ConfigType
  <2>6. ScreenInv'
    BY <1>1, <2>1 DEF SInv, ScreenInv
  <2>. QED BY <2>4, <2>5, <2>6 DEF SourcesTypeOK
<1>8. AnswersInv'
  BY <1>1 DEF SInv, AnswersInv
<1>9. ASSUME NEW n, NEW j \in Op, Removes(j, n)' PROVE Removes(j, n) /\ (Unwritten(j)' <=> Unwritten(j)) /\ ops'[j] = ops[j]
  BY <1>1, <1>9 DEF Removes, Unwritten
<1>10. ASSUME NEW n \in Name \ crossed' PROVE NameFacts(n)'
  <2>1. NameFacts(n) /\ n \in Name
    BY <1>1 DEF SInv, NamesInv
  <2> DEFINE f == [p \in Int |-> p]
  <2>2. f \in Monotone
    BY DEF Monotone
  <2>3. \A p \in Places' : Mapped(p, n, f)
    BY <1>4, <1>5 DEF Mapped, AsBefore
  <2> HIDE DEF f
  <2>4. AskedFor(n)'
    <3>1. SUFFICES ASSUME NEW j \in Op, Removes(j, n)', ops'[j].at = "asked", n \notin inAppRemoves' PROVE FALSE
      BY DEF AskedFor
    <3>2. Removes(j, n) /\ Unwritten(j) /\ n \in inAppRemoves
      BY <1>9, <2>1, <3>1 DEF NameFacts, AskedFor, Unwritten
    <3>3. snap.previous.ok => snap.previous.entries[n] = "bridge"
      BY <1>3, <1>4, <2>1, <3>2 DEF NameFacts, BridgeTill
    <3>. QED BY <1>1, <2>1, <3>1, <3>2, <3>3 DEF List!Listed
  <2>5. n \in inAppRemoves => n \in inAppRemoves' \/ GoesExcluded(n)'
    <3>1. SUFFICES ASSUME n \in inAppRemoves, n \notin inAppRemoves', NEW p \in Places', NEW q \in Places', p <= q,
                          Is(p, n, "bridge")', Ours(q, n)'
                   PROVE FALSE
      BY DEF GoesExcluded
    <3>2. Is(-1, n, "absent")
      BY <1>1, <1>3, <2>1, <3>1 DEF Is, List!Listed
    <3>3. Is(p, n, "bridge") /\ Ours(q, n) /\ p \in Places /\ q \in Places
      BY <1>4, <1>5, <3>1 DEF Is, Ours
    <3>4. -1 <= p
      BY <1>4, <3>1, SMT
    <3>. QED BY <1>4, <2>1, <3>1, <3>2, <3>3, <3>4 DEF NameFacts, GoesOnce
  <2>6. Len(answers') \in Nat /\ Places' \subseteq Int
    BY <1>1, <1>4
  <2>. QED BY <1>9, <2>1, <2>2, <2>3, <2>4, <2>5, <2>6, NameStep
<1>. QED BY <1>6, <1>7, <1>8, <1>10 DEF SInv, NamesInv

-----------------------------------------------------------------------------
LEMMA SourcesInit == List!Init => SInv
<1> SUFFICES ASSUME List!Init PROVE SInv
  OBVIOUS
<1>1. /\ config \in [ok : {TRUE}, entries : [Name -> {"absent", "bridge"}]] /\ elsewhere = 0 /\ taken = {}
      /\ asked = TRUE /\ answers = <<>> /\ ops = [i \in Op |-> List!Unused]
      /\ snap = [current |-> List!NoList, previous |-> List!NoList] /\ drawn = TRUE /\ shown = List!NoList
      /\ selected = NoOne /\ inspector = List!Closed /\ inAppRemoves = {} /\ vanished = {} /\ residualCreds = {}
      /\ mistold = {} /\ crossed = {}
  BY DEF List!Init
<1>2. List!NoList \in Result /\ ~ List!NoList.ok
  BY DEF List!NoList, List!Nothing, Result, Listing
<1>3. List!Unused \in Request /\ List!Closed \in Inspector
  BY DEF List!Unused, Request, List!Closed, Inspector
<1>4. config \in [ok : BOOLEAN, entries : [Name -> Listing]]
  <2>1. [Name -> {"absent", "bridge"}] \subseteq [Name -> Listing]
    BY DEF Listing
  <2>. QED BY <1>1, <2>1
<1>5. answers \in Seq(Message) /\ Len(answers) = 0
  BY <1>1
<1>6. SourcesTypeOK
  BY <1>1, <1>2, <1>3, <1>4, <1>5 DEF SourcesTypeOK, MainType, ConfigType, WindowType
<1>7. AnswersInv
  <2>1. 1..Len(answers) = {}
    BY <1>5, SMT
  <2>. QED BY <2>1 DEF AnswersInv
<1>8. ScreenInv
  BY <1>1, SourcesAssumption DEF ScreenInv, List!Unused, List!Closed
<1>9. ASSUME NEW n \in Name PROVE NameFacts(n)
  <2>1. \A i \in Op : ~ Removes(i, n)
    BY <1>1 DEF Removes, List!Unused
  <2>2. \A p \in Places : p = 0 \/ p = 1
    BY <1>1, <1>5, SMT DEF Places
  <2>3. ~ ToSee(0).ok
    BY <1>1, <1>2 DEF ToSee
  <2>4. \A p \in Places : \A e : Is(p, n, e) => p = 1
    BY <2>2, <2>3 DEF Is
  <2>5. GoesExcluded(n) /\ GoesOnce(n)
    BY <2>4 DEF GoesExcluded, GoesOnce, Ours, Is
  <2>. QED BY <2>1, <2>5 DEF NameFacts, OneRemove, BridgeTill, AskedFor
<1>. QED BY <1>1, <1>6, <1>7, <1>8, <1>9 DEF SInv, NamesInv

LEMMA SourcesStep == SInv /\ [List!Next]_(List!svars) => SInv'
<1> SUFFICES ASSUME SInv, [List!Next]_(List!svars) PROVE SInv'
  OBVIOUS
<1>1. CASE List!Read
  BY <1>1, ReadStep
<1>2. CASE List!OtherWrites
  BY <1>2, OtherWritesStep
<1>3. ASSUME NEW i \in Op, List!RemoveRemote(i) \/ List!DeleteCredentials(i) \/ List!Connected(i) PROVE SInv'
  BY <1>3, RemoveRemoteStep, DeleteCredentialsStep, EntryAddedStep
<1>4. CASE List!Tick
  BY <1>4, PollTickStep
<1>5. CASE List!StatusArrives
  BY <1>5, StatusArrivesStep
<1>6. CASE List!AnswerArrives
  BY <1>6, AnswerArrivesStep
<1>7. CASE List!Render
  BY <1>7, RenderStep
<1>8. CASE \/ List!LeaveTab \/ List!RemoveClick \/ List!CancelRemove \/ List!Dismiss \/ List!DismissResidual
           \/ \E n \in Name : List!Select(n)
  BY <1>8, ClicksStep
<1>9. ASSUME NEW i \in Op, List!ConfirmRemove(i) \/ List!Reconnect(i) PROVE SInv'
  BY <1>9, ConfirmRemoveStep, ReconnectStep
<1>10. ASSUME NEW i \in Op, NEW n \in Name, List!Connect(i, n) PROVE SInv'
  BY <1>10, GalleryConnectStep
<1>11. CASE UNCHANGED List!svars
  <2>1. UNCHANGED <<config, asked, ops, elsewhere, taken, answers, snap, drawn, shown, vanished, mistold, selected, inspector,
                    inAppRemoves, residualCreds, crossed>>
    BY <1>11 DEF List!svars, List!main, List!window, List!user
  <2>2. SourcesTypeOK' /\ ScreenInv'
    BY <2>1 DEF SInv, SourcesTypeOK, MainType, ConfigType, WindowType, ScreenInv
  <2>. QED BY <2>1, <2>2, QuietStep
<1>. QED BY <1>1, <1>2, <1>3, <1>4, <1>5, <1>6, <1>7, <1>8, <1>9, <1>10, <1>11 DEF List!Next

LEMMA SourcesInv == List!Spec => []SInv
  BY SourcesInit, SourcesStep, PTL DEF List!Spec

(* Every variable of the window's sources, and of the config and the       *)
(* messages behind them, keeps its kind of value (App.tsx,                 *)
(* usePolledConfigStatus.ts, ConnectorInspector.tsx).                      *)
THEOREM SourcesTypeCorrect == List!Spec => []SourcesTypeOK
<1>1. SInv => SourcesTypeOK
  BY DEF SInv
<1>. QED BY <1>1, SourcesInv, PTL

(* For every number of connectors, polls, removes and writes of other      *)
(* programs: whatever the notice of vanished connectors names              *)
(* (diffVanishedConnectors and the effect of App.tsx) was taken by another *)
(* program, unless it was removed here from a screen that was behind.      *)
THEOREM VanishedTruthfulHolds == List!Spec => []VanishedTruthful
<1>1. SInv => VanishedTruthful
  BY DEF SInv, VanishedTruthful, List!VanishedTruthful
<1>. QED BY <1>1, SourcesInv, PTL
=============================================================================
