---------------------------- MODULE HookSettings ----------------------------
(* The capture hook in ~/.claude/settings.json: Install, Update and        *)
(* Uninstall through the guarded write (copy, compare, rename, verify),    *)
(* and the memory of the 15 s integrity check that tells a removal by      *)
(* somebody else from one made in the app.  The handlers and the check run *)
(* one at a time in the main process; Claude Code, the user and other      *)
(* programs write the file between any two of their steps.                 *)
EXTENDS Integers, FiniteSets

CONSTANTS
    Event,        \* CCHOOK_EVENTS
    Elicitation,  \* those an old or unknown Claude Code does not support
    HandMade,     \* entries a user may have written by hand
    Kept,         \* SETTINGS_BACKUPS_KEPT
    MaxOthers,    \* bound: writes of others
    MaxActs,      \* bound: handlers run
    MaxFaults     \* bound: failures, crashes and steps back of the clock

VARIABLES
    settings,  \* what the path holds: its kind, hooks, a mention elsewhere, the other bytes
    copies,    \* the copies kept: a stamp, and what was copied
    clock,     \* the stamp of the last copy
    memory,    \* hook-state.json, or NoMemory
    app,       \* what the main process is doing
    cause,     \* history: how the hook last ceased to be registered
    gap,       \* history: another wrote between the comparison and the rename
    lost,      \* history: the rename replaced what the app had not read
    marks,     \* history: removals the trail was told of (or whose line failed)
    told,      \* history: removals the memory turned into a notice
    used       \* counters of the bounds

hvars == <<settings, copies, clock, memory, app, cause, gap, lost, marks, told, used>>

(* An item is a hook command of an entry: as this build writes it, of an   *)
(* older build (not async, or a wrong --event), ours with another path, or *)
(* the user's.  A bare entry is one written without its hooks array.       *)
OurEntry == [bare |-> FALSE, items |-> {"std"}]

HasMarker(entry) == entry.items # {"user"}

NoHooks == [e \in Event |-> {}]

Absent == [kind |-> "absent", hooks |-> NoHooks, mention |-> FALSE, rev |-> 0]

HooksMarked(hooks) == \E e \in Event : \E x \in hooks[e] : HasMarker(x)

(* A link, what is no regular file and a file of another user is managed   *)
(* by somebody else; the rest is read, if it is there and parses.          *)
ReadSettingsGuarded(file) ==
    CASE file.kind = "link" -> "managed" [] file.kind = "ours" -> "ok" [] OTHER -> file.kind

(* The marker anywhere in a file that parses, read through a symlink.      *)
IsHookRegistered(file) == file.kind \in {"ours", "link"} /\ (file.mention \/ HooksMarked(file.hooks))

-----------------------------------------------------------------------------
(* The pure merge, remove, check and update of the hooks.                  *)

MergeHooks(hooks, events) ==
    [e \in Event |-> IF e \in events /\ ~\E x \in hooks[e] : HasMarker(x)
                     THEN hooks[e] \cup {OurEntry} ELSE hooks[e]]

RemoveHooks(hooks) == [e \in Event |-> {x \in hooks[e] : ~HasMarker(x)}]

(* A custom path hides every other problem of its item.                    *)
Problems(hooks, e) ==
    LET items == (UNION {x.items : x \in hooks[e]}) \ {"user"}
    IN  IF items = {} THEN {"missing"} ELSE items \ {"std"}

Fixable(hooks, events) == {e \in events : Problems(hooks, e) \ {"custom"} # {}}

NotInstalled(hooks, events) == \A e \in events : Problems(hooks, e) = {"missing"}

(* The commands of ours of an older build are replaced, one by one.        *)
UpdateEntry(entry) ==
    IF entry.bare THEN entry
    ELSE [entry EXCEPT !.items = {IF i = "stale" THEN "std" ELSE i : i \in entry.items}]

UpdateHooks(hooks, events) ==
    LET merged == MergeHooks(hooks, events)
    IN  [e \in Event |-> IF e \in events THEN {UpdateEntry(x) : x \in merged[e]} ELSE merged[e]]

(* cchookEventsFor: an old Claude Code, or one whose version is unknown,    *)
(* gets every event but those of elicitations.                             *)
SupportedEvents == {Event, Event \ Elicitation}

(* The events of the snippet offered for a file xCLAUDE must not write.    *)
Snippet(hooks, events) == IF NotInstalled(hooks, events) THEN events ELSE Fixable(hooks, events)

Transform(op, hooks, events) ==
    CASE op = "install"   -> MergeHooks(hooks, events)
      [] op = "update"    -> UpdateHooks(hooks, events)
      [] op = "uninstall" -> RemoveHooks(hooks)

(* What the file must show once it is re-read.                             *)
Verified(op, file, events) ==
    /\ ReadSettingsGuarded(file) = "ok"
    /\ CASE op = "install"   -> \A e \in events : Problems(file.hooks, e) # {"missing"}
         [] op = "update"    -> Fixable(file.hooks, events) = {}
         [] op = "uninstall" -> NotInstalled(file.hooks, Event)

-----------------------------------------------------------------------------
NoMemory == [known |-> FALSE, expected |-> FALSE, notice |-> FALSE]
Memory(expected, notice) == [known |-> TRUE, expected |-> expected, notice |-> notice]

ApplyExpected(state, expected) == Memory(expected, ~expected /\ state.notice)

Idle == [at |-> "idle", op |-> "none", events |-> {}, read |-> Absent, next |-> NoMemory]

Init ==
    /\ settings \in {Absent, [Absent EXCEPT !.kind = "ours"]}
                    \cup {[kind |-> k, hooks |-> [NoHooks EXCEPT ![e] = {x}], mention |-> FALSE, rev |-> 0] :
                          k \in {"ours", "link"}, e \in Event, x \in HandMade \cup {OurEntry}}
    /\ copies = {} /\ clock = 1
    /\ memory = NoMemory
    /\ app = Idle
    /\ cause = "none" /\ gap = FALSE /\ lost = FALSE
    /\ marks = 0 /\ told = 0
    /\ used = [others |-> 0, acts |-> 0, faults |-> 0]

history == <<cause, gap, lost, marks, told>>

CanFail == used.faults < MaxFaults
Failed == used' = [used EXCEPT !.faults = @ + 1]

At(step) == app' = [app EXCEPT !.at = step]

(* persistJson: a failure is logged, and the old memory stays.             *)
Persist(next) ==
    \/ memory' = next /\ UNCHANGED used
    \/ CanFail /\ Failed /\ UNCHANGED memory

(* A handler reads the file after the version of Claude Code is known, or  *)
(* not: a managed or invalid file, an Update of what is not there and an   *)
(* Uninstall of nothing change nothing.                                    *)
Begin(op, events) ==
    /\ app.at = "idle" /\ used.acts < MaxActs
    /\ used' = [used EXCEPT !.acts = @ + 1]
    /\ LET plan == Transform(op, settings.hooks, events)
           read == ReadSettingsGuarded(settings) IN
       \/ /\ read = "absent" /\ op = "install"
          /\ app' = [Idle EXCEPT !.at = "create", !.op = op, !.events = events, !.read = settings]
       \/ /\ read = "ok" /\ plan # settings.hooks
          /\ op = "update" => ~NotInstalled(settings.hooks, events)
          /\ app' = [Idle EXCEPT !.at = "copy", !.op = op, !.events = events, !.read = settings]
       \/ /\ read = "ok" /\ plan = settings.hooks /\ op # "uninstall"
          /\ op = "update" => ~NotInstalled(settings.hooks, events)
          /\ app' = [Idle EXCEPT !.at = "record", !.op = op, !.events = events, !.read = settings]
    /\ gap' = FALSE /\ lost' = FALSE
    /\ UNCHANGED <<settings, copies, clock, memory, cause, marks, told>>

Install == \E events \in SupportedEvents : Begin("install", events)
Update == \E events \in SupportedEvents : Begin("update", events)
Uninstall == Begin("uninstall", Event)

(* The last Kept names in the order of their stamps stay.                  *)
Newest(all) == {c \in all : Cardinality({d \in all : d.stamp > c.stamp}) < Kept}

(* backupSettings: no copy, no write.  The clock may have been set back.   *)
Copy ==
    /\ app.at = "copy"
    /\ \/ /\ \/ clock' = clock + 1 /\ UNCHANGED used
             \/ clock' = 0 /\ CanFail /\ Failed
          /\ \A c \in copies : c.stamp # clock'
          /\ copies' = Newest(copies \cup {[stamp |-> clock', of |-> app.read]})
          /\ At("compare")
       \/ CanFail /\ Failed /\ app' = Idle /\ UNCHANGED <<copies, clock>>
    /\ UNCHANGED <<settings, memory, history>>

(* swapSettingsIfUnchanged: the temporary file is written, the target is   *)
(* read again, and its bytes must be those of the first read.              *)
CompareNot ==
    /\ app.at = "compare"
    /\ At("rename")
    /\ UNCHANGED <<settings, copies, clock, memory, history, used>>

Compare ==
    /\ app.at = "compare"
    /\ IF settings = app.read THEN At("rename") ELSE app' = Idle
    /\ UNCHANGED <<settings, copies, clock, memory, history, used>>

Planned ==
    [app.read EXCEPT !.kind = "ours", !.hooks = Transform(app.op, @, app.events)]

(* After the swap the directory may fail to sync: an error is returned for *)
(* a file that was changed.                                                *)
AfterSwap ==
    \/ At("verify") /\ UNCHANGED used
    \/ CanFail /\ Failed /\ app' = Idle

(* How the hook ceased to be registered, if this write did it.             *)
CausedBy(who) == cause' = IF IsHookRegistered(settings) /\ ~IsHookRegistered(settings') THEN who ELSE cause

Rename ==
    /\ app.at = "rename"
    /\ settings' = Planned
    /\ lost' = (settings # app.read)
    /\ CausedBy("unrecorded")
    /\ AfterSwap
    /\ UNCHANGED <<copies, clock, memory, gap, marks, told>>

RenameFails ==
    /\ app.at \in {"compare", "rename", "create"} /\ CanFail /\ Failed
    /\ app' = Idle
    /\ UNCHANGED <<settings, copies, clock, memory, history>>

(* createSettingsIfAbsent: the link fails if a file appeared meanwhile.    *)
Create ==
    /\ app.at = "create"
    /\ IF settings.kind = "absent"
       THEN settings' = Planned /\ AfterSwap
       ELSE app' = Idle /\ UNCHANGED <<settings, used>>
    /\ UNCHANGED <<copies, clock, memory, history>>

Verify ==
    /\ app.at = "verify"
    /\ IF Verified(app.op, settings, app.events) THEN At("record") ELSE app' = Idle
    /\ UNCHANGED <<settings, copies, clock, memory, history, used>>

Record ==
    /\ app.at = "record"
    /\ LET next == ApplyExpected(memory, app.op # "uninstall") IN
       /\ Persist(next)
       /\ cause' = IF cause = "unrecorded" /\ memory' = next THEN "uninstall" ELSE cause
    /\ app' = Idle
    /\ UNCHANGED <<settings, copies, clock, gap, lost, marks, told>>

-----------------------------------------------------------------------------
ProbeStateFirst ==
    /\ app.at = "idle" /\ memory.known
    /\ LET registered == IsHookRegistered(settings) IN
       /\ memory.expected # registered
       /\ memory' = Memory(registered, ~registered)
       /\ app' = [Idle EXCEPT !.at = IF registered THEN "persist" ELSE "mark", !.op = "restored", !.next = memory']
       /\ told' = IF registered THEN told ELSE told + 1
    /\ UNCHANGED <<settings, copies, clock, cause, gap, lost, marks, used>>

(* planIntegrity: seed, vanished and restored; otherwise nothing to do.    *)
Probe ==
    /\ app.at = "idle"
    /\ LET registered == IsHookRegistered(settings) IN
       \/ /\ ~memory.known
          /\ app' = [Idle EXCEPT !.at = "persist", !.op = "seed", !.next = Memory(registered, FALSE)]
       \/ /\ memory.known /\ memory.expected /\ ~registered
          /\ app' = [Idle EXCEPT !.at = "mark", !.op = "vanished", !.next = Memory(FALSE, TRUE)]
       \/ /\ memory.known /\ ~memory.expected /\ registered
          /\ app' = [Idle EXCEPT !.at = "persist", !.op = "restored", !.next = Memory(TRUE, FALSE)]
    /\ UNCHANGED <<settings, copies, clock, memory, history, used>>

(* writeCchookRemoved appends the line, or logs that it could not.         *)
Mark ==
    /\ app.at = "mark"
    /\ marks' = marks + 1
    /\ At("persist")
    /\ UNCHANGED <<settings, copies, clock, memory, cause, gap, lost, told, used>>

PersistPlan ==
    /\ app.at = "persist"
    /\ Persist(app.next)
    /\ told' = IF app.op = "vanished" /\ memory' # memory THEN told + 1 ELSE told
    /\ app' = Idle
    /\ UNCHANGED <<settings, copies, clock, cause, gap, lost, marks>>

(* The Dismiss of the notice keeps what is expected.                       *)
DismissNotice ==
    /\ app.at = "idle" /\ memory.notice
    /\ memory' = Memory(memory.expected, FALSE)
    /\ UNCHANGED <<settings, copies, clock, app, history, used>>

(* The app is killed and starts again, or its memory file is damaged.      *)
Crash ==
    /\ app.at # "idle" /\ CanFail /\ Failed
    /\ app' = Idle
    /\ UNCHANGED <<settings, copies, clock, memory, history>>

MemoryCorrupt ==
    /\ app.at = "idle" /\ memory.known /\ CanFail /\ Failed
    /\ memory' = NoMemory
    /\ UNCHANGED <<settings, copies, clock, app, history>>

-----------------------------------------------------------------------------
(* Claude Code, the user and other programs replace the file.              *)

ByOthers(file) ==
    /\ used.others < MaxOthers
    /\ used' = [used EXCEPT !.others = @ + 1]
    /\ settings' = [file EXCEPT !.rev = IF file.kind = "absent" THEN 0 ELSE used.others + 1]
    /\ gap' = (gap \/ app.at = "rename")
    /\ CausedBy("others")
    /\ UNCHANGED <<copies, clock, memory, app, lost, marks, told>>

OthersChange ==
    /\ settings.kind # "absent"
    /\ \/ ByOthers(settings)
       \/ ByOthers([settings EXCEPT !.hooks = RemoveHooks(@)])
       \/ ByOthers([settings EXCEPT !.mention = ~@])
       \/ ByOthers([settings EXCEPT !.kind = IF @ = "ours" THEN "invalid" ELSE "ours"])

OthersAdd ==
    \E e \in Event, x \in HandMade :
        ByOthers([settings EXCEPT !.kind = "ours", !.hooks[e] = @ \cup {x}])

(* The user adds the snippet to the file a dotfile manager owns.           *)
OthersPaste ==
    \E events \in SupportedEvents :
        /\ ReadSettingsGuarded(settings) = "managed"
        /\ LET offered == Snippet(settings.hooks, events) IN
           ByOthers([settings EXCEPT !.hooks = [e \in Event |-> IF e \in offered THEN @[e] \cup {OurEntry} ELSE @[e]]])

OthersDelete == settings.kind # "absent" /\ ByOthers(Absent)

Next ==
    \/ Install \/ Update \/ Uninstall
    \/ Copy \/ Compare \/ Rename \/ RenameFails \/ Create \/ Verify \/ Record
    \/ Probe \/ Mark \/ PersistPlan \/ DismissNotice \/ Crash \/ MemoryCorrupt
    \/ OthersChange \/ OthersAdd \/ OthersPaste \/ OthersDelete

Spec == Init /\ [][Next]_hvars

-----------------------------------------------------------------------------
(* Nothing of the settings is replaced that is not known and kept: a       *)
(* rename replaces bytes the app never read only when they were written    *)
(* between the comparison and the rename, the window the comparison is     *)
(* said to narrow (claude-settings-write.ts); and the bytes it did read    *)
(* are in one of the kept copies, unless the clock was set back behind the *)
(* names of those (backupSettings keeps the last names, not the last       *)
(* copies).                                                                *)
BytesKept ==
    /\ lost => gap
    /\ app.at \in {"compare", "rename"} =>
           app.read \in {c.of : c \in copies} \/ \E c \in copies : c.stamp > clock

(* The notice is true and on the record: the user is told that somebody    *)
(* removed the hook only if somebody did, or if an Uninstall of the app    *)
(* ended before its intent was recorded; and never before the trail was    *)
(* told, whatever crash comes between the two (checkCchookIntegrity:       *)
(* marker before state).                                                   *)
NoticeTruthful ==
    /\ app.at = "mark" => cause \in {"others", "unrecorded"}
    /\ told <= marks

=============================================================================
