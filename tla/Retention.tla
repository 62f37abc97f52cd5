------------------------------ MODULE Retention ------------------------------
(* The cleanup of the trail: its mode in the app's settings.json, the      *)
(* daily sweep (apps/desktop/src/main/retention.ts and its handlers in     *)
(* index.ts) and the drawer that chooses the mode (SettingsDrawer.tsx).    *)
(* The other keys of settings.json, the marks of notices put off, belong   *)
(* to writers of their own.                                                *)
(*                                                                         *)
(* A step is one callback of the main process: a handler up to its next    *)
(* await.  The sessions write their files meanwhile.                       *)
EXTENDS Integers, Sequences, FiniteSetsExt

CONSTANTS
    SessionFile,   \* files named by a ULID
    OtherFile,     \* app-events.jsonl, and files with another name
    Born,          \* [SessionFile -> the time in the ULID]
    OtherKey,      \* keys of other writers
    MaxTime, MaxChanges

Modes == {"never", "30d", "90d"}

Threshold == [m \in Modes \ {"never"} |-> IF m = "30d" THEN 1 ELSE 2]

VARIABLES
    settings,  \* settings.json: "there" or "unreadable" (or absent), its mode and marks
    cache,     \* retentionConfigCache: the mode in it
    now,
    files,     \* present files, by their last write
    sweep,     \* the sweep under way
    sized,     \* retentionSizeCache: the files it counts, or none yet
    markers,   \* app.retention_purged lines: what each counts
    drawer,    \* the screen, and the answers it waits for
    \* history, read by the properties only
    seen,      \* modes that were in settings.json since the sweep began
    removed,   \* files removed, by which sweep
    untold,    \* files whose marker was not written
    changes

retentionVars ==
    <<settings, cache, now, files, sweep, sized, markers, drawer, seen, removed, untold, changes>>

NoMode == "none"

NoSize == {"not sized"}

NoMarker == {"no marker"}

NoSweep == [pc |-> "idle", mode |-> NoMode, at |-> 0, todo |-> {}, targets |-> {}, done |-> {}]

Closed == [open |-> FALSE, saved |-> NoMode, pending |-> NoMode, ref |-> NoMode,
           estimate |-> NoMode, status |-> NoMode, last |-> NoMarker, asked |-> {}, setting |-> NoMode]

Settings(is, mode, marks) == [is |-> is, mode |-> mode, marks |-> marks]

(* readRetentionConfig: nothing but a known mode counts.                   *)
ModeIn(s) == IF s.is = "there" /\ s.mode # NoMode THEN s.mode ELSE "never"

Init ==
    /\ settings \in {Settings("unreadable", NoMode, {}), Settings("there", "30d", OtherKey)}
    /\ cache = NoMode /\ now = Max({Born[f] : f \in SessionFile})
    /\ files = [f \in SessionFile \cup OtherFile |-> IF f \in SessionFile THEN Born[f] ELSE 0]
    /\ sweep = NoSweep /\ sized = NoSize /\ markers = <<>> /\ drawer = Closed
    /\ seen = {} /\ removed = {} /\ untold = {} /\ changes = 0

-----------------------------------------------------------------------------
(* settings.json                                                           *)

(* A file that cannot be read counts as empty: its other keys are lost.    *)
Write(s) ==
    /\ settings' = s
    /\ seen' = IF sweep = NoSweep THEN {} ELSE seen \cup {ModeIn(s)}

Marks == IF settings.is = "there" THEN settings.marks ELSE {}

(* The two writers of marks.                                               *)
PutOff(k) ==
    /\ k \notin Marks
    /\ Write(Settings("there", settings.mode, Marks \cup {k}))
    /\ UNCHANGED <<cache, now, files, sweep, sized, markers, drawer, removed, untold, changes>>

-----------------------------------------------------------------------------
(* The sweep                                                               *)

Names == DOMAIN files

ComputeDirSize == Names

BeginSweep ==
    /\ sweep.pc = "idle" /\ sweep' = [NoSweep EXCEPT !.pc = "reading"]
    /\ seen' = {ModeIn(settings)}
    /\ UNCHANGED <<settings, cache, now, files, sized, markers, drawer, removed, untold, changes>>

SweepReads ==
    /\ sweep.pc = "reading" /\ sweep' = [sweep EXCEPT !.pc = "read", !.mode = ModeIn(settings)]
    /\ UNCHANGED <<settings, cache, now, files, sized, markers, drawer, seen, removed, untold, changes>>

\* Mutant: the sweep trusts what the other handlers have cached.
ListByCache ==
    /\ sweep.pc = "read"
    /\ LET mode == IF cache = NoMode THEN sweep.mode ELSE cache
       IN  /\ cache' = mode
           /\ sized' = IF mode = "never" THEN ComputeDirSize ELSE sized
           /\ sweep' = IF mode = "never" THEN NoSweep
                       ELSE [sweep EXCEPT !.pc = "stat", !.mode = mode, !.at = now,
                                          !.todo = Names \cap SessionFile]
    /\ UNCHANGED <<settings, now, files, markers, drawer, seen, removed, untold, changes>>

(* In mode never nothing but the size is looked at.                        *)
List ==
    /\ sweep.pc = "read" /\ cache' = sweep.mode
    /\ sized' = IF sweep.mode = "never" THEN ComputeDirSize ELSE sized
    /\ sweep' = IF sweep.mode = "never" THEN NoSweep
                ELSE [sweep EXCEPT !.pc = "stat", !.at = now, !.todo = Names \cap SessionFile]
    /\ UNCHANGED <<settings, now, files, markers, drawer, seen, removed, untold, changes>>

Old(time) == time < sweep.at - Threshold[sweep.mode]

(* Of its two times the later one counts.                                  *)
Stat ==
    /\ sweep.pc = "stat"
    /\ IF sweep.todo = {} THEN sweep' = [sweep EXCEPT !.pc = "unlink"]
       ELSE LET f == CHOOSE x \in sweep.todo : TRUE
            IN  sweep' = [sweep EXCEPT !.todo = @ \ {f},
                             !.targets = @ \cup {g \in {f} \cap Names : Old(Max({Born[f], files[f]}))}]
    /\ UNCHANGED <<settings, cache, now, files, sized, markers, drawer, seen, removed, untold, changes>>

Unlink ==
    /\ sweep.pc = "unlink" /\ sweep.targets # {}
    /\ LET f == CHOOSE x \in sweep.targets : TRUE
       IN  \/ /\ sweep' = [sweep EXCEPT !.targets = @ \ {f}]
              /\ UNCHANGED <<files, removed>>    \* it cannot be removed
           \/ /\ sweep' = [sweep EXCEPT !.targets = @ \ {f}, !.done = @ \cup {f}]
              /\ files' = [g \in Names \ {f} |-> files[g]]
              /\ removed' = removed \cup
                     {[file |-> f, mode |-> sweep.mode, at |-> sweep.at, written |-> files[f]]}
    /\ UNCHANGED <<settings, cache, now, sized, markers, drawer, seen, untold, changes>>

(* One marker for a pass that removed anything; its write may fail.  What  *)
(* is left is sized at once: nothing else removes files here.              *)
EndSweep ==
    /\ sweep.pc = "unlink" /\ sweep.targets = {}
    /\ sweep' = NoSweep /\ sized' = ComputeDirSize
    /\ \E told \in {sweep.done, {}} :
           /\ markers' = IF told = {} THEN markers ELSE Append(markers, told)
           /\ untold' = untold \cup (sweep.done \ told)
    /\ UNCHANGED <<settings, cache, now, files, drawer, seen, removed, changes>>

RetentionBanner == IF cache = NoMode THEN NoSize ELSE sized

-----------------------------------------------------------------------------
(* The drawer and its handlers                                             *)

Estimated(mode) ==
    IF mode = "never" THEN {} ELSE {f \in Names \cap SessionFile : Born[f] < now - Threshold[mode]}

DrawerStep(d) == drawer' = d /\ UNCHANGED <<now, files, sweep, sized, markers, removed, untold>>

Open ==
    /\ ~ drawer.open /\ DrawerStep([Closed EXCEPT !.open = TRUE, !.status = ModeIn(settings)])
    /\ UNCHANGED <<settings, cache, seen, changes>>

ReadLastPurgeMarker == IF markers = <<>> THEN NoMarker ELSE markers[Len(markers)]

(* retention:status: the mode that was read is cached, then the last       *)
(* marker is read, and the drawer has its answer.                          *)
Status ==
    /\ drawer.status # NoMode /\ cache' = drawer.status
    /\ DrawerStep(IF drawer.open
                  THEN [drawer EXCEPT !.saved = drawer.status, !.last = ReadLastPurgeMarker, !.status = NoMode]
                  ELSE [drawer EXCEPT !.status = NoMode])
    /\ UNCHANGED <<settings, seen, changes>>

(* An age is asked its estimate.                                           *)
Click(mode) ==
    /\ drawer.open /\ drawer.saved # NoMode /\ drawer.setting = NoMode /\ changes < MaxChanges
    /\ changes' = changes + 1
    /\ DrawerStep(IF mode = drawer.saved
                  THEN [drawer EXCEPT !.pending = NoMode, !.ref = NoMode, !.estimate = NoMode]
                  ELSE [drawer EXCEPT !.pending = mode, !.ref = mode, !.estimate = NoMode,
                                      !.asked = IF mode = "never" THEN @ ELSE @ \cup {mode}])
    /\ UNCHANGED <<settings, cache, seen>>

Estimate(mode) ==
    /\ mode \in drawer.asked
    /\ DrawerStep([drawer EXCEPT !.asked = @ \ {mode},
                                 !.estimate = IF drawer.open /\ drawer.ref = mode THEN mode ELSE @])
    /\ UNCHANGED <<settings, cache, seen, changes>>

(* retention:set-mode writes, then estimates; the write may fail.          *)
Apply ==
    /\ drawer.open /\ drawer.pending # NoMode /\ drawer.setting = NoMode
    /\ \/ /\ Write(Settings("there", drawer.pending, Marks)) /\ cache' = drawer.pending
          /\ DrawerStep([drawer EXCEPT !.setting = drawer.pending])
       \/ DrawerStep(drawer) /\ UNCHANGED <<settings, cache, seen>>
    /\ UNCHANGED changes

Applied ==
    /\ drawer.setting # NoMode
    /\ DrawerStep([drawer EXCEPT !.saved = drawer.setting,
                                 !.pending = NoMode, !.estimate = NoMode, !.setting = NoMode])
    /\ UNCHANGED <<settings, cache, seen, changes>>

Cancel ==
    /\ drawer.open /\ drawer.pending # NoMode /\ drawer.setting = NoMode
    /\ DrawerStep([drawer EXCEPT !.pending = NoMode, !.ref = NoMode, !.estimate = NoMode])
    /\ UNCHANGED <<settings, cache, seen, changes>>

(* Escape or a click outside closes it at any time; the answers it waits   *)
(* for come to nobody.                                                     *)
Close ==
    /\ drawer.open /\ DrawerStep([Closed EXCEPT !.status = drawer.status])
    /\ UNCHANGED <<settings, cache, seen, changes>>

-----------------------------------------------------------------------------
(* The environment                                                         *)

(* settings.json is damaged or lost.                                       *)
SettingsBreak ==
    /\ settings.is = "there" /\ changes < MaxChanges /\ changes' = changes + 1
    /\ Write(Settings("unreadable", NoMode, {}))
    /\ UNCHANGED <<cache, now, files, sweep, sized, markers, drawer, removed, untold>>

Tick ==
    /\ now < MaxTime /\ now' = now + 1
    /\ UNCHANGED <<settings, cache, files, sweep, sized, markers, drawer, seen, removed, untold, changes>>

SessionWrites(f) ==
    /\ f \in Names /\ files' = [files EXCEPT ![f] = now]
    /\ UNCHANGED <<settings, cache, now, sweep, sized, markers, drawer, seen, removed, untold, changes>>

(* The app is killed: what it removed since the last marker stays untold.  *)
Restart ==
    /\ sweep # NoSweep
    /\ cache' = NoMode /\ sweep' = NoSweep /\ sized' = NoSize /\ drawer' = Closed
    /\ untold' = untold \cup sweep.done
    /\ UNCHANGED <<settings, now, files, markers, seen, removed, changes>>

Next ==
    \/ BeginSweep \/ SweepReads \/ List \/ Stat \/ Unlink \/ EndSweep
    \/ Open \/ Status \/ Apply \/ Applied \/ Cancel \/ Close \/ SettingsBreak \/ Tick \/ Restart
    \/ \E m \in Modes : Click(m) \/ Estimate(m)
    \/ \E k \in OtherKey : PutOff(k)
    \/ \E f \in SessionFile : SessionWrites(f)

Spec == Init /\ [][Next]_retentionVars

-----------------------------------------------------------------------------
(* Properties                                                              *)

(* However the drawer, the other writers of settings.json and the sessions *)
(* act around a sweep, it removes only session files, under a mode that    *)
(* was in force since it began, and none that is young by its name or had  *)
(* been written lately when the sweep began; what it has removed is        *)
(* counted by a marker, unless its write failed or the app was killed; the *)
(* cleanup the drawer tells of removed what it says, and the size shown    *)
(* counts nothing that a sweep removed before the one under way; and the   *)
(* estimate shown is that of the mode the drawer asks about.               *)
PurgeAsChosen ==
    /\ sweep.done # {} => sweep.mode \in seen
    /\ \A r \in removed :
          LET cutoff == r.at - Threshold[r.mode]
          IN  /\ r.file \in SessionFile /\ Born[r.file] < cutoff
              /\ r.written < cutoff \/ r.written >= r.at
              /\ r.file \in sweep.done \cup untold \cup UNION {markers[i] : i \in DOMAIN markers}
    /\ drawer.last = NoMarker \/ drawer.last \subseteq {r.file : r \in removed}
    /\ sweep = NoSweep => RetentionBanner \in {NoSize, Names}
    /\ OtherFile \subseteq Names
    /\ drawer.pending # NoMode => drawer.estimate \in {NoMode, drawer.pending}
=============================================================================
