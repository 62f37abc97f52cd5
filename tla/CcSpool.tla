------------------------------- MODULE CcSpool -------------------------------
(***************************************************************************)
(* The Claude Code capture path: short-lived xcg-cchook processes put one  *)
(* file per hook call in claude-code/spool/ (packages/proxy/src/cchook.ts, *)
(* cchook-cap.ts), and the desktop app's ingester drains the spool into    *)
(* the audit trail, one file at a time, append -> state -> unlink          *)
(* (apps/desktop/src/main/cchook-ingester.ts).                             *)
(*                                                                         *)
(* Every file-system call of either side is a step of its own: the hooks   *)
(* and the app are different processes, and the app can die between two    *)
(* calls.  A ULID is a number; Span of them share a millisecond, and their *)
(* numeric order is the lexicographic order of the file names.             *)
(***************************************************************************)
EXTENDS Naturals, FiniteSets

CONSTANTS
    Hook,       \* slots in which xcg-cchook processes run, one call at a time
    Key,        \* Claude Code session UUIDs
    NoKey,      \* the '__unknown__' bucket of a payload without session_id
    Span,       \* ULIDs minted per millisecond (the random part)
    MaxMs,      \* bound: milliseconds of wall clock explored
    ClockBack,  \* the wall clock may be stepped back (NTP, user)
    MaxFiles,   \* SPOOL_MAX_FILES
    MaxDrop,    \* bound on drops explored
    Faults,     \* the kinds of failure explored
    MaxFault    \* bound on the failures of one behaviour

FaultKind == {"hook", "cap", "load", "read", "sessions", "append", "state", "unlink", "crash"}

ASSUME SpanAssumption == Span \in Nat \ {0}
ASSUME MaxMsAssumption == MaxMs \in Nat \ {0}
ASSUME ClockBackAssumption == ClockBack \in BOOLEAN
ASSUME BoundAssumption == MaxFiles \in Nat /\ MaxDrop \in Nat /\ MaxFault \in Nat
ASSUME FaultsAssumption == Faults \subseteq FaultKind
ASSUME NoKeyAssumption == NoKey \notin Key
ASSUME HookAssumption == IsFiniteSet(Hook)

Ulid  == 1 .. MaxMs * Span
Ms(u) == (u - 1) \div Span
SessionKey == Key \cup {NoKey}

VARIABLES
    now,        \* Date.now(), as last read by a hook
    hpc,        \* hpc[h]: where h's call is
    name,       \* name[h]: the ULID it minted (0: none yet)
    dropped,    \* events counted in claude-code/spool-dropped
    file,       \* file[u]: life of the spool file u.json
    keyOf,      \* keyOf[u]: the session bucket its payload belongs to
    pc,         \* where the ingest cycle is ("idle": cycleRunning is false;
                \* "down": the desktop app does not run)
    todo,       \* the files of this cycle's readdir still to visit
    cur,        \* the file being ingested
    got,        \* what readFile returned: the "whole" body or a "partial" one
    wm,         \* lastProcessed, the cycle's copy
    sess,       \* sessions, the cycle's copy (0: no entry)
    dwm,        \* lastProcessedSpoolUlid in ingest-state.json (0: none)
    dsess,      \* sessions.json
    seeded,     \* which of the two JSON files exist
    nextFile,   \* fresh session ULIDs (names of wrappers/<ulid>.jsonl)
    torn,       \* trail files whose last line was cut short
    copies,     \* copies[u]: readable copies of u's first line in the trail
    filed,      \* filed[k]: trail files that hold lines of bucket k
    faults,     \* failures so far
    \* history, read by `late` and by the properties only
    seen,       \* ULIDs some cycle has listed
    window      \* window[u]: the loss windows u went through

hookVars == <<now, hpc, name, dropped, keyOf>>
memVars  == <<pc, todo, cur, got, wm, sess>>
diskVars == <<dwm, dsess, seeded, nextFile, torn, copies, filed>>
vars == <<hookVars, file, memVars, diskVars, faults, seen, window>>

FileState == {"unminted", "minted", "partial", "whole", "gone"}
Window    == {"late", "half", "skipped", "glued"}

Present == {u \in Ulid : file[u] \in {"partial", "whole"}}

Init ==
    /\ now = 0
    /\ hpc = [h \in Hook |-> "idle"] /\ name = [h \in Hook |-> 0]
    /\ dropped = 0
    /\ file = [u \in Ulid |-> "unminted"]
    /\ keyOf = [u \in Ulid |-> NoKey]
    /\ pc = "idle" /\ todo = {} /\ cur = 0 /\ got = "whole"
    /\ wm = 0 /\ sess = [k \in SessionKey |-> 0]
    /\ dwm = 0 /\ dsess = [k \in SessionKey |-> 0]
    /\ seeded = {} /\ nextFile = 1 /\ torn = {}
    /\ copies = [u \in Ulid |-> 0]
    /\ filed = [k \in SessionKey |-> {}]
    /\ faults = 0
    /\ seen = {}
    /\ window = [u \in Ulid |-> {}]

\* A failure of the given kind happens in this step.
Fail(kind) == kind \in Faults /\ faults < MaxFault /\ faults' = faults + 1

-----------------------------------------------------------------------------
(* xcg-cchook.                                                             *)

HookTo(h, l, u) == hpc' = [hpc EXCEPT ![h] = l] /\ name' = [name EXCEPT ![h] = u]

OverCap == Cardinality(Present) > MaxFiles

\* spoolOverCap is null: nothing is reserved by the check.  A check that
\* itself fails gives no verdict and the hook goes on.
CheckCap(h) ==
    /\ hpc[h] = "idle"
    /\ HookTo(h, "checked", 0)
    /\ \/ ~OverCap /\ UNCHANGED faults
       \/ OverCap /\ Fail("cap")
    /\ UNCHANGED <<now, dropped, keyOf, file, memVars, diskVars,
                   seen, window>>

\* Over the cap (files, or a disk low on space at any time): counted, exit 0.
Drop(h) ==
    /\ hpc[h] = "idle"
    /\ dropped < MaxDrop
    /\ dropped' = dropped + 1
    /\ UNCHANGED <<now, hpc, name, keyOf, file, memVars, diskVars,
                   faults, seen, window>>

\* ulid(): the name is fixed here, before the file exists.  A payload whose
\* redaction failed is written as an omitted record, which has no session.
Mint(h) ==
    /\ hpc[h] = "checked"
    /\ \E u \in Ulid, k \in SessionKey :
          /\ Ms(u) >= now \/ ClockBack
          /\ now' = Ms(u)
          /\ file[u] = "unminted"
          /\ file' = [file EXCEPT ![u] = "minted"]
          /\ keyOf' = [keyOf EXCEPT ![u] = k]
          /\ HookTo(h, "minted", u)
    /\ UNCHANGED <<dropped, memVars, diskVars, faults, seen, window>>

\* writeFileSync 'wx', its open: an empty file is visible in the spool.
Create(h) ==
    /\ hpc[h] = "minted"
    /\ LET u == name[h] IN
          /\ file' = [file EXCEPT ![u] = "partial"]
          /\ window' = [window EXCEPT ![u] =
                 IF \E v \in seen : v > u THEN @ \cup {"late"} ELSE @]
          /\ HookTo(h, "writing", u)
    /\ UNCHANGED <<now, dropped, keyOf, memVars, diskVars, faults,
                   seen>>

\* Mutant: the body written by path, which creates the file again.
WriteByPath(h) ==
    /\ hpc[h] = "writing"
    /\ file' = [file EXCEPT ![name[h]] = "whole"]
    /\ HookTo(h, "idle", 0)
    /\ UNCHANGED <<now, dropped, keyOf, memVars, diskVars, faults, seen,
                   window>>

\* writeFileSync, its writes; the file may have been unlinked meanwhile.
Write(h) ==
    /\ hpc[h] = "writing"
    /\ LET u == name[h] IN
          file' = [file EXCEPT ![u] = IF @ = "partial" THEN "whole" ELSE @]
    /\ HookTo(h, "idle", 0)
    /\ UNCHANGED <<now, dropped, keyOf, memVars, diskVars, faults, seen,
                   window>>

\* Claude Code kills the hook, or a write fails (the catch-all swallows it).
HookDies(h) ==
    /\ hpc[h] # "idle"
    /\ Fail("hook")
    /\ HookTo(h, "idle", 0)
    /\ UNCHANGED <<now, dropped, keyOf, file, memVars, diskVars,
                   seen, window>>

HookStep(h) == CheckCap(h) \/ Drop(h) \/ Mint(h) \/ Create(h) \/ Write(h)

-----------------------------------------------------------------------------
(* The ingest cycle.                                                       *)

\* Mutant: readdir's order, not sorted.
FirstUnsorted(u) == u \in todo

First(u) == u \in todo /\ \A v \in todo : u <= v

CurKey == IF got = "partial" THEN NoKey ELSE keyOf[cur]

\* The file of the loop is done with: on to the next one.
NextEntry(u) == pc' = "loop" /\ todo' = todo \ {u} /\ cur' = 0 /\ got' = "whole"

\* The catch of the loop: the file stays, later ones go on.
Skip(u) ==
    /\ NextEntry(u)
    /\ window' = [window EXCEPT ![u] = @ \cup {"skipped"}]

NoSessions == [k \in SessionKey |-> 0]

\* readdir, then sessions.json and ingest-state.json; one that cannot be read
\* counts as absent.
StartCycle ==
    /\ pc = "idle"
    /\ Present # {}
    /\ pc' = "loop" /\ todo' = Present /\ seen' = seen \cup Present
    /\ \/ wm' = dwm /\ sess' = dsess /\ UNCHANGED faults
       \/ Fail("load") /\ wm' = 0 /\ sess' = dsess
       \/ Fail("load") /\ wm' = dwm /\ sess' = NoSessions
    /\ UNCHANGED <<hookVars, file, cur, got, diskVars, window>>

\* A tick that finds the spool empty (or a cycle running) changes nothing.
IdleTick == pc = "idle" /\ Present = {} /\ UNCHANGED vars

\* Mutant: a stale file is passed over, not deleted.
DeleteStaleOnlySkips(u) ==
    /\ pc = "loop" /\ First(u) /\ u <= wm
    /\ NextEntry(u)
    /\ UNCHANGED <<hookVars, file, wm, sess, diskVars, faults, seen, window>>

\* At or below the watermark: deleted without processing.
DeleteStale(u) ==
    /\ pc = "loop" /\ First(u) /\ u <= wm
    /\ NextEntry(u)
    /\ \/ file' = [file EXCEPT ![u] = "gone"] /\ UNCHANGED faults
       \/ Fail("unlink") /\ UNCHANGED file
    /\ UNCHANGED <<hookVars, wm, sess, diskVars, seen, window>>

Read(u) ==
    /\ pc = "loop" /\ First(u) /\ u > wm
    /\ pc' = "session" /\ cur' = u /\ got' = file[u]
    /\ window' = [window EXCEPT ![u] =
           IF file[u] = "partial" THEN @ \cup {"half"} ELSE @]
    /\ UNCHANGED <<hookVars, file, todo, wm, sess, diskVars, faults, seen>>

ReadFails(u) ==
    /\ pc = "loop" /\ First(u) /\ u > wm
    /\ Fail("read") /\ Skip(u)
    /\ UNCHANGED <<hookVars, file, wm, sess, diskVars, seen>>

\* The bucket has a trail file already.
KnownSession ==
    /\ pc = "session" /\ sess[CurKey] # 0
    /\ pc' = "append"
    /\ UNCHANGED <<hookVars, file, todo, cur, got, wm, sess, diskVars,
                   faults, seen, window>>

\* Mutant: the map is kept in memory, not saved.
NewSessionUnsaved ==
    /\ pc = "session" /\ sess[CurKey] = 0
    /\ sess' = [sess EXCEPT ![CurKey] = nextFile]
    /\ nextFile' = nextFile + 1
    /\ pc' = "append"
    /\ UNCHANGED <<hookVars, file, todo, cur, got, wm, dwm, dsess, seeded,
                   torn, copies, filed, faults, seen, window>>

\* A fresh session ULID, and the whole map saved at once.
NewSession ==
    /\ pc = "session" /\ sess[CurKey] = 0
    /\ sess' = [sess EXCEPT ![CurKey] = nextFile]
    /\ nextFile' = nextFile + 1
    /\ dsess' = sess' /\ seeded' = seeded \cup {"sessions"}
    /\ pc' = "append"
    /\ UNCHANGED <<hookVars, file, todo, cur, got, wm, dwm, torn, copies,
                   filed, faults, seen, window>>

\* sessions.json cannot be saved: a failing writeAtomic is only logged; a
\* failing first write throws, and may leave an unreadable file behind.
NewSessionFails ==
    /\ pc = "session" /\ sess[CurKey] = 0 /\ Fail("sessions")
    /\ sess' = [sess EXCEPT ![CurKey] = nextFile]
    /\ nextFile' = nextFile + 1
    /\ \/ /\ "sessions" \in seeded
          /\ pc' = "append" /\ UNCHANGED <<todo, cur, got, seeded, window>>
       \/ /\ "sessions" \notin seeded
          /\ seeded' \in {seeded, seeded \cup {"sessions"}}
          /\ Skip(cur)
    /\ UNCHANGED <<hookVars, file, wm, dwm, dsess, torn, copies, filed, seen>>

\* What reaches the trail file f when u's batch is appended: `first` tells
\* whether its first line is there with its newline, `cut` whether the file
\* ends in an unfinished line.  After an unfinished line the first line of the
\* batch is glued to it and unreadable.
Appended(f, u, k, first, cut) ==
    /\ copies' = [copies EXCEPT ![u] = IF first /\ f \notin torn THEN @ + 1 ELSE @]
    /\ torn' = IF cut THEN torn \cup {f} ELSE IF first THEN torn \ {f} ELSE torn
    /\ filed' = [filed EXCEPT ![k] = IF first THEN @ \cup {f} ELSE @]

Append ==
    /\ pc = "append"
    /\ LET f == sess[CurKey] IN
          /\ Appended(f, cur, CurKey, TRUE, FALSE)
          /\ window' = [window EXCEPT ![cur] =
                 IF f \in torn THEN @ \cup {"glued"} ELSE @]
    /\ pc' = "state"
    /\ UNCHANGED <<hookVars, file, todo, cur, got, wm, sess, dwm, dsess,
                   seeded, nextFile, faults, seen>>

\* Mutant: a failing append is swallowed, the state advances.
AppendFailsSilently ==
    /\ pc = "append" /\ Fail("append")
    /\ pc' = "state"
    /\ UNCHANGED <<hookVars, file, todo, cur, got, wm, sess, diskVars,
                   seen, window>>

\* open, write or fsync fails: nothing, a part, or all of the batch is there.
AppendFails ==
    /\ pc = "append" /\ Fail("append")
    /\ \E first, cut \in BOOLEAN : Appended(sess[CurKey], cur, CurKey, first, cut)
    /\ Skip(cur)
    /\ UNCHANGED <<hookVars, file, wm, sess, dwm, dsess, seeded, nextFile, seen>>

SaveState ==
    /\ pc = "state"
    /\ wm' = cur /\ dwm' = cur /\ seeded' = seeded \cup {"state"}
    /\ pc' = "unlink"
    /\ UNCHANGED <<hookVars, file, todo, cur, got, sess, dsess, nextFile,
                   torn, copies, filed, faults, seen, window>>

\* As for sessions.json; lastProcessed has moved in memory already.
SaveStateFails ==
    /\ pc = "state" /\ Fail("state")
    /\ wm' = cur
    /\ \/ /\ "state" \in seeded
          /\ pc' = "unlink" /\ UNCHANGED <<todo, cur, got, seeded, window>>
       \/ /\ "state" \notin seeded
          /\ seeded' \in {seeded, seeded \cup {"state"}}
          /\ Skip(cur)
    /\ UNCHANGED <<hookVars, file, sess, dwm, dsess, nextFile, torn, copies,
                   filed, seen>>

Unlink ==
    /\ pc = "unlink"
    /\ file' = [file EXCEPT ![cur] = "gone"]
    /\ NextEntry(cur)
    /\ UNCHANGED <<hookVars, wm, sess, diskVars, faults, seen, window>>

UnlinkFails ==
    /\ pc = "unlink" /\ Fail("unlink") /\ Skip(cur)
    /\ UNCHANGED <<hookVars, file, wm, sess, diskVars, seen>>

\* The loop is over: its locals go, cycleRunning is false again.
Forget(l) ==
    /\ pc' = l /\ todo' = {} /\ cur' = 0 /\ got' = "whole"
    /\ wm' = 0 /\ sess' = NoSessions

EndCycle ==
    /\ pc = "loop" /\ todo = {}
    /\ Forget("idle")
    /\ UNCHANGED <<hookVars, file, diskVars, faults, seen, window>>

\* The app dies between two calls, or during one that is not atomic: the
\* append, or the first write of a JSON file.
Crash ==
    /\ pc # "down" /\ Fail("crash")
    /\ Forget("down")
    /\ \/ UNCHANGED <<torn, copies, filed, seeded>>
       \/ /\ pc = "append"
          /\ \E first, cut \in BOOLEAN :
                Appended(sess[CurKey], cur, CurKey, first, cut)
          /\ UNCHANGED seeded
       \/ /\ pc = "session" /\ sess[CurKey] = 0
          /\ seeded' = seeded \cup {"sessions"}
          /\ UNCHANGED <<torn, copies, filed>>
       \/ /\ pc = "state"
          /\ seeded' = seeded \cup {"state"}
          /\ UNCHANGED <<torn, copies, filed>>
    /\ UNCHANGED <<hookVars, file, dwm, dsess, nextFile, seen, window>>

Restart ==
    /\ pc = "down" /\ pc' = "idle"
    /\ UNCHANGED <<hookVars, file, todo, cur, got, wm, sess, diskVars, faults, seen, window>>

Ingest ==
    \/ StartCycle \/ EndCycle
    \/ \E u \in todo : DeleteStale(u) \/ Read(u) \/ ReadFails(u)
    \/ KnownSession \/ NewSession \/ NewSessionFails
    \/ Append \/ AppendFails
    \/ SaveState \/ SaveStateFails
    \/ Unlink \/ UnlinkFails

Next ==
    \/ \E h \in Hook : HookStep(h) \/ HookDies(h)
    \/ IdleTick
    \/ Ingest
    \/ Crash
    \/ Restart

Spec == Init /\ [][Next]_vars

\* The 15 s timer keeps starting cycles while the app runs, and a cycle's
\* awaits all settle.
FairSpec == Spec /\ WF_vars(Ingest)

-----------------------------------------------------------------------------
(* Properties.                                                             *)

\* Readable in the trail, or exposed to one of the windows.
Kept(u) == copies[u] > 0 \/ window[u] # {}

HookType ==
    /\ now \in Nat /\ dropped \in Nat
    /\ hpc \in [Hook -> {"idle", "checked", "minted", "writing"}]
    /\ name \in [Hook -> Ulid \cup {0}]
    /\ \A h \in Hook : hpc[h] \in {"minted", "writing"} => name[h] \in Ulid
    /\ keyOf \in [Ulid -> SessionKey]

SpoolType == file \in [Ulid -> FileState]

CycleType ==
    /\ got \in FileState
    /\ pc \in {"down", "idle", "loop", "session", "append", "state", "unlink"}
    /\ todo \subseteq Ulid /\ cur \in Ulid \cup {0} /\ wm \in Ulid \cup {0}
    /\ pc \in {"session", "append", "state", "unlink"} => cur \in Ulid
    /\ sess \in [SessionKey -> Nat]

DiskType ==
    /\ dwm \in Ulid \cup {0} /\ dsess \in [SessionKey -> Nat]
    /\ seeded \subseteq {"sessions", "state"} /\ nextFile \in Nat \ {0}
    /\ torn \subseteq Nat
    /\ copies \in [Ulid -> Nat] /\ filed \in [SessionKey -> SUBSET Nat]

HistoryType ==
    /\ faults \in Nat /\ seen \subseteq Ulid
    /\ window \in [Ulid -> SUBSET Window]

\* Every variable keeps its shape.
TypeOK == HookType /\ SpoolType /\ CycleType /\ DiskType /\ HistoryType

\* A spool file is gone only when its capture is readable in the trail or went
\* through one of four windows: its file appeared after a cycle had listed a
\* later ULID, it was read before its body was complete, a cycle skipped it, or
\* its lines were glued to a cut line.
LossOnlyInWindow == \A u \in Ulid : file[u] = "gone" => Kept(u)

\* The state file never names a capture whose lines the app has not appended
\* (append, fsync, then state).
WatermarkBacked ==
    dwm # 0 => copies[dwm] > 0 \/ "glued" \in window[dwm]

\* One trail file per session across cycles, crashes and restarts, as long as
\* sessions.json can be read and saved.
SessionStable ==
    Faults \cap {"sessions", "load"} = {} =>
        \A k \in SessionKey : \A f, g \in filed[k] : f = g

\* The cap is check-then-write with no reservation: concurrent hooks overshoot
\* it, by one file each and never more.
CapBound == "cap" \notin Faults => Cardinality(Present) <= MaxFiles + Cardinality(Hook)

\* A capture at or below the saved watermark is never appended again, as long
\* as ingest-state.json can be read back.
NoReprocess ==
    [][\A u \in Ulid : copies'[u] > copies[u] => u > dwm \/ "load" \in Faults]_vars

\* The ingester never gets stuck on a file: while the app stays up, every
\* spool file is eventually removed.
Drained == \A u \in Ulid : u \in Present ~> (u \notin Present \/ pc = "down")

Retired == {u \in Ulid : file[u] = "gone"}
Exposed == {u \in Ulid : window[u] # {}}

Ledger == INSTANCE CaptureLedger WITH
              Capture <- Ulid, waiting <- Present, retired <- Retired, exposed <- Exposed

\* The capture path is an at-least-once queue (CaptureLedger): the spool file is
\* the waiting entry, its removal the retirement, and the readable lines in the
\* trail are the copies.
LedgerSpec == Ledger!Spec

=============================================================================
