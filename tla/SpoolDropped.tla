---------------------------- MODULE SpoolDropped ----------------------------
(***************************************************************************)
(* The counter of events xcg-cchook did not record because the spool was   *)
(* over its cap: one byte appended to claude-code/spool-dropped per event  *)
(* (packages/proxy/src/cchook-cap.ts), and the pass of each ingest cycle   *)
(* that takes the counter by renaming it, records it in the trail, adds it *)
(* to the notice of the Claude Code tab and removes the taken files        *)
(* (apps/desktop/src/main/cchook-dropped.ts).                              *)
(*                                                                         *)
(* The hooks are other processes: a byte goes to the file the hook opened, *)
(* whatever became of its name.  The pass is synchronous in the app, so    *)
(* only hooks and a crash interleave with it, between any two calls.       *)
(***************************************************************************)
EXTENDS Naturals, FiniteSets, FiniteSetsExt

CONSTANTS
    Hook,       \* slots in which xcg-cchook processes run
    MaxFile,    \* bound: counter files created
    MaxOpen,    \* bound: drops explored
    Faults,     \* the kinds of failure explored
    MaxFault    \* bound on the failures of one behaviour

FaultKind == {"hook", "line", "notice", "unlink", "crash"}

Inode == 1 .. MaxFile

VARIABLES
    size,       \* size[i]: bytes in file i
    counter,    \* the file named spool-dropped (0: none)
    taking,     \* the files named spool-dropped.taking.*
    created,    \* files created so far
    fd,         \* fd[h]: the file hook h opened to append its byte (0: none)
    opened,     \* drops begun so far
    up,         \* the desktop app runs
    pc,         \* where the pass is
    list,       \* Taken.files
    unstat,     \* those of them whose size is still to be read
    count,      \* Taken.count
    unseen,     \* count in spool-dropped-unseen.json (0: none, or unreadable)
    seeded,     \* that file exists
    faults,     \* failures so far
    \* history, read by the properties only
    bytes,      \* drops the hooks finished counting
    recorded,   \* sum of the counts of the app.spool_dropped lines
    dismissed,  \* what the user has dismissed so far
    stated,     \* files whose size some pass has read
    straddled   \* bytes written to a file after its size was read

hookVars == <<size, fd, opened, bytes, straddled>>
passVars == <<list, unstat, count>>
noticeVars == <<unseen, seeded>>
trailVars == <<recorded, dismissed, stated>>
vars == <<hookVars, counter, taking, created, up, pc, passVars, unseen, seeded,
          faults, recorded, dismissed, stated>>

Init ==
    /\ size = [i \in Inode |-> 0]
    /\ counter = 0 /\ taking = {} /\ created = 0
    /\ fd = [h \in Hook |-> 0] /\ opened = 0
    /\ up = TRUE /\ pc = "idle"
    /\ list = {} /\ unstat = {} /\ count = 0
    /\ unseen = 0 /\ seeded = FALSE /\ faults = 0
    /\ bytes = 0 /\ recorded = 0 /\ dismissed = 0
    /\ stated = {} /\ straddled = 0

Fail(kind) == kind \in Faults /\ faults < MaxFault /\ faults' = faults + 1

-----------------------------------------------------------------------------
(* recordSpoolDrop: appendFileSync is an open and a write.                 *)

Open(h) ==
    /\ fd[h] = 0 /\ opened < MaxOpen
    /\ opened' = opened + 1
    /\ IF counter # 0
       THEN fd' = [fd EXCEPT ![h] = counter] /\ UNCHANGED <<counter, created>>
       ELSE /\ created < MaxFile
            /\ created' = created + 1 /\ counter' = created'
            /\ fd' = [fd EXCEPT ![h] = created']
    /\ UNCHANGED <<size, bytes, straddled, taking, up, pc, passVars,
                   noticeVars, faults, trailVars>>

AppendByte(h) ==
    /\ fd[h] # 0
    /\ size' = [size EXCEPT ![fd[h]] = @ + 1]
    /\ bytes' = bytes + 1
    /\ straddled' = IF fd[h] \in stated THEN straddled + 1 ELSE straddled
    /\ fd' = [fd EXCEPT ![h] = 0]
    /\ UNCHANGED <<opened, counter, taking, created, up, pc, passVars,
                   noticeVars, faults, trailVars>>

HookDies(h) ==
    /\ fd[h] # 0 /\ Fail("hook")
    /\ fd' = [fd EXCEPT ![h] = 0]
    /\ UNCHANGED <<size, opened, bytes, straddled, counter, taking, created,
                   up, pc, passVars, noticeVars, trailVars>>

-----------------------------------------------------------------------------
(* processSpoolDropped.                                                    *)

\* take, its rename: ENOENT when no hook dropped anything.
Rename ==
    /\ up /\ pc = "idle"
    /\ counter # 0 \/ taking # {}
    /\ taking' = IF counter = 0 THEN taking ELSE taking \cup {counter}
    /\ counter' = 0
    /\ pc' = "list"
    /\ UNCHANGED <<hookVars, created, up, passVars, noticeVars, faults,
                   trailVars>>

\* A pass with nothing to take changes nothing.
IdlePass == up /\ pc = "idle" /\ counter = 0 /\ taking = {} /\ UNCHANGED vars

\* take, its readdir: with the files a previous pass left behind.
List ==
    /\ pc = "list"
    /\ list' = taking /\ unstat' = taking /\ count' = 0
    /\ pc' = "stat"
    /\ UNCHANGED <<hookVars, counter, taking, created, up, noticeVars, faults,
                   trailVars>>

Stat ==
    /\ pc = "stat" /\ unstat # {}
    /\ \E i \in unstat :
          /\ count' = count + size[i]
          /\ unstat' = unstat \ {i} /\ stated' = stated \cup {i}
    /\ UNCHANGED <<hookVars, counter, taking, created, up, pc, list,
                   noticeVars, faults, recorded, dismissed>>

\* Nothing was dropped: straight to the removal.
NothingTaken ==
    /\ pc = "stat" /\ unstat = {} /\ count = 0
    /\ pc' = "unlink"
    /\ UNCHANGED <<hookVars, counter, taking, created, up, passVars,
                   noticeVars, faults, trailVars>>

\* The pass is over: its locals go.
Over == pc' = "idle" /\ list' = {} /\ unstat' = {} /\ count' = 0

\* writeSpoolDropped.
Line ==
    /\ pc = "stat" /\ unstat = {} /\ count > 0
    /\ recorded' = recorded + count
    /\ pc' = "notice"
    /\ UNCHANGED <<hookVars, counter, taking, created, up, passVars,
                   noticeVars, faults, dismissed, stated>>

\* Mutant: the taken files removed although nothing was recorded.
LineFailsRemoves ==
    /\ pc = "stat" /\ unstat = {} /\ count > 0
    /\ Fail("line") /\ Over
    /\ taking' = taking \ list
    /\ UNCHANGED <<hookVars, counter, created, up, noticeVars, trailVars>>

\* Not in the trail: the taken files stay for the next cycle.
LineFails ==
    /\ pc = "stat" /\ unstat = {} /\ count > 0
    /\ Fail("line") /\ Over
    /\ UNCHANGED <<hookVars, counter, taking, created, up, noticeVars,
                   trailVars>>

\* readUnseenDropped, then persist.
Notice ==
    /\ pc = "notice"
    /\ unseen' = unseen + count /\ seeded' = TRUE
    /\ pc' = "unlink"
    /\ UNCHANGED <<hookVars, counter, taking, created, up, passVars, faults,
                   trailVars>>

\* A failing writeAtomic is only logged; a failing first write throws out of
\* the pass.
NoticeFails ==
    /\ pc = "notice" /\ Fail("notice")
    /\ IF seeded THEN pc' = "unlink" /\ UNCHANGED <<passVars, seeded>>
                 ELSE seeded' \in BOOLEAN /\ Over
    /\ UNCHANGED <<hookVars, counter, taking, created, up, unseen, trailVars>>

\* One of the taken files is removed; a failure is ignored.
Unlink ==
    /\ pc = "unlink" /\ list # {}
    /\ \E i \in list :
          /\ list' = list \ {i}
          /\ \/ taking' = taking \ {i} /\ UNCHANGED faults
             \/ Fail("unlink") /\ UNCHANGED taking
    /\ UNCHANGED <<hookVars, counter, created, up, pc, unstat, count,
                   noticeVars, trailVars>>

EndPass ==
    /\ pc = "unlink" /\ list = {}
    /\ Over
    /\ UNCHANGED <<hookVars, counter, taking, created, up, noticeVars, faults,
                   trailVars>>

Pass == \/ Rename \/ List \/ Stat \/ NothingTaken \/ Line \/ LineFails
        \/ Notice \/ NoticeFails \/ Unlink \/ EndPass

\* dismissUnseenDropped: another handler of the same process, never inside a
\* pass.
Dismiss ==
    /\ up /\ pc = "idle" /\ unseen > 0
    /\ unseen' = 0 /\ dismissed' = dismissed + unseen
    /\ UNCHANGED <<seeded, hookVars, counter, taking, created, up, pc,
                   passVars, faults, recorded, stated>>

Crash ==
    /\ up /\ Fail("crash")
    /\ up' = FALSE /\ Over
    /\ seeded' \in {seeded, seeded \/ pc = "notice"}
    /\ UNCHANGED <<hookVars, counter, taking, created, unseen, trailVars>>

Restart ==
    /\ ~up /\ up' = TRUE
    /\ UNCHANGED <<hookVars, counter, taking, created, pc, passVars,
                   noticeVars, faults, trailVars>>

Next ==
    \/ \E h \in Hook : Open(h) \/ AppendByte(h) \/ HookDies(h)
    \/ IdlePass \/ Pass \/ Dismiss \/ Crash \/ Restart

Spec == Init /\ [][Next]_vars

\* A pass in every 15 s cycle.
FairSpec == Spec /\ WF_vars(Pass)

-----------------------------------------------------------------------------
(* Properties.                                                             *)

Live == taking \cup ({counter} \ {0})

Pending == MapThenSumSet(LAMBDA i : size[i], Live)

\* Every variable keeps its shape; only files of the pass's list are measured.
TypeOK ==
    /\ size \in [Inode -> Nat]
    /\ counter \in Inode \cup {0} /\ taking \subseteq Inode /\ created \in 0 .. MaxFile
    /\ fd \in [Hook -> Inode \cup {0}] /\ opened \in 0 .. MaxOpen
    /\ up \in BOOLEAN
    /\ pc \in {"idle", "list", "stat", "notice", "unlink"}
    /\ list \subseteq Inode /\ unstat \subseteq list /\ count \in Nat
    /\ unseen \in Nat /\ seeded \in BOOLEAN /\ faults \in Nat
    /\ bytes \in Nat /\ recorded \in Nat /\ dismissed \in Nat
    /\ stated \subseteq Inode /\ straddled \in Nat

\* A drop is in the trail or still in a file the next pass reads, except for
\* the bytes of hooks that opened the counter before it was taken and wrote
\* after its size was read.  Without failures none is recorded twice, and the
\* notice, dismissed or not, says what the trail says.
CountKept ==
    /\ bytes <= recorded + Pending + straddled
    /\ faults = 0 => recorded <= bytes /\ (pc # "notice" => unseen + dismissed = recorded)

=============================================================================
