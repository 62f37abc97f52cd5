----------------------------- MODULE RefreshLock -----------------------------
(***************************************************************************)
(* The cross-process lock of the OAuth refresh                             *)
(* (packages/proxy/src/refresh-lock.ts): a file created with O_EXCL, the   *)
(* owner's pid inside; a lock whose owner is dead, or older than 30 s, is  *)
(* reclaimed by renaming it away; a caller that polls for 15 s goes on     *)
(* without the lock.                                                       *)
(*                                                                         *)
(* Every await is a step: the callers are different processes.  A lock     *)
(* file is an inode, so that a process can act on a path which has come to *)
(* name another file.                                                      *)
(***************************************************************************)
EXTENDS Naturals, FiniteSets

CONSTANTS
    Proc,       \* processes that may refresh (wrappers of any generation, login)
    NoProc,     \* what an empty lock file names
    MaxCall,    \* bound: calls of acquireRefreshLock
    MaxPoll,    \* LOCK_TIMEOUT_MS / LOCK_POLL_MS
    MaxCrash,   \* bound on processes that die
    Faults      \* what may go wrong, of FaultKind

\* "age": a lock file gets older than LOCK_STALE_MS; "reuse": a dead owner's
\* pid looks alive; "rename": renames in the locks directory fail (EPERM,
\* ENAMETOOLONG); "write": the pid cannot be written.
FaultKind == {"age", "reuse", "rename", "write"}

Inode == 1 .. MaxCall

VARIABLES
    path,       \* the inode lockPath names (0: none)
    owner,      \* owner[i]: the pid written in inode i (NoProc: still empty)
    old,        \* inodes older than LOCK_STALE_MS
    created,    \* inodes created so far
    alive,      \* live processes
    pc,         \* pc[p]: where p's call is
    mine,       \* mine[p]: the inode p's open created (0: none)
    sawOld,     \* sawOld[p]: isStale's stat found an old file
    polls,      \* polls[p]: polls of this call
    calls,      \* calls so far
    \* history, read by the properties only
    judged      \* judged[p]: the inode p has found stale (0: none)

vars == <<path, owner, old, created, alive, pc, mine, sawOld, polls, calls, judged>>

Init ==
    /\ path = 0 /\ created = 0
    /\ owner = [i \in Inode |-> NoProc] /\ old = {}
    /\ alive = Proc
    /\ pc = [p \in Proc |-> "idle"]
    /\ mine = [p \in Proc |-> 0]
    /\ sawOld = [p \in Proc |-> FALSE]
    /\ polls = [p \in Proc |-> 0]
    /\ calls = 0
    /\ judged = [p \in Proc |-> 0]

\* acquireRefreshLock returned { acquired: true }, release not over.
Holders == {p \in alive : pc[p] \in {"held", "unlinking"}}

Goto(p, l) == pc' = [pc EXCEPT ![p] = l]
At(p, l) == p \in alive /\ pc[p] = l

-----------------------------------------------------------------------------
Acquire(p) ==
    /\ At(p, "idle") /\ calls < MaxCall /\ calls' = calls + 1
    /\ Goto(p, "open")
    /\ UNCHANGED <<path, owner, old, created, alive, mine, sawOld, polls, judged>>

\* open(lockPath, 'wx')
Open(p) ==
    /\ At(p, "open") /\ path = 0
    /\ created' = created + 1
    /\ path' = created' /\ mine' = [mine EXCEPT ![p] = created']
    /\ Goto(p, "write") /\ polls' = [polls EXCEPT ![p] = 0]
    /\ UNCHANGED <<owner, old, alive, sawOld, calls, judged>>

Exists(p) ==
    /\ At(p, "open") /\ path # 0
    /\ Goto(p, "stat")
    /\ UNCHANGED <<path, owner, old, created, alive, mine, sawOld, polls,
                   calls, judged>>

\* writeFile(pid): into the file that was opened, wherever it is now.
WritePid(p) ==
    /\ At(p, "write")
    /\ owner' = [owner EXCEPT ![mine[p]] = p]
    /\ Goto(p, "held")
    /\ UNCHANGED <<path, old, created, alive, mine, sawOld, polls, calls,
                   judged>>

\* The pid cannot be written: acquireRefreshLock throws, the file stays.
WriteFails(p) ==
    /\ At(p, "write") /\ "write" \in Faults
    /\ Goto(p, "idle") /\ mine' = [mine EXCEPT ![p] = 0]
    /\ UNCHANGED <<path, owner, old, created, alive, sawOld, polls, calls,
                   judged>>

\* isStale, its stat.
Stat(p) ==
    /\ At(p, "stat")
    /\ IF path = 0 THEN Goto(p, "wait") /\ UNCHANGED sawOld
       ELSE Goto(p, "read") /\ sawOld' = [sawOld EXCEPT ![p] = path \in old]
    /\ UNCHANGED <<path, owner, old, created, alive, mine, polls, calls,
                   judged>>

\* kill(pid, 0) says ESRCH.
Dead(q) == q # NoProc /\ q \notin alive

Stale(p) == Goto(p, "rename") /\ judged' = [judged EXCEPT ![p] = path] /\ UNCHANGED sawOld

Young(p) == Goto(p, "wait") /\ sawOld' = [sawOld EXCEPT ![p] = FALSE] /\ UNCHANGED judged

JudgeEmptyStale(p) ==
    /\ At(p, "read")
    /\ \/ path # 0 /\ (sawOld[p] \/ owner[path] \notin alive) /\ Stale(p)
       \/ (path # 0 => ~sawOld[p] /\ owner[path] \in alive) /\ Young(p)
    /\ UNCHANGED <<path, owner, old, created, alive, mine, polls, calls>>

\* isStale, its readFile and verdict.
Judge(p) ==
    /\ At(p, "read")
    /\ \/ path # 0 /\ (sawOld[p] \/ Dead(owner[path])) /\ Stale(p)
       \/ (path # 0 => ~sawOld[p] /\ (~Dead(owner[path]) \/ "reuse" \in Faults)) /\ Young(p)
    /\ UNCHANGED <<path, owner, old, created, alive, mine, polls, calls>>

\* rename(lockPath, graveyard) and unlink of the graveyard file; the loser of
\* the race, or a failing rename, is ignored.  Back to the open, no delay.
Rename(p) ==
    /\ At(p, "rename")
    /\ path' = IF "rename" \in Faults THEN path ELSE 0
    /\ Goto(p, "open")
    /\ sawOld' = [sawOld EXCEPT ![p] = FALSE] /\ judged' = [judged EXCEPT ![p] = 0]
    /\ UNCHANGED <<owner, old, created, alive, mine, polls, calls>>

PollForEver(p) ==
    /\ At(p, "wait") /\ Goto(p, "open")
    /\ UNCHANGED <<path, owner, old, created, alive, mine, sawOld, polls,
                   calls, judged>>

\* Not stale: another poll, or past timeoutMs the caller goes on unlocked.
Poll(p) ==
    /\ At(p, "wait")
    /\ IF polls[p] < MaxPoll
       THEN Goto(p, "open") /\ polls' = [polls EXCEPT ![p] = @ + 1]
       ELSE Goto(p, "unlocked") /\ polls' = [polls EXCEPT ![p] = 0]
    /\ UNCHANGED <<path, owner, old, created, alive, mine, sawOld, calls,
                   judged>>

\* releaseLock, its readFile: only the owner's own pid goes on to unlink.
ReleaseRead(p) ==
    /\ At(p, "held")
    /\ IF path # 0 /\ owner[path] = p
       THEN Goto(p, "unlinking") /\ UNCHANGED mine
       ELSE Goto(p, "idle") /\ mine' = [mine EXCEPT ![p] = 0]
    /\ UNCHANGED <<path, owner, old, created, alive, sawOld, polls, calls,
                   judged>>

\* releaseLock, its unlink, of whatever the path names by now.
ReleaseUnlink(p) ==
    /\ At(p, "unlinking")
    /\ path' = 0 /\ mine' = [mine EXCEPT ![p] = 0]
    /\ Goto(p, "idle")
    /\ UNCHANGED <<owner, old, created, alive, sawOld, polls, calls, judged>>

\* A caller that failed open does its refresh and has nothing to release.
Unlocked(p) ==
    /\ At(p, "unlocked") /\ Goto(p, "idle")
    /\ UNCHANGED <<path, owner, old, created, alive, mine, sawOld, polls,
                   calls, judged>>

-----------------------------------------------------------------------------
\* Time passes: the lock file becomes older than LOCK_STALE_MS.
Age ==
    /\ "age" \in Faults /\ path # 0 /\ path \notin old
    /\ old' = old \cup {path}
    /\ UNCHANGED <<path, owner, created, alive, pc, mine, sawOld, polls,
                   calls, judged>>

Crash(p) ==
    /\ p \in alive /\ Cardinality(Proc \ alive) < MaxCrash
    /\ alive' = alive \ {p}
    /\ UNCHANGED <<path, owner, old, created, pc, mine, sawOld, polls, calls,
                   judged>>

Attempt(p) ==
    \/ Open(p) \/ Exists(p) \/ WritePid(p) \/ WriteFails(p)
    \/ Stat(p) \/ Judge(p) \/ Rename(p) \/ Poll(p)

Release(p) == ReleaseRead(p) \/ ReleaseUnlink(p) \/ Unlocked(p)

Next ==
    \/ \E p \in Proc : Acquire(p) \/ Attempt(p) \/ Release(p) \/ Crash(p)
    \/ Age

Spec == Init /\ [][Next]_vars

\* Timers and file-system calls of a live process complete.
FairSpec == Spec /\ \A p \in Proc : WF_vars(Attempt(p))

-----------------------------------------------------------------------------
(* Properties.                                                             *)

\* Every variable keeps its shape; a process past its open has a lock file.
TypeOK ==
    /\ path \in Inode \cup {0} /\ created \in 0 .. calls
    /\ calls \in 0 .. MaxCall /\ path <= created
    /\ owner \in [Inode -> Proc \cup {NoProc}] /\ old \subseteq Inode
    /\ alive \subseteq Proc
    /\ pc \in [Proc -> {"idle", "open", "write", "stat", "read", "rename", "wait",
                        "held", "unlinking", "unlocked"}]
    /\ mine \in [Proc -> Inode \cup {0}]
    /\ \A p \in Proc : pc[p] \in {"write", "held", "unlinking"} => mine[p] \in Inode
    /\ sawOld \in [Proc -> BOOLEAN]
    /\ polls \in [Proc -> 0 .. MaxPoll]
    /\ judged \in [Proc -> Inode \cup {0}]

\* At most one process has the lock as long as nobody dies and no lock gets
\* older than the cap: the reclaim never fires on a live owner's young lock,
\* not even between its open and the writing of its pid.
OneHolderWithoutReclaim ==
    alive = Proc /\ old = {} => Cardinality(Holders) <= 1

\* A young lock whose owner is alive, from its open to its release, is taken
\* away only by a contender whose verdict was on an earlier file of that name.
StolenOnlyOnOldVerdict ==
    [][\A p \in Proc :
          At(p, "rename") /\ pc'[p] = "open" /\ path # 0 /\ path \notin old
          /\ path' = 0
          /\ (\E q \in alive : mine[q] = path)
              => judged[p] # path \/ sawOld[p]]_vars

\* A process that finds its lock taken over leaves the successor's lock alone
\* (the gap between releaseLock's read and its unlink excepted).
ReleaseOnlyOwn ==
    [][\A p \in Proc :
          At(p, "held") /\ pc'[p] = "unlinking" => path = mine[p]]_vars

\* The exclusion the lock does give, with dead owners, old locks and a
\* late release: the three statements above.
Exclusion == []OneHolderWithoutReclaim /\ StolenOnlyOnOldVerdict /\ ReleaseOnlyOwn

\* Fail-open: every call of a live process returns: with the lock,
\* without it, or with an error.
AlwaysAnswers ==
    \A p \in Proc :
        pc[p] = "open" ~> pc[p] \in {"held", "unlocked", "idle"} \/ p \notin alive

=============================================================================
