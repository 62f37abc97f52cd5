------------------------------ MODULE McpJson ------------------------------
(* A project's .mcp.json, which Claude Code writes too and nobody locks.   *)
(* An update reads it, decides an action per server from the user's        *)
(* approvals, and writes guarded by a freshness check before and a reading *)
(* back after; a conflict is retried once, then given up.                  *)
EXTENDS ConfigFile

CONSTANTS
    Server,        \* server names
    Home,          \* the command our wraps point at
    Foreign,       \* entries Claude Code or the user may write
    FirstServers,  \* the servers of the first file
    MaxWrites,     \* bound: writes of others
    MaxUpdates,    \* bound: updates
    MaxIoFaults    \* bound: failed writes

\* An entry of ours is wrapped once.
WrappedOnce(e) ==
    IsAlreadyWrapped(e) /\ ~ IsHttp(e) => ~ IsAlreadyWrapped(UnwrapEntry(e)) /\ UnwrapEntry(e).cmd # NoCmd

\* Home is a command of ours.  Nobody else writes a wrap of a wrap, which no
\* tool of this repository makes: one that is wrapped is not wrapped again.
ASSUME McpAssumption ==
    /\ Home \in Proxies /\ NoCmd \notin Proxies /\ EmptyCmd \notin Proxies
    /\ DOMAIN FirstServers \subseteq Server
    /\ \A e \in Foreign \union {FirstServers[n] : n \in DOMAIN FirstServers} : IsServer(e) /\ WrappedOnce(e)

VARIABLES
    disk,     \* [config, ver]: the file and what a stat tells it by
    gating,   \* [enabled, disabled]: the user's approvals
    upd,      \* the update under way
    result,   \* its answer
    lost,     \* writes of others that a rename of ours replaced unseen
    landed,   \* [ver -> where the update was when that write came]
    wrote,    \* [Server -> entries others wrote]
    count     \* counters of the bounds

mvars == <<disk, gating, upd, result, lost, landed, wrote, count>>

NoUpdate == [at |-> "idle"]
NoPlan == <<>>
NoAnswerYet == [outcome |-> "none"]
NotRead == Failure("not read")

McpInit ==
    /\ disk = [config |-> Config(FirstServers, Nobody), ver |-> 1]
    /\ gating \in [enabled : SUBSET Server, disabled : SUBSET Server]
    /\ upd = NoUpdate /\ result = NoAnswerYet
    /\ lost = {} /\ landed = [v \in {1} |-> "idle"]
    /\ wrote = [n \in Server |-> IF n \in DOMAIN FirstServers THEN {FirstServers[n]} ELSE {}]
    /\ count = [writes |-> 0, updates |-> 0, faults |-> 0]

-----------------------------------------------------------------------------
(* The plan                                                                *)

Unsupported(e) == e.type \in {"http", "sse"} \/ e.cmd \in {NoCmd, EmptyCmd}

(* The most defensive reading first.                                       *)
Standing(n, e, g) ==
    CASE Unsupported(e)    -> "unsupported"
      [] n \in g.disabled  -> "disabled"
      [] n \in g.enabled   -> "enabled"
      [] OTHER             -> "pending"

Skip(why) == [action |-> "skip", reason |-> why]
Do(what) == [action |-> what]

ActionFor(n, e, g, intent) ==
    LET standing == Standing(n, e, g) IN
    IF standing = "unsupported" THEN Skip(standing)
    ELSE IF intent = "wrap"
    THEN CASE standing # "enabled"    -> Skip(standing)
           [] ~IsAlreadyWrapped(e)    -> Do("wrap")
           [] e.cmd # Home            -> Do("rehome")
           [] OTHER                   -> Skip("already-wrapped")
    ELSE CASE ~IsAlreadyWrapped(e)    -> Skip("not-wrapped")
           [] IsHttpWrapped(e)        -> Skip("wrapped-http")
           [] OTHER                   -> Do("unwrap")

ComputePlan(c, g, intent) == [n \in DOMAIN c.mcp |-> ActionFor(n, c.mcp[n], g, intent)]

(* Mutant: the plan is believed.                                           *)
ApplyActionBlindly(what, n, e) ==
    CASE what = "wrap"   -> WrapEntry(n, e, Home)
      [] what = "unwrap" -> IF Len(e.args) >= 2 THEN UnwrapEntry(e) ELSE [e EXCEPT !.cmd = Nobody, !.args = <<>>]
      [] what = "rehome" -> [e EXCEPT !.cmd = Home]
      [] OTHER           -> e

(* Each action checks again the entry it finds.                            *)
ApplyAction(what, n, e) ==
    CASE what = "wrap"   /\ ~IsAlreadyWrapped(e) -> WrapEntry(n, e, Home)
      [] what = "unwrap" /\ IsAlreadyWrapped(e) /\ ~IsHttpWrapped(e) -> UnwrapEntry(e)
      [] what = "rehome" /\ IsAlreadyWrapped(e) -> [e EXCEPT !.cmd = Home]
      [] OTHER -> e

ApplyPlan(c, plan) ==
    [c EXCEPT !.mcp = [n \in DOMAIN c.mcp |-> IF n \in DOMAIN plan THEN ApplyAction(plan[n].action, n, c.mcp[n]) ELSE c.mcp[n]]]

(* The transform: a plan shown before and approved, or one made of what    *)
(* has just been read.                                                     *)
Wanted(c) == ApplyPlan(c, IF upd.planned THEN upd.plan ELSE ComputePlan(c, upd.gating, upd.intent))

-----------------------------------------------------------------------------
(* One update                                                              *)

Ends(answer) == result' = answer /\ upd' = NoUpdate

Writes == upd.earlier + (IF upd.renamed THEN 1 ELSE 0)

Failed(kind) == [outcome |-> "error", kind |-> kind]

Converged == [outcome |-> "converged", writes |-> Writes, intent |-> upd.intent]

(* A plan is made of the file as it is now and may be used later.          *)
StartUpdate ==
    /\ upd.at = "idle" /\ count.updates < MaxUpdates /\ Readable(disk.config)
    /\ \E intent \in {"wrap", "unwrap"}, planned \in BOOLEAN :
           upd' = [at |-> "stat", intent |-> intent, planned |-> planned, gating |-> gating,
                   plan |-> IF planned THEN ComputePlan(disk.config, gating, intent) ELSE NoPlan,
                   round |-> 1, earlier |-> 0, renamed |-> FALSE, fresh |-> 0, read |-> 0, want |-> NotRead]
    /\ count' = [count EXCEPT !.updates = @ + 1] /\ result' = NoAnswerYet
    /\ UNCHANGED <<disk, gating, lost, landed, wrote>>

Rest == UNCHANGED <<gating, landed, wrote, count>>

Gone == disk.config = Failure("not-found")

(* The first stat is taken before the read.                                *)
StatFirst ==
    /\ upd.at = "stat"
    /\ upd' = [upd EXCEPT !.at = "read", !.fresh = IF Gone THEN 0 ELSE disk.ver]
    /\ UNCHANGED <<disk, result, lost>> /\ Rest

(* Nothing is written when the file is already as it should be.            *)
ReadFile ==
    /\ upd.at = "read"
    /\ IF ~Readable(disk.config) \/ upd.fresh = 0 THEN Ends(Failed(IF upd.fresh = 0 THEN "not-found" ELSE disk.config.err))
       ELSE IF Wanted(disk.config) = disk.config THEN Ends(Converged)
       ELSE upd' = [upd EXCEPT !.at = "restat", !.read = disk.ver, !.want = Wanted(disk.config)] /\ UNCHANGED result
    /\ UNCHANGED <<disk, lost>> /\ Rest

(* A second round begins again, with what the first one wrote counted; a   *)
(* second conflict ends it.                                                *)
Conflict ==
    IF upd.round = 1
    THEN /\ upd' = [upd EXCEPT !.at = "stat", !.round = 2, !.earlier = Writes, !.renamed = FALSE,
                             !.fresh = 0, !.read = 0, !.want = NotRead]
         /\ UNCHANGED result
    ELSE Ends([outcome |-> "gave-up", writes |-> Writes, observed |-> disk.ver])

Restat ==
    /\ upd.at = "restat"
    /\ IF Gone \/ disk.ver # upd.fresh THEN Conflict ELSE upd' = [upd EXCEPT !.at = "rename"] /\ UNCHANGED result
    /\ UNCHANGED <<disk, lost>> /\ Rest

(* What is replaced is lost if it is not what was read.                    *)
WriteFile ==
    /\ upd.at = "rename"
    /\ \/ /\ ~Gone
          /\ disk' = [config |-> upd.want, ver |-> Cardinality(DOMAIN landed) + 1]
          /\ landed' = [v \in DOMAIN landed \union {disk'.ver} |-> IF v = disk'.ver THEN "ours" ELSE landed[v]]
          /\ lost' = IF disk.ver = upd.read THEN lost ELSE lost \union {disk.ver}
          /\ upd' = [upd EXCEPT !.at = "verify", !.renamed = TRUE]
          /\ UNCHANGED <<result, count>>
       \/ /\ Gone \/ count.faults < MaxIoFaults
          /\ Ends(Failed("write")) /\ count' = [count EXCEPT !.faults = IF Gone THEN @ ELSE @ + 1]
          /\ UNCHANGED <<disk, lost, landed>>
    /\ UNCHANGED <<gating, wrote>>

Verify ==
    /\ upd.at = "verify"
    /\ IF disk.config = upd.want THEN Ends(Converged) ELSE Conflict
    /\ UNCHANGED <<disk, lost>> /\ Rest

-----------------------------------------------------------------------------
(* The others                                                              *)

ForeignWrite(c) ==
    LET v == Cardinality(DOMAIN landed) + 1 IN
    /\ count.writes < MaxWrites /\ count' = [count EXCEPT !.writes = @ + 1]
    /\ disk' = [config |-> c, ver |-> v]
    /\ landed' = [w \in DOMAIN landed \union {v} |-> IF w = v THEN upd.at ELSE landed[w]]
    /\ UNCHANGED <<gating, upd, result, lost>>

ClaudeWritesServer(n, e) ==
    /\ Readable(disk.config)
    /\ ForeignWrite([disk.config EXCEPT !.mcp = [m \in DOMAIN disk.config.mcp \union {n} |-> IF m = n THEN e ELSE disk.config.mcp[m]]])
    /\ wrote' = [wrote EXCEPT ![n] = @ \union {e}]

ClaudeRemovesFile == \E f \in Failures \ {disk.config} : ForeignWrite(f) /\ UNCHANGED wrote

ClaudeCreatesFile == ~Readable(disk.config) /\ ForeignWrite(Config(FirstServers, Nobody)) /\ UNCHANGED wrote

Approves ==
    /\ upd.at = "idle" /\ count.writes < MaxWrites
    /\ gating' \in [enabled : SUBSET Server, disabled : SUBSET Server] /\ gating' # gating
    /\ count' = [count EXCEPT !.writes = @ + 1]
    /\ UNCHANGED <<disk, upd, result, lost, landed, wrote>>

UpdateMcpJson == StatFirst \/ ReadFile \/ Restat \/ WriteFile \/ Verify

McpNext ==
    \/ StartUpdate \/ UpdateMcpJson
    \/ (\E n \in Server, e \in Foreign : ClaudeWritesServer(n, e))
    \/ ClaudeRemovesFile \/ ClaudeCreatesFile \/ Approves

McpSpec == McpInit /\ [][McpNext]_mvars

-----------------------------------------------------------------------------
(* Properties                                                              *)

(* An entry without what a wrap adds: the wrapped entry, or a bridge at    *)
(* home.  A command that was not there may have become an empty one.       *)
Plain(e) ==
    IF IsAlreadyWrapped(e) THEN IF IsHttp(e) THEN [e EXCEPT !.cmd = Home] ELSE UnwrapEntry(e)
    ELSE [e EXCEPT !.cmd = CmdToken(e)]

Plainly(es) == {Plain(e) : e \in es}

(* What others write is kept.  Nobody else's write is lost unseen but in   *)
(* the window that cannot be closed: it came after the last stat and       *)
(* before the rename.  And a plan approved against another state of the    *)
(* file, a retry or a change of approvals never corrupts a server: each    *)
(* entry is, but for a wrap, what someone else wrote under that name.      *)
ServersKept ==
    /\ \A v \in lost : landed[v] = "rename"
    /\ Readable(disk.config) => \A n \in DOMAIN disk.config.mcp : Plain(disk.config.mcp[n]) \in Plainly(wrote[n])
=============================================================================
