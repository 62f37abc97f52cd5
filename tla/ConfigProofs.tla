---------------------------- MODULE ConfigProofs ----------------------------
(***************************************************************************)
(* Proofs about the files that list servers: what the backup of Claude     *)
(* Desktop's config is, what a repair that answers ok leaves, and that no  *)
(* server of a user is lost or changed there or in a project's .mcp.json,  *)
(* for any entries, edits of others, moves of the app, deaths, failures,   *)
(* approvals and plans.                                                    *)
(***************************************************************************)
EXTENDS MCConfig, SequenceTheorems, FiniteSetTheorems, TLAPS

-----------------------------------------------------------------------------
(* The shape of the state.                                                 *)

IsFile(f) == f \in Failures \/ IsConfig(f)

\* A handler on its way to its rename, and a repair before and after that.
Writing(o) ==
    /\ o = [k |-> o.k, at |-> o.at, want |-> o.want, name |-> o.name, url |-> o.url, calm |-> o.calm]
    /\ o.k \in {"install", "uninstall", "add", "remove", "repair"} /\ o.at \in {"backup", "copy", "rename"}
    /\ IsConfig(o.want) /\ o.calm \in BOOLEAN

Repairing(o) ==
    o = [k |-> "repair", at |-> o.at, calm |-> o.calm] /\ o.at \in {"parse", "validate"} /\ o.calm \in BOOLEAN

IsOp(o) == o = Idle \/ Writing(o) \/ Repairing(o)

OpType == op = [p \in Proc |-> op[p]] /\ \A p \in Proc : IsOp(op[p])

ShapeOK ==
    /\ IsFile(file) /\ (bak = NoBackup \/ IsFile(bak)) /\ OpType
    /\ used = [ops |-> used.ops, edits |-> used.edits, faults |-> used.faults, alone |-> used.alone]
    /\ used.alone \in BOOLEAN

-----------------------------------------------------------------------------
(* The inductive invariant.                                                *)

\* The names that were ours before the first run.
FirstOurs == {n \in Name : \E i \in InitialFiles : Readable(i.file) /\ n \in Ours(i.file)}

\* Nobody writes before there is a backup; it is taken once, unless two look.
BackupInv ==
    /\ bak = NoBackup /\ Readable(file) => Ours(file) \subseteq FirstOurs
    /\ \A p \in Proc : At(p, "rename") => bak # NoBackup
    /\ used.alone => /\ \A p, q \in Proc : Busy(p) /\ Busy(q) => p = q
                     /\ \A p \in Proc : At(p, "copy") => bak = NoBackup

\* No entry of ours whose command is not there.
Whole(c) == Readable(c) /\ Broken(c) = {}

\* What a repair has done, as long as nobody else acts.
RepairInv ==
    LET o == op["app"] IN
    o.k = "repair" /\ o.calm =>
        /\ link = Target
        /\ Target \in bins => /\ o.at \in {"backup", "copy", "rename"} => Whole(o.want)
                              /\ o.at = "validate" => Whole(file)

CInv == ShapeOK /\ BackupInv /\ BackupFromBefore /\ RepairInv /\ RepairHeals
-----------------------------------------------------------------------------
(* Files.                                                                  *)

LEMMA ConfigFacts ==
    /\ \A c : IsConfig(c) => Readable(c) /\ c \notin Failures /\ c # NoBackup
    /\ \A f \in Failures : ~ Readable(f) /\ f # NoBackup
    /\ ~ Readable(NoBackup)
<1>1. ASSUME NEW c, IsConfig(c) PROVE c.err = Nobody
  BY <1>1 DEF IsConfig, Config
<1>2. /\ \A f \in Failures : f.err \in {"not-found", "unreadable", "invalid-json", "unexpected-shape"}
      /\ NoBackup.err = "no backup"
  BY DEF Failures, Failure, NoBackup
<1>3. \A f \in Failures : ~ Readable(f) /\ f # NoBackup
  BY <1>2 DEF Readable, Nobody
<1>4. ~ Readable(NoBackup)
  BY <1>2 DEF Readable, Nobody
<1>5. \A c : IsConfig(c) => Readable(c) /\ c \notin Failures /\ c # NoBackup
  BY <1>1, <1>2 DEF Readable, Nobody
<1> QED  BY <1>3, <1>4, <1>5

LEMMA ServersChanged ==
    ASSUME NEW c, IsConfig(c), NEW m, DOMAIN m \subseteq Name, \A n \in DOMAIN m : IsEntry(m[n])
    PROVE  IsConfig([c EXCEPT !.mcp = m]) /\ [c EXCEPT !.mcp = m].mcp = m
<1>1. [c EXCEPT !.mcp = m] = Config(m, c.rest)
  BY DEF IsConfig, Config
<1>2. Config(m, c.rest).mcp = m /\ Config(m, c.rest).rest = c.rest
  BY DEF Config
<1> QED  BY <1>1, <1>2 DEF IsConfig

LEMMA EntryFacts ==
    ASSUME NEW e, IsEntry(e)
    PROVE  /\ \A cmd : IsEntry([e EXCEPT !.cmd = cmd]) /\ [e EXCEPT !.cmd = cmd].cmd = cmd
           /\ \A n, xcg : IsEntry(WrapEntry(n, e, xcg))
           /\ IsEntry(UnwrapEntry(e))
<1>1. \A cmd : [e EXCEPT !.cmd = cmd] = Entry(e.type, cmd, e.args, e.rest)
  BY DEF IsEntry, Entry
<1>3. \A t, c, a, r : IsEntry(Entry(t, c, a, r)) /\ Entry(t, c, a, r).cmd = c
  BY DEF IsEntry, Entry
<1>4. ASSUME NEW n, NEW xcg PROVE IsEntry(WrapEntry(n, e, xcg))
  BY <1>3 DEF WrapEntry
<1>5. IsEntry(UnwrapEntry(e))
  BY <1>3 DEF UnwrapEntry
<1> QED  BY <1>1, <1>3, <1>4, <1>5

\* Whatever a handler makes of a config is one.
LEMMA ResultShape ==
    ASSUME NEW p \in Proc, NEW k, NEW c, IsConfig(c), NEW n, NEW url, NEW only,
           k = "add" => n \in Name \cup {"-s"}
    PROVE  IsConfig(ResultOf(p, k, c, n, url, only).want)
<1>1. DOMAIN c.mcp \subseteq Name /\ \A m \in DOMAIN c.mcp : IsEntry(c.mcp[m])
  BY DEF IsConfig
<1>3. ASSUME NEW out PROVE IsConfig(Result(out, c).want)
  BY DEF Result
<1>4. IsConfig(InstallOf(p, c, only).want)
  <2> DEFINE m == [s \in DOMAIN c.mcp |->
                     LET e == c.mcp[s] IN
                     IF only \notin {All, s} THEN e
                     ELSE IF Kind(e) = "wrappable" THEN WrapEntry(s, e, Xcg[p])
                     ELSE IF Kind(e) = "already-wrapped" THEN [e EXCEPT !.cmd = Xcg[p]]
                     ELSE e]
  <2>1. \A s \in DOMAIN m : IsEntry(m[s])
    BY <1>1, EntryFacts
  <2>2. IsConfig(ApplyWrap(c, Xcg[p], only))
    BY <1>1, <2>1, ServersChanged DEF ApplyWrap
  <2> QED  BY <2>2, <1>3 DEF InstallOf, Result
<1>5. IsConfig(UninstallOf(c).want)
  <2> DEFINE m == [s \in DOMAIN c.mcp |-> IF IsAlreadyWrapped(c.mcp[s]) THEN UnwrapEntry(c.mcp[s]) ELSE c.mcp[s]]
  <2>1. \A s \in DOMAIN m : IsEntry(m[s])
    BY <1>1, EntryFacts
  <2>2. IsConfig(Unwrap(c))
    BY <1>1, <2>1, ServersChanged DEF Unwrap
  <2> QED  BY <2>2, <1>3 DEF UninstallOf, Result
<1>6. CASE k = "add"
  <2>1. n \in SafeNames => IsConfig(ReplaceRemote(c, n, url, Xcg[p]))
    <3> DEFINE m == [s \in DOMAIN c.mcp \union {n} |-> IF s = n THEN RemoteEntry(n, url, Xcg[p]) ELSE c.mcp[s]]
    <3>1. \A s \in DOMAIN m : IsEntry(m[s])
      BY <1>1 DEF RemoteEntry, IsEntry, Entry
    <3> QED  BY <1>1, <1>6, <3>1, ServersChanged, ConfigAssumption DEF ReplaceRemote
  <2>2. IsConfig(AddRemoteOf(p, c, n, url).want)
    BY <2>1, <1>3 DEF AddRemoteOf, Result
  <2> QED  BY <2>2, <1>6 DEF ResultOf
<1>7. IsConfig(RemoveRemoteOf(c, n).want)
  <2> DEFINE m == [s \in DOMAIN c.mcp \ {n} |-> c.mcp[s]]
  <2>1. IsConfig(RemoveRemote(c, n))
    BY <1>1, ServersChanged DEF RemoveRemote
  <2> QED  BY <2>1, <1>3 DEF RemoveRemoteOf, Result
<1>8. IsConfig(RepairOf(c).want)
  <2> DEFINE m == [s \in DOMAIN c.mcp |-> IF s \in Broken(c) THEN [c.mcp[s] EXCEPT !.cmd = Link] ELSE c.mcp[s]]
  <2>1. \A s \in DOMAIN m : IsEntry(m[s])
    BY <1>1, EntryFacts
  <2> QED  BY <1>1, <1>3, <2>1, ServersChanged DEF RepairOf, Result
<1> QED  BY <1>4, <1>5, <1>6, <1>7, <1>8 DEF ResultOf

-----------------------------------------------------------------------------
(* Handlers.                                                               *)

LEMMA OpFacts ==
    /\ Idle.k = "idle" /\ "calm" \notin DOMAIN Idle
    /\ \A o : Writing(o) => /\ o.k # "idle" /\ "calm" \in DOMAIN o /\ o.at \notin {"parse", "validate"}
                            /\ o.at \in {"backup", "copy", "rename"} /\ IsConfig(o.want)
    /\ \A o : Repairing(o) => o.k = "repair" /\ "calm" \in DOMAIN o /\ o.at \in {"parse", "validate"}
<1>1. Idle.k = "idle" /\ "calm" \notin DOMAIN Idle
  BY DEF Idle
<1>2. ASSUME NEW o, Writing(o) PROVE "calm" \in DOMAIN o
  BY <1>2 DEF Writing
<1>3. ASSUME NEW o, Repairing(o) PROVE "calm" \in DOMAIN o /\ o.k = "repair"
  BY <1>3 DEF Repairing
<1> QED  BY <1>1, <1>2, <1>3 DEF Writing, Repairing

LEMMA StageFacts ==
    ASSUME NEW o, Writing(o), NEW at \in {"backup", "copy", "rename"}
    PROVE  LET r == [o EXCEPT !.at = at] IN
           Writing(r) /\ r.at = at /\ r.k = o.k /\ r.want = o.want /\ r.calm = o.calm
BY DEF Writing

LEMMA CalmLost ==
    ASSUME NEW o, Writing(o) \/ Repairing(o)
    PROVE  LET r == [o EXCEPT !.calm = FALSE] IN
           /\ r.at = o.at /\ r.k = o.k /\ ~ r.calm
           /\ Writing(o) => Writing(r) /\ r.want = o.want
           /\ Repairing(o) => Repairing(r)
<1> DEFINE r == [o EXCEPT !.calm = FALSE]
<1>1. CASE Writing(o)
  <2>0. \A v : [o EXCEPT !.calm = v]
               = [k |-> o.k, at |-> o.at, want |-> o.want, name |-> o.name, url |-> o.url, calm |-> v]
    BY <1>1 DEF Writing
  <2>1. r = [k |-> o.k, at |-> o.at, want |-> o.want, name |-> o.name, url |-> o.url, calm |-> FALSE]
    BY <2>0, Zenon
  <2>2. r.k = o.k /\ r.at = o.at /\ r.want = o.want /\ r.name = o.name /\ r.url = o.url /\ r.calm = FALSE
    BY <2>1
  <2> HIDE DEF r
  <2>3. Writing(r)
    BY <1>1, <2>1, <2>2 DEF Writing
  <2>4. ~ Repairing(o)
    BY <1>1, OpFacts
  <2> QED  BY <1>1, <2>2, <2>3, <2>4 DEF r
<1>2. CASE Repairing(o)
  <2>0. \A v : [o EXCEPT !.calm = v] = [k |-> "repair", at |-> o.at, calm |-> v]
    BY <1>2 DEF Repairing
  <2>1. r = [k |-> "repair", at |-> o.at, calm |-> FALSE]
    BY <2>0, Zenon
  <2>2. r.k = "repair" /\ r.at = o.at /\ r.calm = FALSE
    BY <2>1
  <2>3. o.k = "repair"
    BY <1>2, OpFacts
  <2> HIDE DEF r
  <2>4. Repairing(r)
    BY <1>2, <2>1, <2>2 DEF Repairing
  <2>5. ~ Writing(o)
    BY <1>2, OpFacts
  <2> QED  BY <1>2, <2>2, <2>3, <2>4, <2>5 DEF r
<1> QED  BY <1>1, <1>2

LEMMA OpSet ==
    ASSUME OpType, NEW p \in Proc, NEW r, IsOp(r), op' = [op EXCEPT ![p] = r]
    PROVE  OpType' /\ op'[p] = r /\ \A q \in Proc \ {p} : op'[q] = op[q]
BY DEF OpType, Proc

\* Whoever was under way is not calm any more.
LEMMA DisturbedFacts ==
    ASSUME OpType, NEW p
    PROVE  LET d == Disturbed(op, p) IN
           /\ d = [q \in Proc |-> d[q]]
           /\ \A q \in Proc : /\ IsOp(d[q])
                              /\ op[q] = Idle <=> d[q] = Idle
                              /\ op[q] # Idle => d[q].k = op[q].k /\ d[q].at = op[q].at
                              /\ q # p /\ d[q] # Idle => ~ d[q].calm
                              /\ q = p => d[q] = op[q]
<1> DEFINE d == Disturbed(op, p)
<1>1. d = [q \in Proc |-> d[q]]
  BY DEF Disturbed
<1>2. ASSUME NEW q \in Proc
      PROVE  /\ IsOp(d[q])
             /\ op[q] = Idle <=> d[q] = Idle
             /\ op[q] # Idle => d[q].k = op[q].k /\ d[q].at = op[q].at
             /\ q # p /\ d[q] # Idle => ~ d[q].calm
             /\ q = p => d[q] = op[q]
  <2>1. IsOp(op[q])
    BY DEF OpType
  <2>2. d[q] = IF q # p /\ "calm" \in DOMAIN op[q] THEN [op[q] EXCEPT !.calm = FALSE] ELSE op[q]
    BY DEF Disturbed
  <2>3. CASE q = p
    BY <2>1, <2>2, <2>3
  <2>4. CASE q # p /\ op[q] = Idle
    BY <2>1, <2>2, <2>4, OpFacts
  <2>5. CASE q # p /\ op[q] # Idle
    <3>1. Writing(op[q]) \/ Repairing(op[q])
      BY <2>1, <2>5 DEF IsOp
    <3>2. d[q] = [op[q] EXCEPT !.calm = FALSE]
      BY <2>2, <2>5, <3>1, OpFacts
    <3>3. /\ d[q].at = op[q].at /\ d[q].k = op[q].k /\ ~ d[q].calm
          /\ Writing(d[q]) \/ Repairing(d[q])
      BY <3>1, <3>2, CalmLost
    <3>4. d[q] # Idle
      BY <3>3, OpFacts
    <3> QED  BY <2>5, <3>3, <3>4 DEF IsOp
  <2> QED  BY <2>3, <2>4, <2>5
<1> QED  BY <1>1, <1>2

-----------------------------------------------------------------------------
(* A step of a handler that writes no file.                                *)

\* What the repair is in a position to say.
RepairFacts(o) ==
    o.k = "repair" /\ o.calm =>
        /\ link = Target
        /\ Target \in bins => /\ o.at \in {"backup", "copy", "rename"} => Whole(o.want)
                              /\ o.at = "validate" => Whole(file)

UsedShape == used = [ops |-> used.ops, edits |-> used.edits, faults |-> used.faults, alone |-> used.alone]

LEMMA HandlerStep ==
    ASSUME CInv, NEW p \in Proc, NEW r, IsOp(r), op' = [op EXCEPT ![p] = r],
           UNCHANGED <<file, bak, bins>>, UsedShape', used'.alone \in BOOLEAN,
           link' = link \/ (p = "app" /\ (r = Idle \/ (r.at = "parse" /\ link' = Target))),
           used'.alone => used.alone /\ (r # Idle => \A q \in Proc \ {p} : op[q] = Idle),
           r # Idle /\ r.at = "rename" => bak # NoBackup,
           r # Idle /\ r.at = "copy" => bak = NoBackup,
           p = "app" /\ link' = link => RepairFacts(r), RepairHeals'
    PROVE  CInv'
<1>1. /\ OpType' /\ op'[p] = r /\ \A q \in Proc \ {p} : op'[q] = op[q]
  BY OpSet DEF CInv, ShapeOK
<1>2. ShapeOK'
  BY <1>1 DEF CInv, ShapeOK, UsedShape
<1>3. \A q \in Proc : Busy(q) <=> op[q] # Idle
  BY OpFacts DEF CInv, ShapeOK, OpType, IsOp, Busy
<1>4. \A q \in Proc : Busy(q)' <=> op'[q] # Idle
  BY OpFacts, <1>2 DEF ShapeOK, OpType, IsOp, Busy
<1>5. BackupInv'
  <2>1. (bak = NoBackup /\ Readable(file) => Ours(file) \subseteq FirstOurs)'
    BY DEF CInv, BackupInv, Ours, FirstOurs, Of, Readable
  <2>2. ASSUME NEW q \in Proc, At(q, "rename")' PROVE bak' # NoBackup
    <3>1. CASE q = p
      BY <2>2, <3>1, <1>1, <1>4 DEF At
    <3>2. CASE q # p
      BY <2>2, <3>2, <1>1 DEF At, Busy, CInv, BackupInv
    <3> QED  BY <3>1, <3>2
  <2>3. ASSUME used'.alone, NEW q \in Proc, At(q, "copy")' PROVE bak' = NoBackup
    <3>1. CASE q = p
      BY <2>3, <3>1, <1>1, <1>4 DEF At
    <3>2. CASE q # p
      BY <2>3, <3>2, <1>1 DEF At, Busy, CInv, BackupInv
    <3> QED  BY <3>1, <3>2
  <2>4. ASSUME used'.alone, NEW q \in Proc, NEW s \in Proc, Busy(q)', Busy(s)' PROVE q = s
    <3>1. op'[q] # Idle /\ op'[s] # Idle
      BY <2>4, <1>4
    <3>2. CASE r = Idle
      BY <2>4, <3>1, <3>2, <1>1, <1>3 DEF CInv, BackupInv
    <3>3. CASE r # Idle
      BY <2>4, <3>1, <3>3, <1>1
    <3> QED  BY <3>2, <3>3
  <2> QED  BY <2>1, <2>2, <2>3, <2>4 DEF BackupInv
<1>6. BackupFromBefore'
  BY DEF CInv, BackupFromBefore, Ours, Of, Readable
<1>7. RepairInv'
  <2>1. op'["app"] = IF p = "app" THEN r ELSE op["app"]
    BY <1>1 DEF Proc
  <2>2. CASE link' = link
    <3>1. RepairInv <=> RepairFacts(op["app"])
      BY DEF RepairInv, RepairFacts
    <3>2. RepairFacts(op'["app"])
      BY <2>1, <2>2, <3>1 DEF CInv
    <3> QED  BY <2>2, <3>2 DEF RepairInv, RepairFacts, Whole, Broken, Exists, Readable
  <2>3. CASE p = "app" /\ r = Idle
    BY <2>1, <2>3, OpFacts DEF RepairInv
  <2>4. CASE p = "app" /\ r.at = "parse" /\ link' = Target
    BY <2>1, <2>4 DEF RepairInv
  <2> QED  BY <2>2, <2>3, <2>4
<1> QED  BY <1>2, <1>5, <1>6, <1>7 DEF CInv

-----------------------------------------------------------------------------
(* Reading the file, and what follows.                                     *)

LEMMA CountedFacts ==
    ASSUME CInv, NEW o, NEW e, NEW f, NEW a \in BOOLEAN, Counted(o, e, f, a)
    PROVE  UsedShape' /\ used'.alone \in BOOLEAN /\ (used'.alone <=> used.alone /\ a)
<1> DEFINE b == used.alone /\ a
<1>1. used' = [ops |-> used.ops + o, edits |-> used.edits + e, faults |-> used.faults + f, alone |-> b]
  BY DEF Counted
<1>2. b \in BOOLEAN
  OBVIOUS
<1> HIDE DEF b
<1>3. UsedShape' /\ used'.alone = b
  BY <1>1 DEF UsedShape
<1> QED  BY <1>2, <1>3 DEF b

LEMMA StartFacts ==
    ASSUME CInv, NEW p \in Proc, Start(p)
    PROVE  /\ UsedShape' /\ used'.alone \in BOOLEAN /\ UNCHANGED <<file, bak, link, bins>>
           /\ used'.alone => used.alone /\ \A q \in Proc : op[q] = Idle
<1> DEFINE b == \A q \in Proc : ~ Busy(q)
<1>1. UsedShape' /\ used'.alone \in BOOLEAN /\ (used'.alone <=> used.alone /\ b)
  BY CountedFacts DEF Start
<1>2. \A q \in Proc : ~ Busy(q) => op[q] = Idle
  BY OpFacts DEF CInv, ShapeOK, OpType, IsOp, Busy
<1> QED  BY <1>1, <1>2 DEF Start

LEMMA AnswerFacts ==
    /\ \A k, out : "calm" \notin DOMAIN Reply(k, out)
    /\ \A out : "calm" \notin DOMAIN [k |-> "status", out |-> out]
    /\ \A out : "calm" \notin DOMAIN [k |-> "health", out |-> out]
    /\ "calm" \notin DOMAIN NoAnswer
BY DEF Reply, NoAnswer

\* A repair that has written, or need not.
LEMMA RepairWhole ==
    ASSUME NEW c, IsConfig(c), link = Target, Target \in bins
    PROVE  /\ Broken(c) = {} => Whole(c)
           /\ Whole(RepairOf(c).want)
<1>1. Broken(c) = {} => Whole(c)
  BY ConfigFacts DEF Whole
<1> DEFINE m == [n \in DOMAIN c.mcp |-> IF n \in Broken(c) THEN [c.mcp[n] EXCEPT !.cmd = Link] ELSE c.mcp[n]]
           w == [c EXCEPT !.mcp = m]
<1>2. IsConfig(w) /\ w.mcp = m
  <2>1. DOMAIN c.mcp \subseteq Name /\ \A s \in DOMAIN m : IsEntry(m[s])
    BY EntryFacts DEF IsConfig
  <2> QED  BY <2>1, ServersChanged
<1>3. Exists(Link)
  BY DEF Exists
<1>4. ASSUME NEW n \in DOMAIN m, IsAlreadyWrapped(m[n]) PROVE Exists(m[n].cmd)
  <2>1. CASE n \in Broken(c)
    <3>1. m[n] = [c.mcp[n] EXCEPT !.cmd = Link] /\ IsEntry(c.mcp[n])
      BY <2>1 DEF Broken, IsConfig
    <3> QED  BY <3>1, <1>3, EntryFacts
  <2>2. CASE n \notin Broken(c)
    BY <2>2, <1>4 DEF Broken
  <2> QED  BY <2>1, <2>2
<1>5. Broken(w) = {}
  BY <1>2, <1>4 DEF Broken
<1>6. Whole(w)
  BY <1>2, <1>5, ConfigFacts DEF Whole
<1> QED  BY <1>1, <1>6 DEF RepairOf, Result

LEMMA AnswerStep ==
    ASSUME CInv, NEW p \in Proc, NEW a, "calm" \notin DOMAIN a, Answer(p, a),
           UNCHANGED <<file, bak, link, bins>>, UsedShape', used'.alone \in BOOLEAN, used'.alone => used.alone
    PROVE  CInv'
<1>1. IsOp(Idle) /\ op' = [op EXCEPT ![p] = Idle]
  BY DEF IsOp, Answer
<1>2. RepairHeals'
  BY DEF Answer, RepairHeals
<1>3. RepairFacts(Idle)
  BY OpFacts DEF RepairFacts
<1> QED  BY <1>1, <1>2, <1>3, HandlerStep

LEMMA ParseStep ==
    ASSUME CInv, NEW p \in Proc, NEW k \in {"install", "uninstall", "add", "remove", "repair"},
           NEW n, NEW url, NEW only, NEW mode, Parse(p, k, n, url, only, mode),
           k = "add" => n \in Name \cup {"-s"},
           IF k = "repair" THEN p = "app" /\ At(p, "parse") ELSE op[p] = Idle,
           UNCHANGED <<file, bak, link, bins>>, UsedShape', used'.alone \in BOOLEAN,
           used'.alone => used.alone /\ \A q \in Proc \ {p} : op[q] = Idle
    PROVE  CInv'
<1> DEFINE b == Calm(p)
           res == ResultOf(p, k, file, n, url, only)
           w == [k |-> k, at |-> "backup", want |-> res.want, name |-> n, url |-> url, calm |-> b]
           v == [k |-> k, at |-> "validate", calm |-> b]
<1>1. /\ \A out : "calm" \notin DOMAIN Reply(k, out)
      /\ ~ Readable(file) => Answer(p, Reply(k, ParseError(p, k)))
      /\ Readable(file) /\ mode = "dry-run" =>
            Answer(p, Reply(k, IF res.out = "noop" THEN "noop" ELSE "would_write"))
      /\ Readable(file) /\ mode # "dry-run" /\ res.out = "wrote" => op' = [op EXCEPT ![p] = w] /\ said' = NoAnswer
      /\ Readable(file) /\ mode # "dry-run" /\ res.out # "wrote" /\ k = "repair" =>
            op' = [op EXCEPT ![p] = v] /\ said' = said
      /\ Readable(file) /\ mode # "dry-run" /\ res.out # "wrote" /\ k # "repair" => Answer(p, Reply(k, res.out))
  BY AnswerFacts DEF Parse
<1>2. IsOp(op[p]) /\ (op[p] = Idle => b) /\ (Busy(p) => b = op[p].calm)
  <2>1. IsOp(op[p])
    BY DEF CInv, ShapeOK, OpType
  <2>2. op[p] = Idle <=> ~ Busy(p)
    BY <2>1, OpFacts DEF IsOp, Busy
  <2>3. Busy(p) => op[p].calm \in BOOLEAN
    BY <2>1, <2>2 DEF IsOp, Writing, Repairing
  <2> QED  BY <2>1, <2>2, <2>3 DEF Calm
<1>3. b \in BOOLEAN
  BY DEF Calm
<1>4. k = "repair" /\ b => link = Target
  <2>1. k = "repair" => op["app"].k = "repair" /\ op["app"] # Idle /\ b = op["app"].calm
    BY <1>2, OpFacts DEF At, Busy, IsOp, Writing
  <2> QED  BY <2>1 DEF CInv, RepairInv
<1>5. CASE ~ Readable(file) \/ mode = "dry-run" \/ (res.out # "wrote" /\ k # "repair")
  <2>1. PICK a : "calm" \notin DOMAIN a /\ Answer(p, a)
    BY <1>1, <1>5
  <2> QED  BY <2>1, AnswerStep
<1>6. CASE Readable(file) /\ mode # "dry-run" /\ res.out = "wrote"
  <2>1. IsConfig(file)
    BY <1>6, ConfigFacts DEF CInv, ShapeOK, IsFile
  <2>2. IsConfig(res.want)
    BY <2>1, ResultShape
  <2> HIDE DEF b, res
  <2>3. w.k = k /\ w.at = "backup" /\ w.want = res.want /\ w.name = n /\ w.url = url /\ w.calm = b
    OBVIOUS
  <2>4. Writing(w)
    BY <1>3, <2>2, <2>3 DEF Writing
  <2>5. RepairFacts(w)
    <3>1. k = "repair" => res = RepairOf(file)
      BY DEF res, ResultOf
    <3>2. k = "repair" /\ b /\ Target \in bins => Whole(res.want)
      BY <1>4, <2>1, <3>1, RepairWhole
    <3> QED  BY <1>4, <2>3, <3>2 DEF RepairFacts
  <2>6. op' = [op EXCEPT ![p] = w] /\ said' = NoAnswer
    BY <1>1, <1>6
  <2>7. RepairHeals'
    BY <2>6, AnswerFacts DEF RepairHeals
  <2>8. w.at # "rename" /\ w.at # "copy"
    BY <2>3
  <2> HIDE DEF w
  <2> QED  BY <2>4, <2>5, <2>6, <2>7, <2>8, HandlerStep DEF IsOp
<1>7. CASE Readable(file) /\ mode # "dry-run" /\ res.out # "wrote" /\ k = "repair"
  <2>1. IsConfig(file)
    BY <1>7, ConfigFacts DEF CInv, ShapeOK, IsFile
  <2>2. res = RepairOf(file)
    BY <1>7 DEF ResultOf
  <2>3. Broken(file) = {}
    BY <1>7, <2>2 DEF RepairOf, Result
  <2> HIDE DEF b, res
  <2>4. v.k = "repair" /\ v.at = "validate" /\ v.calm = b /\ v = [k |-> "repair", at |-> "validate", calm |-> b]
    BY <1>7
  <2>5. Repairing(v)
    BY <1>3, <2>4 DEF Repairing
  <2>6. RepairFacts(v)
    <3>1. b /\ Target \in bins => Whole(file)
      BY <1>4, <1>7, <2>1, <2>3, RepairWhole
    <3> QED  BY <1>4, <1>7, <2>4, <3>1 DEF RepairFacts
  <2>7. op' = [op EXCEPT ![p] = v] /\ said' = said
    BY <1>1, <1>7
  <2>8. RepairHeals'
    BY <2>7 DEF CInv, RepairHeals
  <2>9. v.at # "rename" /\ v.at # "copy"
    BY <2>4
  <2> HIDE DEF v
  <2> QED  BY <2>5, <2>6, <2>7, <2>8, <2>9, HandlerStep DEF IsOp
<1> QED  BY <1>5, <1>6, <1>7

-----------------------------------------------------------------------------
(* The handlers.                                                           *)

LEMMA BeginStep ==
    ASSUME CInv, NEW p \in Proc,
           \/ Install(p) \/ Uninstall(p) \/ (p = "app" /\ AddRemote) \/ (p = "app" /\ RemoveRemoteEntry)
           \/ Status(p) \/ (p = "app" /\ \E n \in Name : IsConnected(n)) \/ (p = "app" /\ ValidateHealth)
    PROVE  CInv'
<1>1. Start(p)
  BY DEF Install, Uninstall, AddRemote, RemoveRemoteEntry, Status, IsConnected, ValidateHealth
<1>2. /\ UsedShape' /\ used'.alone \in BOOLEAN /\ UNCHANGED <<file, bak, link, bins>>
      /\ used'.alone => used.alone /\ \A q \in Proc : op[q] = Idle
  BY <1>1, StartFacts
<1>3. op[p] = Idle
  BY <1>1, OpFacts DEF Start, Busy, CInv, ShapeOK, OpType, IsOp
<1>4. ASSUME NEW k \in {"install", "uninstall", "add", "remove"}, NEW n, NEW url, NEW only, NEW mode,
             Parse(p, k, n, url, only, mode), k = "add" => n \in Name \cup {"-s"}
      PROVE  CInv'
  BY <1>2, <1>3, <1>4, ParseStep
<1>5. ASSUME NEW a, "calm" \notin DOMAIN a, Answer(p, a) PROVE CInv'
  BY <1>2, <1>5, AnswerStep
<1>6. CASE Install(p)
  BY <1>4, <1>6 DEF Install
<1>7. CASE Uninstall(p)
  BY <1>4, <1>7 DEF Uninstall
<1>8. CASE p = "app" /\ AddRemote
  BY <1>4, <1>8 DEF AddRemote
<1>9. CASE p = "app" /\ RemoveRemoteEntry
  BY <1>4, <1>9 DEF RemoveRemoteEntry
<1>10. CASE Status(p)
  BY <1>5, <1>10, AnswerFacts DEF Status
<1>11. CASE p = "app" /\ \E n \in Name : IsConnected(n)
  BY <1>5, <1>11, AnswerFacts DEF IsConnected
<1>12. CASE p = "app" /\ ValidateHealth
  BY <1>5, <1>12, AnswerFacts DEF ValidateHealth
<1> QED  BY <1>6, <1>7, <1>8, <1>9, <1>10, <1>11, <1>12

LEMMA AtFacts ==
    ASSUME CInv, NEW p \in Proc
    PROVE  /\ \A at \in {"backup", "copy", "rename"} : At(p, at) => Writing(op[p]) /\ op[p].at = at
           /\ \A at \in {"parse", "validate"} : At(p, at) => Repairing(op[p]) /\ op[p].at = at
           /\ Busy(p) <=> op[p] # Idle
BY OpFacts DEF At, Busy, CInv, ShapeOK, OpType, IsOp

LEMMA LookForBackupStep ==
    ASSUME CInv, NEW p \in Proc, LookForBackup(p)
    PROVE  CInv'
<1> DEFINE at == IF bak = NoBackup THEN "copy" ELSE "rename"
           r == [op[p] EXCEPT !.at = at]
<1>1. Writing(op[p]) /\ op[p].at = "backup"
  BY AtFacts DEF LookForBackup
<1>2. Writing(r) /\ r.at = at /\ r.k = op[p].k /\ r.want = op[p].want /\ r.calm = op[p].calm
  <2>1. at \in {"backup", "copy", "rename"}
    OBVIOUS
  <2> HIDE DEF at
  <2> QED  BY <1>1, <2>1, StageFacts
<1>3. op' = [op EXCEPT ![p] = r]
  BY DEF LookForBackup, Stage, CInv, ShapeOK, OpType
<1>4. UNCHANGED <<file, bak, link, bins, said, own, asked, used>>
  BY DEF LookForBackup
<1>5. UsedShape' /\ used'.alone \in BOOLEAN /\ RepairHeals'
  BY <1>4 DEF CInv, ShapeOK, UsedShape, RepairHeals
<1>6. used.alone => \A q \in Proc \ {p} : op[q] = Idle
  BY <1>1, AtFacts, OpFacts DEF CInv, BackupInv, Busy
<1>7. p = "app" => RepairFacts(r)
  BY <1>1, <1>2 DEF CInv, RepairInv, RepairFacts
<1>8. IsOp(r)
  BY <1>2 DEF IsOp
<1> HIDE DEF r
<1> QED  BY <1>2, <1>3, <1>4, <1>5, <1>6, <1>7, <1>8, HandlerStep

LEMMA DiesStep ==
    ASSUME CInv, NEW p \in Proc, Dies(p)
    PROVE  CInv'
<1>1. UsedShape' /\ used'.alone \in BOOLEAN /\ (used'.alone => used.alone)
  BY CountedFacts DEF Dies
<1>2. IsOp(Idle) /\ op' = [op EXCEPT ![p] = Idle] /\ UNCHANGED <<file, bak, link, bins, said>>
  BY DEF IsOp, Dies
<1>3. RepairHeals' /\ RepairFacts(Idle)
  BY <1>2, OpFacts DEF CInv, RepairHeals, RepairFacts
<1> QED  BY <1>1, <1>2, <1>3, HandlerStep

LEMMA RepairParseStep ==
    ASSUME CInv, RepairParse
    PROVE  CInv'
<1>1. "app" \in Proc /\ At("app", "parse") /\ UNCHANGED <<file, bak, link, bins, used>>
  BY DEF RepairParse, Proc
<1>2. UsedShape' /\ used'.alone \in BOOLEAN
  BY <1>1 DEF CInv, ShapeOK, UsedShape
<1>3. used'.alone => used.alone /\ \A q \in Proc \ {"app"} : op[q] = Idle
  BY <1>1, AtFacts, OpFacts DEF CInv, BackupInv, At
<1>4. Parse("app", "repair", Nobody, Nobody, All, "yes")
  BY DEF RepairParse
<1> QED  BY <1>1, <1>2, <1>3, <1>4, ParseStep

\* The last look of the repair, and what it answers.
LEMMA RepairValidateStep ==
    ASSUME CInv, RepairValidate
    PROVE  CInv'
<1> DEFINE o == op["app"]
           c == o.calm /\ Target \in bins
           a == [k |-> "repair", out |-> "ok", health |-> Healthy, calm |-> c]
<1>1. "app" \in Proc /\ UNCHANGED <<file, bak, link, bins, used>> /\ Answer("app", a)
  BY DEF RepairValidate, Proc
<1>2. Repairing(o) /\ o.at = "validate"
  BY <1>1, AtFacts DEF RepairValidate
<1>3. c => Healthy
  BY <1>2, OpFacts DEF CInv, RepairInv, Healthy, SymlinkOk, Whole
<1>4. c \in BOOLEAN /\ Healthy \in BOOLEAN
  BY DEF Healthy
<1> HIDE DEF c
<1>5. a.calm = c /\ a.health = Healthy
  OBVIOUS
<1>6. said' = a /\ op' = [op EXCEPT !["app"] = Idle]
  BY <1>1 DEF Answer
<1>7. RepairHeals'
  BY <1>3, <1>5, <1>6 DEF RepairHeals
<1>8. UsedShape' /\ used'.alone \in BOOLEAN
  BY <1>1 DEF CInv, ShapeOK, UsedShape
<1>9. IsOp(Idle) /\ RepairFacts(Idle)
  BY OpFacts DEF IsOp, RepairFacts
<1> QED  BY <1>1, <1>6, <1>7, <1>8, <1>9, HandlerStep

-----------------------------------------------------------------------------
(* The write.                                                              *)

LEMMA CopyBackupStep ==
    ASSUME CInv, NEW p \in Proc, CopyBackup(p)
    PROVE  CInv'
<1>1. Writing(op[p]) /\ op[p].at = "copy" /\ At(p, "copy")
  BY AtFacts DEF CopyBackup
<1>2. UNCHANGED <<file, link, bins, own, asked, used>>
  BY DEF CopyBackup
<1>3. UsedShape' /\ used'.alone \in BOOLEAN
  BY <1>2 DEF CInv, ShapeOK, UsedShape
<1>4. CASE bak' = bak /\ WriteError(p)
  BY <1>2, <1>3, <1>4, AnswerFacts, AnswerStep DEF WriteError
<1>5. CASE file.err \notin {"not-found", "unreadable"} /\ bak' = file /\ Stage(p, "rename") /\ UNCHANGED said
  <2> DEFINE r == [op[p] EXCEPT !.at = "rename"]
  <2>1. Writing(r) /\ r.at = "rename" /\ r.k = op[p].k /\ r.want = op[p].want /\ r.calm = op[p].calm
    BY <1>1, StageFacts
  <2>2. op' = [op EXCEPT ![p] = r]
    BY <1>5 DEF Stage, CInv, ShapeOK, OpType
  <2>3. IsOp(r)
    BY <2>1 DEF IsOp
  <2> HIDE DEF r
  <2>4. /\ OpType' /\ op'[p] = r /\ \A q \in Proc \ {p} : op'[q] = op[q]
    BY <2>2, <2>3, OpSet DEF CInv, ShapeOK
  <2>5. IsFile(file) /\ file # NoBackup
    BY ConfigFacts DEF CInv, ShapeOK, IsFile
  <2>6. ShapeOK'
    BY <1>2, <1>5, <2>4, <2>5 DEF CInv, ShapeOK, IsFile
  <2>7. \A q \in Proc : Busy(q)' <=> Busy(q)
    BY <1>1, <2>1, <2>4, OpFacts DEF Busy
  <2>8. used.alone => bak = NoBackup /\ \A q \in Proc : Busy(q) => q = p
    BY <1>1 DEF CInv, BackupInv, At
  <2>9. BackupInv'
    <3>1. ASSUME used.alone, NEW q \in Proc, At(q, "copy")' PROVE FALSE
      <4>1. q = p
        BY <2>7, <2>8, <3>1 DEF At
      <4> QED  BY <2>1, <2>4, <3>1, <4>1 DEF At
    <3>2. used.alone => \A q, s \in Proc : Busy(q)' /\ Busy(s)' => q = s
      BY <2>7, <2>8
    <3> QED  BY <1>2, <1>5, <2>5, <3>1, <3>2 DEF BackupInv
  <2>10. BackupFromBefore'
    <3>1. used.alone /\ Readable(file) => Ours(file) \subseteq FirstOurs
      BY <2>8 DEF CInv, BackupInv
    <3> QED  BY <1>2, <1>5, <3>1 DEF BackupFromBefore, FirstOurs, Ours, Of, Readable
  <2>11. RepairInv'
    <3>1. CASE p = "app"
      BY <1>1, <1>2, <2>1, <2>4, <3>1 DEF CInv, RepairInv, Whole, Broken, Exists, Readable
    <3>2. CASE p # "app"
      BY <1>2, <2>4, <3>2 DEF CInv, RepairInv, Whole, Broken, Exists, Readable, Proc
    <3> QED  BY <3>1, <3>2
  <2>12. RepairHeals'
    BY <1>5 DEF CInv, RepairHeals
  <2> QED  BY <2>6, <2>9, <2>10, <2>11, <2>12 DEF CInv
<1> QED  BY <1>4, <1>5 DEF CopyBackup

\* What another did to the file, the link or the launchers: whoever was under
\* way is not calm any more, and p, which did it, is where it says.
LEMMA ActedStep ==
    ASSUME CInv, NEW p, NEW d, d = Disturbed(op, p),
           op' = d \/ (p \in Proc /\ \E r : IsOp(r) /\ op' = [d EXCEPT ![p] = r] /\ (r # Idle => r.at = "validate" /\ op[p] # Idle)),
           bak' = bak, IsFile(file'), UsedShape', used'.alone \in BOOLEAN, used'.alone => used.alone,
           bak = NoBackup /\ Readable(file') => Ours(file)' \subseteq FirstOurs,
           p = "app" => RepairInv', RepairHeals'
    PROVE  CInv'
<1>1. /\ d = [q \in Proc |-> d[q]]
      /\ \A q \in Proc : /\ IsOp(d[q])
                         /\ op[q] = Idle <=> d[q] = Idle
                         /\ op[q] # Idle => d[q].k = op[q].k /\ d[q].at = op[q].at
                         /\ q # p /\ d[q] # Idle => ~ d[q].calm
  BY DisturbedFacts DEF CInv, ShapeOK
<1> HIDE DEF OpType
<1>2. /\ op' = [q \in Proc |-> op'[q]]
      /\ \A q \in Proc : /\ IsOp(op'[q])
                         /\ op'[q] # Idle => op[q] # Idle /\ op'[q].at \in {op[q].at, "validate"}
                         /\ q # p => op'[q] = d[q]
  <2>1. CASE op' = d
    BY <1>1, <2>1
  <2>2. CASE op' # d
    <3>1. PICK r : p \in Proc /\ IsOp(r) /\ op' = [d EXCEPT ![p] = r] /\ (r # Idle => r.at = "validate" /\ op[p] # Idle)
      BY <2>2
    <3> QED  BY <1>1, <3>1
  <2> QED  BY <2>1, <2>2
<1>3. ShapeOK'
  BY <1>2 DEF CInv, ShapeOK, OpType, UsedShape
<1>4. \A q \in Proc : (Busy(q)' <=> op'[q] # Idle) /\ (Busy(q) <=> op[q] # Idle)
  <2>1. \A o : IsOp(o) => (o.k # "idle" <=> o # Idle)
    BY OpFacts DEF IsOp
  <2> QED  BY <2>1, <1>2 DEF Busy, CInv, ShapeOK, OpType
<1>5. BackupInv'
  <2>1. \A q \in Proc : Busy(q)' => Busy(q)
    BY <1>2, <1>4
  <2>2. \A q \in Proc, at \in {"copy", "rename"} : At(q, at)' => At(q, at)
    BY <1>2, <1>4 DEF At
  <2> QED  BY <2>1, <2>2 DEF CInv, BackupInv
<1>6. BackupFromBefore'
  BY DEF CInv, BackupFromBefore, Ours, Of, Readable
<1>7. RepairInv'
  <2>1. CASE p # "app"
    <3>1. op'["app"] = Idle \/ ~ op'["app"].calm
      BY <1>1, <1>2, <2>1 DEF Proc
    <3> QED  BY <3>1, OpFacts DEF RepairInv
  <2> QED  BY <2>1
<1> QED  BY <1>3, <1>5, <1>6, <1>7 DEF CInv

LEMMA RenameStep ==
    ASSUME CInv, NEW p \in Proc, Rename(p)
    PROVE  CInv'
<1> DEFINE d == Disturbed(op, p)
           v == [k |-> "repair", at |-> "validate", calm |-> op[p].calm]
<1>1. Writing(op[p]) /\ op[p].at = "rename" /\ At(p, "rename")
  BY AtFacts DEF Rename
<1>2. UNCHANGED <<bak, link, bins>>
  BY DEF Rename
<1>3. CASE WriteError(p) /\ Counted(0, 0, IF Missing THEN 0 ELSE 1, TRUE) /\ UNCHANGED <<file, asked>>
  <2>1. UsedShape' /\ used'.alone \in BOOLEAN /\ (used'.alone => used.alone)
    BY <1>3, CountedFacts
  <2> QED  BY <1>2, <1>3, <2>1, AnswerFacts, AnswerStep DEF WriteError
<1>4. CASE /\ file' = op[p].want /\ used' = used
           /\ \/ op[p].k = "repair" /\ op' = [d EXCEPT ![p] = v] /\ said' = said
              \/ op[p].k # "repair" /\ op' = [d EXCEPT ![p] = Idle] /\ said' = Reply(op[p].k, "wrote")
  <2>1. IsConfig(op[p].want) /\ op[p].calm \in BOOLEAN /\ op[p] # Idle
    BY <1>1, OpFacts DEF Writing
  <2>2. IsFile(file') /\ bak # NoBackup
    BY <1>1, <1>4, <2>1 DEF IsFile, CInv, BackupInv
  <2>3. UsedShape' /\ used'.alone \in BOOLEAN /\ (used'.alone => used.alone)
    BY <1>4 DEF CInv, ShapeOK, UsedShape
  <2>4. v.k = "repair" /\ v.at = "validate" /\ v.calm = op[p].calm /\ Repairing(v)
    BY <2>1 DEF Repairing
  <2> HIDE DEF v
  <2>5. DOMAIN d = Proc
    BY DEF Disturbed
  <2>6. RepairHeals'
    BY <1>4, AnswerFacts DEF CInv, RepairHeals
  <2>7. \E r : IsOp(r) /\ op' = [d EXCEPT ![p] = r] /\ (r # Idle => r.at = "validate" /\ op[p] # Idle)
    BY <1>4, <2>1, <2>4 DEF IsOp
  <2>8. p = "app" => RepairInv'
    <3> SUFFICES ASSUME p = "app" PROVE RepairInv'
      OBVIOUS
    <3>1. CASE op[p].k = "repair"
      <4>1. op'["app"] = v
        BY <1>4, <2>5, <3>1
      <4>2. op[p].calm => link = Target /\ (Target \in bins => Whole(op[p].want))
        BY <1>1, <3>1 DEF CInv, RepairInv
      <4>3. v.calm => link' = Target /\ (Target \in bins' => Whole(file)')
        BY <1>2, <1>4, <2>4, <4>2 DEF Whole, Broken, Exists, Readable
      <4> QED  BY <2>4, <4>1, <4>3 DEF RepairInv
    <3>2. CASE op[p].k # "repair"
      BY <1>4, <2>5, <3>2, OpFacts DEF RepairInv
    <3> QED  BY <3>1, <3>2
  <2> HIDE DEF d
  <2> QED  BY <1>2, <2>2, <2>3, <2>6, <2>7, <2>8, ActedStep DEF d
<1> QED  BY <1>3, <1>4 DEF Rename

-----------------------------------------------------------------------------
(* The link, and the others.                                               *)

LEMMA BootstrapStep ==
    ASSUME CInv, BootstrapStableSymlink
    PROVE  CInv'
<1>1. /\ UNCHANGED <<file, bak, bins, said>> /\ op' = Disturbed(op, "app")
      /\ \E f : Counted(0, 1, f, TRUE)
  BY DEF BootstrapStableSymlink
<1>2. UsedShape' /\ used'.alone \in BOOLEAN /\ (used'.alone => used.alone)
  BY <1>1, CountedFacts
<1>3. op["app"] = Idle
  BY AtFacts DEF BootstrapStableSymlink, Proc
<1>4. op'["app"] = Idle
  BY <1>1, <1>3, DisturbedFacts DEF CInv, ShapeOK, Proc
<1>5. RepairInv' /\ RepairHeals'
  BY <1>1, <1>4, OpFacts DEF RepairInv, RepairHeals, CInv
<1>6. IsFile(file') /\ (bak = NoBackup /\ Readable(file') => Ours(file)' \subseteq FirstOurs)
  BY <1>1 DEF CInv, ShapeOK, BackupInv, Ours, Of
<1> QED  BY <1>1, <1>2, <1>5, <1>6, ActedStep

LEMMA RepairStep ==
    ASSUME CInv, Repair
    PROVE  CInv'
<1> DEFINE r == [k |-> "repair", at |-> "parse", calm |-> TRUE]
           a == Reply("repair", "symlink")
<1>1. "app" \in Proc /\ UNCHANGED <<file, bak, bins>>
  BY DEF Repair, Proc
<1>2. op["app"] = Idle
  BY <1>1, AtFacts DEF Repair
<1>3. PICK e \in EnsureSymlink :
         /\ link' = e.link /\ Counted(1, 0, e.fault, ~ Busy("cli"))
         /\ IF e.ok THEN op' = [op EXCEPT !["app"] = r] /\ said' = said ELSE Answer("app", a)
  BY DEF Repair
<1>4. e.ok => e.link = Target
  BY DEF EnsureSymlink
<1>5. ~ Busy("cli") => op["cli"] = Idle
  BY AtFacts DEF Proc
<1>6. /\ UsedShape' /\ used'.alone \in BOOLEAN
      /\ used'.alone => used.alone /\ \A q \in Proc \ {"app"} : op[q] = Idle
  <2>1. UsedShape' /\ used'.alone \in BOOLEAN /\ (used'.alone <=> used.alone /\ ~ Busy("cli"))
    BY <1>3, CountedFacts DEF Busy
  <2> QED  BY <1>5, <2>1 DEF Proc
<1>7. CASE e.ok
  <2>1. r.k = "repair" /\ r.at = "parse" /\ Repairing(r) /\ r # Idle
    BY DEF Repairing, Idle
  <2>2. op' = [op EXCEPT !["app"] = r] /\ said' = said /\ link' = Target
    BY <1>3, <1>4, <1>7
  <2>3. RepairHeals'
    BY <2>2 DEF CInv, RepairHeals
  <2>4. link' = link => RepairFacts(r)
    BY <2>1, <2>2 DEF RepairFacts
  <2>5. IsOp(r) /\ r.at # "rename" /\ r.at # "copy"
    BY <2>1 DEF IsOp
  <2> HIDE DEF r
  <2> QED  BY <1>1, <1>6, <2>1, <2>2, <2>3, <2>4, <2>5, HandlerStep
<1>8. CASE ~ e.ok
  <2>1. Answer("app", a) /\ "calm" \notin DOMAIN a
    BY <1>3, <1>8, AnswerFacts
  <2> HIDE DEF a
  <2>2. op' = [op EXCEPT !["app"] = Idle] /\ IsOp(Idle) /\ RepairFacts(Idle)
    BY <2>1, OpFacts DEF Answer, IsOp, RepairFacts
  <2>3. RepairHeals'
    BY <2>1 DEF Answer, RepairHeals
  <2> QED  BY <1>1, <1>6, <2>2, <2>3, HandlerStep
<1> QED  BY <1>7, <1>8

LEMMA OthersStep ==
    ASSUME CInv, Others
    PROVE  CInv'
<1>1. /\ UNCHANGED <<bak, said>> /\ op' = Disturbed(op, Nobody) /\ Counted(0, 1, 0, TRUE)
  BY DEF Others, UserWrites, ClaudeDrops, FileBreaks, UserRestores, LinkReplaced, AppMoves, Edit
<1>2. UsedShape' /\ used'.alone \in BOOLEAN /\ (used'.alone => used.alone)
  BY <1>1, CountedFacts
<1>3. Nobody # "app" /\ RepairHeals'
  BY <1>1 DEF Nobody, CInv, RepairHeals
<1>4. Readable(file) => IsConfig(file)
  BY ConfigFacts DEF CInv, ShapeOK, IsFile
<1>5. bak = NoBackup /\ Readable(file) => Ours(file) \subseteq FirstOurs
  BY DEF CInv, BackupInv
<1>6. \A e : Kind(e) = "already-wrapped" => IsAlreadyWrapped(e)
  BY DEF Kind
<1>7. ASSUME NEW n \in Name, NEW e \in Given, UserWrites(n, e)
      PROVE  IsFile(file') /\ (bak = NoBackup /\ Readable(file') => Ours(file)' \subseteq FirstOurs)
  <2> DEFINE m == [s \in DOMAIN file.mcp \union {n} |-> IF s = n THEN e ELSE file.mcp[s]]
  <2>1. IsConfig(file) /\ file' = [file EXCEPT !.mcp = m] /\ Readable(file)
    BY <1>4, <1>7 DEF UserWrites
  <2>2. DOMAIN m \subseteq Name /\ \A s \in DOMAIN m : IsEntry(m[s])
    BY <2>1, OthersAssumption DEF IsConfig
  <2>3. IsConfig(file') /\ file'.mcp = m
    BY <2>1, <2>2, ServersChanged
  <2>4. Ours(file)' \subseteq Ours(file)
    BY <2>3, <1>6, OthersAssumption DEF Ours, Of
  <2> QED  BY <1>5, <2>1, <2>3, <2>4 DEF IsFile
<1>8. CASE ClaudeDrops
  <2> DEFINE m == [s \in DOMAIN file.mcp \ Of(file, "no-command") |-> file.mcp[s]]
  <2>1. IsConfig(file) /\ file' = [file EXCEPT !.mcp = m] /\ Readable(file)
    BY <1>4, <1>8 DEF ClaudeDrops
  <2>2. DOMAIN m \subseteq Name /\ \A s \in DOMAIN m : IsEntry(m[s])
    BY <2>1 DEF IsConfig
  <2>3. IsConfig(file') /\ file'.mcp = m
    BY <2>1, <2>2, ServersChanged
  <2>4. Ours(file)' \subseteq Ours(file)
    BY <2>3 DEF Ours, Of
  <2>5. IsFile(file') /\ (bak = NoBackup /\ Readable(file') => Ours(file)' \subseteq FirstOurs)
    BY <1>5, <2>1, <2>3, <2>4 DEF IsFile
  <2> QED  BY <1>1, <1>2, <1>3, <2>5, ActedStep
<1>9. CASE FileBreaks
  <2>1. IsFile(file') /\ ~ Readable(file')
    BY <1>9, ConfigFacts DEF FileBreaks, IsFile
  <2> QED  BY <1>1, <1>2, <1>3, <2>1, ActedStep
<1>10. CASE UserRestores
  <2>1. IsFile(file') /\ bak # NoBackup
    BY <1>10 DEF UserRestores, CInv, ShapeOK
  <2> QED  BY <1>1, <1>2, <1>3, <2>1, ActedStep
<1>11. CASE file' = file
  <2>1. IsFile(file') /\ (bak = NoBackup /\ Readable(file') => Ours(file)' \subseteq FirstOurs)
    BY <1>5, <1>11 DEF CInv, ShapeOK, Ours, Of
  <2> QED  BY <1>1, <1>2, <1>3, <2>1, ActedStep
<1>12. ASSUME NEW n \in Name, NEW e \in Given, UserWrites(n, e) PROVE CInv'
  BY <1>1, <1>2, <1>3, <1>7, <1>12, ActedStep
<1> QED  BY <1>8, <1>9, <1>10, <1>11, <1>12 DEF Others, AppMoves, LinkReplaced

-----------------------------------------------------------------------------
(* The invariant, and what it shows.                                       *)

LEMMA ConfigInit == Init => CInv
<1> SUFFICES ASSUME Init PROVE CInv
  OBVIOUS
<1> DEFINE u == [ops |-> 0, edits |-> 0, faults |-> 0, alone |-> TRUE]
<1>1. PICK i \in InitialFiles : file = i.file
  BY DEF Init
<1>2. IsFile(file) /\ bak = NoBackup /\ used = u
  BY <1>1, OthersAssumption DEF Init, IsFile
<1>3. op = [p \in Proc |-> Idle] /\ said = NoAnswer
  BY DEF Init
<1>4. \A p \in Proc : op[p] = Idle /\ ~ Busy(p)
  BY <1>3, OpFacts DEF Busy
<1>5. UsedShape /\ used.alone \in BOOLEAN
  BY <1>2 DEF UsedShape
<1>6. ShapeOK
  BY <1>2, <1>3, <1>5 DEF ShapeOK, OpType, IsOp, UsedShape
<1>7. Readable(file) => Ours(file) \subseteq FirstOurs
  BY <1>1, <1>2, ConfigFacts DEF FirstOurs, Ours, Of, IsFile, IsConfig
<1>8. BackupInv /\ BackupFromBefore
  BY <1>2, <1>4, <1>7, ConfigFacts DEF BackupInv, At, BackupFromBefore
<1>9. RepairInv /\ RepairHeals
  BY <1>3, <1>4, OpFacts, AnswerFacts DEF RepairInv, RepairHeals, Proc
<1> QED  BY <1>6, <1>8, <1>9 DEF CInv

LEMMA ConfigStep == CInv /\ [Next]_vars => CInv'
<1> SUFFICES ASSUME CInv, [Next]_vars PROVE CInv'
  OBVIOUS
<1>1. ASSUME NEW p \in Proc, Install(p) \/ Uninstall(p) \/ Status(p) \/ WriteAtomic(p) \/ Dies(p) PROVE CInv'
  BY <1>1, BeginStep, LookForBackupStep, CopyBackupStep, RenameStep, DiesStep DEF WriteAtomic
<1>2. CASE AddRemote \/ RemoveRemoteEntry \/ (\E n \in Name : IsConnected(n)) \/ ValidateHealth
  BY <1>2, BeginStep DEF Proc
<1>3. CASE BootstrapStableSymlink \/ Repair \/ RepairParse \/ RepairValidate \/ Others
  BY <1>3, BootstrapStep, RepairStep, RepairParseStep, RepairValidateStep, OthersStep
<1>4. CASE UNCHANGED vars
  BY <1>4 DEF vars, CInv, ShapeOK, OpType, BackupInv, FirstOurs, At, Busy, Ours, Of, Readable, BackupFromBefore,
             RepairInv, Whole, Broken, Exists, RepairHeals
<1> QED  BY <1>1, <1>2, <1>3, <1>4 DEF Next

\* Whatever installs, additions, repairs, edits of others, deaths and failed
\* writes follow, the backup writeAtomic keeps holds no entry of ours that the
\* first file had not, as long as no two handlers were under way at once.
THEOREM BackupFromBeforeHolds == Spec => []BackupFromBefore
<1>1. CInv => BackupFromBefore
  BY DEF CInv
<1> QED  BY <1>1, ConfigInit, ConfigStep, PTL DEF Spec

\* repair() that answers ok, with nobody else acting under it and the launcher
\* in the bundle, has left the link, the file and its commands sound.
THEOREM RepairHealsHolds == Spec => []RepairHeals
<1>1. CInv => RepairHeals
  BY DEF CInv
<1> QED  BY <1>1, ConfigInit, ConfigStep, PTL DEF Spec

-----------------------------------------------------------------------------
(* One entry of .mcp.json.                                                 *)

LEMMA ArgsFacts ==
    /\ \A S, s : s \in Seq(S) => s \in Seq({s[i] : i \in DOMAIN s})
    /\ \A S, s : s \in Seq({s[i] : i \in DOMAIN s}) => s \in Seq(S \cup {s[i] : i \in DOMAIN s})
<1>1. ASSUME NEW S, NEW s \in Seq(S) PROVE s \in Seq({s[i] : i \in DOMAIN s})
  <2>1. Len(s) \in Nat /\ DOMAIN s = 1..Len(s) /\ s = [i \in 1..Len(s) |-> s[i]]
    OBVIOUS
  <2>2. s \in [1..Len(s) -> {s[i] : i \in DOMAIN s}]
    BY <2>1
  <2> QED  BY <2>1, <2>2
<1>2. ASSUME NEW S, NEW s, s \in Seq({s[i] : i \in DOMAIN s}) PROVE s \in Seq(S \cup {s[i] : i \in DOMAIN s})
  <2> DEFINE R == {s[i] : i \in DOMAIN s}
  <2> HIDE DEF R
  <2>1. s \in Seq(R)
    BY <1>2 DEF R
  <2>2. s \in Seq(S \cup R)
    BY <2>1
  <2> QED  BY <2>2 DEF R
<1> QED  BY <1>1, <1>2

LEMMA ServerOf ==
    ASSUME NEW S, NEW s \in Seq(S), NEW t, NEW c, NEW r
    PROVE  IsServer(Entry(t, c, s, r))
<1> DEFINE e == Entry(t, c, s, r)
<1>1. e.type = t /\ e.cmd = c /\ e.args = s /\ e.rest = r
  BY DEF Entry
<1>2. s \in Seq({s[i] : i \in DOMAIN s})
  BY ArgsFacts
<1> HIDE DEF e
<1>3. e.args \in Seq({e.args[i] : i \in DOMAIN e.args})
  BY <1>1, <1>2
<1>4. e = Entry(e.type, e.cmd, e.args, e.rest)
  BY <1>1 DEF e
<1> QED  BY <1>3, <1>4 DEF IsServer, e

LEMMA TokenFacts ==
    ASSUME NEW e
    PROVE  /\ CmdToken(e) # NoCmd
           /\ e.cmd # NoCmd => CmdToken(e) = e.cmd
           /\ e.cmd = NoCmd => CmdToken(e) \notin Proxies /\ e.cmd \notin Proxies
<1>1. EmptyCmd # NoCmd
  BY DEF NoCmd, EmptyCmd
<1> QED  BY <1>1, McpAssumption DEF CmdToken

LEMMA CommandChanged ==
    ASSUME NEW e, IsServer(e), NEW cmd
    PROVE  LET f == [e EXCEPT !.cmd = cmd] IN
           /\ IsServer(f) /\ f.cmd = cmd /\ f.args = e.args /\ f.type = e.type /\ f.rest = e.rest
           /\ f = Entry(e.type, cmd, e.args, e.rest)
  BY DEF IsServer, Entry

\* A local wrap of an entry unwraps to it.
LEMMA WrapRoundTrip ==
    ASSUME NEW e, IsServer(e), NEW n
    PROVE  LET w == WrapEntry(n, e, Home) IN
           /\ IsServer(w) /\ IsAlreadyWrapped(w) /\ ~ IsHttp(w)
           /\ UnwrapEntry(w) = [e EXCEPT !.cmd = CmdToken(e)]
<1> DEFINE w == WrapEntry(n, e, Home)
           h == <<"stdio", "--wrap", CmdToken(e), "--name", n, "--">>
           t == <<"--wrap", CmdToken(e), "--name", n, "--">>
           S == {"stdio", "--wrap", CmdToken(e), "--name", n, "--"} \cup {e.args[i] : i \in DOMAIN e.args}
<1> HIDE DEF S
<1>1. e.args \in Seq(S) /\ Home \in Proxies
  BY ArgsFacts, McpAssumption DEF IsServer, S
<1>2. /\ h \in Seq(S) /\ Len(h) = 6 /\ h[1] = "stdio"
      /\ t \in Seq(S) /\ Len(t) = 5
      /\ \A i \in 1..5 : h[i + 1] = t[i]
  <2>1. "stdio" \in S /\ "--wrap" \in S /\ CmdToken(e) \in S /\ "--name" \in S /\ n \in S /\ "--" \in S
    BY DEF S
  <2>2. h \in Seq(S) /\ Len(h) = 6 /\ h[1] = "stdio"
    BY <1>1, <2>1
  <2>3. t \in Seq(S) /\ Len(t) = 5
    BY <1>1, <2>1
  <2>4. ASSUME NEW i \in 1..5 PROVE h[i + 1] = t[i]
    <3>1. i = 1 \/ i = 2 \/ i = 3 \/ i = 4 \/ i = 5
      OBVIOUS
    <3> QED  BY <3>1
  <2> QED  BY <2>2, <2>3, <2>4
<1>3. h \o e.args \in Seq(S) /\ Len(h \o e.args) = 6 + Len(e.args)
  BY <1>1, <1>2
<1>4. w = Entry(e.type, Home, h \o e.args, e.rest) /\ w.args = h \o e.args /\ w.cmd = Home /\ w.type = e.type /\ w.rest = e.rest
  BY DEF WrapEntry, Entry
<1>5. IsServer(w)
  BY <1>3, <1>4, ServerOf
<1>6. w.args # <<>> /\ w.args[1] = "stdio"
  <2>1. (h \o e.args)[1] = h[1] /\ h \o e.args # <<>>
    BY <1>1, <1>2, <1>3
  <2> QED  BY <1>2, <1>4, <2>1
<1>7. ~ IsHttp(w)
  BY <1>6 DEF IsHttp
<1>8. Inner(w.args) = t \o e.args
  <2>1. Inner(w.args) = Tail(h \o e.args)
    BY <1>4, <1>6 DEF Inner
  <2>2. Tail(h \o e.args) \in Seq(S) /\ t \o e.args \in Seq(S)
    BY <1>1, <1>2, <1>3, <1>6, <1>4
  <2>3. Len(Tail(h \o e.args)) = 5 + Len(e.args) /\ Len(t \o e.args) = 5 + Len(e.args)
    BY <1>1, <1>2, <1>3
  <2>4. ASSUME NEW i \in 1..5 + Len(e.args) PROVE Tail(h \o e.args)[i] = (t \o e.args)[i]
    <3>1. Tail(h \o e.args)[i] = (h \o e.args)[i + 1]
      BY <1>1, <1>2, <1>3
    <3>2. CASE i <= 5
      BY <1>1, <1>2, <3>1, <3>2
    <3>3. CASE i > 5
      BY <1>1, <1>2, <3>1, <3>3
    <3> QED  BY <3>2, <3>3
  <2> QED  BY <2>1, <2>2, <2>3, <2>4, SeqEqual
<1>9. LET a == t \o e.args IN Len(a) >= 5 /\ a[1] = "--wrap" /\ a[2] = CmdToken(e) /\ a[3] = "--name" /\ a[5] = "--"
  BY <1>1, <1>2
<1>10. IsAlreadyWrapped(w)
  BY <1>1, <1>4, <1>7, <1>8, <1>9 DEF IsAlreadyWrapped, Contract
<1>11. SubSeq(t \o e.args, 6, Len(t \o e.args)) = e.args
  BY <1>1, <1>2
<1>12. UnwrapEntry(w) = Entry(e.type, CmdToken(e), e.args, e.rest)
  BY <1>4, <1>8, <1>9, <1>11 DEF UnwrapEntry
<1> QED  BY <1>1, <1>5, <1>7, <1>10, <1>12, CommandChanged

LEMMA UnwrapShape ==
    ASSUME NEW e, IsServer(e), IsAlreadyWrapped(e), ~ IsHttp(e)
    PROVE  IsServer(UnwrapEntry(e))
<1> DEFINE S == {e.args[i] : i \in DOMAIN e.args}
           a == Inner(e.args)
<1> HIDE DEF S
<1>1. e.args \in Seq(S) /\ Len(a) >= 5
  BY DEF IsServer, IsAlreadyWrapped, Contract, S
<1>2. a \in Seq(S)
  <2>1. CASE e.args # <<>>
    BY <1>1, <2>1, HeadTailProperties DEF Inner
  <2>2. CASE e.args = <<>>
    BY <1>1, <2>2 DEF Inner
  <2> QED  BY <2>1, <2>2
<1>3. SubSeq(a, 6, Len(a)) \in Seq(S)
  BY <1>1, <1>2
<1> QED  BY <1>3, ServerOf DEF UnwrapEntry

\* Whatever an action does to an entry, it is the same but for a wrap.
LEMMA ActionKeeps ==
    ASSUME NEW e, IsServer(e), WrappedOnce(e), NEW n, NEW what
    PROVE  LET f == ApplyAction(what, n, e) IN IsServer(f) /\ WrappedOnce(f) /\ Plain(f) = Plain(e)
<1> DEFINE f == ApplyAction(what, n, e)
<1>0. Home \in Proxies
  BY McpAssumption
<1>1. CASE what = "wrap" /\ ~ IsAlreadyWrapped(e)
  <2> DEFINE u == [e EXCEPT !.cmd = CmdToken(e)]
  <2>1. f = WrapEntry(n, e, Home)
    BY <1>1 DEF ApplyAction
  <2>2. IsServer(f) /\ IsAlreadyWrapped(f) /\ ~ IsHttp(f) /\ UnwrapEntry(f) = u
    BY <2>1, WrapRoundTrip
  <2>3. u.cmd # NoCmd /\ u.args = e.args /\ u.cmd = CmdToken(e)
    BY TokenFacts, CommandChanged
  <2>4. ~ IsAlreadyWrapped(u)
    BY <1>1, <2>3, TokenFacts DEF IsAlreadyWrapped, IsHttp
  <2> QED  BY <1>1, <2>2, <2>3, <2>4 DEF WrappedOnce, Plain
<1>2. CASE what = "unwrap" /\ IsAlreadyWrapped(e) /\ ~ IsHttpWrapped(e)
  <2>1. f = UnwrapEntry(e)
    BY <1>2 DEF ApplyAction
  <2>2. ~ IsHttp(e)
    BY <1>2 DEF IsHttpWrapped, IsAlreadyWrapped
  <2>3. IsServer(f) /\ ~ IsAlreadyWrapped(f) /\ f.cmd # NoCmd
    BY <1>2, <2>1, <2>2, UnwrapShape DEF WrappedOnce
  <2>4. [f EXCEPT !.cmd = CmdToken(f)] = f
    BY <2>3 DEF CmdToken, IsServer, Entry
  <2> QED  BY <1>2, <2>1, <2>2, <2>3, <2>4 DEF WrappedOnce, Plain
<1>3. CASE what = "rehome" /\ IsAlreadyWrapped(e)
  <2>1. f = [e EXCEPT !.cmd = Home]
    BY <1>3 DEF ApplyAction
  <2>2. IsServer(f) /\ f.cmd = Home /\ f.args = e.args /\ f.type = e.type /\ f.rest = e.rest
    BY <1>0, <2>1, CommandChanged
  <2>3. IsAlreadyWrapped(f) /\ (IsHttp(f) <=> IsHttp(e)) /\ UnwrapEntry(f) = UnwrapEntry(e)
    BY <1>0, <1>3, <2>2 DEF IsAlreadyWrapped, IsHttp, UnwrapEntry
  <2>4. [f EXCEPT !.cmd = Home] = f
    BY <2>2 DEF IsServer, Entry
  <2> QED  BY <1>3, <2>1, <2>2, <2>3, <2>4 DEF WrappedOnce, Plain
<1>4. CASE f = e
  BY <1>4
<1> QED  BY <1>1, <1>2, <1>3, <1>4 DEF ApplyAction

-----------------------------------------------------------------------------
(* The inductive invariant of .mcp.json.                                   *)

Stages == {"stat", "read", "restat", "rename", "verify"}

IsUpdate(u) ==
    /\ u = [at |-> u.at, intent |-> u.intent, planned |-> u.planned, gating |-> u.gating, plan |-> u.plan, round |-> u.round,
            earlier |-> u.earlier, renamed |-> u.renamed, fresh |-> u.fresh, read |-> u.read, want |-> u.want]
    /\ u.at \in Stages

DiskShape ==
    /\ disk = [config |-> disk.config, ver |-> disk.ver] /\ disk.ver \in Nat \ {0} /\ DOMAIN landed = 1..disk.ver
    /\ wrote = [n \in Server |-> wrote[n]] /\ \A n \in DOMAIN FirstServers : FirstServers[n] \in wrote[n]
    /\ upd = NoUpdate \/ IsUpdate(upd)

\* A file of which every server is, but for a wrap, what someone else wrote.
Sound(c, w) ==
    /\ c = Config(c.mcp, c.rest) /\ DOMAIN c.mcp \subseteq Server
    /\ \A n \in DOMAIN c.mcp : IsServer(c.mcp[n]) /\ WrappedOnce(c.mcp[n]) /\ Plain(c.mcp[n]) \in Plainly(w[n])

EntriesInv ==
    /\ disk.config \in Failures \/ Sound(disk.config, wrote)
    /\ upd.at \in {"restat", "rename", "verify"} => Sound(upd.want, wrote)

\* The first stat is not of a later state than the read, so a second one that
\* answers the same says that nothing came after the read either.
WindowInv ==
    /\ lost \subseteq DOMAIN landed /\ \A v \in lost : landed[v] = "rename"
    /\ upd.at = "read" => upd.fresh \in 0..disk.ver
    /\ upd.at = "restat" => upd.fresh \in 1..disk.ver /\ upd.read \in upd.fresh..disk.ver
    /\ upd.at = "rename" => disk.ver = upd.read \/ landed[disk.ver] = "rename"

SInv == DiskShape /\ EntriesInv /\ WindowInv

LEMMA FileFacts ==
    /\ \A c, w : Sound(c, w) => Readable(c) /\ c \notin Failures
    /\ \A f \in Failures : ~ Readable(f)
<1>1. ASSUME NEW c, NEW w, Sound(c, w) PROVE c.err = Nobody
  BY <1>1 DEF Sound, Config
<1>2. \A f \in Failures : f.err \in {"not-found", "unreadable", "invalid-json", "unexpected-shape"}
  BY DEF Failures, Failure
<1> QED  BY <1>1, <1>2 DEF Readable, Nobody

LEMMA UpdateFacts ==
    /\ NoUpdate.at = "idle"
    /\ \A u : IsUpdate(u) => u.at # "idle" /\ u.at \in Stages
  BY DEF NoUpdate, IsUpdate, Stages

\* More written leaves a file sound.
LEMMA SoundGrows ==
    ASSUME NEW c, NEW w, NEW v, Sound(c, w), \A n \in Server : w[n] \subseteq v[n]
    PROVE  Sound(c, v)
  BY DEF Sound, Plainly

LEMMA PlanKeeps ==
    ASSUME NEW c, NEW w, Sound(c, w), NEW plan
    PROVE  Sound(ApplyPlan(c, plan), w)
<1> DEFINE m == [n \in DOMAIN c.mcp |-> IF n \in DOMAIN plan THEN ApplyAction(plan[n].action, n, c.mcp[n]) ELSE c.mcp[n]]
<1>1. ApplyPlan(c, plan) = Config(m, c.rest)
  BY DEF ApplyPlan, Sound, Config
<1>2. Config(m, c.rest).mcp = m /\ Config(m, c.rest).rest = c.rest
  BY DEF Config
<1>3. ASSUME NEW n \in DOMAIN c.mcp PROVE IsServer(m[n]) /\ WrappedOnce(m[n]) /\ Plain(m[n]) = Plain(c.mcp[n])
  <2>1. IsServer(c.mcp[n]) /\ WrappedOnce(c.mcp[n])
    BY DEF Sound
  <2> QED  BY <2>1, ActionKeeps
<1>4. DOMAIN m = DOMAIN c.mcp
  OBVIOUS
<1> HIDE DEF m
<1> QED  BY <1>1, <1>2, <1>3, <1>4 DEF Sound

LEMMA WantedKeeps ==
    ASSUME NEW c, NEW w, Sound(c, w)
    PROVE  Sound(Wanted(c), w)
  BY PlanKeeps DEF Wanted

-----------------------------------------------------------------------------
(* An update.                                                              *)

\* A step that changes nothing but the update, and its answer.
LEMMA UpdStep ==
    ASSUME SInv, UNCHANGED <<disk, lost, landed, wrote>>, upd' = NoUpdate \/ IsUpdate(upd'),
           upd'.at \in {"restat", "rename", "verify"} => Sound(upd'.want, wrote),
           upd'.at = "read" => upd'.fresh \in 0..disk.ver,
           upd'.at = "restat" => upd'.fresh \in 1..disk.ver /\ upd'.read \in upd'.fresh..disk.ver,
           upd'.at = "rename" => disk.ver = upd'.read \/ landed[disk.ver] = "rename"
    PROVE  SInv'
  BY DEF SInv, DiskShape, EntriesInv, WindowInv

LEMMA EndsStep ==
    ASSUME SInv, UNCHANGED <<disk, lost, landed, wrote>>, upd' = NoUpdate
    PROVE  SInv'
  BY UpdStep, UpdateFacts

LEMMA StartUpdateStep == SInv /\ StartUpdate => SInv'
<1> SUFFICES ASSUME SInv, StartUpdate PROVE SInv'
  OBVIOUS
<1>1. IsUpdate(upd') /\ upd'.at = "stat"
  BY DEF StartUpdate, IsUpdate, Stages
<1>2. UNCHANGED <<disk, lost, landed, wrote>>
  BY DEF StartUpdate
<1> QED  BY <1>1, <1>2, UpdStep

LEMMA ConflictStep ==
    ASSUME SInv, Conflict, upd # NoUpdate, UNCHANGED <<disk, lost, landed, wrote>>
    PROVE  SInv'
<1>1. CASE upd' = NoUpdate
  BY <1>1, EndsStep
<1>2. CASE upd' = [upd EXCEPT !.at = "stat", !.round = 2, !.earlier = Writes, !.renamed = FALSE,
                             !.fresh = 0, !.read = 0, !.want = NotRead]
  <2>1. IsUpdate(upd)
    BY DEF SInv, DiskShape
  <2>2. IsUpdate(upd') /\ upd'.at = "stat"
    BY <1>2, <2>1 DEF IsUpdate, Stages
  <2> QED  BY <2>2, UpdStep
<1> QED  BY <1>1, <1>2 DEF Conflict, Ends

LEMMA StatFirstStep == SInv /\ StatFirst => SInv'
<1> SUFFICES ASSUME SInv, StatFirst PROVE SInv'
  OBVIOUS
<1>1. IsUpdate(upd)
  BY UpdateFacts DEF SInv, DiskShape, StatFirst
<1>2. IsUpdate(upd') /\ upd'.at = "read" /\ upd'.fresh \in {0, disk.ver}
  BY <1>1 DEF StatFirst, IsUpdate, Stages
<1>3. UNCHANGED <<disk, lost, landed, wrote>> /\ disk.ver \in Nat
  BY DEF StatFirst, Rest, SInv, DiskShape
<1> QED  BY <1>2, <1>3, UpdStep

LEMMA ReadFileStep == SInv /\ ReadFile => SInv'
<1> SUFFICES ASSUME SInv, ReadFile PROVE SInv'
  OBVIOUS
<1>1. UNCHANGED <<disk, lost, landed, wrote>> /\ upd.at = "read"
  BY DEF ReadFile, Rest
<1>2. CASE upd' = NoUpdate
  BY <1>1, <1>2, EndsStep
<1>3. CASE /\ Readable(disk.config) /\ upd.fresh # 0
           /\ upd' = [upd EXCEPT !.at = "restat", !.read = disk.ver, !.want = Wanted(disk.config)]
  <2>1. IsUpdate(upd)
    BY <1>1, UpdateFacts DEF SInv, DiskShape
  <2>2. IsUpdate(upd') /\ upd'.at = "restat" /\ upd'.read = disk.ver /\ upd'.want = Wanted(disk.config) /\ upd'.fresh = upd.fresh
    BY <1>3, <2>1 DEF IsUpdate, Stages
  <2>3. Sound(upd'.want, wrote)
    BY <1>3, <2>2, FileFacts, WantedKeeps DEF SInv, EntriesInv
  <2>4. disk.ver \in Nat /\ upd.fresh \in 1..disk.ver
    BY <1>1, <1>3 DEF SInv, DiskShape, WindowInv
  <2> QED  BY <1>1, <2>2, <2>3, <2>4, UpdStep
<1> QED  BY <1>1, <1>2, <1>3 DEF ReadFile, Ends

LEMMA RestatStep == SInv /\ Restat => SInv'
<1> SUFFICES ASSUME SInv, Restat PROVE SInv'
  OBVIOUS
<1>1. UNCHANGED <<disk, lost, landed, wrote>> /\ upd.at = "restat" /\ IsUpdate(upd)
  BY UpdateFacts DEF Restat, Rest, SInv, DiskShape
<1>2. CASE Conflict
  BY <1>1, <1>2, ConflictStep, UpdateFacts
<1>3. CASE disk.ver = upd.fresh /\ upd' = [upd EXCEPT !.at = "rename"]
  <2>1. IsUpdate(upd') /\ upd'.at = "rename" /\ upd'.read = upd.read /\ upd'.want = upd.want
    BY <1>1, <1>3 DEF IsUpdate, Stages
  <2>2. Sound(upd.want, wrote)
    BY <1>1 DEF SInv, EntriesInv
  <2>3. disk.ver = upd.read
    BY <1>1, <1>3 DEF SInv, DiskShape, WindowInv
  <2> QED  BY <1>1, <2>1, <2>2, <2>3, UpdStep
<1> QED  BY <1>1, <1>2, <1>3 DEF Restat

LEMMA VerifyStep == SInv /\ Verify => SInv'
<1> SUFFICES ASSUME SInv, Verify PROVE SInv'
  OBVIOUS
<1>1. UNCHANGED <<disk, lost, landed, wrote>> /\ upd # NoUpdate
  BY UpdateFacts DEF Verify, Rest
<1> QED  BY <1>1, EndsStep, ConflictStep DEF Verify, Ends

\* The version a write makes.
LEMMA NextVersion ==
    ASSUME SInv
    PROVE  Cardinality(DOMAIN landed) = disk.ver
<1>1. disk.ver \in Nat \ {0} /\ DOMAIN landed = 1..disk.ver
  BY DEF SInv, DiskShape
<1>2. 1 \in Int /\ disk.ver \in Int /\ ~ (1 > disk.ver) /\ disk.ver - 1 + 1 = disk.ver
  BY <1>1
<1>3. Cardinality(1..disk.ver) = disk.ver - 1 + 1
  BY <1>2, FS_Interval
<1> QED  BY <1>1, <1>2, <1>3

LEMMA WriteFileStep == SInv /\ WriteFile => SInv'
<1> SUFFICES ASSUME SInv, WriteFile PROVE SInv'
  OBVIOUS
<1>1. upd.at = "rename" /\ IsUpdate(upd) /\ UNCHANGED <<gating, wrote>>
  BY UpdateFacts DEF WriteFile, SInv, DiskShape
<1>2. CASE UNCHANGED <<disk, lost, landed>> /\ upd' = NoUpdate
  BY <1>1, <1>2, EndsStep
<1>3. CASE /\ disk' = [config |-> upd.want, ver |-> Cardinality(DOMAIN landed) + 1]
           /\ landed' = [v \in DOMAIN landed \union {disk'.ver} |-> IF v = disk'.ver THEN "ours" ELSE landed[v]]
           /\ lost' = IF disk.ver = upd.read THEN lost ELSE lost \union {disk.ver}
           /\ upd' = [upd EXCEPT !.at = "verify", !.renamed = TRUE]
  <2>1. disk'.ver = disk.ver + 1 /\ disk'.config = upd.want /\ disk.ver \in Nat \ {0} /\ DOMAIN landed = 1..disk.ver
    BY <1>3, NextVersion DEF SInv, DiskShape
  <2>2. DOMAIN landed' = 1..disk'.ver
    BY <1>3, <2>1
  <2>3. IsUpdate(upd') /\ upd'.at = "verify" /\ upd'.want = upd.want
    BY <1>1, <1>3 DEF IsUpdate, Stages
  <2>4. DiskShape'
    BY <1>1, <1>3, <2>1, <2>2, <2>3 DEF SInv, DiskShape
  <2>5. EntriesInv'
    BY <1>1, <2>1, <2>3 DEF SInv, EntriesInv
  <2>6. lost' \subseteq DOMAIN landed /\ \A v \in lost' : landed[v] = "rename"
    BY <1>1, <1>3, <2>1 DEF SInv, WindowInv
  <2>7. \A v \in DOMAIN landed : landed'[v] = landed[v] /\ v \in DOMAIN landed'
    BY <1>3, <2>1
  <2>8. WindowInv'
    BY <2>3, <2>6, <2>7 DEF WindowInv
  <2> QED  BY <2>4, <2>5, <2>8 DEF SInv
<1> QED  BY <1>1, <1>2, <1>3 DEF WriteFile, Ends

-----------------------------------------------------------------------------
(* The others.                                                             *)

LEMMA ForeignWriteStep ==
    ASSUME SInv, NEW c, ForeignWrite(c), wrote' = [n \in Server |-> wrote'[n]],
           \A n \in Server : wrote[n] \subseteq wrote'[n], c \in Failures \/ Sound(c, wrote')
    PROVE  SInv'
<1>1. /\ disk' = [config |-> c, ver |-> Cardinality(DOMAIN landed) + 1]
      /\ landed' = [w \in DOMAIN landed \union {Cardinality(DOMAIN landed) + 1} |->
                        IF w = Cardinality(DOMAIN landed) + 1 THEN upd.at ELSE landed[w]]
      /\ UNCHANGED <<upd, lost>>
  BY DEF ForeignWrite
<1>2. disk'.ver = disk.ver + 1 /\ disk'.config = c /\ disk.ver \in Nat \ {0} /\ DOMAIN landed = 1..disk.ver
  BY <1>1, NextVersion DEF SInv, DiskShape
<1>3. DOMAIN landed' = 1..disk'.ver /\ landed'[disk'.ver] = upd.at /\ \A v \in DOMAIN landed : landed'[v] = landed[v]
  BY <1>1, <1>2, NextVersion
<1>4. DiskShape'
  <2>1. disk' = [config |-> disk'.config, ver |-> disk'.ver]
    BY <1>1
  <2>2. disk'.ver \in Nat \ {0} /\ DOMAIN landed' = 1..disk'.ver
    BY <1>2, <1>3
  <2>3. upd' = NoUpdate \/ IsUpdate(upd')
    BY <1>1 DEF SInv, DiskShape
  <2>4. \A n \in DOMAIN FirstServers : FirstServers[n] \in wrote'[n]
    BY McpAssumption DEF SInv, DiskShape
  <2> QED  BY <2>1, <2>2, <2>3, <2>4 DEF DiskShape
<1>5. EntriesInv'
  <2>1. upd.at \in {"restat", "rename", "verify"} => Sound(upd.want, wrote')
    BY SoundGrows DEF SInv, EntriesInv
  <2> QED  BY <1>1, <1>2, <2>1 DEF EntriesInv
<1>6. WindowInv'
  BY <1>1, <1>2, <1>3 DEF SInv, WindowInv
<1> QED  BY <1>4, <1>5, <1>6 DEF SInv

LEMMA ClaudeWritesStep ==
    ASSUME SInv, NEW n \in Server, NEW e \in Foreign, ClaudeWritesServer(n, e)
    PROVE  SInv'
<1> DEFINE m == [k \in DOMAIN disk.config.mcp \union {n} |-> IF k = n THEN e ELSE disk.config.mcp[k]]
           c == [disk.config EXCEPT !.mcp = m]
<1>1. ForeignWrite(c) /\ wrote' = [wrote EXCEPT ![n] = @ \union {e}] /\ Readable(disk.config)
  BY DEF ClaudeWritesServer
<1>2. wrote' = [k \in Server |-> wrote'[k]] /\ e \in wrote'[n] /\ \A k \in Server : wrote[k] \subseteq wrote'[k]
  BY <1>1 DEF SInv, DiskShape
<1>3. Sound(disk.config, wrote')
  BY <1>1, <1>2, FileFacts, SoundGrows DEF SInv, EntriesInv
<1>4. c = Config(m, disk.config.rest)
  BY <1>3 DEF Sound, Config
<1>5. c.mcp = m /\ c.rest = disk.config.rest
  BY <1>4 DEF Config
<1>6. IsServer(e) /\ WrappedOnce(e) /\ Plain(e) \in Plainly(wrote'[n])
  BY <1>2, McpAssumption DEF Plainly
<1>7. DOMAIN m = DOMAIN disk.config.mcp \cup {n} /\ \A k \in DOMAIN m : m[k] = IF k = n THEN e ELSE disk.config.mcp[k]
  OBVIOUS
<1> HIDE DEF m, c
<1>8. Sound(c, wrote')
  BY <1>3, <1>4, <1>5, <1>6, <1>7 DEF Sound
<1> QED  BY <1>1, <1>2, <1>8, ForeignWriteStep

LEMMA ClaudeFileStep == SInv /\ (ClaudeRemovesFile \/ ClaudeCreatesFile) => SInv'
<1> SUFFICES ASSUME SInv, ClaudeRemovesFile \/ ClaudeCreatesFile PROVE SInv'
  OBVIOUS
<1>1. UNCHANGED wrote
  BY DEF ClaudeRemovesFile, ClaudeCreatesFile
<1>2. wrote' = [n \in Server |-> wrote'[n]] /\ \A n \in Server : wrote[n] \subseteq wrote'[n]
  BY <1>1 DEF SInv, DiskShape
<1>3. CASE ClaudeRemovesFile
  BY <1>2, <1>3, ForeignWriteStep DEF ClaudeRemovesFile
<1>4. CASE ClaudeCreatesFile
  <2>1. Sound(Config(FirstServers, Nobody), wrote')
    <3>1. Config(FirstServers, Nobody).mcp = FirstServers /\ Config(FirstServers, Nobody).rest = Nobody
      BY DEF Config
    <3>2. ASSUME NEW n \in DOMAIN FirstServers
          PROVE  IsServer(FirstServers[n]) /\ WrappedOnce(FirstServers[n]) /\ Plain(FirstServers[n]) \in Plainly(wrote'[n])
      BY <1>1, McpAssumption DEF SInv, DiskShape, Plainly
    <3> QED  BY <3>1, <3>2, McpAssumption DEF Sound
  <2> QED  BY <1>2, <1>4, <2>1, ForeignWriteStep DEF ClaudeCreatesFile
<1> QED  BY <1>3, <1>4

-----------------------------------------------------------------------------
(* The invariant, and what it shows.                                       *)

LEMMA McpStart == McpInit => SInv
<1> SUFFICES ASSUME McpInit PROVE SInv
  OBVIOUS
<1>1. /\ disk.config = Config(FirstServers, Nobody) /\ disk.ver = 1
      /\ disk = [config |-> disk.config, ver |-> disk.ver]
  BY DEF McpInit
<1>2. upd = NoUpdate /\ lost = {} /\ DOMAIN landed = 1..1
  BY DEF McpInit
<1>3. wrote = [n \in Server |-> wrote[n]] /\ \A n \in DOMAIN FirstServers : FirstServers[n] \in wrote[n]
  BY McpAssumption DEF McpInit
<1>4. disk.config.mcp = FirstServers /\ disk.config.rest = Nobody
  BY <1>1 DEF Config
<1>5. Sound(disk.config, wrote)
  BY <1>1, <1>3, <1>4, McpAssumption DEF Sound, Plainly
<1> QED  BY <1>1, <1>2, <1>3, <1>5, UpdateFacts DEF SInv, DiskShape, EntriesInv, WindowInv

LEMMA McpStep == SInv /\ [McpNext]_mvars => SInv'
<1> SUFFICES ASSUME SInv, [McpNext]_mvars PROVE SInv'
  OBVIOUS
<1>1. CASE StartUpdate
  BY <1>1, StartUpdateStep
<1>2. CASE UpdateMcpJson
  BY <1>2, StatFirstStep, ReadFileStep, RestatStep, WriteFileStep, VerifyStep DEF UpdateMcpJson
<1>3. CASE \E n \in Server, e \in Foreign : ClaudeWritesServer(n, e)
  BY <1>3, ClaudeWritesStep
<1>4. CASE ClaudeRemovesFile \/ ClaudeCreatesFile
  BY <1>4, ClaudeFileStep
<1>5. CASE Approves
  BY <1>5 DEF Approves, SInv, DiskShape, EntriesInv, WindowInv
<1>6. CASE UNCHANGED mvars
  BY <1>6 DEF mvars, SInv, DiskShape, EntriesInv, WindowInv
<1> QED  BY <1>1, <1>2, <1>3, <1>4, <1>5, <1>6 DEF McpNext

LEMMA McpKept == SInv => ServersKept
  BY FileFacts DEF SInv, EntriesInv, WindowInv, Sound, ServersKept

\* Whatever Claude Code and the user write to .mcp.json while the updates, their
\* retries and approved plans of another file go on: a write that a rename of
\* ours replaced unseen came between the last stat and that rename, and every
\* server there is, but for a wrap, what someone else wrote under its name.
THEOREM ServersKeptHolds == McpSpec => []ServersKept
<1> QED  BY McpKept, McpStart, McpStep, PTL DEF McpSpec

-----------------------------------------------------------------------------
(* What starts with an entry of ours.                                      *)

WrapArgs(c, n, s) == <<"--wrap", c, "--name", n, "--">> \o s

LEMMA BareFacts ==
    ASSUME NEW S, NEW s \in Seq(S), NEW c, NEW n
    PROVE  LET b == WrapArgs(c, n, s)
           IN  /\ \E T : b \in Seq(T) /\ <<"stdio">> \o b \in Seq(T)
               /\ DOMAIN b = 1..Len(b) /\ Len(b) = 5 + Len(s) /\ Len(s) \in Nat
               /\ b[1] = "--wrap" /\ b[2] = c /\ b[3] = "--name" /\ b[4] = n /\ b[5] = "--"
               /\ SubSeq(b, 6, Len(b)) = s
               /\ (<<"stdio">> \o b)[1] = "stdio" /\ <<"stdio">> \o b # <<>> /\ b # <<>>
               /\ Tail(<<"stdio">> \o b) = b
<1> DEFINE b == WrapArgs(c, n, s)
           h == <<"--wrap", c, "--name", n, "--">>
           T == {"stdio", "--wrap", c, "--name", n, "--"} \cup S
           w == <<"stdio">> \o b
<1>0. "stdio" \in T /\ "--wrap" \in T /\ c \in T /\ "--name" \in T /\ n \in T /\ "--" \in T /\ S \subseteq T
  OBVIOUS
<1> HIDE DEF T
<1>1. s \in Seq(T) /\ Len(s) \in Nat
  BY <1>0
<1>2. h \in Seq(T) /\ Len(h) = 5 /\ <<"stdio">> \in Seq(T)
  BY <1>0
<1>3. b \in Seq(T) /\ Len(b) = 5 + Len(s)
  BY <1>1, <1>2 DEF WrapArgs
<1>4. b[1] = "--wrap" /\ b[2] = c /\ b[3] = "--name" /\ b[4] = n /\ b[5] = "--"
  BY <1>1, <1>2 DEF WrapArgs
<1>5. SubSeq(b, 6, Len(b)) = s
  BY <1>1, <1>2, <1>3 DEF WrapArgs
<1>6. b # <<>>
  BY <1>1, <1>3
<1> HIDE DEF b
<1>7. w \in Seq(T) /\ Len(w) = 1 + Len(b) /\ w[1] = "stdio" /\ \A i \in 1..Len(b) : w[i + 1] = b[i]
  BY <1>2, <1>3
<1>8. w # <<>>
  BY <1>1, <1>3, <1>7
<1>9. Tail(w) = b
  <2>1. Tail(w) \in Seq(T) /\ Len(Tail(w)) = Len(b) /\ \A i \in 1..Len(b) : Tail(w)[i] = b[i]
    BY <1>1, <1>3, <1>7, <1>8, HeadTailProperties
  <2> QED  BY <1>3, <2>1, SeqEqual
<1>10. DOMAIN b = 1..Len(b)
  BY <1>3
<1> QED  BY <1>1, <1>3, <1>4, <1>5, <1>6, <1>7, <1>8, <1>9, <1>10 DEF b

\* The command line of a local wrap, as node reads it.
LEMMA ParsedWrap ==
    ASSUME NEW S, NEW s \in Seq(S), NEW c, NEW n, c \notin OptionLike, n \notin OptionLike
    PROVE  LET r == Cli!ParsedArgs({"--wrap", "--name"}, WrapArgs(c, n, s)) IN
           r.ok /\ r.values["--wrap"] = c /\ r.values["--name"] = n /\ r.positionals = s
<1> DEFINE b == WrapArgs(c, n, s)
           opts == {"--wrap", "--name"}
<1>1. /\ Len(b) = 5 + Len(s) /\ Len(s) \in Nat /\ DOMAIN b = 1..Len(b)
      /\ b[1] = "--wrap" /\ b[2] = c /\ b[3] = "--name" /\ b[4] = n /\ b[5] = "--" /\ SubSeq(b, 6, Len(b)) = s
  BY BareFacts
<1>2. s = SubSeq(b, 6, Len(b)) /\ s \in Seq(S)
  BY <1>1
<1> HIDE DEF b
<1>3. {"--", "--wrap", "--name"} \subseteq OptionLike
  BY ServersAssumption
<1>4. Cli!End(b) = 5
  <2> DEFINE d == {i \in DOMAIN b : b[i] = "--"}
  <2>1. 5 \in d
    BY <1>1
  <2>2. \A j \in d : 5 <= j
    <3> SUFFICES ASSUME NEW j \in 1..Len(b), b[j] = "--", ~ (5 <= j) PROVE FALSE
      BY <1>1
    <3>1. j = 1 \/ j = 2 \/ j = 3 \/ j = 4
      BY <1>1
    <3> QED  BY <1>1, <1>3, <3>1
  <2>3. d \subseteq Int
    BY <1>1
  <2>4. \A i \in d : (\A j \in d : i <= j) => i = 5
    BY <2>1, <2>2, <2>3
  <2>5. (CHOOSE i \in d : \A j \in d : i <= j) = 5
    BY <2>1, <2>2, <2>4
  <2> QED  BY <2>1, <2>5 DEF Cli!End
<1>5. 1..Cli!End(b) - 1 = {1, 2, 3, 4}
  BY <1>4
<1>6. Cli!PlacesOf("--wrap", b) = {1} /\ Cli!PlacesOf("--name", b) = {3}
  BY <1>1, <1>3, <1>5 DEF Cli!PlacesOf
<1>7. Cli!Words(opts, b) = {}
  BY <1>1, <1>3, <1>5, <1>6 DEF Cli!Words
<1>8. Cli!Accepted(opts, b)
  BY <1>1, <1>3, <1>5 DEF Cli!Accepted
<1>9. Cli!ValueOf("--wrap", b) = c /\ Cli!ValueOf("--name", b) = n
  <2>1. \A i \in Nat : (CHOOSE k \in {i} : \A j \in {i} : j <= k) = i
    OBVIOUS
  <2>2. (CHOOSE k \in {1} : \A j \in {1} : j <= k) + 1 = 2 /\ (CHOOSE k \in {3} : \A j \in {3} : j <= k) + 1 = 4
    BY <2>1
  <2>3. /\ Cli!ValueOf("--wrap", b) = b[(CHOOSE k \in {1} : \A j \in {1} : j <= k) + 1]
        /\ Cli!ValueOf("--name", b) = b[(CHOOSE k \in {3} : \A j \in {3} : j <= k) + 1]
    BY <1>6, Zenon DEF Cli!ValueOf
  <2> QED  BY <1>1, <2>2, <2>3
<1>10. Cli!Positionals(opts, b) = s
  <2>1. Cli!TokensAt(Cli!Words(opts, b), b) = <<>>
    BY <1>7 DEF Cli!TokensAt
  <2>2. Cli!Positionals(opts, b) = <<>> \o SubSeq(b, Cli!End(b) + 1, Len(b))
    BY <2>1 DEF Cli!Positionals
  <2>3. SubSeq(b, Cli!End(b) + 1, Len(b)) = s /\ <<>> \o s = s
    BY <1>2, <1>4
  <2> QED  BY <2>2, <2>3
<1> QED  BY <1>8, <1>9, <1>10 DEF Cli!ParsedArgs, b

LEMMA StartsWrap ==
    ASSUME NEW S, NEW s \in Seq(S), NEW c, NEW n, c \notin OptionLike, n \notin OptionLike, c # Cli!Unset, n # Cli!Unset,
           NEW args \in {WrapArgs(c, n, s), <<"stdio">> \o WrapArgs(c, n, s)}
    PROVE  Cli!Main(args) = [does |-> "stdio", name |-> n, cmd |-> c, args |-> s]
<1> DEFINE b == WrapArgs(c, n, s)
           w == <<"stdio">> \o b
           m == IF args # <<>> /\ args[1] = "--wrap" THEN <<"stdio">> \o args ELSE args
<1>1. b # <<>> /\ b[1] = "--wrap" /\ w # <<>> /\ w[1] = "stdio" /\ Tail(w) = b
  BY BareFacts
<1>2. Cli!RunStdioMain(b) = [does |-> "stdio", name |-> n, cmd |-> c, args |-> s]
  BY ParsedWrap DEF Cli!RunStdioMain
<1> HIDE DEF b
<1>3. m = w
  BY <1>1 DEF b
<1>4. Cli!Main(args) = IF m = <<>> THEN Cli!Usage
        ELSE CASE m[1] = "stdio" -> Cli!RunStdioMain(Tail(m))
               [] m[1] = "http"  -> Cli!RunHttpMain(Tail(m))
               [] m[1] = "login" -> Cli!RunLoginMain(Tail(m))
               [] OTHER -> Cli!Usage
  BY DEF Cli!Main
<1> HIDE DEF m, w
<1>5. m # <<>> /\ m[1] = "stdio" /\ Tail(m) = b
  BY <1>1, <1>3 DEF w
<1> QED  BY <1>2, <1>4, <1>5

\* The command line of a bridge.
LEMMA StartsBridge ==
    ASSUME NEW n \in Name, n \notin OptionLike, NEW url \in Url
    PROVE  Cli!Main(<<"http", "--url", url, "--name", n>>) = [does |-> "http", name |-> n, url |-> url]
<1> DEFINE b == <<"--url", url, "--name", n>>
           a == <<"http", "--url", url, "--name", n>>
           opts == {"--url", "--name"}
<1>1. /\ Len(b) = 4 /\ DOMAIN b = 1..4 /\ b[1] = "--url" /\ b[2] = url /\ b[3] = "--name" /\ b[4] = n
      /\ a # <<>> /\ a[1] = "http" /\ Tail(a) = b /\ SubSeq(b, 6, 4) = <<>>
  OBVIOUS
<1>2. /\ {"--", "--url", "--name"} \subseteq OptionLike /\ n \notin OptionLike /\ url \notin OptionLike
      /\ n # Cli!Unset /\ url # Cli!Unset
  BY ServersAssumption
<1> HIDE DEF a, b
<1>3. Cli!End(b) = 5
  <2>1. {i \in DOMAIN b : b[i] = "--"} = {}
    <3> SUFFICES ASSUME NEW i \in 1..4, b[i] = "--" PROVE FALSE
      BY <1>1
    <3>1. i = 1 \/ i = 2 \/ i = 3 \/ i = 4
      OBVIOUS
    <3> QED  BY <1>1, <1>2, <3>1
  <2> QED  BY <1>1, <2>1 DEF Cli!End
<1>4. 1..Cli!End(b) - 1 = {1, 2, 3, 4}
  BY <1>3
<1>5. Cli!PlacesOf("--url", b) = {1} /\ Cli!PlacesOf("--name", b) = {3}
  BY <1>1, <1>2, <1>4 DEF Cli!PlacesOf
<1>6. Cli!Words(opts, b) = {} /\ Cli!Accepted(opts, b)
  <2>1. ASSUME NEW i \in {1, 2, 3, 4}
        PROVE  b[i] \in OptionLike \/ i - 1 \in Cli!PlacesOf("--url", b) \/ i - 1 \in Cli!PlacesOf("--name", b)
    BY <1>1, <1>2, <1>5
  <2>2. Cli!Words(opts, b) = {}
    BY <1>4, <2>1 DEF Cli!Words
  <2>3. ASSUME NEW i \in {1, 2, 3, 4}, b[i] \in OptionLike
        PROVE  b[i] \in opts /\ i < Len(b) /\ b[i + 1] \notin OptionLike
    <3>1. i = 1 \/ i = 3
      BY <1>1, <1>2, <2>3
    <3> QED  BY <1>1, <1>2, <3>1
  <2>4. Cli!Accepted(opts, b)
    BY <1>4, <2>3 DEF Cli!Accepted
  <2> QED  BY <2>2, <2>4
<1>7. Cli!ValueOf("--url", b) = url /\ Cli!ValueOf("--name", b) = n
  <2>1. \A i \in Nat : (CHOOSE k \in {i} : \A j \in {i} : j <= k) = i
    OBVIOUS
  <2>2. (CHOOSE k \in {1} : \A j \in {1} : j <= k) + 1 = 2 /\ (CHOOSE k \in {3} : \A j \in {3} : j <= k) + 1 = 4
    BY <2>1
  <2>3. /\ Cli!ValueOf("--url", b) = b[(CHOOSE k \in {1} : \A j \in {1} : j <= k) + 1]
        /\ Cli!ValueOf("--name", b) = b[(CHOOSE k \in {3} : \A j \in {3} : j <= k) + 1]
    BY <1>5, Zenon DEF Cli!ValueOf
  <2> QED  BY <1>1, <2>2, <2>3
<1>8. Cli!Positionals(opts, b) = <<>>
  <2>1. Cli!TokensAt(Cli!Words(opts, b), b) = <<>>
    BY <1>6 DEF Cli!TokensAt
  <2>2. Cli!Positionals(opts, b) = <<>> \o SubSeq(b, Cli!End(b) + 1, Len(b))
    BY <2>1 DEF Cli!Positionals
  <2>3. SubSeq(b, Cli!End(b) + 1, Len(b)) = <<>>
    BY <1>1, <1>3
  <2>4. <<>> \o <<>> = <<>>
    OBVIOUS
  <2> QED  BY <2>2, <2>3, <2>4
<1>9. LET r == Cli!ParsedArgs(opts, b) IN r.ok /\ r.values["--url"] = url /\ r.values["--name"] = n /\ r.positionals = <<>>
  BY <1>6, <1>7, <1>8 DEF Cli!ParsedArgs
<1>10. Cli!RunHttpMain(b) = [does |-> "http", name |-> n, url |-> url]
  BY <1>2, <1>9 DEF Cli!RunHttpMain, Cli!Remote
<1>11. Cli!Main(a) = Cli!RunHttpMain(b)
  BY <1>1 DEF Cli!Main
<1> QED  BY <1>10, <1>11 DEF a

-----------------------------------------------------------------------------
(* One entry of claude_desktop_config.json.                                *)

\* A server of someone else: what was written for n, or what an uninstall made
\* of a bridge asked for n.
Basis(n, u, o, a) ==
    IsServer(u) /\ u.cmd \notin Proxies /\ ((u \in o[n] /\ IsOthers(u)) \/ (u.cmd = "--url" /\ a[n] # {}))

IsBridge(n, e, a) ==
    /\ e = RemoteEntry(n, e.args[3], e.cmd) /\ e.cmd \in Proxies
    /\ e.args[3] \in a[n] \intersect Url /\ n \in SafeNames

Fine(n, e, o, a) ==
    \/ Basis(n, Original(e), o, a) /\ (e = Original(e) \/ IsWrapOf(n, e, Original(e)))
    \/ IsBridge(n, e, a)

LEMMA WrapFacts ==
    ASSUME NEW n, NEW e, NEW u, IsServer(u), IsWrapOf(n, e, u)
    PROVE  /\ IsServer(e) /\ IsAlreadyWrapped(e) /\ ~ IsHttp(e) /\ UnwrapEntry(e) = u /\ Original(e) = u
           /\ Inner(e.args) = WrapArgs(u.cmd, n, u.args)
           /\ e.args \in {WrapArgs(u.cmd, n, u.args), <<"stdio">> \o WrapArgs(u.cmd, n, u.args)}
           /\ e.type = u.type /\ e.rest = u.rest
<1> DEFINE S == {u.args[i] : i \in DOMAIN u.args}
           b == WrapArgs(u.cmd, n, u.args)
           w == <<"stdio">> \o b
<1> HIDE DEF S
<1>1. u.args \in Seq(S)
  BY DEF IsServer, S
<1>0. \E T : b \in Seq(T) /\ w \in Seq(T)
  BY <1>1, BareFacts
<1>2. /\ Len(b) = 5 + Len(u.args) /\ Len(u.args) \in Nat
      /\ b[1] = "--wrap" /\ b[2] = u.cmd /\ b[3] = "--name" /\ b[5] = "--" /\ SubSeq(b, 6, Len(b)) = u.args
      /\ w[1] = "stdio" /\ w # <<>> /\ b # <<>> /\ Tail(w) = b
  BY <1>1, BareFacts, SMTT(20)
<1>3. PICK args \in {b, w} : e = Entry(u.type, e.cmd, args, u.rest)
  BY DEF IsWrapOf, WrapArgs
<1> HIDE DEF b, w
<1>4. e.type = u.type /\ e.args = args /\ e.rest = u.rest
  BY <1>3 DEF Entry
<1>5. Inner(e.args) = b /\ ~ IsHttp(e)
  BY <1>2, <1>3, <1>4 DEF Inner, IsHttp
<1>6. IsAlreadyWrapped(e)
  BY <1>2, <1>5 DEF IsAlreadyWrapped, Contract, IsWrapOf
<1>7. UnwrapEntry(e) = Entry(u.type, u.cmd, u.args, u.rest)
  BY <1>2, <1>4, <1>5 DEF UnwrapEntry
<1>8. UnwrapEntry(e) = u
  BY <1>7 DEF IsServer
<1>9. IsServer(e)
  BY <1>0, <1>3, ServerOf
<1> QED  BY <1>3, <1>4, <1>5, <1>6, <1>8, <1>9 DEF Original, b, w

LEMMA BridgeFacts ==
    ASSUME NEW n, NEW e, NEW a, IsBridge(n, e, a)
    PROVE  /\ e.args = <<"http", "--url", e.args[3], "--name", n>> /\ e.cmd \in Proxies /\ IsHttp(e) /\ IsAlreadyWrapped(e)
           /\ e.args[2] = "--url" /\ Inner(e.args) = e.args /\ SubSeq(e.args, 6, Len(e.args)) = <<>>
<1> DEFINE url == e.args[3]
<1>1. e.args = <<"http", "--url", url, "--name", n>> /\ e.cmd \in Proxies
  BY DEF IsBridge, RemoteEntry, Entry
<1> HIDE DEF url
<1>2. e.args # <<>> /\ e.args[1] = "http" /\ e.args[2] = "--url" /\ e.args[4] = "--name" /\ Len(e.args) = 5
  BY <1>1
<1>3. SubSeq(e.args, 6, Len(e.args)) = <<>>
  BY <1>1, <1>2
<1> QED  BY <1>1, <1>2, <1>3 DEF IsHttp, IsAlreadyWrapped, Inner, url

LEMMA NotOurs ==
    ASSUME NEW u, u.cmd \notin Proxies
    PROVE  ~ IsAlreadyWrapped(u) /\ ~ IsHttpWrapped(u) /\ Original(u) = u /\ Kind(u) \in {"no-command", "wrappable"}
  BY DEF IsAlreadyWrapped, IsHttpWrapped, Original, Kind

LEMMA FineOthers ==
    ASSUME NEW n, NEW u, NEW o, NEW a, Basis(n, u, o, a), NEW e, e = u \/ IsWrapOf(n, e, u)
    PROVE  Fine(n, e, o, a)
  BY WrapFacts, NotOurs DEF Fine, Basis

\* What the property says of one entry.
LEMMA FineKept ==
    ASSUME NEW n \in Name, NEW e, Fine(n, e, own, asked)
    PROVE  EntryKept(n, e)
<1> DEFINE u == Original(e)
<1>1. CASE IsBridge(n, e, asked)
  <2>1. e.args[3] \in asked[n] /\ e.args[3] \in Url /\ n \notin OptionLike
    BY <1>1, ServersAssumption DEF IsBridge
  <2>2. Starts(n, e) = [does |-> "http", name |-> n, url |-> e.args[3]]
    BY <1>1, <2>1, BridgeFacts, StartsBridge DEF Starts
  <2> QED  BY <1>1, <2>1, <2>2, BridgeFacts DEF EntryKept, IsHttpWrapped
<1>2. CASE u.cmd = "--url" /\ asked[n] # {}
  BY <1>2 DEF EntryKept, Mangled
<1>3. CASE e = u /\ u \in own[n]
  BY <1>3 DEF EntryKept
<1>4. CASE IsServer(u) /\ u \in own[n] /\ IsOthers(u) /\ IsWrapOf(n, e, u)
  <2> DEFINE b == WrapArgs(u.cmd, n, u.args)
  <2>1. /\ IsAlreadyWrapped(e) /\ ~ IsHttp(e) /\ Inner(e.args) = b
        /\ e.args \in {b, <<"stdio">> \o b}
    BY <1>4, WrapFacts
  <2>2. u.cmd \notin Proxies /\ u.cmd # NoCmd /\ u.cmd # Cli!Unset /\ n # Cli!Unset /\ e.cmd \in Proxies
    BY <1>4, ServersAssumption DEF IsOthers, IsWrapOf
  <2>3. PICK S : u.args \in Seq(S)
    BY <1>4 DEF IsServer
  <2>4. b[2] = u.cmd /\ SubSeq(b, 6, Len(b)) = u.args
    BY <2>3, BareFacts, SMTT(20)
  <2>5. Kind(u) = "wrappable" /\ (Kind(e) = "already-wrapped" \/ e.cmd = NoCmd)
    BY <2>1, <2>2, NotOurs DEF Kind
  <2>6. Starts(n, e) = Starts(n, u) \/ {n, u.cmd} \intersect OptionLike # {}
    <3> SUFFICES ASSUME n \notin OptionLike, u.cmd \notin OptionLike PROVE Starts(n, e) = Starts(n, u)
      OBVIOUS
    <3>1. Cli!Main(e.args) = [does |-> "stdio", name |-> n, cmd |-> u.cmd, args |-> u.args]
      BY <2>1, <2>2, <2>3, StartsWrap
    <3> QED  BY <2>2, <3>1 DEF Starts
  <2>7. e.cmd # NoCmd
    BY <2>2, ServersAssumption
  <2>8. Endpoint(e) = Endpoint(u) /\ Launch(e) = Launch(u)
    <3> HIDE DEF b
    <3>1. Transport(e) = "stdio" /\ Endpoint(e) = u.cmd
      BY <2>1, <2>4, <2>5, <2>7 DEF Transport, Endpoint
    <3>2. Transport(u) = "stdio" /\ Endpoint(u) = u.cmd
      BY <2>5 DEF Transport, Endpoint
    <3>3. Launch(e) = LaunchReference(u.cmd, u.args)
      BY <2>1, <2>4, <2>5, <2>7, <3>1 DEF Launch
    <3>4. Launch(u) = LaunchReference(u.cmd, u.args)
      BY <2>5, <3>2 DEF Launch
    <3> QED  BY <3>1, <3>2, <3>3, <3>4
  <2> QED  BY <1>4, <2>6, <2>8 DEF EntryKept
<1> QED  BY <1>1, <1>2, <1>3, <1>4 DEF Fine, Basis

-----------------------------------------------------------------------------
(* What the handlers do to one entry.                                      *)

LEMMA OneBefore ==
    ASSUME NEW T, NEW x \in T, NEW t \in Seq(T), NEW h \in Seq(T),
           Len(h) = Len(t) + 1, h[1] = x, \A i \in 1..Len(t) : h[i + 1] = t[i]
    PROVE  <<x>> \o t = h
<1> DEFINE w == <<x>> \o t
<1>1. w \in Seq(T) /\ Len(w) = 1 + Len(t) /\ w[1] = x /\ Len(t) \in Nat
  OBVIOUS
<1>2. \A i \in 1..Len(t) : w[i + 1] = t[i]
  OBVIOUS
<1> HIDE DEF w
<1>3. ASSUME NEW i \in 1..Len(h) PROVE w[i] = h[i]
  <2>1. CASE i = 1
    BY <1>1, <2>1
  <2>2. CASE i # 1
    <3>1. i - 1 \in 1..Len(t) /\ (i - 1) + 1 = i
      BY <1>1, <2>2
    <3> QED  BY <1>2, <3>1
  <2> QED  BY <2>1, <2>2
<1>4. w = h
  BY <1>1, <1>3, SeqEqual
<1> QED  BY <1>4 DEF w

LEMMA StdioBare ==
    ASSUME NEW S, NEW s \in Seq(S), NEW c, NEW n
    PROVE  <<"stdio", "--wrap", c, "--name", n, "--">> \o s = <<"stdio">> \o WrapArgs(c, n, s)
<1> DEFINE h == <<"stdio", "--wrap", c, "--name", n, "--">>
           t == <<"--wrap", c, "--name", n, "--">>
           T == {"stdio", "--wrap", c, "--name", n, "--"} \cup S
<1>0. "stdio" \in T /\ "--wrap" \in T /\ c \in T /\ "--name" \in T /\ n \in T /\ "--" \in T /\ S \subseteq T
  OBVIOUS
<1> HIDE DEF T
<1>1. s \in Seq(T) /\ t \in Seq(T) /\ <<"stdio">> \in Seq(T) /\ h \in Seq(T)
  BY <1>0
<1>2. Len(h) = Len(t) + 1 /\ h[1] = "stdio" /\ Len(t) = 5
  OBVIOUS
<1>3. ASSUME NEW i \in 1..Len(t) PROVE h[i + 1] = t[i]
  <2>1. i = 1 \/ i = 2 \/ i = 3 \/ i = 4 \/ i = 5
    BY <1>2
  <2> QED  BY <2>1
<1>4. WrapArgs(c, n, s) = t \o s
  BY DEF WrapArgs
<1> HIDE DEF h, t
<1>5. <<"stdio">> \o t = h
  BY <1>0, <1>1, <1>2, <1>3, OneBefore
<1>6. (<<"stdio">> \o t) \o s = <<"stdio">> \o (t \o s)
  BY <1>1, ConcatAssociative
<1>7. h \o s = <<"stdio">> \o WrapArgs(c, n, s)
  BY <1>4, <1>5, <1>6
<1> QED  BY <1>7 DEF h

\* A wrap, a bridge and a server of someone else, by how they read.
LEMMA FineCases ==
    ASSUME NEW n, NEW e, NEW o, NEW a, Fine(n, e, o, a)
    PROVE  \/ ~ IsAlreadyWrapped(e) /\ e.cmd \notin Proxies /\ Basis(n, e, o, a)
           \/ /\ IsAlreadyWrapped(e) /\ ~ IsHttp(e)
              /\ \E u : Basis(n, u, o, a) /\ IsWrapOf(n, e, u) /\ UnwrapEntry(e) = u
           \/ IsAlreadyWrapped(e) /\ IsBridge(n, e, a)
<1> DEFINE u == Original(e)
<1>1. CASE Basis(n, u, o, a) /\ e = u
  BY <1>1, NotOurs DEF Basis
<1>2. CASE Basis(n, u, o, a) /\ IsWrapOf(n, e, u)
  BY <1>2, WrapFacts DEF Basis
<1>3. CASE IsBridge(n, e, a)
  BY <1>3, BridgeFacts
<1> QED  BY <1>1, <1>2, <1>3 DEF Fine

LEMMA FineWrap ==
    ASSUME NEW n, NEW e, NEW o, NEW a, Fine(n, e, o, a), Kind(e) = "wrappable", NEW xcg \in Proxies
    PROVE  Fine(n, WrapEntry(n, e, xcg), o, a)
<1> DEFINE w == WrapEntry(n, e, xcg)
           b == WrapArgs(e.cmd, n, e.args)
<1>1. ~ IsAlreadyWrapped(e) /\ e.cmd # NoCmd
  BY DEF Kind
<1>2. Basis(n, e, o, a)
  BY <1>1, FineCases
<1>3. PICK S : e.args \in Seq(S)
  BY <1>2 DEF Basis, IsServer
<1>4. w = Entry(e.type, xcg, <<"stdio", "--wrap", e.cmd, "--name", n, "--">> \o e.args, e.rest)
  BY <1>1 DEF WrapEntry, CmdToken
<1>5. w = Entry(e.type, xcg, <<"stdio">> \o b, e.rest)
  BY <1>3, <1>4, StdioBare
<1> HIDE DEF b
<1>6. w.cmd = xcg
  BY <1>5 DEF Entry
<1> HIDE DEF w
<1>7. IsWrapOf(n, w, e)
  BY <1>1, <1>5, <1>6 DEF IsWrapOf, b, WrapArgs
<1> QED  BY <1>2, <1>7, FineOthers DEF w

LEMMA FineRehome ==
    ASSUME NEW n, NEW e, NEW o, NEW a, Fine(n, e, o, a), IsAlreadyWrapped(e), NEW xcg \in Proxies
    PROVE  Fine(n, [e EXCEPT !.cmd = xcg], o, a)
<1> DEFINE w == [e EXCEPT !.cmd = xcg]
<1>1. CASE \E u : Basis(n, u, o, a) /\ IsWrapOf(n, e, u)
  <2>1. PICK u : Basis(n, u, o, a) /\ IsWrapOf(n, e, u)
    BY <1>1
  <2> DEFINE A == {<<"--wrap", u.cmd, "--name", n, "--">> \o u.args, <<"stdio">> \o (<<"--wrap", u.cmd, "--name", n, "--">> \o u.args)}
  <2>2. PICK args \in A : e = Entry(u.type, e.cmd, args, u.rest)
    BY <2>1, Zenon DEF IsWrapOf
  <2> HIDE DEF A
  <2>3. w = Entry(u.type, xcg, args, u.rest) /\ w.cmd = xcg
    BY <2>2 DEF Entry
  <2> HIDE DEF w
  <2>4. w \in {Entry(u.type, w.cmd, s, u.rest) : s \in A}
    BY <2>3
  <2>5. IsWrapOf(n, w, u)
    BY <2>1, <2>3, <2>4 DEF IsWrapOf, A
  <2> QED  BY <2>1, <2>5, FineOthers DEF w
<1>2. CASE IsBridge(n, e, a)
  <2>1. w = RemoteEntry(n, e.args[3], xcg) /\ w.cmd = xcg /\ w.args = e.args
    BY <1>2 DEF IsBridge, RemoteEntry, Entry
  <2> HIDE DEF w
  <2>2. IsBridge(n, w, a)
    BY <1>2, <2>1 DEF IsBridge
  <2> QED  BY <2>2 DEF Fine, w
<1> QED  BY <1>1, <1>2, FineCases

LEMMA FineUnwrap ==
    ASSUME NEW n, NEW e, NEW o, NEW a, Fine(n, e, o, a), IsAlreadyWrapped(e)
    PROVE  Fine(n, UnwrapEntry(e), o, a)
<1>1. CASE \E u : Basis(n, u, o, a) /\ UnwrapEntry(e) = u
  BY <1>1, FineOthers
<1>2. CASE IsBridge(n, e, a)
  <2> DEFINE u == Entry(e.type, "--url", <<>>, e.rest)
  <2>1. UnwrapEntry(e) = u /\ a[n] # {}
    BY <1>2, BridgeFacts DEF UnwrapEntry, IsBridge
  <2>2. u.cmd = "--url" /\ "--url" \notin Proxies
    BY ServersAssumption DEF Entry
  <2>3. IsServer(u)
    <3>1. <<>> \in Seq({})
      OBVIOUS
    <3> QED  BY <3>1, ServerOf
  <2> HIDE DEF u
  <2>4. Basis(n, u, o, a)
    BY <2>1, <2>2, <2>3 DEF Basis
  <2> QED  BY <2>1, <2>4, FineOthers
<1> QED  BY <1>1, <1>2, FineCases

LEMMA FineBridge ==
    ASSUME NEW n \in SafeNames, NEW url \in Url, NEW o, NEW a, url \in a[n], NEW xcg \in Proxies
    PROVE  Fine(n, RemoteEntry(n, url, xcg), o, a)
<1> DEFINE e == RemoteEntry(n, url, xcg)
<1>1. e.cmd = xcg /\ e.args = <<"http", "--url", url, "--name", n>>
  BY DEF RemoteEntry, Entry
<1>2. e.args[3] = url /\ e = RemoteEntry(n, url, xcg)
  BY <1>1
<1> HIDE DEF e
<1>3. IsBridge(n, e, a)
  BY <1>1, <1>2 DEF IsBridge
<1> QED  BY <1>3 DEF Fine, e

LEMMA FineGrows ==
    ASSUME NEW n, NEW e, NEW o, NEW a, Fine(n, e, o, a), NEW p, NEW b, o[n] \subseteq p[n], a[n] \subseteq b[n]
    PROVE  Fine(n, e, p, b)
<1>1. \A u : Basis(n, u, o, a) => Basis(n, u, p, b)
  BY DEF Basis
<1>2. IsBridge(n, e, a) => IsBridge(n, e, b)
  BY DEF IsBridge
<1> QED  BY <1>1, <1>2 DEF Fine

-----------------------------------------------------------------------------
(* The inductive invariant of claude_desktop_config.json.                  *)

FineConfig(c, o, a) == \A n \in DOMAIN c.mcp : Fine(n, c.mcp[n], o, a)

\* The bridges asked for, with the one a handler is about to write.
With(k, n, url, a) == IF k = "add" THEN [a EXCEPT ![n] = @ \cup {url}] ELSE a

FineOp(o, w, a) == (o.k = "add" => o.name \in Name) /\ FineConfig(o.want, w, With(o.k, o.name, o.url, a))

\* Every entry of the file, of its backup and of what is about to replace the
\* file is what someone else wrote under its name, a wrap of that, or a bridge.
EInv ==
    /\ own = [n \in Name |-> own[n]] /\ asked = [n \in Name |-> asked[n]]
    /\ \A c \in {file, bak} : Readable(c) => FineConfig(c, own, asked)
    /\ \A p \in Proc : Writing(op[p]) => FineOp(op[p], own, asked)

LEMMA ConfigGrows ==
    ASSUME NEW c, IsConfig(c), NEW o, NEW a, FineConfig(c, o, a), NEW p, NEW b,
           \A n \in Name : o[n] \subseteq p[n] /\ a[n] \subseteq b[n]
    PROVE  FineConfig(c, p, b)
<1> SUFFICES ASSUME NEW n \in DOMAIN c.mcp PROVE Fine(n, c.mcp[n], p, b)
  BY DEF FineConfig
<1>1. o[n] \subseteq p[n] /\ a[n] \subseteq b[n]
  BY DEF IsConfig
<1> QED  BY <1>1, FineGrows DEF FineConfig

LEMMA WithFacts ==
    ASSUME NEW a, a = [n \in Name |-> a[n]], NEW k, NEW m, k = "add" => m \in Name, NEW url
    PROVE  LET b == With(k, m, url, a) IN
           /\ b = [n \in Name |-> b[n]] /\ \A n \in Name : a[n] \subseteq b[n]
           /\ k = "add" => url \in b[m]
           /\ \A g : g = [n \in Name |-> g[n]] /\ (\A n \in Name : a[n] \subseteq g[n]) =>
                  \A n \in Name : b[n] \subseteq With(k, m, url, g)[n]
<1>1. CASE k = "add"
  <2>1. \A g : g = [n \in Name |-> g[n]] =>
          \A n \in Name : With(k, m, url, g)[n] = IF n = m THEN g[m] \cup {url} ELSE g[n]
    BY <1>1 DEF With
  <2>2. With(k, m, url, a) = [n \in Name |-> With(k, m, url, a)[n]]
    BY <1>1 DEF With
  <2>3. \A n \in Name : With(k, m, url, a)[n] = IF n = m THEN a[m] \cup {url} ELSE a[n]
    BY <2>1
  <2>4. ASSUME NEW g, g = [n \in Name |-> g[n]], \A n \in Name : a[n] \subseteq g[n], NEW n \in Name
        PROVE  With(k, m, url, a)[n] \subseteq With(k, m, url, g)[n]
    <3>1. With(k, m, url, g)[n] = IF n = m THEN g[m] \cup {url} ELSE g[n]
      BY <2>1, <2>4
    <3> QED  BY <1>1, <2>3, <2>4, <3>1
  <2>5. url \in With(k, m, url, a)[m] /\ \A n \in Name : a[n] \subseteq With(k, m, url, a)[n]
    BY <1>1, <2>3
  <2> QED  BY <1>1, <2>2, <2>4, <2>5
<1>2. CASE k # "add"
  BY <1>2 DEF With
<1> QED  BY <1>1, <1>2

LEMMA OpGrows ==
    ASSUME NEW o, Writing(o), NEW w, NEW a, a = [n \in Name |-> a[n]], FineOp(o, w, a),
           NEW v, NEW b, b = [n \in Name |-> b[n]], \A n \in Name : w[n] \subseteq v[n] /\ a[n] \subseteq b[n]
    PROVE  FineOp(o, v, b)
<1>1. \A n \in Name : With(o.k, o.name, o.url, a)[n] \subseteq With(o.k, o.name, o.url, b)[n]
  BY WithFacts DEF FineOp
<1> QED  BY <1>1, ConfigGrows DEF FineOp, Writing

\* Whatever a handler makes of such a file is one.
LEMMA ResultKeeps ==
    ASSUME NEW p \in Proc, NEW k, NEW c, IsConfig(c), NEW n, NEW url, NEW only, k = "add" => n \in Name \cup {"-s"},
           NEW o, NEW a, a = [m \in Name |-> a[m]], FineConfig(c, o, a),
           ResultOf(p, k, c, n, url, only).out = "wrote"
    PROVE  (k = "add" => n \in Name) /\ FineConfig(ResultOf(p, k, c, n, url, only).want, o, With(k, n, url, a))
<1> DEFINE b == With(k, n, url, a)
<1>0. Xcg[p] \in Proxies /\ Link \in Proxies
  BY ConfigAssumption
<1>1. \A s \in DOMAIN c.mcp : Fine(s, c.mcp[s], o, a)
  BY DEF FineConfig
<1>2. \A m : [c EXCEPT !.mcp = m].mcp = m
  BY DEF IsConfig, Config
<1>3. \A d, out : Result(out, d).want = d /\ Result(out, d).out = out
  BY DEF Result
<1>4. k # "add" => b = a
  BY DEF With
<1> HIDE DEF b
<1>5. CASE k = "install"
  <2>1. FineConfig(ApplyWrap(c, Xcg[p], only), o, a)
    <3> SUFFICES ASSUME NEW s \in DOMAIN c.mcp PROVE Fine(s, ApplyWrap(c, Xcg[p], only).mcp[s], o, a)
      BY <1>2 DEF ApplyWrap, FineConfig
    <3> DEFINE e == c.mcp[s]
    <3>1. ApplyWrap(c, Xcg[p], only).mcp[s] =
            IF only \notin {All, s} THEN e
            ELSE IF Kind(e) = "wrappable" THEN WrapEntry(s, e, Xcg[p])
            ELSE IF Kind(e) = "already-wrapped" THEN [e EXCEPT !.cmd = Xcg[p]]
            ELSE e
      BY <1>2 DEF ApplyWrap
    <3>2. Fine(s, e, o, a)
      BY <1>1
    <3> HIDE DEF e
    <3>3. Kind(e) = "already-wrapped" => IsAlreadyWrapped(e)
      BY DEF Kind
    <3> QED  BY <1>0, <3>1, <3>2, <3>3, FineWrap, FineRehome
  <2> QED  BY <1>3, <1>4, <1>5, <2>1 DEF ResultOf, InstallOf, b
<1>6. CASE k = "uninstall"
  <2>1. FineConfig(Unwrap(c), o, a)
    <3> SUFFICES ASSUME NEW s \in DOMAIN c.mcp PROVE Fine(s, Unwrap(c).mcp[s], o, a)
      BY <1>2 DEF Unwrap, FineConfig
    <3>1. Unwrap(c).mcp[s] = IF IsAlreadyWrapped(c.mcp[s]) THEN UnwrapEntry(c.mcp[s]) ELSE c.mcp[s]
      BY <1>2 DEF Unwrap
    <3> QED  BY <1>1, <3>1, FineUnwrap
  <2> QED  BY <1>3, <1>4, <1>6, <2>1 DEF ResultOf, UninstallOf, b
<1>7. CASE k = "add"
  <2>1. ResultOf(p, k, c, n, url, only) = AddRemoteOf(p, c, n, url)
    BY <1>7 DEF ResultOf
  <2>2. n \in SafeNames /\ url \in Url /\ AddRemoteOf(p, c, n, url) = Result("wrote", ReplaceRemote(c, n, url, Xcg[p]))
    BY <1>3, <2>1 DEF AddRemoteOf
  <2>3. n \in Name
    BY <1>7, <2>2, ConfigAssumption
  <2>4. url \in b[n] /\ \A s \in Name : a[s] \subseteq b[s]
    BY <1>7, <2>3, WithFacts DEF b
  <2>5. FineConfig(ReplaceRemote(c, n, url, Xcg[p]), o, b)
    <3> SUFFICES ASSUME NEW s \in DOMAIN c.mcp \cup {n} PROVE Fine(s, ReplaceRemote(c, n, url, Xcg[p]).mcp[s], o, b)
      BY <1>2 DEF ReplaceRemote, FineConfig
    <3>1. ReplaceRemote(c, n, url, Xcg[p]).mcp[s] = IF s = n THEN RemoteEntry(n, url, Xcg[p]) ELSE c.mcp[s]
      BY <1>2 DEF ReplaceRemote
    <3>2. s # n => Fine(s, c.mcp[s], o, b)
      BY <1>1, <2>4, FineGrows DEF IsConfig
    <3> QED  BY <1>0, <2>2, <2>4, <3>1, <3>2, FineBridge
  <2> QED  BY <1>3, <2>1, <2>2, <2>3, <2>5 DEF b
<1>8. CASE k = "remove"
  <2>1. FineConfig(RemoveRemote(c, n), o, a)
    BY <1>1, <1>2 DEF RemoveRemote, FineConfig
  <2> QED  BY <1>3, <1>4, <1>8, <2>1 DEF ResultOf, RemoveRemoteOf, b
<1>9. CASE k \notin {"install", "uninstall", "add", "remove"}
  <2> DEFINE w == [c EXCEPT !.mcp = [s \in DOMAIN c.mcp |-> IF s \in Broken(c) THEN [c.mcp[s] EXCEPT !.cmd = Link] ELSE c.mcp[s]]]
  <2>1. FineConfig(w, o, a)
    <3> SUFFICES ASSUME NEW s \in DOMAIN c.mcp PROVE Fine(s, w.mcp[s], o, a)
      BY <1>2 DEF FineConfig
    <3>1. w.mcp[s] = IF s \in Broken(c) THEN [c.mcp[s] EXCEPT !.cmd = Link] ELSE c.mcp[s]
      BY <1>2
    <3>2. s \in Broken(c) => IsAlreadyWrapped(c.mcp[s])
      BY DEF Broken
    <3> HIDE DEF w
    <3> QED  BY <1>0, <1>1, <3>1, <3>2, FineRehome
  <2>2. ResultOf(p, k, c, n, url, only) = IF Broken(c) = {} THEN Result("noop", c) ELSE Result("wrote", w)
    BY <1>9 DEF ResultOf, RepairOf
  <2> HIDE DEF w
  <2> QED  BY <1>3, <1>4, <1>9, <2>1, <2>2 DEF b
<1> QED  BY <1>5, <1>6, <1>7, <1>8, <1>9 DEF b

-----------------------------------------------------------------------------
(* The steps.                                                              *)

\* Handlers that write what they wrote, and a file and a backup that are fine.
SameWrite(o, r) == Writing(o) /\ r.k = o.k /\ r.want = o.want /\ r.name = o.name /\ r.url = o.url

LEMMA EntriesStep ==
    ASSUME CInv, EInv, own' = [n \in Name |-> own'[n]], asked' = [n \in Name |-> asked'[n]],
           \A n \in Name : own[n] \subseteq own'[n] /\ asked[n] \subseteq asked'[n],
           file' = file \/ file' = bak \/ (Readable(file') => FineConfig(file', own', asked')),
           bak' = bak \/ bak' = file,
           \A p \in Proc : Writing(op'[p]) => SameWrite(op[p], op'[p]) \/ FineOp(op'[p], own', asked')
    PROVE  EInv'
<1>1. ASSUME NEW c \in {file, bak}, Readable(c) PROVE FineConfig(c, own', asked')
  <2>1. IsConfig(c) /\ FineConfig(c, own, asked)
    BY <1>1, ConfigFacts DEF CInv, ShapeOK, IsFile, EInv
  <2> QED  BY <2>1, ConfigGrows
<1>2. ASSUME NEW p \in Proc, Writing(op'[p]) PROVE FineOp(op'[p], own', asked')
  <2>1. CASE SameWrite(op[p], op'[p])
    <3>1. FineOp(op[p], own', asked')
      BY <2>1, OpGrows DEF EInv, SameWrite
    <3> QED  BY <2>1, <3>1 DEF SameWrite, FineOp
  <2> QED  BY <1>2, <2>1
<1>3. \A c \in {file', bak'} : Readable(c) => FineConfig(c, own', asked')
  BY <1>1
<1> QED  BY <1>2, <1>3 DEF EInv, Readable

LEMMA SameOp ==
    \A o : Writing(o) => /\ SameWrite(o, o)
                         /\ \A at : SameWrite(o, [o EXCEPT !.at = at])
                         /\ \A b : SameWrite(o, [o EXCEPT !.calm = b])
  BY DEF SameWrite, Writing

LEMMA NotWriting ==
    /\ ~ Writing(Idle)
    /\ \A o : Repairing(o) => ~ Writing(o)
  BY OpFacts

\* Whoever was under way still is about to write the same.
LEMMA DisturbedSame ==
    ASSUME OpType, NEW p, NEW q \in Proc, Writing(Disturbed(op, p)[q])
    PROVE  SameWrite(op[q], Disturbed(op, p)[q])
<1> DEFINE d == Disturbed(op, p)
<1>1. d[q] = IF q # p /\ "calm" \in DOMAIN op[q] THEN [op[q] EXCEPT !.calm = FALSE] ELSE op[q]
  BY DEF Disturbed
<1>2. IsOp(op[q])
  BY DEF OpType
<1>3. CASE Writing(op[q])
  BY <1>1, <1>3, SameOp
<1>4. CASE Repairing(op[q])
  BY <1>1, <1>4, CalmLost, NotWriting, OpFacts
<1>5. CASE op[q] = Idle
  BY <1>1, <1>5, OpFacts
<1> QED  BY <1>2, <1>3, <1>4, <1>5 DEF IsOp

\* One handler goes on, and writes nothing yet.
LEMMA OneStep ==
    ASSUME CInv, EInv, NEW p \in Proc, NEW r, op' = [op EXCEPT ![p] = r], UNCHANGED <<file, own, asked>>, bak' = bak \/ bak' = file,
           Writing(r) => SameWrite(op[p], r) \/ FineOp(r, own, asked)
    PROVE  EInv'
<1>1. op'[p] = r /\ \A q \in Proc \ {p} : op'[q] = op[q]
  BY DEF CInv, ShapeOK, OpType
<1>2. ASSUME NEW q \in Proc, Writing(op'[q]) PROVE SameWrite(op[q], op'[q]) \/ FineOp(op'[q], own', asked')
  <2>1. CASE q = p
    BY <1>1, <1>2, <2>1
  <2>2. CASE q # p
    BY <1>1, <1>2, <2>2, SameOp
  <2> QED  BY <2>1, <2>2
<1>3. own' = [n \in Name |-> own'[n]] /\ asked' = [n \in Name |-> asked'[n]]
  BY DEF EInv
<1>4. \A n \in Name : own[n] \subseteq own'[n] /\ asked[n] \subseteq asked'[n]
  OBVIOUS
<1> QED  BY <1>2, <1>3, <1>4, EntriesStep

LEMMA AnswerKeeps ==
    ASSUME CInv, EInv, NEW p \in Proc, NEW a, Answer(p, a), UNCHANGED <<file, bak, own, asked>>
    PROVE  EInv'
<1>1. op' = [op EXCEPT ![p] = Idle]
  BY DEF Answer
<1> QED  BY <1>1, OneStep, NotWriting

LEMMA ParseKeeps ==
    ASSUME CInv, EInv, NEW p \in Proc, NEW k, NEW n, NEW url, NEW only, NEW mode,
           Parse(p, k, n, url, only, mode), k = "add" => n \in Name \cup {"-s"}, UNCHANGED <<file, bak, own, asked>>
    PROVE  EInv'
<1> DEFINE b == Calm(p)
           res == ResultOf(p, k, file, n, url, only)
           w == [k |-> k, at |-> "backup", want |-> res.want, name |-> n, url |-> url, calm |-> b]
           v == [k |-> k, at |-> "validate", calm |-> b]
<1>1. \/ \E a : Answer(p, a)
      \/ Readable(file) /\ res.out = "wrote" /\ op' = [op EXCEPT ![p] = w]
      \/ op' = [op EXCEPT ![p] = v]
  BY DEF Parse
<1>2. CASE \E a : Answer(p, a)
  BY <1>2, AnswerKeeps
<1>3. CASE Readable(file) /\ res.out = "wrote" /\ op' = [op EXCEPT ![p] = w]
  <2>1. IsConfig(file) /\ FineConfig(file, own, asked)
    BY <1>3, ConfigFacts DEF CInv, ShapeOK, IsFile, EInv
  <2>2. (k = "add" => n \in Name) /\ FineConfig(res.want, own, With(k, n, url, asked))
    BY <1>3, <2>1, ResultKeeps DEF EInv
  <2> HIDE DEF b, res
  <2>3. w.k = k /\ w.want = res.want /\ w.name = n /\ w.url = url
    OBVIOUS
  <2> HIDE DEF w
  <2>4. FineOp(w, own, asked)
    BY <2>2, <2>3 DEF FineOp
  <2> QED  BY <1>3, <2>4, OneStep
<1>4. CASE op' = [op EXCEPT ![p] = v]
  <2>1. v.at = "validate"
    OBVIOUS
  <2> HIDE DEF v
  <2>2. ~ Writing(v)
    BY <2>1 DEF Writing
  <2> QED  BY <1>4, <2>2, OneStep
<1> QED  BY <1>1, <1>2, <1>3, <1>4

LEMMA BeginKeeps ==
    ASSUME CInv, EInv, NEW p \in Proc,
           \/ Install(p) \/ Uninstall(p) \/ (p = "app" /\ AddRemote) \/ (p = "app" /\ RemoveRemoteEntry)
           \/ Status(p) \/ (p = "app" /\ \E n \in Name : IsConnected(n)) \/ (p = "app" /\ ValidateHealth)
    PROVE  EInv'
<1>1. UNCHANGED <<file, bak, own, asked>>
  BY DEF Start, Install, Uninstall, AddRemote, RemoveRemoteEntry, Status, IsConnected, ValidateHealth
<1>2. CASE \E a : Answer(p, a)
  BY <1>1, <1>2, AnswerKeeps
<1>3. ASSUME NEW k, NEW n, NEW url, NEW only, NEW mode, Parse(p, k, n, url, only, mode), k = "add" => n \in Name \cup {"-s"}
      PROVE  EInv'
  BY <1>1, <1>3, ParseKeeps
<1>4. CASE Install(p)
  BY <1>3, <1>4 DEF Install
<1>5. CASE Uninstall(p)
  BY <1>3, <1>5 DEF Uninstall
<1>6. CASE p = "app" /\ AddRemote
  BY <1>3, <1>6 DEF AddRemote
<1>7. CASE p = "app" /\ RemoveRemoteEntry
  BY <1>3, <1>7 DEF RemoveRemoteEntry
<1>8. CASE Status(p)
  BY <1>2, <1>8 DEF Status
<1>9. CASE p = "app" /\ \E n \in Name : IsConnected(n)
  BY <1>2, <1>9 DEF IsConnected
<1>10. CASE p = "app" /\ ValidateHealth
  BY <1>2, <1>10 DEF ValidateHealth
<1> QED  BY <1>4, <1>5, <1>6, <1>7, <1>8, <1>9, <1>10

LEMMA StageKeeps ==
    ASSUME CInv, EInv, NEW p \in Proc, LookForBackup(p) \/ CopyBackup(p)
    PROVE  EInv'
<1>1. Writing(op[p]) /\ UNCHANGED <<file, own, asked>> /\ (bak' = bak \/ bak' = file)
  BY AtFacts DEF LookForBackup, CopyBackup
<1>2. ASSUME NEW at, Stage(p, at) PROVE EInv'
  <2>1. op' = [op EXCEPT ![p] = [op[p] EXCEPT !.at = at]]
    BY <1>2 DEF Stage, CInv, ShapeOK, OpType
  <2> QED  BY <1>1, <2>1, SameOp, OneStep
<1>3. CASE LookForBackup(p)
  BY <1>2, <1>3 DEF LookForBackup
<1>4. CASE CopyBackup(p) /\ WriteError(p) /\ bak' = bak
  BY <1>1, <1>4, AnswerKeeps DEF WriteError
<1>5. CASE CopyBackup(p) /\ Stage(p, "rename")
  BY <1>2, <1>5
<1> QED  BY <1>3, <1>4, <1>5 DEF CopyBackup

LEMMA RenameKeeps ==
    ASSUME CInv, EInv, NEW p \in Proc, Rename(p)
    PROVE  EInv'
<1> DEFINE d == Disturbed(op, p)
           v == [k |-> "repair", at |-> "validate", calm |-> op[p].calm]
           o == op[p]
<1>1. Writing(o) /\ FineOp(o, own, asked) /\ UNCHANGED <<bak, own>>
  BY AtFacts DEF Rename, EInv
<1>2. CASE WriteError(p) /\ UNCHANGED <<file, asked>>
  BY <1>1, <1>2, AnswerKeeps DEF WriteError
<1>3. CASE /\ file' = o.want /\ asked' = With(o.k, o.name, o.url, asked)
           /\ \E r \in {Idle, v} : op' = [d EXCEPT ![p] = r]
  <2>1. PICK r \in {Idle, v} : op' = [d EXCEPT ![p] = r]
    BY <1>3
  <2>2. ~ Writing(r)
    <3>1. v.at = "validate"
      OBVIOUS
    <3> HIDE DEF v
    <3>2. ~ Writing(v)
      BY <3>1 DEF Writing
    <3> QED  BY <3>2, NotWriting
  <2>3. FineConfig(file', own', asked') /\ (o.k = "add" => o.name \in Name)
    BY <1>1, <1>3 DEF FineOp
  <2>4. asked' = [n \in Name |-> asked'[n]] /\ \A n \in Name : asked[n] \subseteq asked'[n]
    <3>1. asked' = With(o.k, o.name, o.url, asked) /\ (o.k = "add" => o.name \in Name)
      BY <1>3, <2>3
    <3>2. asked = [n \in Name |-> asked[n]]
      BY DEF EInv
    <3> HIDE DEF o
    <3>3. LET b == With(o.k, o.name, o.url, asked) IN b = [n \in Name |-> b[n]] /\ \A n \in Name : asked[n] \subseteq b[n]
      BY <3>1, <3>2, WithFacts
    <3> QED  BY <3>1, <3>3
  <2>5. own' = [n \in Name |-> own'[n]] /\ \A n \in Name : own[n] \subseteq own'[n]
    BY <1>1 DEF EInv
  <2>6. DOMAIN d = Proc
    BY DEF Disturbed
  <2>7. ASSUME NEW q \in Proc, Writing(op'[q]) PROVE SameWrite(op[q], op'[q])
    <3> HIDE DEF d, v, o
    <3>1. op'[q] = IF q = p THEN r ELSE d[q]
      BY <2>1, <2>6
    <3>2. q # p
      BY <2>2, <2>7, <3>1
    <3> QED  BY <2>7, <3>1, <3>2, DisturbedSame DEF CInv, ShapeOK, d
  <2> HIDE DEF d, v, o
  <2> QED  BY <1>1, <2>3, <2>4, <2>5, <2>7, EntriesStep
<1> QED  BY <1>1, <1>2, <1>3 DEF Rename, With

LEMMA LinkKeeps ==
    ASSUME CInv, EInv, BootstrapStableSymlink \/ Repair \/ RepairParse \/ RepairValidate \/ (\E p \in Proc : Dies(p))
    PROVE  EInv'
<1>0. "app" \in Proc
  BY DEF Proc
<1>1. UNCHANGED <<file, bak, own, asked>>
  BY DEF BootstrapStableSymlink, Repair, RepairParse, RepairValidate, Dies
<1>2. CASE BootstrapStableSymlink
  <2>1. op' = Disturbed(op, "app")
    BY <1>2 DEF BootstrapStableSymlink
  <2>2. \A q \in Proc : Writing(op'[q]) => SameWrite(op[q], op'[q])
    BY <2>1, DisturbedSame DEF CInv, ShapeOK
  <2>3. own' = [n \in Name |-> own'[n]] /\ asked' = [n \in Name |-> asked'[n]]
    BY <1>1 DEF EInv
  <2>4. \A n \in Name : own[n] \subseteq own'[n] /\ asked[n] \subseteq asked'[n]
    BY <1>1
  <2> QED  BY <1>1, <2>2, <2>3, <2>4, EntriesStep
<1>3. CASE Repair
  <2> DEFINE r == [k |-> "repair", at |-> "parse", calm |-> TRUE]
  <2>1. op' = [op EXCEPT !["app"] = r] \/ \E a : Answer("app", a)
    BY <1>3 DEF Repair
  <2>2. r.at = "parse"
    OBVIOUS
  <2> HIDE DEF r
  <2>3. ~ Writing(r)
    BY <2>2 DEF Writing
  <2> QED  BY <1>0, <1>1, <2>1, <2>3, OneStep, AnswerKeeps
<1>4. CASE RepairParse
  BY <1>0, <1>1, <1>4, ParseKeeps DEF RepairParse
<1>5. CASE RepairValidate
  BY <1>0, <1>1, <1>5, AnswerKeeps DEF RepairValidate
<1>6. ASSUME NEW p \in Proc, Dies(p) PROVE EInv'
  <2>1. op' = [op EXCEPT ![p] = Idle]
    BY <1>6 DEF Dies
  <2> QED  BY <1>1, <2>1, OneStep, NotWriting
<1> QED  BY <1>2, <1>3, <1>4, <1>5, <1>6

LEMMA OthersKeep ==
    ASSUME CInv, EInv, Others
    PROVE  EInv'
<1>1. UNCHANGED <<bak, asked>> /\ op' = Disturbed(op, Nobody)
  BY DEF Others, UserWrites, ClaudeDrops, FileBreaks, UserRestores, LinkReplaced, AppMoves, Edit
<1>2. \A q \in Proc : Writing(op'[q]) => SameWrite(op[q], op'[q])
  BY <1>1, DisturbedSame DEF CInv, ShapeOK
<1>3. asked' = [n \in Name |-> asked'[n]] /\ \A n \in Name : asked[n] \subseteq asked'[n]
  BY <1>1 DEF EInv
<1>4. own = [n \in Name |-> own[n]]
  BY DEF EInv
<1>5. Readable(file) => IsConfig(file) /\ FineConfig(file, own, asked)
  BY ConfigFacts DEF CInv, ShapeOK, IsFile, EInv
<1>6. ASSUME own' = own, file' = file \/ file' = bak \/ (Readable(file') => FineConfig(file', own, asked)) PROVE EInv'
  BY <1>1, <1>2, <1>3, <1>4, <1>6, EntriesStep
<1>7. ASSUME NEW n \in Name, NEW e \in Given, UserWrites(n, e) PROVE EInv'
  <2> DEFINE m == [s \in DOMAIN file.mcp \union {n} |-> IF s = n THEN e ELSE file.mcp[s]]
  <2>1. Readable(file) /\ file' = [file EXCEPT !.mcp = m] /\ own' = [own EXCEPT ![n] = @ \union {e}]
    BY <1>7 DEF UserWrites
  <2>2. file'.mcp = m /\ IsConfig(file) /\ FineConfig(file, own, asked)
    BY <1>5, <2>1 DEF IsConfig, Config
  <2>3. own' = [s \in Name |-> own'[s]] /\ e \in own'[n] /\ \A s \in Name : own[s] \subseteq own'[s]
    BY <1>4, <2>1
  <2>4. FineConfig(file, own', asked)
    BY <2>2, <2>3, ConfigGrows
  <2>5. IsServer(e) /\ e.cmd \notin Proxies /\ IsOthers(e)
    BY ServersAssumption DEF IsOthers
  <2>6. Fine(n, e, own', asked)
    BY <2>3, <2>5, FineOthers DEF Basis
  <2>7. FineConfig(file', own', asked')
    BY <1>1, <2>2, <2>4, <2>6 DEF FineConfig
  <2> QED  BY <1>1, <1>2, <1>3, <2>3, <2>7, EntriesStep
<1>8. CASE ClaudeDrops
  <2> DEFINE m == [s \in DOMAIN file.mcp \ Of(file, "no-command") |-> file.mcp[s]]
  <2>1. Readable(file) /\ file' = [file EXCEPT !.mcp = m] /\ own' = own
    BY <1>8 DEF ClaudeDrops
  <2>2. file'.mcp = m /\ FineConfig(file, own, asked)
    BY <1>5, <2>1 DEF IsConfig, Config
  <2> QED  BY <1>6, <2>1, <2>2 DEF FineConfig
<1>9. CASE FileBreaks
  BY <1>6, <1>9, ConfigFacts DEF FileBreaks
<1>10. CASE UserRestores \/ LinkReplaced \/ \E b \in Binaries : AppMoves(b)
  BY <1>6, <1>10 DEF UserRestores, LinkReplaced, AppMoves
<1> QED  BY <1>7, <1>8, <1>9, <1>10 DEF Others

-----------------------------------------------------------------------------
(* The invariant, and what it shows.                                       *)

LEMMA EntriesInit == Init => EInv
<1> SUFFICES ASSUME Init PROVE EInv
  OBVIOUS
<1>1. PICK i \in InitialFiles : file = i.file /\ own = i.own
  BY DEF Init
<1>2. own = [n \in Name |-> own[n]] /\ asked = [n \in Name |-> asked[n]]
  BY <1>1, ServersAssumption DEF Init
<1>3. \A p \in Proc : ~ Writing(op[p])
  BY NotWriting DEF Init
<1>4. bak = NoBackup /\ ~ Readable(bak)
  BY ConfigFacts DEF Init
<1>5. ASSUME Readable(file), NEW n \in DOMAIN file.mcp PROVE Fine(n, file.mcp[n], own, asked)
  <2>1. IsConfig(file)
    BY <1>1, <1>5, ConfigFacts, OthersAssumption
  <2>2. PICK u \in own[n] : IsOthers(u) /\ (file.mcp[n] = u \/ IsWrapOf(n, file.mcp[n], u))
    BY <1>1, <1>5, ServersAssumption
  <2>3. Basis(n, u, own, asked)
    BY <2>2 DEF Basis, IsOthers
  <2> QED  BY <2>2, <2>3, FineOthers
<1> QED  BY <1>2, <1>3, <1>4, <1>5 DEF EInv, FineConfig

LEMMA EntriesNext == CInv /\ EInv /\ [Next]_vars => EInv'
<1> SUFFICES ASSUME CInv, EInv, [Next]_vars PROVE EInv'
  OBVIOUS
<1>1. ASSUME NEW p \in Proc, Install(p) \/ Uninstall(p) \/ Status(p) \/ WriteAtomic(p) \/ Dies(p) PROVE EInv'
  BY <1>1, BeginKeeps, StageKeeps, RenameKeeps, LinkKeeps DEF WriteAtomic
<1>2. CASE AddRemote \/ RemoveRemoteEntry \/ (\E n \in Name : IsConnected(n)) \/ ValidateHealth
  BY <1>2, BeginKeeps DEF Proc
<1>3. CASE BootstrapStableSymlink \/ Repair \/ RepairParse \/ RepairValidate \/ Others
  BY <1>3, LinkKeeps, OthersKeep
<1>4. CASE UNCHANGED vars
  BY <1>4 DEF vars, EInv, Readable
<1> QED  BY <1>1, <1>2, <1>3, <1>4 DEF Next

LEMMA EntriesKept == CInv /\ EInv => UserEntriesKept
<1> SUFFICES ASSUME CInv, EInv, NEW c \in {file, bak}, Readable(c), NEW n \in DOMAIN c.mcp PROVE EntryKept(n, c.mcp[n])
  BY DEF UserEntriesKept
<1>1. n \in Name
  BY ConfigFacts DEF CInv, ShapeOK, IsFile, IsConfig
<1>2. Fine(n, c.mcp[n], own, asked)
  BY DEF EInv, FineConfig
<1> QED  BY <1>1, <1>2, FineKept

\* However the handlers of both processes fall between the edits of others, the
\* moves of the app, deaths and failed writes, every entry of the file and of
\* its backup is what someone else wrote under its name, wrapped at most once,
\* listed and started as that server, or is the bridge that was asked for.
THEOREM UserEntriesKeptHolds == Spec => []UserEntriesKept
<1> QED  BY EntriesKept, ConfigInit, ConfigStep, EntriesInit, EntriesNext, PTL DEF Spec

\* The same of both files, for any entries, names, urls, approvals and plans:
\* whatever the app and the CLI do, what a user has of servers stays there.
THEOREM UserServersKeptHolds == MCSpec => []UserServersKept
<1> DEFINE Both == CInv /\ EInv /\ SInv
<1>1. MCInit => Both
  BY ConfigInit, EntriesInit, McpStart DEF MCInit
<1>2. Both /\ [MCNext]_<<vars, mvars, scene>> => Both'
  <2> SUFFICES ASSUME Both, [MCNext]_<<vars, mvars, scene>> PROVE Both'
    OBVIOUS
  <2>1. [Next]_vars /\ [McpNext]_mvars
    BY DEF MCNext
  <2> QED  BY <2>1, ConfigStep, EntriesNext, McpStep
<1>3. Both => UserServersKept
  BY McpKept, EntriesKept DEF UserServersKept
<1> QED  BY <1>1, <1>2, <1>3, PTL DEF MCSpec

=============================================================================
