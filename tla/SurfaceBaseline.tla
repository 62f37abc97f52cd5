-------------------------- MODULE SurfaceBaseline --------------------------
(***************************************************************************)
(* What the proxies remember of a connector's surface, and the changes     *)
(* they write to the trail (proxy: manifest.ts, manifest-sections.ts,      *)
(* manifest-v2.ts, manifest-migrate.ts, section-store.ts, heuristics.ts).  *)
(*                                                                         *)
(* Every client runs a proxy of its own for the connector, and all share   *)
(* one v1 file and one v2 file.  An observation is synchronous in its      *)
(* process; it reads, writes and reads again, and another process can act  *)
(* between any two of these.                                               *)
(*                                                                         *)
(* A catalog maps the names of a section's items to their definitions: d   *)
(* the description, s the schema, x every field the v1 format never        *)
(* watched.  A hash of a catalog stands for the catalog.                   *)
(***************************************************************************)
EXTENDS Naturals, FiniteSets, Sequences

CONSTANTS
    Proxy,
    Section,
    Shows,      \* [Section -> the catalogs the server may show]
    Params,     \* [schema -> the parameters it declares]
    Sensitive,  \* the parameters isSensitiveParamName accepts
    Since,      \* [text a review rule matches -> the first rule version that does]
    Long,       \* descriptions that insert many characters over any other
    Build,      \* [fmt : the format it writes, ver : its rule version]
    Responses,  \* among "full", "page" (a nextCursor) and "bad" (no collection)
    MaxObs, MaxMoves, MaxSwitch,
    Faults,     \* among "write", "crash", "corrupt", "newer"
    MaxFault,
    None

VARIABLES
    shown,      \* what the server answers now
    v1, v2,     \* the two files
    build,      \* the build each client runs
    proc,       \* the observation each proxy is in
    trail,      \* the connector_change lines, both builds'
    recorded,   \* the last snapshot written, by any proxy
    silent,     \* what was written over a snapshot and is owed a line
    hops,       \* changes between one observation and the next
    cause,      \* the windows that opened
    used

vars == <<shown, v1, v2, build, proc, trail, recorded, silent, hops, cause, used>>

----------------------------------------------------------------------------
(* The tools classifier.                                                   *)

(* buildManifest: what the v1 format watches.                              *)
Manifest(cat) == [n \in DOMAIN cat |-> [d |-> cat[n].d, s |-> cat[n].s]]

AddedSurface(p, n) == Params[n.s] \ Params[p.s]

(* describeChanges, over the tools that moved.                             *)
DescribeChanges(prev, next) ==
    LET both == DOMAIN prev \cap DOMAIN next
    IN  {<<"item_added", n>> : n \in DOMAIN next \ DOMAIN prev}
        \cup {<<"item_removed", n>> : n \in DOMAIN prev \ DOMAIN next}
        \cup {<<"description_changed", n>> : n \in {m \in both : prev[m].d # next[m].d}}
        \cup {<<IF AddedSurface(prev[n], next[n]) = {} THEN "schema_changed" ELSE "surface_added", n>> :
                 n \in {m \in both : prev[m].s # next[m].s}}

(* scanToolSurface: every text of the definition is walked.                *)
Marked(ver, def) ==
    \E t \in {def.d, def.s, def.x} : t \in DOMAIN Since /\ Since[t] <= ver

(* scanRules: a tool that moved is judged by what it can now receive and   *)
(* by its whole new definition.                                            *)
ScanRules(ver, prev, next, defs) ==
    LET moved == {n \in DOMAIN next : n \notin DOMAIN prev \/ prev[n] # next[n]}
        grown(n) == IF n \in DOMAIN prev THEN AddedSurface(prev[n], next[n]) ELSE Params[next[n].s]
    IN  {<<"sensitive_param_added", n>> : n \in {m \in moved : grown(m) \cap Sensitive # {}}}
        \cup {<<"injection_marker", n>> : n \in {m \in moved : Marked(ver, defs[m])}}

Report(changes, findings) == [changes |-> changes, findings |-> findings]

(* One report, or none.                                                    *)
ReportChanges(ver, prev, next, defs) ==
    IF prev = next THEN <<>>
    ELSE <<Report(DescribeChanges(prev, next), ScanRules(ver, prev, next, defs))>>

ReviewToolSurfaces(ver, cat) ==
    {<<"injection_marker", n>> : n \in {m \in DOMAIN cat : Marked(ver, cat[m])}}

(* The generic diff of the other sections: one entry per item, no rule.    *)
ItemChanges(prev, next) ==
    LET kind(n) == CASE n \notin DOMAIN prev -> "item_added"
                     [] n \notin DOMAIN next -> "item_removed"
                     [] prev[n].d # next[n].d -> "description_changed"
                     [] OTHER -> "schema_changed"
        same(n) == n \in DOMAIN prev \cap DOMAIN next /\ prev[n] = next[n]
    IN  {<<kind(n), n>> : n \in {m \in DOMAIN prev \cup DOMAIN next : ~ same(m)}}

ChangeBetween(ver, sec, before, after) ==
    IF sec = "tools" THEN ReportChanges(ver, Manifest(before), Manifest(after), after)
    ELSE IF before = after THEN <<>> ELSE <<Report(ItemChanges(before, after), {})>>

(* attentionFor: one item's text moved, and by much.                       *)
AttentionFor(before, after) ==
    LET names == DOMAIN before \cup DOMAIN after
        same(n) == n \in DOMAIN before \cap DOMAIN after /\ before[n].d = after[n].d
        moved == {n \in names : ~ same(n)}
    IN  /\ Cardinality(moved) <= 1
        /\ \E n \in moved \cap DOMAIN before \cap DOMAIN after : after[n].d \in Long

----------------------------------------------------------------------------
Nothing == [s \in Section |-> None]

NoFile == [kind |-> "absent", secs |-> Nothing]

Idle == [pc |-> "idle"]

(* An observation, of o: the file it read, the sections it will write, the *)
(* lines it owes, and what was recorded (by anyone) when it read.          *)
At(pc, o, read, next, lines, seen) ==
    [pc |-> pc, sec |-> o.sec, kind |-> o.kind, cat |-> o.cat,
     read |-> read, next |-> next, lines |-> lines, seen |-> seen]

Init ==
    /\ shown \in [Section -> UNION {Shows[s] : s \in Section}]
    /\ \A s \in Section : shown[s] \in Shows[s]
    /\ v1 = None
    /\ v2 = NoFile
    /\ build \in [Proxy -> Build]
    /\ proc = [p \in Proxy |-> Idle]
    /\ trail = <<>>
    /\ recorded = Nothing
    /\ silent = {}
    /\ hops = [s \in Section |-> [cat |-> None, n |-> 0]]
    /\ cause = {}
    /\ used = [obs |-> 0, moves |-> 0, switches |-> 0, faults |-> 0]

Fails(k) == k \in Faults /\ used.faults < MaxFault /\ used' = [used EXCEPT !.faults = @ + 1]

(* wire_hash of a section, as readBaselineV2 finds it.                     *)
Hash(sec) == IF v2.kind = "ok" /\ v2.secs[sec] # None THEN v2.secs[sec].snap ELSE None

Line(t, sec, to, report, attention) ==
    [t |-> t, sec |-> sec, to |-> to, changes |-> report.changes,
     findings |-> report.findings, attention |-> attention]

Changed(sec, to, reports, attention) ==
    IF reports = <<>> THEN <<>> ELSE <<Line("change", sec, to, reports[1], attention)>>

Reviewed(sec, to, found) ==
    IF found = {} THEN <<>> ELSE <<Line("review", sec, to, Report({}, found), FALSE)>>

Go(p, o) == proc' = [proc EXCEPT ![p] = o]

(* On to the v1 file: what was read and planned is dropped.                *)
ToV1(p, seen) == Go(p, At("v1", proc[p], None, None, proc[p].lines, seen))

(* The v1 file is done with.                                               *)
Done(p) == Go(p, At("after", proc[p], None, None, proc[p].lines, None))

Others(p) == IF \E q \in Proxy \ {p} : proc[q].pc # "idle" THEN {"overlap"} ELSE {}

Hop(sec) ==
    hops' = [hops EXCEPT ![sec] =
               [cat |-> shown[sec],
                n |-> IF hops[sec].cat \in {None, shown[sec]} THEN hops[sec].n ELSE hops[sec].n + 1]]

----------------------------------------------------------------------------
(* observe, of the build that keeps the v2 file.                           *)

(* A result arrives.                                                       *)
Respond(p, sec, kind) ==
    /\ proc[p].pc = "idle" /\ build[p].fmt = 2 /\ used.obs < MaxObs
    /\ used' = [used EXCEPT !.obs = @ + 1]
    /\ Go(p, At("base", [sec |-> sec, kind |-> kind, cat |-> shown[sec]], None, None, <<>>, None))
    /\ IF kind = "full" THEN Hop(sec) ELSE hops' = hops
    /\ cause' = cause \cup Others(p)
    /\ UNCHANGED <<shown, v1, v2, build, trail, recorded, silent>>

(* A page is not the surface: no file is touched.                          *)
SkipPage(p) ==
    /\ proc[p].pc = "base" /\ proc[p].kind = "page"
    /\ Done(p)
    /\ UNCHANGED <<shown, v1, v2, build, trail, recorded, silent, hops, cause, used>>

(* A result without its collection, or a newer build's file.               *)
SkipResult(p) ==
    /\ proc[p].pc = "base" /\ proc[p].kind # "page"
    /\ proc[p].kind = "bad" \/ v2.kind = "future"
    /\ ToV1(p, recorded)
    /\ UNCHANGED <<shown, v1, v2, build, trail, recorded, silent, hops, cause, used>>

(* The sections to go on from; a corrupt file is as good as none.          *)
Stored == IF v2.kind = "ok" THEN v2.secs ELSE Nothing

Readable(p) == proc[p].pc = "base" /\ proc[p].kind = "full" /\ v2.kind # "future"

SeedReviewsAll(sec, change) == sec = "tools"

(* What was compared with the v1 file is not reviewed yet.                 *)
SeedReviews(sec, change) == sec = "tools" /\ change = <<>>

SeedLines(o, change, found) ==
    IF change # <<>> THEN Changed(o.sec, o.cat, change, FALSE) ELSE Reviewed(o.sec, o.cat, found)

(* First time the section is tracked: write it down, and judge it.  tools  *)
(* asks the v1 file first.                                                 *)
Seed(p, base, read, change) ==
    LET me == proc[p]
        judged == SeedReviews(me.sec, change)
        found == IF judged THEN ReviewToolSurfaces(build[p].ver, me.cat) ELSE {}
        state == [snap |-> me.cat, rev |-> IF judged THEN build[p].ver ELSE 0]
    IN  Go(p, At("check", me, read, [base EXCEPT ![me.sec] = state], SeedLines(me, change, found), recorded))

SeedSection(p) ==
    /\ Readable(p) /\ proc[p].sec # "tools" /\ Stored[proc[p].sec] = None
    /\ Seed(p, Stored, v2, <<>>)
    /\ UNCHANGED <<shown, v1, v2, build, trail, recorded, silent, hops, cause, used>>

ReadForMigration(p) ==
    /\ Readable(p) /\ proc[p].sec = "tools" /\ Stored["tools"] = None
    /\ Go(p, At("migrate", proc[p], v2, Stored, <<>>, None))
    /\ UNCHANGED <<shown, v1, v2, build, trail, recorded, silent, hops, cause, used>>

PlanMigrationSilent(ver, cat) == <<>>

PlanMigration(ver, cat) ==
    IF v1 = None THEN <<>> ELSE ReportChanges(ver, v1, Manifest(cat), cat)

Migrate(p) ==
    /\ proc[p].pc = "migrate"
    /\ Seed(p, proc[p].next, proc[p].read, PlanMigration(build[p].ver, proc[p].cat))
    /\ UNCHANGED <<shown, v1, v2, build, trail, recorded, silent, hops, cause, used>>

(* staleReviewRules.                                                       *)
Stale(ver, sec, state) == sec = "tools" /\ state.rev < ver

(* The stored catalog is judged by the rules that are new to it, then the  *)
(* new one is compared with it.                                            *)
Compare(p) ==
    LET me == proc[p]
        ver == build[p].ver
        old == Stored[me.sec]
        stale == Stale(ver, me.sec, old)
        found == IF stale THEN ReviewToolSurfaces(ver, old.snap) ELSE {}
        change == ChangeBetween(ver, me.sec, old.snap, me.cat)
        lines == Reviewed(me.sec, old.snap, found)
                 \o Changed(me.sec, me.cat, change, AttentionFor(old.snap, me.cat))
        state == [snap |-> me.cat, rev |-> IF stale THEN ver ELSE old.rev]
    IN  /\ Readable(p) /\ old # None
        /\ IF ~ stale /\ old.snap = me.cat THEN ToV1(p, recorded)
           ELSE Go(p, At("check", me, v2, [Stored EXCEPT ![me.sec] = state], lines, recorded))
        /\ UNCHANGED <<shown, v1, v2, build, trail, recorded, silent, hops, cause, used>>

(* writeBaselineV2 looks again for a newer build's file, and renames.      *)
Check(p) ==
    /\ proc[p].pc = "check"
    /\ LET me == proc[p]
       IN  IF v2.kind = "future" THEN ToV1(p, me.seen)
           ELSE Go(p, At("rename", me, me.read, me.next, me.lines, me.seen))
    /\ UNCHANGED <<shown, v1, v2, build, trail, recorded, silent, hops, cause, used>>

(* What a write puts over another snapshot is owed a line.                 *)
Owes(s, was, now) ==
    IF was \in {None, now} THEN {} ELSE {[sec |-> s, from |-> was, to |-> now]}

NewFile(p) == [kind |-> "ok", secs |-> proc[p].next]

(* The snapshot compared with is from before an older build's last one.    *)
Behind(p) ==
    /\ "old build" \in cause /\ proc[p].read.secs[proc[p].sec] # None
    /\ proc[p].read.secs[proc[p].sec].snap # recorded[proc[p].sec]

Rename(p) ==
    LET s == proc[p].sec
        now == proc[p].next[s].snap
    IN  /\ proc[p].pc = "rename"
        /\ v2' = NewFile(p)
        /\ silent' = silent \cup Owes(s, recorded[s], now)
        /\ recorded' = [recorded EXCEPT ![s] = now]
        /\ cause' = cause \cup (IF v2 = proc[p].read /\ recorded = proc[p].seen THEN {} ELSE {"stale"})
                          \cup (IF Behind(p) THEN {"v2 behind"} ELSE {})
                          \cup (IF proc[p].next[s].rev > build[p].ver THEN {"older rules"} ELSE {})
        /\ ToV1(p, recorded')
        /\ UNCHANGED <<shown, v1, build, trail, hops, used>>

RenameFails(p) ==
    /\ proc[p].pc = "rename" /\ Fails("write")
    /\ cause' = cause \cup {"write"}
    /\ ToV1(p, proc[p].seen)
    /\ UNCHANGED <<shown, v1, v2, build, trail, recorded, silent, hops>>

(* The v1 file is kept in step, of tools only.  Without its collection the *)
(* result has no tools.                                                    *)
ExtractTools(p) == IF proc[p].kind = "bad" THEN <<>> ELSE proc[p].cat

WriteV1(p) ==
    /\ proc[p].pc = "v1"
    /\ v1' = IF proc[p].sec = "tools" THEN Manifest(ExtractTools(p)) ELSE v1
    /\ cause' = cause \cup (IF proc[p].kind = "bad" THEN {"bad"} ELSE {})
                      \cup (IF Hash("tools") = None /\ recorded # proc[p].seen THEN {"stale"} ELSE {})
    /\ Done(p)
    /\ UNCHANGED <<shown, v2, build, trail, recorded, silent, hops, used>>

WriteV1Fails(p) ==
    /\ proc[p].pc = "v1" /\ proc[p].sec = "tools" /\ Fails("write")
    /\ cause' = cause \cup {"write", "v1 lost"}
    /\ Done(p)
    /\ UNCHANGED <<shown, v1, v2, build, trail, recorded, silent, hops>>

(* The lines of the observation go to the trail.                           *)
Emit(p) ==
    /\ proc[p].pc = "after"
    /\ trail' = trail \o proc[p].lines
    /\ Go(p, Idle)
    /\ UNCHANGED <<shown, v1, v2, build, recorded, silent, hops, cause, used>>

----------------------------------------------------------------------------
(* checkAndUpdate, of the build that knows only the v1 file.               *)

OldRespond(p) ==
    LET cat == shown["tools"]
        next == Manifest(cat)
        change == IF v1 = None THEN <<>> ELSE ReportChanges(build[p].ver, v1, next, cat)
        observed == [sec |-> "tools", kind |-> "full", cat |-> cat]
        late == v1 = None /\ \E q \in Proxy : proc[q].pc = "v1" /\ proc[q].sec = "tools"
    IN  /\ proc[p].pc = "idle" /\ build[p].fmt = 1 /\ used.obs < MaxObs
        /\ used' = [used EXCEPT !.obs = @ + 1]
        /\ Go(p, IF v1 = next THEN Idle
                 ELSE At("old", observed, None, None, Changed("tools", cat, change, FALSE), recorded))
        /\ Hop("tools")
        /\ cause' = cause \cup {"old build"} \cup Others(p) \cup (IF late THEN {"v1 late"} ELSE {})
        /\ UNCHANGED <<shown, v1, v2, build, trail, recorded, silent>>

OldWrite(p) ==
    /\ proc[p].pc = "old"
    /\ v1' = Manifest(proc[p].cat)
    /\ trail' = trail \o proc[p].lines
    /\ silent' = silent \cup Owes("tools", recorded["tools"], proc[p].cat)
    /\ recorded' = [recorded EXCEPT !["tools"] = proc[p].cat]
    /\ cause' = cause \cup (IF recorded = proc[p].seen THEN {} ELSE {"stale"})
    /\ Go(p, Idle)
    /\ UNCHANGED <<shown, v2, build, hops, used>>

----------------------------------------------------------------------------
(* The environment.                                                        *)

ServerMoves(s) ==
    /\ used.moves < MaxMoves
    /\ used' = [used EXCEPT !.moves = @ + 1]
    /\ \E c \in Shows[s] \ {shown[s]} : shown' = [shown EXCEPT ![s] = c]
    /\ UNCHANGED <<v1, v2, build, proc, trail, recorded, silent, hops, cause>>

(* The app is upgraded or downgraded; the client starts its proxy again.   *)
Switch(p) ==
    /\ proc[p].pc = "idle" /\ used.switches < MaxSwitch
    /\ used' = [used EXCEPT !.switches = @ + 1]
    /\ \E b \in Build \ {build[p]} : build' = [build EXCEPT ![p] = b]
    /\ UNCHANGED <<shown, v1, v2, proc, trail, recorded, silent, hops, cause>>

Crash(p) ==
    /\ proc[p].pc # "idle" /\ Fails("crash")
    /\ Go(p, Idle)
    /\ cause' = cause \cup {"crash"}
    /\ UNCHANGED <<shown, v1, v2, build, trail, recorded, silent, hops>>

(* The v2 file is damaged, or one section of it.                           *)
Corrupt ==
    /\ v2.kind = "ok" /\ Fails("corrupt")
    /\ \/ v2' = [kind |-> "corrupt", secs |-> Nothing]
       \/ \E s \in Section : v2.secs[s] # None /\ v2' = [v2 EXCEPT !.secs[s] = None]
    /\ cause' = cause \cup {"corrupt"}
    /\ UNCHANGED <<shown, v1, build, proc, trail, recorded, silent, hops>>

(* A proxy of a later version, with a format this one cannot read, writes. *)
Newer ==
    /\ v2.kind # "future" /\ Fails("newer")
    /\ v2' = [kind |-> "future", secs |-> Nothing]
    /\ UNCHANGED <<shown, v1, build, proc, trail, recorded, silent, hops, cause>>

Observe(p) ==
    \/ \E s \in Section, k \in Responses : Respond(p, s, k)
    \/ SkipPage(p) \/ SkipResult(p) \/ SeedSection(p) \/ ReadForMigration(p) \/ Migrate(p) \/ Compare(p)
    \/ Check(p) \/ Rename(p) \/ RenameFails(p) \/ WriteV1(p) \/ WriteV1Fails(p) \/ Emit(p)

CheckAndUpdate(p) == OldRespond(p) \/ OldWrite(p)

Environment == (\E s \in Section : ServerMoves(s)) \/ Corrupt \/ Newer

Next == (\E p \in Proxy : Observe(p) \/ CheckAndUpdate(p) \/ Switch(p) \/ Crash(p)) \/ Environment

Spec == Init /\ [][Next]_vars

----------------------------------------------------------------------------
(* The lines of the trail, and the ones a proxy is about to write.         *)
Lines ==
    {trail[i] : i \in DOMAIN trail}
    \cup UNION {{proc[p].lines[i] : i \in DOMAIN proc[p].lines} : p \in {q \in Proxy : proc[q].pc # "idle"}}

(* No snapshot is put over a different one in silence, and none twice told *)
(* of: however the clients' proxies, upgrades, downgrades and failed       *)
(* writes fall, a change of what the rules watch has its line (or a proxy  *)
(* is about to write it), and there are no more change lines of a section  *)
(* than times one observation differed from the one before.                *)
(* What may lose a line: a crash between the write and the line; a damaged *)
(* file; two proxies of which one writes over what the other has just      *)
(* recorded; for the older build, a v1 file that could not be written or   *)
(* that a proxy of the newer build is about to write for the first time;   *)
(* for the newer build that comes back after a downgrade, a snapshot from  *)
(* before it; and an empty catalog after a malformed result, which leaves  *)
(* the v1 file empty.  What may repeat one: a baseline that was not        *)
(* written, two proxies at once, an older build in between and a malformed *)
(* result.                                                                 *)
Watched(sec, cat) == IF sec = "tools" THEN Manifest(cat) ELSE cat

Reported(sec, watched) ==
    \E l \in Lines : l.t = "change" /\ l.sec = sec /\ Watched(sec, l.to) = watched

Emptied(sec, watched) == sec = "tools" /\ watched = Manifest(<<>>) /\ "bad" \in cause

Losing == {"crash", "corrupt", "stale", "v1 lost", "v1 late", "v2 behind"}

NothingSwallowed ==
    cause \cap Losing = {} =>
        \A o \in silent :
            LET now == Watched(o.sec, o.to)
            IN  Watched(o.sec, o.from) = now \/ Reported(o.sec, now) \/ Emptied(o.sec, now)

Changes(sec) == {i \in DOMAIN trail : trail[i].t = "change" /\ trail[i].sec = sec}

Repeating == {"write", "crash", "overlap", "corrupt", "old build", "bad"}

NothingRepeated ==
    cause \cap Repeating = {} => \A s \in Section : Cardinality(Changes(s)) <= hops[s].n

ReportedOnce == NothingSwallowed /\ NothingRepeated

(* A definition with a marker that the rules of reviewed_with match has a  *)
(* finding for it once recorded, from the review of a catalog or from a    *)
(* change, except in the windows above.  Two more, which the comments of   *)
(* security-projection.ts ("a field nobody thought was interesting is      *)
(* still examined") and manifest-sections.ts ("the STORED snapshot is      *)
(* reviewed once") leave out: an edit of nothing but the fields v1 never   *)
(* watched, and a change recorded by rules older than reviewed_with.       *)
Found(sec, n, cat) ==
    \E l \in Lines : l.sec = sec /\ <<"injection_marker", n>> \in l.findings /\ n \in DOMAIN l.to /\ l.to[n] = cat[n]

(* reviewed_with of what the file holds, 0 when it was never reviewed.     *)
Judged == IF v2.kind = "ok" /\ v2.secs["tools"] # None THEN v2.secs["tools"].rev ELSE 0

(* An edit of the item that left alone what the v1 format watches.         *)
Hidden(n, before, after) ==
    /\ n \in DOMAIN before /\ before[n] # after[n]
    /\ Manifest(before)[n] = Manifest(after)[n]

Unwatched(n, cat) ==
    \E o \in silent : /\ o.sec = "tools" /\ n \in DOMAIN o.to /\ o.to[n] = cat[n]
                     /\ Hidden(n, o.from, o.to)

PoisonFound ==
    LET cat == Hash("tools")
    IN  cause \cap {"crash", "corrupt", "stale", "v2 behind", "older rules"} = {} /\ cat # None =>
          \A n \in {m \in DOMAIN cat : Marked(Judged, cat[m])} :
             Found("tools", n, cat) \/ Unwatched(n, cat)

=============================================================================
