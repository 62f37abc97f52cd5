---------------------------- MODULE AuditStore ----------------------------
(***************************************************************************)
(* The reader of the trail in the desktop app (audit-store.ts), the        *)
(* assembly it shares with the full read (detection-reader.ts), the export *)
(* and the re-login notifications that live on its answers                 *)
(* (relogin-notify.ts, relogin-state.ts, index.ts).                        *)
(*                                                                         *)
(* A file grows by half lines, so that a size always says how far a read   *)
(* goes.  The files' writers, the compactor that moves "w" into "d" and    *)
(* the retention sweep are the environment.                                *)
(***************************************************************************)
EXTENDS Naturals, FiniteSets, SequencesExt

CONSTANTS
    File,
    Scripts,    \* what the writers may put in the files: a set of [File -> Seq(line)]
    Moved,      \* the files a compaction takes
    Day,        \* the day file it moves them to
    Old,        \* the files the retention sweep may take
    Faults,     \* the failures explored
    MaxFault,
    None

VARIABLES
    disk,       \* [File -> what is under the name]
    rest,       \* [File -> the lines still to be written to it]
    cache,      \* [File -> its cache entry or None]
    pend,       \* pendingInvalidations (not empty means dirty)
    swept,      \* unlinked by the sweep, invalidate() not called yet
    ref,        \* the refresh in flight
    last,       \* lastResult, with its signature and the age of both windows
    tray,       \* the tray pass: what it waits for
    note,       \* the notified map: in memory, on disk; what was announced
    faults

vars == <<disk, rest, cache, pend, swept, ref, last, tray, note, faults>>

----------------------------------------------------------------------------
(* Lines and what a parse of them yields.                                  *)

Ids(lines) == {lines[i].id : i \in DOMAIN lines}

IsEvent(l) == l.kind \in {"req", "enr", "ask"}

(* The ElicitationResults that answer the elicitation at i: those after it *)
(* and before the next one of its key.                                     *)
Answers(lines, i) ==
    {j \in DOMAIN lines : /\ j > i /\ lines[j].kind = "ans" /\ lines[j].key = lines[i].key
                          /\ \A m \in i + 1 .. j : ~ (lines[m].kind = "ask" /\ lines[m].key = lines[i].key)}

Responses(lines, k) == {j \in DOMAIN lines : lines[j].kind \in {"ok", "err"} /\ lines[j].key = k}

LastOf(S) == CHOOSE i \in S : \A j \in S : j <= i

(* outcome and elicitationAction of the event at i: of all the responses   *)
(* of its key the last one, wherever it stands.                            *)
Mark(lines, i) ==
    LET found == CASE lines[i].kind = "req" -> Responses(lines, lines[i].key)
                   [] lines[i].kind = "ask" -> Answers(lines, i)
                   [] OTHER -> {}
    IN  IF found = {} THEN None ELSE lines[LastOf(found)].kind

Event(lines, i, torn) ==
    [id |-> lines[i].id, kind |-> lines[i].kind, key |-> lines[i].key,
     mark |-> Mark(lines, i), garbled |-> torn /\ i = 1]

(* torn: the first line was decoded in two pieces cut inside a character.  *)
Parse(lines, torn) ==
    LET all == [i \in DOMAIN lines |->
                  IF IsEvent(lines[i]) THEN <<Event(lines, i, torn)>> ELSE <<>>]
        asked(i) == \E m \in 1 .. i - 1 : lines[m].kind = "ask" /\ lines[m].key = lines[i].key
    IN  [events  |-> FlattenSeq(all),
         signals |-> SelectSeq(lines, LAMBDA l : l.kind \in {"fail", "ok", "back"}),
         \* for the requests and elicitations of earlier chunks
         outcome |-> [k \in {lines[i].key : i \in {j \in DOMAIN lines : lines[j].kind \in {"ok", "err"}}} |->
                        lines[LastOf(Responses(lines, k))].kind],
         action  |-> {lines[i].key : i \in {j \in DOMAIN lines : lines[j].kind = "ans" /\ ~ asked(j)}}]

(* The connectors' alert: the last failure, unless a successful response   *)
(* or a recovery marker is later.  0 when there is none.                   *)
Alert(signals) ==
    LET at(kinds) == {s.id : s \in {x \in ToSet(signals) : x.kind \in kinds}}
        fail == at({"fail"})
    IN  IF fail = {} THEN 0
        ELSE LET f == LastOf(fail)
             IN  IF \E s \in at({"ok", "back"}) : s > f THEN 0 ELSE f

(* Rows by id (the first file wins), an enrichment that meets its request  *)
(* folded into it.                                                         *)
Assembled(entries) ==
    LET flat == FlattenSeq(entries)
        rows == {flat[i] : i \in {j \in DOMAIN flat : \A m \in 1 .. j - 1 : flat[m].id # flat[j].id}}
    IN  {r \in rows : ~ (r.kind = "enr" /\ \E q \in rows : q.kind = "req" /\ q.key = r.key)}

----------------------------------------------------------------------------
Idle == [pc |-> "idle", todo |-> {}, listed |-> {}, got |-> <<>>, cur |-> None, size |-> 0, half |-> None, inc |-> 0,
         forced |-> FALSE, must |-> {}]

Init ==
    /\ disk = [f \in File |-> [there |-> FALSE, inc |-> 0, lines |-> <<>>, half |-> None]]
    /\ rest \in Scripts
    /\ cache = [f \in File |-> None]
    /\ pend = {} /\ swept = {}
    /\ ref = Idle
    /\ last = None
    /\ tray = [pc |-> "idle", alert |-> 0, need |-> {}, stale |-> FALSE]
    /\ note = [mem |-> None, disk |-> 0, told |-> {}, again |-> {}, cause |-> {}]
    /\ faults = 0

Fail(k) == k \in Faults /\ faults < MaxFault /\ faults' = faults + 1

Size(f) == 2 * Len(disk[f].lines) + (IF disk[f].half = None THEN 0 ELSE 1)

Present == {f \in File : disk[f].there}

EventIds(f) == {l.id : l \in {x \in ToSet(disk[f].lines) : IsEvent(x)}}

(* Events that were purged, are nowhere any more, and were invalidated.    *)
Gone == {l.id : l \in UNION {ToSet(disk[f].lines) : f \in File \ (Present \cup swept)}}
            \ UNION {Ids(disk[f].lines) : f \in Present \cup swept}

(* The first thing a repeated announcement may be due to.                  *)
Because(why) == IF note.cause # {} \/ (note.told = {} /\ tray.pc # "got") THEN note.cause ELSE {why}

----------------------------------------------------------------------------
(* The environment: the writers, the compactor and the sweep.              *)

(* A line is written at once, or in two pieces that a reader may see apart *)
(* (cut "clean" or inside a character, "char").                            *)
Named(f) == IF disk[f].there THEN disk[f]
            ELSE [there |-> TRUE, inc |-> disk[f].inc + 1, lines |-> <<>>, half |-> None]

WriteHalf(f) ==
    /\ rest[f] # <<>> /\ disk[f].half = None /\ rest[f][1].cut # None
    /\ disk' = [disk EXCEPT ![f] = [Named(f) EXCEPT !.half = rest[f][1].cut]]
    /\ UNCHANGED <<rest, cache, pend, swept, ref, last, tray, note, faults>>

WriteLine(f) ==
    /\ rest[f] # <<>> /\ disk[f].half = rest[f][1].cut
    /\ disk' = [disk EXCEPT ![f] = [Named(f) EXCEPT !.half = None, !.lines = Append(@, rest[f][1])]]
    /\ rest' = [rest EXCEPT ![f] = Tail(@)]
    /\ UNCHANGED <<cache, pend, swept, ref, last, tray, note, faults>>

Missing(f) == SelectSeq(disk[f].lines, LAMBDA l : l \notin ToSet(disk[Day].lines) \/ ~ disk[Day].there)

CompactAppend(f) ==
    /\ disk[f].there /\ rest[f] = <<>> /\ rest[Day] = <<>> /\ Missing(f) # <<>>
    /\ rest' = [rest EXCEPT ![Day] = Missing(f)]
    /\ UNCHANGED <<disk, cache, pend, swept, ref, last, tray, note, faults>>

CompactUnlink(f) ==
    /\ disk[f].there /\ rest[f] = <<>> /\ rest[Day] = <<>> /\ Missing(f) = <<>>
    /\ disk' = [disk EXCEPT ![f].there = FALSE]
    /\ ref' = [ref EXCEPT !.must = @ \ Ids(disk[f].lines)]
    /\ note' = IF ref.pc = "idle" THEN note ELSE [note EXCEPT !.cause = Because("moved")]
    /\ UNCHANGED <<rest, cache, pend, swept, last, tray, faults>>

SweepUnlink(f) ==
    /\ disk[f].there /\ rest[f] = <<>> /\ Fail("sweep")
    /\ disk' = [disk EXCEPT ![f].there = FALSE]
    /\ swept' = swept \cup {f}
    /\ ref' = [ref EXCEPT !.must = @ \ Ids(disk[f].lines)]
    /\ note' = [note EXCEPT !.cause = Because("purged")]
    /\ UNCHANGED <<rest, cache, pend, last, tray>>

(* runRetentionSweep, when runSweep has returned.                          *)
Invalidate ==
    /\ swept # {}
    /\ pend' = pend \cup swept
    /\ swept' = {}
    /\ UNCHANGED <<disk, rest, cache, ref, last, tray, note, faults>>

----------------------------------------------------------------------------
(* A refresh: readdir, then stat and read of each file, then the assembly. *)

StartRefresh ==
    LET clean == [f \in File |-> IF f \in pend \/ f \notin Present THEN None ELSE cache[f]]
    IN  /\ cache' = clean
        /\ pend' = {}
        /\ ref' = [Idle EXCEPT !.pc = "scan", !.todo = Present, !.listed = Present, !.forced = (pend # {}),
                               !.must = UNION {EventIds(f) : f \in Present \ swept}]

(* get(): nothing to do while the last answer is younger than the window   *)
(* and nothing was invalidated.                                            *)
Coalesced == pend = {} /\ last # None /\ last.fresh

(* The renderer's poll.                                                    *)
Poll ==
    /\ ~ Coalesced /\ ref.pc = "idle"
    /\ StartRefresh
    /\ UNCHANGED <<disk, rest, swept, last, tray, note, faults>>

NewEntry == [at |-> 0, tail |-> None, inc |-> 0, events |-> <<>>, signals |-> <<>>]

(* stat: gone, unchanged, or to be read from the cached offset, from the   *)
(* start when the file cannot be the one that was read.                    *)
Stat(f) ==
    /\ ref.pc = "scan" /\ f \in ref.todo
    /\ LET known == cache[f] # None
           same == known /\ Size(f) = cache[f].at /\ disk[f].inc = cache[f].inc
           grown == known /\ Size(f) > cache[f].at
       IN  \/ /\ ~ disk[f].there
              /\ cache' = [cache EXCEPT ![f] = None]
              /\ ref' = [ref EXCEPT !.todo = @ \ {f}]
           \/ /\ disk[f].there /\ same
              /\ ref' = [ref EXCEPT !.todo = @ \ {f}, !.got = Append(@, f)]
              /\ UNCHANGED cache
           \/ /\ disk[f].there /\ ~ same
              /\ cache' = [cache EXCEPT ![f] = IF grown THEN @ ELSE None]
              /\ ref' = [ref EXCEPT !.pc = "read", !.cur = f, !.size = Size(f), !.half = disk[f].half,
                                       !.inc = disk[f].inc]
    /\ UNCHANGED <<disk, rest, pend, swept, last, tray, note, faults>>

(* Mutant: the answers of a chunk are for its own requests only.           *)
BackfillNot(events, parsed) == events

(* The answers of a chunk go to the cached requests that have none, and to *)
(* the last cached elicitation of their key.                               *)
Backfill(events, parsed) ==
    [i \in DOMAIN events |->
        LET e == events[i]
            newest == \A j \in i + 1 .. Len(events) : ~ (events[j].kind = "ask" /\ events[j].key = e.key)
        IN  IF e.kind = "req" /\ e.mark = None /\ e.key \in DOMAIN parsed.outcome
            THEN [e EXCEPT !.mark = parsed.outcome[e.key]]
            ELSE IF e.kind = "ask" /\ e.key \in parsed.action /\ newest
            THEN [e EXCEPT !.mark = "ans"]
            ELSE e]

(* The bytes from the offset up to the size of the stat, completed by the  *)
(* pending tail; a tail of another file under the name makes a line that   *)
(* cannot be parsed.                                                       *)
Read ==
    LET f == ref.cur
        e == IF cache[f] = None THEN NewEntry ELSE cache[f]
        from == e.at \div 2
        upto == IF ref.size \div 2 < Len(disk[f].lines) THEN ref.size \div 2 ELSE Len(disk[f].lines)
        glued == e.tail # None /\ e.tail.inc # disk[f].inc
        chunk == SubSeq(disk[f].lines, IF glued THEN from + 2 ELSE from + 1, upto)
        parsed == Parse(chunk, e.tail # None /\ ~ glued /\ e.tail.half = "char")
        new == [at |-> ref.size, inc |-> ref.inc,
                tail |-> IF upto = from /\ e.tail # None THEN e.tail
                         ELSE IF ref.half = None THEN None
                         ELSE [half |-> ref.half, inc |-> disk[f].inc],
                events |-> Backfill(e.events, parsed) \o parsed.events,
                signals |-> e.signals \o parsed.signals]
    IN  /\ ref.pc = "read" /\ disk[f].there
        /\ cache' = [cache EXCEPT ![f] = new]
        /\ ref' = [ref EXCEPT !.pc = "scan", !.todo = @ \ {f}, !.got = Append(@, f), !.cur = None,
                              !.size = 0, !.half = None, !.inc = 0]
        /\ UNCHANGED <<disk, rest, pend, swept, last, tray, note, faults>>

(* Gone since the stat, or a read error: skipped by this pass.             *)
ReadFails ==
    /\ ref.pc = "read"
    /\ \/ ~ disk[ref.cur].there /\ UNCHANGED faults
       \/ disk[ref.cur].there /\ Fail("read")
    /\ cache' = [cache EXCEPT ![ref.cur] = None]
    /\ ref' = [ref EXCEPT !.pc = "scan", !.todo = @ \ {ref.cur}, !.cur = None, !.size = 0, !.half = None,
                          !.inc = 0, !.must = @ \ Ids(disk[ref.cur].lines)]
    /\ note' = [note EXCEPT !.cause = Because("skipped")]
    /\ UNCHANGED <<disk, rest, pend, swept, last, tray>>

(* Mutant: only the names of the files tell a change.                      *)
SignatureByName(names) == [f \in names |-> <<>>]

Signature(names) == [f \in names |-> IF cache[f] = None THEN <<>> ELSE <<cache[f].at, cache[f].inc>>]

(* The rows of the last assembly while nothing changed for less than a     *)
(* minute; the alerts of now in any case.                                  *)
Assemble ==
    LET sig == Signature(ref.listed)
        entries == [i \in DOMAIN ref.got |-> cache[ref.got[i]]]
        early == /\ ~ ref.forced /\ last # None /\ last.young
                 /\ sig = last.sig
        events == FlattenSeq([i \in DOMAIN entries |-> entries[i].events])
        alert == Alert(FlattenSeq([i \in DOMAIN entries |-> entries[i].signals]))
        ids == IF early THEN last.ids ELSE Ids(events)
    IN  /\ ref.pc = "scan" /\ ref.todo = {}
        /\ last' = [sig |-> sig, ids |-> ids, alert |-> alert, fresh |-> TRUE,
                    young |-> TRUE,
                    rows |-> IF early THEN last.rows
                             ELSE Assembled([i \in DOMAIN entries |-> entries[i].events])]
        /\ tray' = IF tray.pc = "wait"
                   THEN [tray EXCEPT !.pc = "got", !.alert = alert, !.stale = (tray.need \cap ids # {}), !.need = {}]
                   ELSE tray
        /\ ref' = Idle
        /\ UNCHANGED <<disk, rest, cache, pend, swept, note, faults>>

(* The two windows run out: 250 ms since the refresh, 60 s since the       *)
(* assembly.                                                               *)
Later ==
    /\ last # None
    /\ \/ last.fresh /\ last' = [last EXCEPT !.fresh = FALSE]
       \/ last.young /\ ~ last.fresh /\ last' = [last EXCEPT !.young = FALSE]
    /\ UNCHANGED <<disk, rest, cache, pend, swept, ref, tray, note, faults>>

----------------------------------------------------------------------------
(* The tray pass, every minute.                                            *)

TrayGet ==
    /\ tray.pc = "idle"
    /\ \/ /\ Coalesced
          /\ tray' = [tray EXCEPT !.pc = "got", !.alert = last.alert,
                                  !.stale = (ref.pc = "idle" /\ Gone \cap last.ids # {})]
          /\ UNCHANGED <<cache, pend, ref>>
       \/ /\ ~ Coalesced /\ ref.pc # "idle"
          /\ tray' = [tray EXCEPT !.pc = "wait"]
          /\ UNCHANGED <<cache, pend, ref>>
       \/ /\ ~ Coalesced /\ ref.pc = "idle"
          /\ tray' = [tray EXCEPT !.pc = "wait", !.need = Gone]
          /\ StartRefresh
    /\ UNCHANGED <<disk, rest, swept, last, note, faults>>

(* Mutant: the record is only written at the end of the app.               *)
AnnounceUnrecorded ==
    LET seen == IF note.mem = None THEN note.disk ELSE note.mem
        new == tray.alert # 0 /\ tray.alert # seen
    IN  /\ tray.pc = "got"
        /\ note' = [note EXCEPT !.told = IF new THEN @ \cup {tray.alert} ELSE @,
                                !.again = IF new /\ tray.alert \in note.told THEN @ \cup {tray.alert} ELSE @]
        /\ tray' = [tray EXCEPT !.pc = "idle", !.alert = 0, !.need = {}, !.stale = FALSE]
        /\ UNCHANGED <<disk, rest, cache, pend, swept, ref, last, faults>>

(* runReloginPass: the failure that is not the recorded one is announced,  *)
(* and the record mirrors the alerts.                                      *)
Announce ==
    LET seen == IF note.mem = None THEN note.disk ELSE note.mem
        new == tray.alert # 0 /\ tray.alert # seen
    IN  /\ tray.pc = "got"
        /\ note' = [note EXCEPT !.mem = tray.alert,
                                !.told = IF new THEN @ \cup {tray.alert} ELSE @,
                                !.again = IF new /\ tray.alert \in note.told THEN @ \cup {tray.alert} ELSE @]
        /\ tray' = [tray EXCEPT !.pc = IF tray.alert = seen THEN "idle" ELSE "save", !.alert = 0,
                                !.need = {}, !.stale = FALSE]
        /\ UNCHANGED <<disk, rest, cache, pend, swept, ref, last, faults>>

Save ==
    /\ tray.pc = "save"
    /\ \/ note' = [note EXCEPT !.disk = note.mem] /\ UNCHANGED faults
       \/ Fail("save") /\ note' = [note EXCEPT !.cause = Because("unsaved")]
    /\ tray' = [tray EXCEPT !.pc = "idle"]
    /\ UNCHANGED <<disk, rest, cache, pend, swept, ref, last>>

(* The app ends and starts again; with "unread" the saved record cannot be *)
(* read.                                                                   *)
Restart ==
    /\ Fail("restart")
    /\ \E unread \in (IF "unread" \in Faults THEN BOOLEAN ELSE {FALSE}) :
         note' = [note EXCEPT !.mem = IF unread THEN 0 ELSE None,
                              !.cause = IF unread THEN Because("unread")
                                        ELSE IF tray.pc = "save" THEN Because("unsaved") ELSE @]
    /\ cache' = [f \in File |-> None]
    /\ pend' = {} /\ swept' = {} /\ last' = None /\ ref' = Idle
    /\ tray' = [pc |-> "idle", alert |-> 0, need |-> {}, stale |-> FALSE]
    /\ UNCHANGED <<disk, rest>>

----------------------------------------------------------------------------
Writers == \E f \in File : WriteHalf(f) \/ WriteLine(f)

Environment ==
    \/ Writers
    \/ \E f \in Moved : CompactAppend(f) \/ CompactUnlink(f)
    \/ \E f \in Old : SweepUnlink(f)
    \/ Invalidate \/ Later \/ Restart

Store == Poll \/ (\E f \in File : Stat(f)) \/ Read \/ ReadFails \/ Assemble

Tray == TrayGet \/ Announce \/ Save

Next == Environment \/ Store \/ Tray

Spec == Init /\ [][Next]_vars

----------------------------------------------------------------------------
(* What each cached file holds is what a full read of the bytes it was     *)
(* read up to would parse, though it was read in pieces: except for the    *)
(* outcome of requests that share an id with another one (the full parse   *)
(* gives both the last response), for text cut inside a character, and     *)
(* for a file the sweep took whose invalidation is still to be applied     *)
(* (refreshFile, parseAuditContent).                                       *)
CacheIsParse ==
    \A f \in File \ (swept \cup pend) :
        (cache[f] # None /\ disk[f].there /\ cache[f].inc = disk[f].inc /\ ref.cur # f) =>
            LET lines == SubSeq(disk[f].lines, 1, cache[f].at \div 2)
                full == Parse(lines, FALSE)
                shared(e) == \E l \in ToSet(lines) : l.kind = "req" /\ l.key = e.key /\ l.id # e.id
            IN  /\ cache[f].signals = full.signals
                /\ Len(cache[f].events) = Len(full.events)
                /\ \A i \in DOMAIN full.events :
                      LET e == full.events[i] IN
                      LET c == cache[f].events[i] IN
                      /\ c.id = e.id
                      /\ c.mark # e.mark => e.kind = "req" /\ shared(e)
                      /\ c.garbled => \E l \in ToSet(lines) : l.id = e.id /\ l.cut = "char"

(* An answer is what the trail holds: an event that was there when a       *)
(* refresh began is in its answer, unless its file was swept and not       *)
(* invalidated yet, or, during that refresh, was moved by the compactor,   *)
(* swept or could not be read; and no event whose file was swept and       *)
(* invalidated before a get() is in it, unless a refresh was already in    *)
(* flight (get, invalidate, refresh and its early exit).                   *)
AnswerFaithful ==
    /\ [][(ref.pc = "scan" /\ ref'.pc = "idle" /\ last' # None)
            => ref.must \subseteq last'.ids]_vars
    /\ [](~ tray.stale)

(* A failure is announced again only when its record was lost, its trail   *)
(* purged, or it was missed by a refresh that met the compactor or a read  *)
(* error (runReloginPass, computeReloginTransitions).                      *)
ToldOnce == note.again # {} => note.cause # {}

=============================================================================
