-------------------------- MODULE ConnectorChanges --------------------------
(***************************************************************************)
(* The connector changes: how the app reads them out of the trail, marks   *)
(* one reviewed, announces the ones that matter, and shows them (desktop:  *)
(* connector-changes.ts, change-notify.ts, index.ts, recovery-writer.ts,   *)
(* useChangePage.ts, Changes.tsx).                                         *)
(*                                                                         *)
(* The main process reads the trail file by file, and gives way between    *)
(* one file and the next: the minute's pass, the list of the view and the  *)
(* handler of a click can all be half way at once, over one cache.         *)
(*                                                                         *)
(* A line is a record.  Its time is a number; markers are later than the   *)
(* lines of the proxies and in the order they are written.                 *)
(***************************************************************************)
EXTENDS Naturals, FiniteSets, Sequences, SequencesExt

CONSTANTS
    Feed,       \* [file -> the lines its proxy appends, in order]
    FileOrder,  \* the files of the trail, in the order the directory lists
    App,        \* the app's own file, app-events.jsonl
    Before,     \* the lines it holds at the start
    Pass, Click, View,   \* calls of each kind that may be in flight
    MaxClicks, MaxMounts, MaxPasses,
    Faults,     \* among "append", "restart", "purge"
    MaxFault,
    None

Call == Pass \cup Click \cup View

Files == Range(FileOrder)

Rank == [low |-> 0, medium |-> 1, high |-> 2]

Ids == {line.id : line \in {l \in UNION {Range(Feed[f]) : f \in DOMAIN Feed} : l.k \in {"change", "login"}}}

\* The app's file is its own, and outlives those of the proxies.
ASSUME FeedAssumption ==
    App \in Files /\ App \notin DOMAIN Feed /\ Before \in Seq(Range(Before)) /\ IsFiniteSet(Ids)

VARIABLES
    trail,      \* [file -> its lines]
    fed,        \* [file -> how many lines of Feed were appended]
    cache,      \* [file -> None, or the size it was read at and what was read]
    call,       \* the calls in flight
    notifiedChanges, \* events this process announced
    toReview,   \* the events the tray counts
    ui,         \* the view
    asked,      \* the last click: the change, and the status it asked for
    shown,      \* [event -> how often a notification came up]
    cause,      \* the windows that opened
    used

vars == <<trail, fed, cache, call, notifiedChanges, toReview, ui, asked, shown, cause, used>>

----------------------------------------------------------------------------
(* One file's lines.                                                       *)

NoParse == [views |-> <<>>, marks |-> <<>>, session |-> None, note |-> None, login |-> None, rows |-> <<>>]

BadNote == {"kept_newer", "write_failed"}

(* fromOAuthLine: a login like the one before is no row, unless its note   *)
(* makes it one.                                                           *)
IsRow(login, note) == login.worth \/ note \in BadNote

LoginRow(login, note) ==
    [id |-> login.id, ts |-> login.ts, mcp |-> login.mcp, section |-> "authorization", review |-> FALSE,
     key |-> login.id, sev |-> login.sev, attention |-> FALSE, recent |-> login.recent, note |-> note]

(* The rows of the sessions, by their place among the views.               *)
RowOf(p, s) == {i \in DOMAIN p.rows : p.rows[i] = s}

PushRow(p, s, row) == [p EXCEPT !.views = Append(@, row), !.rows = Append(@, s), !.login = None, !.note = None]

ParseNote(p, line) ==
    IF RowOf(p, line.session) # {}
    THEN [p EXCEPT !.views[Max(RowOf(p, line.session))].note = line.note]
    ELSE IF p.login # None
         THEN IF IsRow(p.login, line.note) THEN PushRow(p, line.session, LoginRow(p.login, line.note))
              ELSE [p EXCEPT !.login = None]
         ELSE [p EXCEPT !.note = line.note]

ParseLogin(p, line) ==
    IF IsRow(line, p.note) THEN PushRow(p, line.session, LoginRow(line, p.note))
    ELSE [p EXCEPT !.note = None, !.login = line]

ParseLine(p, line) ==
    LET q == IF p.session = line.session THEN p
             ELSE [p EXCEPT !.session = line.session, !.note = None, !.login = None]
    IN  CASE line.k = "mark"   -> [p EXCEPT !.marks = Append(@, line)]
          [] line.k = "told"   -> p
          [] line.k = "note"   -> ParseNote(q, line)
          [] line.k = "login"  -> ParseLogin(q, line)
          [] line.k = "change" -> [p EXCEPT !.views = Append(@, line.view), !.rows = Append(@, None)]

(* What the markers of a file say was announced.                           *)
ToldIn(file) == {file[i].target : i \in {j \in DOMAIN file : file[j].k = "told"}}

ParseChangesFile(file) ==
    LET p == FoldLeft(ParseLine, NoParse, file)
    IN  [views |-> p.views, marks |-> p.marks, told |-> ToldIn(file)]

----------------------------------------------------------------------------
(* The steps across files.                                                 *)

StatusOf(id, marks) ==
    LET mine == {i \in DOMAIN marks : marks[i].target = id}
    IN  IF mine = {} THEN "unreviewed" ELSE marks[Max(mine)].to

Fold(views, marks) ==
    [i \in DOMAIN views |-> [view |-> views[i], status |-> StatusOf(views[i].id, marks)]]

Same(v, w) == <<v.section, v.key>> = <<w.section, w.key>>

(* The row a review line repeats: the last one of its connector, if that   *)
(* is a review line too and states the same.                               *)
Repeats(out, v) ==
    LET mine == {i \in DOMAIN out : out[i].view.mcp = v.mcp}
    IN  IF mine = {} THEN {}
        ELSE {i \in {Max(mine)} : v.review /\ out[i].view.review /\ Same(out[i].view, v)}

CollapseNewest(out, row) ==
    LET again == Repeats(out, row.view)
    IN  IF again = {} THEN Append(out, row) ELSE out

(* A reviewed copy takes the place of an unreviewed one.                   *)
Collapse(out, row) ==
    LET again == Repeats(out, row.view)
    IN  IF again = {} THEN Append(out, row)
        ELSE IF row.status = "reviewed" /\ \A i \in again : out[i].status # "reviewed"
             THEN [i \in DOMAIN out |-> IF i \in again THEN row ELSE out[i]]
             ELSE out

(* The sort is stable, newest first.                                       *)
Newest(views) == SortSeq(views, LAMBDA v, w : v.ts > w.ts)

AggregateChanges(parses) ==
    LET views == FlattenSeq([i \in DOMAIN parses |-> parses[i].views])
        marks == FlattenSeq([i \in DOMAIN parses |-> parses[i].marks])
    IN  FoldLeft(Collapse, <<>>, Fold(Newest(views), marks))

Told(parses) == UNION {parses[i].told : i \in DOMAIN parses}

Worth(v) == v.recent /\ v.sev # None

ChangesToReview(rows) ==
    {rows[i].view.id : i \in {j \in DOMAIN rows :
        /\ rows[j].status = "unreviewed"
        /\ Worth(rows[j].view)
        /\ Rank[rows[j].view.sev] >= Rank["medium"]}}

(* Mutant: what this process announced does not count.                     *)
NotificationsAgain(rows, told, already) ==
    {i \in Ids \ told : \E j \in DOMAIN rows :
        rows[j].view.id = i /\ rows[j].view.section = "authorization" /\ Worth(rows[j].view)}

(* computeChangeNotifications: every finding of a login is one of the two  *)
(* rules.                                                                  *)
Notifications(rows, told, already) ==
    {i \in Ids \ (told \cup already) : \E j \in DOMAIN rows :
        rows[j].view.id = i /\ rows[j].view.section = "authorization" /\ Worth(rows[j].view)}

----------------------------------------------------------------------------
Listed(t) == SelectSeq(FileOrder, LAMBDA f : t[f] # <<>>)

FullRead(t) == LET names == Listed(t) IN [i \in DOMAIN names |-> ParseChangesFile(t[names[i]])]

Idle == [pc |-> "idle"]

Present == {f \in Files : trail[f] # <<>>}

Asking(then, id, to, mount) ==
    [pc |-> "stat", todo |-> Present, listed |-> Present, got |-> <<>>, size |-> 0,
     then |-> then, id |-> id, to |-> to, mount |-> mount, entry |-> None]

Reading(then, mount) == Asking(then, None, None, mount)

Closed == [mounted |-> 0, rows |-> None, panel |-> None, pending |-> None, error |-> FALSE]

Init ==
    /\ trail = [f \in Files |-> IF f = App THEN Before ELSE <<>>]
    /\ fed = [f \in DOMAIN Feed |-> 0]
    /\ cache = [f \in Files |-> None]
    /\ call = [c \in Call |-> Idle]
    /\ notifiedChanges = {}
    /\ toReview = {}
    /\ ui = Closed
    /\ asked = None
    /\ shown = [i \in Ids |-> 0]
    /\ cause = {}
    /\ used = [clicks |-> 0, mounts |-> 0, passes |-> 0, faults |-> 0]

Fails(k) == k \in Faults /\ used.faults < MaxFault /\ used' = [used EXCEPT !.faults = @ + 1]

----------------------------------------------------------------------------
(* readConnectorChanges, one file at a time.                               *)

Step(c, rec) == call' = [call EXCEPT ![c] = rec]

(* Where the call c has got to.                                            *)
At(c, pc, todo, got, size, entry) ==
    LET o == call[c]
    IN  [pc |-> pc, todo |-> todo, listed |-> o.listed, got |-> got, size |-> size,
         then |-> o.then, id |-> o.id, to |-> o.to, mount |-> o.mount, entry |-> entry]

(* The files are read in the order they are listed.                        *)
File(c) == FileOrder[Min({i \in DOMAIN FileOrder : FileOrder[i] \in call[c].todo})]

Skipped(c) == At(c, "stat", call[c].todo \ {File(c)}, call[c].got, 0, None)

Parsed(c, seen) == At(c, "stat", call[c].todo \ {File(c)}, Append(call[c].got, ParseChangesFile(seen)), 0, None)

Hit(f) == cache[f] # None /\ cache[f].size = Len(trail[f])

Stat(c) ==
    /\ call[c].pc = "stat" /\ call[c].todo # {}
    /\ LET f == File(c)
       IN  \/ /\ trail[f] = <<>>
              /\ cache' = [cache EXCEPT ![f] = None]
              /\ Step(c, Skipped(c))
           \/ /\ trail[f] # <<>> /\ Hit(f)
              /\ Step(c, Parsed(c, cache[f].seen))
              /\ UNCHANGED cache
           \/ /\ trail[f] # <<>> /\ ~ Hit(f)
              /\ Step(c, At(c, "read", call[c].todo, call[c].got, Len(trail[f]), None))
              /\ UNCHANGED cache
    /\ UNCHANGED <<trail, fed, notifiedChanges, toReview, ui, asked, shown, cause, used>>

KeyAfter(c, f) == Len(trail[f]) + (IF call[c].size < Len(trail[f]) THEN 1 ELSE 0)

(* The size taken before the read.                                         *)
Key(c, f) == call[c].size

Read(c) ==
    /\ call[c].pc = "read"
    /\ LET f == File(c)
       IN  IF trail[f] = <<>>
           THEN /\ cache' = [cache EXCEPT ![f] = None]
                /\ Step(c, Skipped(c))
           ELSE /\ cache' = [cache EXCEPT ![f] = [size |-> Key(c, f), seen |-> trail[f]]]
                /\ Step(c, Parsed(c, trail[f]))
    /\ UNCHANGED <<trail, fed, notifiedChanges, toReview, ui, asked, shown, cause, used>>

Done(c, then) == call[c].pc = "stat" /\ call[c].todo = {} /\ call[c].then = then

(* A file that is no longer listed leaves the cache.                       *)
Prune(c) == cache' = [f \in Files |-> IF f \in call[c].listed THEN cache[f] ELSE None]

Rows(c) == AggregateChanges(call[c].got)

----------------------------------------------------------------------------
(* runChangesPass.                                                         *)

StartPass(c) ==
    /\ call[c] = Idle /\ used.passes < MaxPasses
    /\ used' = [used EXCEPT !.passes = @ + 1]
    /\ Step(c, Reading("pass", 0))
    /\ UNCHANGED <<trail, fed, cache, notifiedChanges, toReview, ui, asked, shown, cause>>

ToldLine(id) == [k |-> "told", target |-> id, session |-> "desktop"]

(* The whole loop is one turn: each is shown, remembered and recorded.     *)
EndPass(c) ==
    LET new == Notifications(Rows(c), Told(call[c].got), notifiedChanges)
        lines == SetToSeq({ToldLine(i) : i \in new})
    IN  /\ Done(c, "pass")
        /\ Prune(c)
        /\ toReview' = ChangesToReview(Rows(c))
        /\ shown' = [i \in Ids |-> shown[i] + (IF i \in new THEN 1 ELSE 0)]
        /\ notifiedChanges' = notifiedChanges \cup new
        /\ \/ trail' = [trail EXCEPT ![App] = @ \o lines] /\ UNCHANGED used
           \/ new # {} /\ Fails("append") /\ UNCHANGED trail
        /\ Step(c, Idle)
        /\ UNCHANGED <<fed, ui, asked, cause>>

----------------------------------------------------------------------------
(* changes:set-review-status.                                              *)

RowsWith(rows, id) == {i \in DOMAIN rows : rows[i].view.id = id}

Mark(id, from, to) == [k |-> "mark", target |-> id, from |-> from, to |-> to, session |-> "desktop"]

Again(c) == Asking("count", call[c].id, call[c].to, call[c].mount)

(* The view is read again.                                                 *)
Resolve(c, window) ==
    /\ ui' = IF ui.mounted = call[c].mount THEN [ui EXCEPT !.pending = None] ELSE ui
    /\ IF ui.mounted = call[c].mount /\ \E v \in View : call[v] = Idle
       THEN LET v == CHOOSE v \in View : call[v] = Idle
            IN  /\ call' = [[call EXCEPT ![c] = Idle] EXCEPT ![v] = Reading("list", ui.mounted)]
                /\ cause' = cause \cup window \cup (IF \E w \in View \ {v} : call[w] # Idle THEN {"overlap"} ELSE {})
       ELSE Step(c, Idle) /\ cause' = cause \cup window

(* Not in the list, or already so: the promise resolves all the same.      *)
Refuse(c) ==
    LET at == RowsWith(Rows(c), call[c].id)
    IN  /\ Done(c, "find")
        /\ \A i \in at : Rows(c)[i].status = call[c].to
        /\ Prune(c)
        /\ Resolve(c, IF at = {} THEN {"not listed"} ELSE {})
        /\ UNCHANGED <<trail, fed, notifiedChanges, toReview, asked, shown, used>>

(* Mutant: the two statuses of the marker are swapped.                     *)
WriteMarkSwapped(c) ==
    LET at == RowsWith(Rows(c), call[c].id)
        f == App
    IN  /\ Done(c, "find") /\ at # {}
        /\ \A i \in at : Rows(c)[i].status # call[c].to
        /\ Prune(c)
        /\ trail' = [trail EXCEPT ![f] =
             Append(@, Mark(call[c].id, call[c].to, Rows(c)[Min(at)].status))]
        /\ Step(c, At(c, "note", {}, <<>>, 0, cache'[f]))
        /\ UNCHANGED <<fed, notifiedChanges, toReview, ui, asked, shown, cause, used>>

(* The marker is appended at once; the cache hears of it after a stat.     *)
WriteMark(c) ==
    LET at == RowsWith(Rows(c), call[c].id)
        f == App
    IN  /\ Done(c, "find") /\ at # {}
        /\ \A i \in at : Rows(c)[i].status # call[c].to
        /\ Prune(c)
        /\ trail' = [trail EXCEPT ![f] =
             Append(@, Mark(call[c].id, Rows(c)[Min(at)].status, call[c].to))]
        /\ Step(c, At(c, "note", {}, <<>>, 0, cache'[f]))
        /\ UNCHANGED <<fed, notifiedChanges, toReview, ui, asked, shown, cause, used>>

MarkFails(c) ==
    LET at == RowsWith(Rows(c), call[c].id)
    IN  /\ Done(c, "find") /\ at # {}
        /\ \A i \in at : Rows(c)[i].status # call[c].to
        /\ Fails("append")
        /\ Prune(c)
        /\ Step(c, Again(c))
        /\ cause' = cause \cup {"unwritten"}
        /\ UNCHANGED <<trail, fed, notifiedChanges, toReview, ui, asked, shown>>

(* noteAppended: only if the file grew by exactly this line since.         *)
NoteAppended(c) ==
    LET old == call[c].entry
        line == Mark(call[c].id, IF call[c].to = "reviewed" THEN "unreviewed" ELSE "reviewed", call[c].to)
    IN  /\ call[c].pc = "note"
        /\ cache' = [cache EXCEPT ![App] =
             IF old = None THEN @
             ELSE IF Len(trail[App]) = old.size + 1
                  THEN [size |-> Len(trail[App]), seen |-> Append(old.seen, line)]
                  ELSE None]
        /\ Step(c, Again(c))
        /\ UNCHANGED <<trail, fed, notifiedChanges, toReview, ui, asked, shown, cause, used>>

Count(c) ==
    /\ Done(c, "count")
    /\ Prune(c)
    /\ toReview' = ChangesToReview(Rows(c))
    /\ Resolve(c, {})
    /\ UNCHANGED <<trail, fed, notifiedChanges, asked, shown, used>>

----------------------------------------------------------------------------
(* The view.                                                               *)

(* changes:list, and setAll with its answer.                               *)
Answer(c) ==
    /\ Done(c, "list")
    /\ Prune(c)
    /\ ui' = IF ui.mounted # call[c].mount THEN ui
             ELSE [ui EXCEPT !.rows = Rows(c)]
    /\ Step(c, Idle)
    /\ UNCHANGED <<trail, fed, notifiedChanges, toReview, asked, shown, cause, used>>

(* The tab is opened, or left and opened again.                            *)
Mount(c) ==
    /\ call[c] = Idle /\ used.mounts < MaxMounts
    /\ used' = [used EXCEPT !.mounts = @ + 1]
    /\ ui' = [Closed EXCEPT !.mounted = used.mounts + 1]
    /\ Step(c, Reading("list", used.mounts + 1))
    /\ cause' = cause \cup (IF \E d \in Click : call[d] # Idle THEN {"remount"} ELSE {})
    /\ UNCHANGED <<trail, fed, cache, notifiedChanges, toReview, asked, shown>>

NeedsReview(row) == row.status = "unreviewed" /\ (row.view.attention \/ row.view.sev # None)

MatchesPreSeverity(row, filter) ==
    /\ filter.needsReviewOnly => NeedsReview(row)
    /\ filter.review # {} => row.status \in filter.review

(* A change with no finding shows while no severity is left out.           *)
MatchesSeverity(row, filter) ==
    IF row.view.sev = None THEN filter.severities = DOMAIN Rank ELSE row.view.sev \in filter.severities

PageRows(rows, filter) ==
    SelectSeq(rows, LAMBDA row : MatchesPreSeverity(row, filter) /\ MatchesSeverity(row, filter))

(* The filter the tab opens with.                                          *)
NeedsReviewOnly == [needsReviewOnly |-> TRUE, review |-> {}, severities |-> DOMAIN Rank]

(* Under one filter or another the user reaches every row.                 *)
Select ==
    /\ ui.rows # None
    /\ \E i \in DOMAIN ui.rows : ui' = [ui EXCEPT !.panel = ui.rows[i], !.error = FALSE]
    /\ ui'.panel # ui.panel
    /\ UNCHANGED <<trail, fed, cache, call, notifiedChanges, toReview, asked, shown, cause, used>>

Other(status) == IF status = "reviewed" THEN "unreviewed" ELSE "reviewed"

Patched(rows, id, to) == [i \in DOMAIN rows |-> IF rows[i].view.id = id THEN [rows[i] EXCEPT !.status = to] ELSE rows[i]]

(* reviewPending: one write at a time.                                     *)
MayClick == ui.panel # None /\ ui.pending = None

(* handleReview: the row and the panel move at the click.                  *)
HandleReview(c) ==
    /\ call[c] = Idle /\ MayClick /\ used.clicks < MaxClicks
    /\ used' = [used EXCEPT !.clicks = @ + 1]
    /\ LET id == ui.panel.view.id
           to == Other(ui.panel.status)
       IN  /\ ui' = [ui EXCEPT !.pending = id, !.error = FALSE, !.panel.status = to, !.rows = Patched(@, id, to)]
           /\ Step(c, Asking("find", id, to, ui.mounted))
           /\ asked' = [id |-> id, to |-> to]
    /\ UNCHANGED <<trail, fed, cache, notifiedChanges, toReview, shown, cause>>

----------------------------------------------------------------------------
(* The environment.                                                        *)

ProxyWrites(f) ==
    /\ fed[f] < Len(Feed[f])
    /\ fed' = [fed EXCEPT ![f] = @ + 1]
    /\ trail' = [trail EXCEPT ![f] = Append(@, Feed[f][fed[f] + 1])]
    /\ UNCHANGED <<cache, call, notifiedChanges, toReview, ui, asked, shown, cause, used>>

(* Retention takes a session's file, written in full.                      *)
Purge(f) ==
    /\ fed[f] = Len(Feed[f]) /\ trail[f] # <<>> /\ Fails("purge")
    /\ trail' = [trail EXCEPT ![f] = <<>>]
    /\ cause' = cause \cup {"purge"}
    /\ UNCHANGED <<fed, cache, call, notifiedChanges, toReview, ui, asked, shown>>

(* The app ends, in between two turns, and starts again.                   *)
Restart ==
    /\ Fails("restart")
    /\ cache' = [f \in Files |-> None]
    /\ call' = [c \in Call |-> Idle]
    /\ notifiedChanges' = {}
    /\ toReview' = {}
    /\ ui' = Closed
    /\ cause' = cause \cup (IF \E i \in Ids : shown[i] > 0 /\ i \notin ToldIn(trail[App])
                            THEN {"told lost"} ELSE {})
                      \cup (IF \E c \in Click : call[c] # Idle THEN {"killed"} ELSE {})
    /\ UNCHANGED <<trail, fed, asked, shown>>

Reads(c) == Stat(c) \/ Read(c)

RunChangesPass(c) == StartPass(c) \/ Reads(c) \/ EndPass(c)

SetReviewStatus(c) == HandleReview(c) \/ Reads(c) \/ Refuse(c) \/ WriteMark(c) \/ MarkFails(c) \/ NoteAppended(c) \/ Count(c)

ChangePage(c) == Mount(c) \/ Reads(c) \/ Answer(c)

Environment == (\E f \in DOMAIN Feed : ProxyWrites(f) \/ Purge(f)) \/ Restart

Next ==
    \/ \E c \in Pass : RunChangesPass(c)
    \/ \E c \in Click : SetReviewStatus(c)
    \/ \E c \in View : ChangePage(c)
    \/ Select
    \/ Environment

Spec == Init /\ [][Next]_vars

----------------------------------------------------------------------------
(* Every view of the trail, and every mark.                                *)
Everything == LET parses == FullRead(trail)
              IN  [views |-> FlattenSeq([i \in DOMAIN parses |-> parses[i].views]),
                   marks |-> FlattenSeq([i \in DOMAIN parses |-> parses[i].marks])]

(* A review the user made is never hidden by a copy of the same finding    *)
(* that another proxy wrote: some row states the same and is reviewed.     *)
MarkNeverHidden ==
    LET all == Everything
        rows == AggregateChanges(FullRead(trail))
    IN  \A v \in Range(all.views) :
          StatusOf(v.id, all.marks) = "reviewed" =>
            \E row \in Range(rows) : row.status = "reviewed" /\ row.view.mcp = v.mcp /\ Same(row.view, v)

Quiet == \A c \in Call : call[c] = Idle

(* The last click wins: with nothing in flight its change has the status   *)
(* it asked for, in a tab opened meanwhile too.  Not when the write failed *)
(* or the app ended before it, and not when the row was no longer listed.  *)
LastClickWins ==
    /\ Quiet /\ asked # None
    /\ cause \cap {"unwritten", "killed", "not listed"} = {}
    => StatusOf(asked.id, Everything.marks) = asked.to

(* A change of authorization is announced once: also when two passes       *)
(* overlap, when the marker could not be written and after a restart.      *)
(* Only a restart that finds no marker may announce it again.              *)
NotifiedOnce == "told lost" \notin cause => \A i \in Ids : shown[i] <= 1

(* With nothing in flight the screen follows the trail: every row listed   *)
(* has the status the markers give.  Not after two readings that           *)
(* overlapped (the older may be answered last), not in a tab opened while  *)
(* a click was being written.                                              *)
ScreenFollows ==
    Quiet /\ ui.rows # None /\ cause \cap {"overlap", "remount"} = {} =>
        LET all == Everything
        IN  \A row \in Range(ui.rows) :
              \/ row.status = StatusOf(row.view.id, all.marks)
              \/ row.view.id \notin {v.id : v \in Range(all.views)}

(* The tray counts what still wants a review, and the tab opens on it: a   *)
(* change it counts is unreviewed in the trail, and on that page, itself   *)
(* or a copy.  Not after a pass, which may end with what it read before    *)
(* the click.                                                              *)
TrayFollows ==
    Quiet /\ used.passes = 0 /\ ui.rows # None /\ cause \cap {"overlap", "remount", "purge"} = {} =>
        LET all == Everything
        IN  \A v \in Range(all.views) : v.id \in toReview =>
              /\ StatusOf(v.id, all.marks) = "unreviewed"
              /\ \E row \in Range(PageRows(ui.rows, NeedsReviewOnly)) : Same(row.view, v)

(* What a click marks is what the trail says, and what the trail says is   *)
(* what the screen shows and the tray counts.                              *)
ClicksHold == LastClickWins /\ ScreenFollows /\ TrayFollows

=============================================================================
