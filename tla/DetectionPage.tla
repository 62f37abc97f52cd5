--------------------------- MODULE DetectionPage ---------------------------
(***************************************************************************)
(* The list of detections: the page the main process cuts out of the       *)
(* store's result (detection-page.ts) and the hook that shows it           *)
(* (useDetectionPage.ts): a head polled every 2 s and older pages loaded   *)
(* on demand, under a filter the user changes at any moment.               *)
(*                                                                         *)
(* The store's result is a set of events that grows and is purged; an      *)
(* answer is cut from the result as it is when the handler answers.        *)
(***************************************************************************)
EXTENDS Naturals, FiniteSets, SequencesExt

CONSTANTS
    Trail,      \* the events to come, in order: id (newer is greater), category, severity
    Filters,    \* the filters the user may pick: categories and severities
    Severities,
    PageLimit,
    MaxCall,    \* requests in flight
    MaxOlder,   \* rows of older pages: the code has no bound
    MaxPurge

VARIABLES
    stored,     \* how many events of Trail the store has, and how many were purged
    filter,
    head,       \* the last head answer, <<>> at first
    older,      \* the rows of the older pages
    loading,    \* loadingRef
    calls,      \* requests in flight
    odd         \* history: "late" and "slid"

pvars == <<stored, filter, head, older, loading, calls, odd>>

Events == {Trail[i] : i \in stored.purged + 1 .. stored.upto}

IsBaseline(e) == e.cat = "tool_call_allowed"

MatchesPreSeverity(e, f) == e.cat \in f.cats

(* Normal activity shows only while no severity is left out.               *)
MatchesSeverity(e, f) ==
    IF IsBaseline(e) THEN f.sevs = Severities ELSE e.sev \in f.sevs

Matching(f) == {e \in Events : MatchesPreSeverity(e, f) /\ MatchesSeverity(e, f)}

(* Mutant: the page begins one row too late.                               *)
PaginateSkips(f, cursor) ==
    LET sorted == SetToSortSeq(Matching(f), LAMBDA a, b : a.id > b.id)
        after == SelectSeq(sorted, LAMBDA e : cursor = 0 \/ e.id < cursor - 1)
    IN  [filter |-> f, rows |-> SubSeq(after, 1, IF Len(after) < PageLimit THEN Len(after) ELSE PageLimit),
         total |-> Len(sorted)]

(* Newest first, from just after the cursor (0: from the start).           *)
Paginate(f, cursor) ==
    LET sorted == SetToSortSeq(Matching(f), LAMBDA a, b : a.id > b.id)
        after == SelectSeq(sorted, LAMBDA e : cursor = 0 \/ e.id < cursor)
    IN  [filter |-> f, rows |-> SubSeq(after, 1, IF Len(after) < PageLimit THEN Len(after) ELSE PageLimit),
         total |-> Len(sorted)]

(* The head and the older pages, an event once.                            *)
Rows ==
    LET flat == (IF head = <<>> THEN <<>> ELSE head[1].rows) \o older
    IN  FlattenSeq([i \in DOMAIN flat |->
            IF \E j \in 1 .. i - 1 : flat[j].id = flat[i].id THEN <<>> ELSE <<flat[i]>>])

TotalMatching == IF head = <<>> THEN 0 ELSE head[1].total

----------------------------------------------------------------------------
PInit ==
    /\ stored = [upto |-> 0, purged |-> 0]
    /\ filter \in Filters
    /\ head = <<>> /\ older = <<>> /\ loading = FALSE
    /\ calls = {}
    /\ odd = {}

Arrive ==
    /\ stored.upto < Len(Trail)
    /\ stored' = [stored EXCEPT !.upto = @ + 1]
    /\ UNCHANGED <<filter, head, older, loading, calls, odd>>

Purge ==
    /\ stored.purged < MaxPurge /\ stored.purged < stored.upto
    /\ stored' = [stored EXCEPT !.purged = @ + 1]
    /\ UNCHANGED <<filter, head, older, loading, calls, odd>>

Call(kind, cursor) == [kind |-> kind, filter |-> filter, cursor |-> cursor, cancelled |-> FALSE]

(* The interval of the head poll.                                          *)
PollHead ==
    /\ Cardinality(calls) < MaxCall
    /\ calls' = calls \cup {Call("head", 0)}
    /\ UNCHANGED <<stored, filter, head, older, loading, odd>>

(* The effect of a filter change: the older pages go, the polls of the old *)
(* filter are cancelled; a loadMore in flight is not.                      *)
ChangeFilter ==
    /\ \E f \in Filters \ {filter} : filter' = f
    /\ older' = <<>> /\ loading' = FALSE
    /\ calls' = {IF c.kind = "head" THEN [c EXCEPT !.cancelled = TRUE] ELSE c : c \in calls}
    /\ odd' = odd \ {"late", "slid"}
    /\ UNCHANGED <<stored, head>>

LoadMore ==
    /\ Len(older) < MaxOlder
    /\ ~ loading /\ Rows # <<>> /\ Len(Rows) < TotalMatching
    /\ Cardinality(calls) < MaxCall
    /\ loading' = TRUE
    /\ calls' = calls \cup {Call("more", Last(Rows).id)}
    /\ UNCHANGED <<stored, filter, head, older, odd>>

AnswerHead(c) ==
    LET r == Paginate(c.filter, 0) IN
    /\ c \in calls /\ c.kind = "head"
    /\ calls' = calls \ {c}
    /\ IF c.cancelled
       THEN UNCHANGED <<head, odd>>
       ELSE /\ head' = <<r>>
            /\ odd' = IF older # <<>> /\ head[1].rows # r.rows THEN odd \cup {"slid"} ELSE odd
    /\ UNCHANGED <<stored, filter, older, loading>>

AnswerMore(c) ==
    LET r == Paginate(c.filter, c.cursor) IN
    /\ c \in calls /\ c.kind = "more"
    /\ calls' = calls \ {c}
    /\ older' = older \o r.rows
    /\ loading' = FALSE
    /\ odd' = odd \cup (IF c.filter # filter \/ head = <<>> THEN {"late"} ELSE {})
                   \cup (IF head # <<>> /\ Rows # <<>> /\ Last(Rows).id # c.cursor THEN {"slid"} ELSE {})
    /\ UNCHANGED <<stored, filter, head>>

(* The request is rejected: nothing changes but the flag.                  *)
AnswerFails(c) ==
    /\ c \in calls
    /\ calls' = calls \ {c}
    /\ loading' = IF c.kind = "more" THEN FALSE ELSE loading
    /\ UNCHANGED <<stored, filter, head, older, odd>>

PNext == Arrive \/ Purge \/ PollHead \/ ChangeFilter \/ LoadMore
         \/ \E c \in calls : AnswerHead(c) \/ AnswerMore(c) \/ AnswerFails(c)

----------------------------------------------------------------------------
(* Under the head of the current filter, the rows are matching events,     *)
(* newest first, with no event of the store left out between two of them:  *)
(* unless an older page of another filter came late, or the head slid away *)
(* from the older pages (paginate's cursor, useDetectionPage).             *)
PageWalk ==
    (head # <<>> /\ head[1].filter = filter /\ odd = {}) =>
        LET ids == {r.id : r \in ToSet(Rows)}
        IN  /\ \A r \in ToSet(Rows) : MatchesPreSeverity(r, filter) /\ MatchesSeverity(r, filter)
            /\ \A i \in 1 .. Len(Rows) - 1 : Rows[i].id > Rows[i + 1].id
            /\ \A e \in Matching(filter) :
                 e.id \notin ids => (\A i \in ids : i > e.id) \/ (\A i \in ids : i < e.id)

=============================================================================
