----------------------------- MODULE Compactor -----------------------------
(***************************************************************************)
(* The compaction of the trail (apps/desktop/src/main/compactor.ts) with   *)
(* the retention sweep (retention.ts) and the writers of the files: the    *)
(* wrappers, which keep their session file open, and the Claude Code       *)
(* ingester, which opens it by its path, before the compaction of the same *)
(* cycle.                                                                  *)
(*                                                                         *)
(* A session file is the number of its ULID; a line is its id.  Each       *)
(* file-system call of the cycle and of the sweep is one step.  Time is    *)
(* coarse: one unit is more than the silence of seven days.                *)
(***************************************************************************)
EXTENDS Naturals, Sequences, FiniteSets, SequencesExt

CONSTANTS
    Source,     \* session files
    Wrapper,    \* those written by a wrapper; the others are Claude Code's
    Day, DayOf, \* days, and the day of each session file's ULID
    Line, Owner,\* lines, and the session that writes each
    Keep,       \* retention, in units of time
    MaxTime,    \* bound on time
    Faults,     \* what may go wrong, of FaultKind
    MaxFault    \* bound on the failures of one behaviour

\* "kill": a wrapper, in the middle of a line; "io": an append, an fsync or an
\* unlink fails; "crash": of the app; "power": the app, and what no fsync covered.
FaultKind == {"kill", "io", "crash", "power"}

ASSUME SourceAssumption == Source \subseteq Nat /\ IsFiniteSet(Source) /\ Wrapper \subseteq Source
ASSUME DayAssumption == Day \subseteq Nat /\ DayOf \in [Source -> Day] /\ Day \cap Source = {}
ASSUME LineAssumption == Owner \in [Line -> Source] /\ IsFiniteSet(Line)
ASSUME BoundAssumption == Keep \in Nat /\ MaxTime \in Nat \ {0} /\ MaxFault \in Nat
ASSUME FaultsAssumption == Faults \subseteq FaultKind

VARIABLES
    \* the session files
    present,    \* the names in wrappers/
    text,       \* text[s]: its whole lines
    torn,       \* files that end in a piece of a line
    ended,      \* files with a terminal line (of the session or of the wrapper)
    mtime,      \* of a session file or of a day file
    writer,     \* writer[s]: "live", "ending" (terminal line written), "gone"
    \* the day files
    dtext,      \* its readable lines (empty: there may be no file)
    dopen,      \* day files that do not end in a newline
    synced,     \* synced[d]: how many of its lines an fsync covers
    \* the compaction
    pc, todo, token, batch, cur, ids, payload,
    \* the sweep
    sweeping,   \* session and day files stat'ed as past retention
    \* the world
    now, wrote, \* time, and when each line was written (0: not yet, from 1)
    faults,
    \* history, read by the properties only
    window,     \* window[l]: how line l may have been lost
    purged      \* lines of which retention removed a copy, at their age

fileVars == <<present, text, torn, ended, writer>>
dayVars == <<dtext, dopen, synced>>
cycleVars == <<pc, todo, token, batch, cur, ids, payload>>
worldVars == <<now, wrote, faults>>
histVars == <<window, purged>>
vars == <<fileVars, mtime, dayVars, cycleVars, sweeping, worldVars, histVars>>

None == 0
NoToken == <<>>

Init ==
    /\ present = Wrapper
    /\ text = [s \in Source |-> <<>>] /\ torn = {} /\ ended = {}
    /\ mtime = [f \in Source \cup Day |-> 1]
    /\ writer = [s \in Source |-> "live"]
    /\ dtext = [d \in Day |-> <<>>] /\ dopen = {} /\ synced = [d \in Day |-> 0]
    /\ pc = "idle" /\ todo = {} /\ token = [s \in Source |-> NoToken]
    /\ batch = [s \in Source |-> <<>>] /\ cur = None /\ ids = {} /\ payload = <<>>
    /\ sweeping = {}
    /\ now = 1 /\ wrote = [l \in Line |-> 0] /\ faults = 0
    /\ window = [l \in Line |-> {}] /\ purged = {}

Fail(kind) == kind \in Faults /\ faults < MaxFault /\ faults' = faults + 1
Open(L, w) == [l \in Line |-> IF l \in L THEN window[l] \cup {w} ELSE window[l]]
Lines(q) == ToSet(q)

\* What the reader shows: the lines of every file, each once.
View == (UNION {Lines(text[s]) : s \in present}) \cup UNION {Lines(dtext[d]) : d \in Day}

-----------------------------------------------------------------------------
(* The writers.                                                            *)

New(l, s) == Owner[l] = s /\ wrote[l] = 0

\* A wrapper writes to the file it has open, whatever has become of the name.
\* After its terminal line it goes on for up to a second and a half.
WrapperWrite(l) ==
    /\ LET s == Owner[l] IN
          /\ s \in Wrapper /\ writer[s] # "gone" /\ New(l, s)
          /\ IF s \in present
             THEN /\ text' = [text EXCEPT ![s] = Append(@, l)]
                  /\ mtime' = [mtime EXCEPT ![s] = now]
                  /\ UNCHANGED window
             ELSE window' = Open({l}, "orphan") /\ UNCHANGED <<text, mtime>>
          /\ \/ UNCHANGED <<ended, writer>>
             \/ /\ writer[s] = "live" /\ writer' = [writer EXCEPT ![s] = "ending"]
                /\ ended' = IF s \in present THEN ended \cup {s} ELSE ended
    /\ wrote' = [wrote EXCEPT ![l] = now]
    /\ UNCHANGED <<present, torn, dayVars, cycleVars, sweeping, now, faults, purged>>

WrapperExit(s) ==
    /\ s \in Wrapper /\ writer[s] = "ending"
    /\ writer' = [writer EXCEPT ![s] = "gone"]
    /\ UNCHANGED <<present, text, torn, ended, mtime, dayVars, cycleVars, sweeping,
                   worldVars, histVars>>

\* kill -9: no terminal line, and maybe a piece of one.
WrapperKilled(s) ==
    /\ s \in Wrapper /\ writer[s] # "gone" /\ Fail("kill")
    /\ writer' = [writer EXCEPT ![s] = "gone"]
    /\ torn' \in {torn, torn \cup ({s} \cap present)}
    /\ mtime' = IF torn' = torn THEN mtime ELSE [mtime EXCEPT ![s] = now]
    /\ UNCHANGED <<present, text, ended, dayVars, cycleVars, sweeping, now, wrote, histVars>>

\* The ingester of the same cycle, before it compacts: a session may be resumed
\* after its SessionEnd, and its file created again.
IngestWrite(l) ==
    /\ pc = "idle"
    /\ LET s == Owner[l] IN
          /\ s \notin Wrapper /\ New(l, s)
          /\ text' = [text EXCEPT ![s] = IF s \in present THEN Append(@, l) ELSE <<l>>]
          /\ present' = present \cup {s}
          /\ mtime' = [mtime EXCEPT ![s] = now]
          /\ ended' \in {ended, ended \cup {s}}
    /\ wrote' = [wrote EXCEPT ![l] = now]
    /\ UNCHANGED <<torn, writer, dayVars, cycleVars, sweeping, now, faults, histVars>>

-----------------------------------------------------------------------------
(* scanCandidates.                                                         *)

\* The freshness token.  Every write grows the file, and no file is created again
\* within a cycle: its size, with mtime, ctime and inode, tells what they all tell.
Token(s) == <<Len(text[s]), s \in torn, mtime[s]>>

Quiet == UNCHANGED <<fileVars, mtime, sweeping, now, wrote, histVars>>

StartCycle ==
    /\ pc = "idle" /\ present # {}
    /\ pc' = "stat" /\ todo' = present
    /\ token' = [s \in Source |-> NoToken] /\ batch' = [s \in Source |-> <<>>]
    /\ UNCHANGED <<cur, ids, payload, dayVars, faults>> /\ Quiet

\* Vanished files are skipped.
ScanStat(s) ==
    /\ pc = "stat" /\ s \in todo
    /\ IF s \in present
       THEN pc' = "read" /\ cur' = s /\ token' = [token EXCEPT ![s] = Token(s)] /\ UNCHANGED todo
       ELSE todo' = todo \ {s} /\ UNCHANGED <<pc, cur, token>>
    /\ UNCHANGED <<batch, ids, payload, dayVars, faults>> /\ Quiet

\* Mutant: a line that does not parse makes the file no candidate.
CandidateStrict(s) == s \notin torn /\ (s \in ended \/ token[s][3] < now)

\* isCandidateFile: a terminal line anywhere in what is read now, or seven days of
\* silence by the mtime of the stat (no time passes within a cycle).
Candidate(s) == s \in ended \/ token[s][3] < now

ScanRead ==
    /\ pc = "read" /\ pc' = "stat" /\ todo' = todo \ {cur}
    /\ IF cur \in present /\ Candidate(cur)
       THEN batch' = [batch EXCEPT ![cur] = text[cur]] /\ UNCHANGED token
       ELSE token' = [token EXCEPT ![cur] = NoToken] /\ UNCHANGED batch
    /\ cur' = None
    /\ UNCHANGED <<ids, payload, dayVars, faults>> /\ Quiet

-----------------------------------------------------------------------------
(* runCompactionCycle, group by group.                                     *)

Entries == {s \in Source : token[s] # NoToken}
Group(d) == {s \in Entries : DayOf[s] = d}
Days == {DayOf[s] : s \in Entries}

\* The groups in the order of their first file; todo becomes the group's files.
NextGroup ==
    /\ pc = "stat" /\ todo = {}
    /\ IF Entries = {} THEN pc' = "idle" /\ UNCHANGED cur
       ELSE pc' = "load" /\ cur' \in Days /\ \A d \in Days : cur' <= d
    /\ UNCHANGED <<todo, token, batch, ids, payload, dayVars, faults>> /\ Quiet

\* The group is over: done, or given up.
EndGroup(d) ==
    /\ token' = [s \in Source |-> IF DayOf[s] = d THEN NoToken ELSE token[s]]
    /\ pc' = "stat" /\ cur' = None /\ todo' = {} /\ ids' = {} /\ payload' = <<>>

\* filterExistingIds: the lines of the group that are not in the day file.
NewLines(G, found) == (UNION {Lines(batch[s]) : s \in G}) \ found

\* Of an earlier file, or before it in the same one.
Precedes(l, m) ==
    \/ Owner[l] < Owner[m]
    \/ \E i, j \in DOMAIN batch[Owner[l]] :
          i < j /\ batch[Owner[l]][i] = l /\ batch[Owner[l]][j] = m

\* The payload (there is one): the files one after the other; a torn last line
\* is given its newline, and stays unreadable.
Payload(G, found) ==
    {q \in [1 .. Cardinality(NewLines(G, found)) -> NewLines(G, found)] :
        IsInjective(q) /\ \A i, j \in DOMAIN q : i < j => Precedes(q[i], q[j])}

\* loadDayFileIds, and what is to be appended; when there is nothing, there is no
\* fsync either.  An unfinished line has no id, and is appended every time.
Load ==
    /\ pc = "load"
    /\ ids' = Lines(dtext[cur]) /\ payload' \in Payload(Group(cur), ids')
    /\ todo' = Group(cur)
    /\ pc' = IF payload' = <<>> /\ \A s \in Group(cur) : ~token[s][2]
             THEN "restat" ELSE "append"
    /\ UNCHANGED <<token, batch, cur, dayVars, faults>> /\ Quiet

\* Mutant: a day file that cannot be read counts as one that is not there.
LoadFailsAsAbsent ==
    /\ pc = "load" /\ Fail("io")
    /\ ids' = {} /\ payload' \in Payload(Group(cur), ids') /\ todo' = Group(cur)
    /\ pc' = "append"
    /\ UNCHANGED <<token, batch, cur, dayVars>> /\ Quiet

LoadFails ==
    /\ pc = "load" /\ Fail("io") /\ EndGroup(cur)
    /\ UNCHANGED <<batch, dayVars>> /\ Quiet

\* Mutant: an unfinished line of the day file takes the first new line with it.
AppendGlued ==
    /\ pc = "append" /\ pc' = "sync"
    /\ dtext' = [dtext EXCEPT ![cur] = @ \o
                    (IF cur \in dopen /\ payload # <<>> THEN Tail(payload) ELSE payload)]
    /\ dopen' = dopen \ {cur}
    /\ mtime' = [mtime EXCEPT ![cur] = now]
    /\ UNCHANGED <<todo, token, batch, cur, ids, payload, synced, fileVars, sweeping, worldVars, histVars>>

\* After a newline if the day file has none at its end.
AppendLines ==
    /\ pc = "append" /\ pc' = "sync"
    /\ dtext' = [dtext EXCEPT ![cur] = @ \o payload]
    /\ dopen' = dopen \ {cur}
    /\ mtime' = [mtime EXCEPT ![cur] = now]
    /\ UNCHANGED <<todo, token, batch, cur, ids, payload, synced, fileVars, sweeping, worldVars, histVars>>

\* What an append cut short leaves: some of the lines, and part of the next.
Cut ==
    \E k \in 0 .. Len(payload) :
        /\ dtext' = [dtext EXCEPT ![cur] = @ \o SubSeq(payload, 1, k)]
        /\ dopen' = dopen \cup {cur}
        /\ mtime' = [mtime EXCEPT ![cur] = now]

AppendFails ==
    /\ pc = "append" /\ Fail("io") /\ Cut /\ EndGroup(cur)
    /\ UNCHANGED <<batch, synced, fileVars, sweeping, now, wrote, histVars>>

-----------------------------------------------------------------------------
(* The fsyncs, then each source: the second stat, and the unlink.          *)

Sync ==
    /\ pc = "sync" /\ pc' = "restat"
    /\ synced' = [synced EXCEPT ![cur] = Len(dtext[cur])]
    /\ UNCHANGED <<todo, token, batch, cur, ids, payload, dtext, dopen, faults>> /\ Quiet

SyncFails ==
    /\ pc = "sync" /\ Fail("io") /\ EndGroup(cur)
    /\ UNCHANGED <<batch, dayVars>> /\ Quiet

\* sameFreshness
Fresh(s) == token[s] = Token(s)

\* A file that is gone or has changed since the scan is left alone.
Restat(s) ==
    /\ pc = "restat" /\ s \in todo
    /\ todo' = todo \ {s}
    /\ IF s \in present /\ Fresh(s)
       THEN pc' = "unlink" /\ payload' = <<s>>
       ELSE UNCHANGED <<pc, payload>>
    /\ UNCHANGED <<token, batch, cur, ids, dayVars, faults>> /\ Quiet

Synced(d) == Lines(SubSeq(dtext[d], 1, synced[d]))

\* ENOENT counts as done.
Unlink ==
    /\ pc = "unlink" /\ pc' = "restat" /\ payload' = <<>>
    /\ LET s == payload[1] IN
          /\ present' = present \ {s} /\ ended' = ended \ {s} /\ torn' = torn \ {s}
          /\ text' = [text EXCEPT ![s] = <<>>]
          /\ window' = [l \in Line |-> window[l]
                 \cup {w \in {"gap"} : l \in Lines(text[s]) \ Lines(batch[s])}
                 \cup {w \in {"unsynced"} : l \in Lines(text[s]) \cap (ids \ Synced(cur))}]
    /\ UNCHANGED <<todo, token, batch, cur, ids, writer, mtime, dayVars, sweeping,
                   worldVars, purged>>

UnlinkFails ==
    /\ pc = "unlink" /\ Fail("io") /\ EndGroup(cur)
    /\ UNCHANGED <<batch, dayVars>> /\ Quiet

GroupDone ==
    /\ pc = "restat" /\ todo = {}
    /\ EndGroup(cur)
    /\ UNCHANGED <<batch, dayVars, faults>> /\ Quiet

-----------------------------------------------------------------------------
(* runSweep, between any two steps of the cycle.                           *)

Exists(f) ==
    \/ f \in present
    \/ /\ f \in Day
       /\ dtext[f] # <<>> \/ f \in dopen

\* The age is that of the last write: a name is never younger.
SweepCollect ==
    /\ sweeping = {}
    /\ sweeping' = {f \in Source \cup Day : Exists(f) /\ now - mtime[f] >= Keep}
    /\ sweeping' # {}
    /\ UNCHANGED <<fileVars, mtime, dayVars, cycleVars, worldVars, histVars>>

\* Whole files, without a second look.
SweepUnlink(f) ==
    /\ f \in sweeping /\ sweeping' = sweeping \ {f}
    /\ present' = present \ {f} /\ ended' = ended \ {f} /\ torn' = torn \ {f}
    /\ text' = [s \in Source |-> IF s = f THEN <<>> ELSE text[s]]
    /\ dtext' = [d \in Day |-> IF d = f THEN <<>> ELSE dtext[d]]
    /\ synced' = [d \in Day |-> IF d = f THEN 0 ELSE synced[d]]
    /\ dopen' = dopen \ {f}
    /\ LET gone == Lines(IF f \in Day THEN dtext[f] ELSE text[f])
           old == {l \in gone : now - wrote[l] >= Keep} IN
          /\ window' = Open(gone \ old, "swept") /\ purged' = purged \cup old
    /\ UNCHANGED <<writer, mtime, cycleVars, worldVars>>

SweepFails(f) ==
    /\ f \in sweeping /\ sweeping' = sweeping \ {f} /\ Fail("io")
    /\ UNCHANGED <<fileVars, mtime, dayVars, cycleVars, now, wrote, histVars>>

-----------------------------------------------------------------------------
(* The app ends; time passes.                                              *)

Stop ==
    /\ pc' = "idle" /\ todo' = {} /\ cur' = None /\ ids' = {} /\ payload' = <<>>
    /\ token' = [s \in Source |-> NoToken] /\ batch' = [s \in Source |-> <<>>]
    /\ sweeping' = {}

Crash ==
    /\ pc # "idle" \/ sweeping # {}
    /\ Fail("crash") /\ Stop
    /\ IF pc = "append" THEN Cut ELSE UNCHANGED <<dtext, dopen, mtime>>
    /\ UNCHANGED <<fileVars, synced, now, wrote, histVars>>

\* What was appended to a day file and not fsynced may be lost, in part or whole.
PowerLoss ==
    /\ Fail("power") /\ Stop
    /\ writer' = [s \in Source |-> IF s \in Wrapper THEN "gone" ELSE writer[s]]
    /\ \E d \in Day : \E k \in synced[d] .. Len(dtext[d]) :
          /\ dtext' = [dtext EXCEPT ![d] = SubSeq(@, 1, k)]
          /\ dopen' = IF k < Len(dtext[d]) THEN dopen \cup {d} ELSE dopen
    /\ UNCHANGED <<present, text, torn, ended, mtime, synced, now, wrote, histVars>>

Tick ==
    /\ pc = "idle" /\ sweeping = {} /\ now < MaxTime /\ now' = now + 1
    /\ UNCHANGED <<fileVars, mtime, dayVars, cycleVars, sweeping, wrote, faults, histVars>>

Writers ==
    \/ \E l \in Line : WrapperWrite(l) \/ IngestWrite(l)
    \/ \E s \in Source : WrapperExit(s) \/ WrapperKilled(s)

Cycle ==
    \/ StartCycle \/ ScanRead \/ NextGroup \/ Load \/ LoadFails
    \/ AppendLines \/ AppendFails \/ Sync \/ SyncFails
    \/ Unlink \/ UnlinkFails \/ GroupDone
    \/ \E s \in Source : ScanStat(s) \/ Restat(s)

Sweep == SweepCollect \/ \E f \in Source \cup Day : SweepUnlink(f) \/ SweepFails(f)

Next == Writers \/ Cycle \/ Sweep \/ Crash \/ PowerLoss \/ Tick

Spec == Init /\ [][Next]_vars

\* Every 15 s, for as long as the app runs.
FairSpec == Spec /\ WF_vars(Cycle)

-----------------------------------------------------------------------------
(* Properties.                                                             *)

FileType ==
    /\ present \subseteq Source /\ torn \subseteq present /\ ended \subseteq present
    /\ text \in [Source -> Seq(Line)]
    /\ writer \in [Source -> {"live", "ending", "gone"}]
    /\ mtime \in [Source \cup Day -> 1 .. now]
    /\ dtext \in [Day -> Seq(Line)] /\ dopen \subseteq Day
    /\ synced \in [Day -> Nat] /\ \A d \in Day : synced[d] <= Len(dtext[d])

CycleType ==
    /\ pc \in {"idle", "stat", "read", "load", "append", "sync", "restat", "unlink"}
    /\ todo \subseteq Source /\ cur \in Source \cup Day \cup {None}
    /\ batch \in [Source -> Seq(Line)] /\ ids \subseteq Line
    /\ token \in [Source -> {NoToken} \cup (Nat \X BOOLEAN \X Nat)]
    /\ pc = "append" => payload \in Seq(Line)
    /\ pc = "unlink" => payload \in Seq(Source) /\ Len(payload) = 1

\* Every variable keeps its shape, and what an fsync covers is in the file.
TypeOK ==
    /\ FileType /\ CycleType
    /\ sweeping \subseteq Source \cup Day
    /\ now \in 1 .. MaxTime /\ wrote \in [Line -> 0 .. now] /\ faults \in Nat
    /\ window \in [Line -> SUBSET {"orphan", "gap", "swept", "unsynced"}] /\ purged \subseteq Line

\* A line once written is readable in its session's file or in the day's at
\* every moment, until retention removes it at its age: whatever fails in the
\* compaction, only a write to a file being unlinked ("gap") or already unlinked
\* ("orphan"), a sweep that looked before the write ("swept") and a power loss
\* after the fsync was skipped for a line found in the day file ("unsynced") do.
NothingLost ==
    \A l \in Line : wrote[l] # 0 => l \in View \/ l \in purged \/ window[l] # {}

\* A crash or a failure between the append and the unlink never puts a line
\* twice in a day file.
OncePerDay == \A d \in Day : IsInjective(dtext[d])

\* A file with a terminal line is compacted in the end.
Compacted == \A s \in Source : s \in ended ~> s \notin ended

=============================================================================
