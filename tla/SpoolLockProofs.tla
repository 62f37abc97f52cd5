-------------------------- MODULE SpoolLockProofs --------------------------
(* Proofs about the capture path and about the lock of the OAuth refresh,  *)
(* for every value of their constants.                                     *)
EXTENDS MCLive, FiniteSetTheorems, TLAPS

-----------------------------------------------------------------------------
(* The constant sets.                                                      *)

\* What the proofs need of the ULIDs: positive numbers, each with a
\* millisecond.
LEMMA UlidFacts ==
    /\ Ulid \subseteq Nat \ {0}
    /\ \A u \in Ulid : Ms(u) \in Nat
<1>1. Ulid \subseteq Nat \ {0}
  BY DEF Ulid
<1>2. ASSUME NEW u \in Ulid PROVE Ms(u) \in Nat
  <2> DEFINE n == u - 1
  <2>1. n \in Nat
    BY <1>1
  <2>2. n \div Span \in Nat
    <3> HIDE DEF n
    <3> QED BY <2>1, SpanAssumption
  <2> QED
    BY <2>2 DEF Ms
<1> QED
  BY <1>1, <1>2

LEMMA SetFacts ==
    /\ NoKey \in SessionKey
    /\ Window = {"late", "half", "skipped", "glued"}
    /\ FileState = {"unminted", "minted", "partial", "whole", "gone"}
BY DEF SessionKey, Window, FileState

-----------------------------------------------------------------------------
(* Type correctness.                                                       *)

LEMMA CurKeyType == ASSUME TypeOK, cur \in Ulid PROVE CurKey \in SessionKey
BY SetFacts DEF TypeOK, HookType, CycleType, CurKey

LEMMA AppendedType ==
    ASSUME DiskType, NEW f \in Nat, NEW u \in Ulid, NEW k \in SessionKey,
           NEW first \in BOOLEAN, NEW cut \in BOOLEAN, Appended(f, u, k, first, cut)
    PROVE  /\ copies' \in [Ulid -> Nat]
           /\ torn' \subseteq Nat
           /\ filed' \in [SessionKey -> SUBSET Nat]
<1>1. copies' \in [Ulid -> Nat]
  BY DEF DiskType, Appended
<1>2. torn' \subseteq Nat
  BY DEF DiskType, Appended
<1>3. filed' \in [SessionKey -> SUBSET Nat]
  BY DEF DiskType, Appended
<1> QED
  BY <1>1, <1>2, <1>3

LEMMA SkipType ==
    ASSUME TypeOK, NEW u \in Ulid, Skip(u)
    PROVE  window' \in [Ulid -> SUBSET Window]
BY SetFacts DEF TypeOK, HistoryType, Skip

LEMMA TypeStep == TypeOK /\ [Next]_vars => TypeOK'
<1> SUFFICES ASSUME TypeOK, [Next]_vars PROVE TypeOK'
  OBVIOUS
<1> USE UlidFacts, SetFacts DEF TypeOK, hookVars, memVars, diskVars
<1>1. ASSUME NEW h \in Hook, HookStep(h) \/ HookDies(h) PROVE TypeOK'
  <2> USE DEF HookType, SpoolType, CycleType, DiskType, HistoryType, Fail, HookTo
  <2>1. CASE CheckCap(h)
    BY <2>1 DEF CheckCap
  <2>2. CASE Drop(h)
    BY <2>2 DEF Drop
  <2>3. CASE Mint(h)
    BY <2>3 DEF Mint
  <2>4. CASE Create(h)
    BY <2>4 DEF Create
  <2>5. CASE Write(h)
    BY <2>5 DEF Write
  <2>6. CASE HookDies(h)
    BY <2>6 DEF HookDies
  <2> QED
    BY <1>1, <2>1, <2>2, <2>3, <2>4, <2>5, <2>6 DEF HookStep
<1>2. CASE IdleTick
  BY <1>2 DEF IdleTick, vars, HookType, SpoolType, CycleType, DiskType, HistoryType
<1>3. CASE StartCycle
  <2>1. HookType' /\ SpoolType' /\ DiskType'
    BY <1>3 DEF StartCycle, HookType, SpoolType, DiskType
  <2>2. wm' \in Ulid \cup {0} /\ sess' \in [SessionKey -> Nat]
    BY <1>3 DEF StartCycle, NoSessions, DiskType
  <2>3. CycleType' /\ faults' \in Nat
    BY <1>3, <2>2 DEF StartCycle, Fail, Present, CycleType, HistoryType
  <2>4. HistoryType'
    BY <1>3, <2>3 DEF StartCycle, Present, HistoryType
  <2> QED
    BY <2>1, <2>3, <2>4
<1>4. CASE EndCycle
  BY <1>4 DEF EndCycle, Forget, NoSessions, HookType, SpoolType, CycleType, DiskType, HistoryType
<1>5. ASSUME NEW u \in todo, DeleteStale(u) PROVE TypeOK'
  BY <1>5 DEF DeleteStale, NextEntry, Fail, HookType, SpoolType, CycleType,
     DiskType, HistoryType
<1>6. ASSUME NEW u \in todo, Read(u) PROVE TypeOK'
  BY <1>6 DEF Read, HookType, SpoolType, CycleType, DiskType, HistoryType
<1>7. ASSUME NEW u \in todo, ReadFails(u) PROVE TypeOK'
  BY <1>7, SkipType DEF ReadFails, Skip, NextEntry, Fail, HookType, SpoolType,
     CycleType, DiskType, HistoryType
<1>8. CASE KnownSession
  BY <1>8 DEF KnownSession, HookType, SpoolType, CycleType, DiskType, HistoryType
<1>9. ASSUME NewSession \/ NewSessionFails PROVE TypeOK'
  <2>1. cur \in Ulid /\ CurKey \in SessionKey
    BY <1>9, CurKeyType DEF NewSession, NewSessionFails, CycleType
  <2>2. HookType' /\ SpoolType'
    BY <1>9 DEF NewSession, NewSessionFails, HookType, SpoolType
  <2>3. CycleType'
    BY <1>9, <2>1, ZenonT(60) DEF NewSession, NewSessionFails, Skip, NextEntry, CycleType,
       DiskType
  <2>4. DiskType'
    <3>1. CASE NewSession
      BY <3>1, <2>1 DEF NewSession, CycleType, DiskType
    <3>2. CASE NewSessionFails
      <4>1. seeded' \subseteq {"sessions", "state"}
        BY <3>2 DEF NewSessionFails, DiskType
      <4>2. nextFile' \in Nat \ {0}
        BY <3>2 DEF NewSessionFails, DiskType
      <4> QED
        BY <3>2, <4>1, <4>2 DEF NewSessionFails, DiskType
    <3> QED
      BY <1>9, <3>1, <3>2
  <2>5. HistoryType'
    <3>1. CASE NewSession
      BY <3>1 DEF NewSession, HistoryType
    <3>2. CASE NewSessionFails
      <4>1. window' \in [Ulid -> SUBSET Window]
        BY <3>2, <2>1, SkipType DEF NewSessionFails, HistoryType
      <4> QED
        BY <3>2, <4>1 DEF NewSessionFails, Fail, HistoryType
    <3> QED
      BY <1>9, <3>1, <3>2
  <2> QED
    BY <2>2, <2>3, <2>4, <2>5
<1>10. ASSUME Append \/ AppendFails PROVE TypeOK'
  <2>1. cur \in Ulid /\ CurKey \in SessionKey /\ sess[CurKey] \in Nat
    BY <1>10, CurKeyType DEF Append, AppendFails, CycleType
  <2>2. HookType' /\ SpoolType'
    BY <1>10 DEF Append, AppendFails, HookType, SpoolType
  <2>3. CycleType'
    BY <1>10, <2>1 DEF Append, AppendFails, Skip, NextEntry, CycleType
  <2>4. DiskType'
    <3>1. CASE Append
      BY <3>1, <2>1, AppendedType DEF Append, DiskType
    <3>2. CASE AppendFails
      BY <3>2, <2>1, AppendedType DEF AppendFails, DiskType
    <3> QED
      BY <1>10, <3>1, <3>2
  <2>5. HistoryType'
    <3>1. CASE Append
      BY <3>1 DEF Append, CycleType, HistoryType
    <3>2. CASE AppendFails
      <4>1. window' \in [Ulid -> SUBSET Window]
        BY <3>2, <2>1, SkipType DEF AppendFails
      <4> QED
        BY <3>2, <4>1 DEF AppendFails, Fail, HistoryType
    <3> QED
      BY <1>10, <3>1, <3>2
  <2> QED
    BY <2>2, <2>3, <2>4, <2>5
<1>11. ASSUME SaveState \/ SaveStateFails PROVE TypeOK'
  <2>1. cur \in Ulid
    BY <1>11 DEF SaveState, SaveStateFails, CycleType
  <2>2. HookType' /\ SpoolType'
    BY <1>11 DEF SaveState, SaveStateFails, HookType, SpoolType
  <2>3. CycleType'
    BY <1>11, <2>1 DEF SaveState, SaveStateFails, Skip, NextEntry, CycleType
  <2>4. DiskType'
    BY <1>11, <2>1 DEF SaveState, SaveStateFails, DiskType
  <2>5. HistoryType'
    <3>1. CASE SaveState
      BY <3>1 DEF SaveState, HistoryType
    <3>2. CASE SaveStateFails
      <4>1. window' \in [Ulid -> SUBSET Window]
        BY <3>2, <2>1, SkipType DEF SaveStateFails, HistoryType
      <4> QED
        BY <3>2, <4>1 DEF SaveStateFails, Fail, HistoryType
    <3> QED
      BY <1>11, <3>1, <3>2
  <2> QED
    BY <2>2, <2>3, <2>4, <2>5
<1>12. ASSUME Unlink \/ UnlinkFails PROVE TypeOK'
  <2>1. cur \in Ulid
    BY <1>12 DEF Unlink, UnlinkFails, CycleType
  <2>2. HookType' /\ SpoolType' /\ DiskType'
    BY <1>12, <2>1 DEF Unlink, UnlinkFails, HookType, SpoolType, DiskType
  <2>3. CycleType'
    BY <1>12, <2>1 DEF Unlink, UnlinkFails, Skip, NextEntry, CycleType
  <2>4. HistoryType'
    <3>1. CASE Unlink
      BY <3>1 DEF Unlink, HistoryType
    <3>2. CASE UnlinkFails
      <4>1. window' \in [Ulid -> SUBSET Window]
        BY <3>2, <2>1, SkipType DEF UnlinkFails
      <4> QED
        BY <3>2, <4>1 DEF UnlinkFails, Fail, HistoryType
    <3> QED
      BY <1>12, <3>1, <3>2
  <2> QED
    BY <2>2, <2>3, <2>4
<1>13. CASE Crash
  <2>1. pc = "append" => cur \in Ulid /\ CurKey \in SessionKey /\ sess[CurKey] \in Nat
    BY CurKeyType DEF CycleType
  <2>2. HookType' /\ SpoolType' /\ HistoryType'
    BY <1>13 DEF Crash, Fail, HookType, SpoolType, HistoryType
  <2>3. CycleType'
    BY <1>13 DEF Crash, Forget, NoSessions, CycleType
  <2>4. DiskType'
    <3>1. /\ copies' \in [Ulid -> Nat] /\ torn' \subseteq Nat
          /\ filed' \in [SessionKey -> SUBSET Nat]
      <4>1. CASE UNCHANGED <<torn, copies, filed>>
        BY <4>1 DEF DiskType
      <4>2. CASE /\ pc = "append"
                 /\ \E first, cut \in BOOLEAN :
                       Appended(sess[CurKey], cur, CurKey, first, cut)
        BY <4>2, <2>1, AppendedType, ZenonT(60)
      <4> QED
        BY <1>13, <4>1, <4>2 DEF Crash
    <3>2. seeded' \subseteq {"sessions", "state"}
      BY <1>13 DEF Crash, DiskType
    <3> QED
      BY <1>13, <3>1, <3>2 DEF Crash, DiskType
  <2> QED
    BY <2>2, <2>3, <2>4
<1>14. CASE Restart
  BY <1>14 DEF Restart, HookType, SpoolType, CycleType, DiskType, HistoryType
<1>15. CASE UNCHANGED vars
  BY <1>15 DEF vars, HookType, SpoolType, CycleType, DiskType, HistoryType
<1> QED
  BY <1>1, <1>2, <1>3, <1>4, <1>5, <1>6, <1>7, <1>8, <1>9, <1>10, <1>11, <1>12,
     <1>13, <1>14, <1>15 DEF Next, Ingest

\* The state variables keep their shape whatever the hooks, the ingester and
\* the failures do.
THEOREM TypeCorrect == Spec => []TypeOK
<1>1. Init => TypeOK
  BY UlidFacts, SetFacts DEF Init, TypeOK, HookType, SpoolType, CycleType,
     DiskType, HistoryType
<1> QED
  BY <1>1, TypeStep, PTL DEF Spec

-----------------------------------------------------------------------------
(* No capture is lost outside a window.                                    *)

\* Its lines were written to the trail and synced.
Backed(u) == copies[u] > 0 \/ "glued" \in window[u]

\* Where the loop stands: it visits the listed files in order, each one above
\* the watermark, and the watermark in memory is never behind the saved one
\* (unless that could not be read).
Position ==
    /\ todo \subseteq seen \cap Present
    /\ wm \in seen \cup {0} /\ dwm \in seen \cup {0}
    /\ pc \in {"session", "append", "state", "unlink"} => First(cur)
    /\ pc \in {"session", "append", "state"} => cur > wm
    /\ pc \in {"idle", "down"} => todo = {} /\ wm = 0
    /\ pc \notin {"idle", "down"} /\ "load" \notin Faults => dwm <= wm

\* The append comes before the watermark.
Appends ==
    /\ pc \in {"state", "unlink"} => Backed(cur)
    /\ wm # 0 => Backed(wm)
    /\ dwm # 0 => Backed(dwm)

\* What makes deleting by the watermark safe: every file at or below it is
\* Kept.
Covered == \A u \in Present : u <= dwm \/ u <= wm => Kept(u)

\* A file the loop has passed is Kept, so that the watermark may overtake it.
Visited == \A u \in Present \ todo, v \in todo : u < v => Kept(u)

IInv == TypeOK /\ LossOnlyInWindow /\ Position /\ Appends /\ Covered /\ Visited

Grows == \A u \in Ulid : copies'[u] >= copies[u] /\ window[u] \subseteq window'[u]

\* Neither copies nor windows are ever taken back.
LEMMA Monotone == ASSUME TypeOK, [Next]_vars PROVE Grows
<1> USE UlidFacts, SetFacts DEF TypeOK, diskVars
<1>1. ASSUME NEW h \in Hook, HookStep(h) \/ HookDies(h) PROVE Grows
  <2>1. UNCHANGED copies
    BY <1>1 DEF HookStep, HookDies, CheckCap, Drop, Mint, Create, Write
  <2>2. \A u \in Ulid : window[u] \subseteq window'[u]
    BY <1>1 DEF HookStep, HookDies, CheckCap, Drop, Mint, Create, Write, HistoryType
  <2> QED
    BY <2>1, <2>2 DEF DiskType, Grows
<1>2. ASSUME NEW u \in Ulid, Skip(u) PROVE \A v \in Ulid : window[v] \subseteq window'[v]
  BY <1>2 DEF Skip, HistoryType
<1>3. ASSUME NEW f, NEW u, NEW k, NEW first, NEW cut, Appended(f, u, k, first, cut)
      PROVE  \A v \in Ulid : copies'[v] >= copies[v]
  BY <1>3 DEF Appended, DiskType
<1>4. ASSUME Ingest PROVE \A v \in Ulid : copies'[v] >= copies[v]
  <2>1. CASE Append \/ AppendFails
    BY <1>3, <2>1 DEF Append, AppendFails
  <2>2. CASE ~(Append \/ AppendFails)
    <3>1. UNCHANGED copies
      BY <1>4, <2>2 DEF Ingest, StartCycle, EndCycle, DeleteStale, Read, ReadFails,
         KnownSession, NewSession, NewSessionFails, SaveState, SaveStateFails,
         Unlink, UnlinkFails
    <3> QED
      BY <3>1 DEF DiskType
  <2> QED
    BY <2>1, <2>2
<1>5. ASSUME Ingest PROVE \A v \in Ulid : window[v] \subseteq window'[v]
  <2>1. CASE StartCycle \/ EndCycle \/ KnownSession \/ NewSession \/ SaveState \/ Unlink
    BY <2>1 DEF StartCycle, EndCycle, KnownSession, NewSession, SaveState, Unlink
  <2>2. ASSUME NEW u \in todo, DeleteStale(u) \/ Read(u) \/ ReadFails(u)
        PROVE  \A v \in Ulid : window[v] \subseteq window'[v]
    <3>1. CASE DeleteStale(u)
      BY <3>1 DEF DeleteStale
    <3>2. CASE Read(u)
      BY <3>2 DEF Read, HistoryType
    <3>3. CASE ReadFails(u)
      BY <1>2, <3>3 DEF ReadFails, CycleType
    <3> QED
      BY <2>2, <3>1, <3>2, <3>3
  <2>3. CASE NewSessionFails \/ AppendFails \/ SaveStateFails \/ UnlinkFails
    <3>1. cur \in Ulid
      BY <2>3 DEF NewSessionFails, AppendFails, SaveStateFails, UnlinkFails, CycleType
    <3> QED
      BY <1>2, <2>3, <3>1 DEF NewSessionFails, AppendFails, SaveStateFails, UnlinkFails
  <2>4. CASE Append
    BY <2>4 DEF Append, HistoryType
  <2> QED
    BY <1>5, <2>1, <2>2, <2>3, <2>4 DEF Ingest
<1>6. CASE Crash
  <2>1. UNCHANGED window
    BY <1>6 DEF Crash
  <2>2. \A v \in Ulid : copies'[v] >= copies[v]
    <3>1. CASE UNCHANGED copies
      BY <3>1 DEF DiskType
    <3> QED
      BY <1>3, <1>6, <3>1 DEF Crash
  <2> QED
    BY <2>1, <2>2 DEF Grows
<1>7. CASE IdleTick \/ Restart \/ UNCHANGED vars
  <2>1. copies' = copies /\ window' = window
    BY <1>7 DEF IdleTick, Restart, vars
  <2>2. \A u \in Ulid : copies[u] >= copies[u]
    BY DEF DiskType
  <2> QED
    BY <2>1, <2>2 DEF Grows
<1>8. CASE Ingest
  BY <1>4, <1>5, <1>8 DEF Grows
<1> QED
  BY <1>1, <1>6, <1>7, <1>8 DEF Next

LEMMA KeptGrows ==
    ASSUME TypeOK, [Next]_vars, NEW u \in Ulid
    PROVE  (Kept(u) => Kept(u)') /\ (Backed(u) => Backed(u)')
<1>1. copies[u] \in Nat /\ copies'[u] \in Nat
  BY TypeStep DEF TypeOK, DiskType
<1>2. copies'[u] >= copies[u] /\ window[u] \subseteq window'[u]
  BY Monotone DEF Grows
<1>3. copies[u] > 0 => copies'[u] > 0
  BY <1>1, <1>2
<1> QED
  BY <1>2, <1>3 DEF Kept, Backed

\* A step that leaves the loop and the watermarks alone, deletes nothing and
\* adds only files that are Kept or above every listed one.
LEMMA FilesOnly ==
    ASSUME IInv, [Next]_vars, UNCHANGED <<memVars, dwm, seen>>,
           \A u \in Ulid : file'[u] = "gone" => file[u] = "gone",
           Present \subseteq Present',
           \A u \in Present' \ Present : Kept(u)' \/ \A v \in seen : v <= u
    PROVE  IInv'
<1> USE UlidFacts DEF memVars
<1>1. TypeOK'
  BY TypeStep DEF IInv
<1>2. \A u \in Ulid : (Kept(u) => Kept(u)') /\ (Backed(u) => Backed(u)')
  BY KeptGrows DEF IInv
<1>3. LossOnlyInWindow'
  BY <1>2 DEF IInv, LossOnlyInWindow
<1>4. Position'
  BY DEF IInv, Position, First
<1>5. Appends'
  BY <1>2 DEF IInv, Appends, TypeOK, CycleType, DiskType
<1>6. ASSUME NEW u \in Present', u <= dwm' \/ u <= wm' PROVE Kept(u)'
  <2>1. u \in Ulid
    BY DEF Present
  <2>2. Kept(dwm) \/ dwm = 0
    BY DEF IInv, Appends, Kept, Backed, TypeOK, DiskType
  <2>3. Kept(wm) \/ wm = 0
    BY DEF IInv, Appends, Kept, Backed, TypeOK, CycleType
  <2>4. CASE u \in Present
    BY <1>2, <1>6, <2>1, <2>4 DEF IInv, Covered
  <2>5. CASE \A v \in seen : v <= u
    BY <1>2, <1>6, <2>1, <2>2, <2>3, <2>5 DEF IInv, Position, TypeOK, CycleType, DiskType
  <2> QED
    BY <2>4, <2>5
<1>7. ASSUME NEW u \in Present' \ todo', NEW v \in todo', u < v PROVE Kept(u)'
  <2>1. u \in Ulid /\ v \in Ulid /\ v \in seen
    BY DEF Present, IInv, Position, TypeOK, CycleType
  <2>2. CASE u \in Present
    BY <1>2, <1>7, <2>1, <2>2 DEF IInv, Visited
  <2>3. CASE \A w \in seen : w <= u
    BY <1>7, <2>1, <2>3
  <2> QED
    BY <2>2, <2>3
<1> QED
  BY <1>1, <1>3, <1>4, <1>5, <1>6, <1>7 DEF IInv, Covered, Visited

\* The hooks: the file a hook creates is late, or above every listed one.
LEMMA HookInv ==
    ASSUME IInv, NEW h \in Hook, HookStep(h) \/ HookDies(h)
    PROVE  IInv'
<1> USE UlidFacts, SetFacts DEF IInv, TypeOK, SpoolType, HookTo
<1>1. [Next]_vars
  BY DEF Next
<1>2. UNCHANGED <<memVars, dwm, seen>>
  BY DEF HookStep, HookDies, CheckCap, Drop, Mint, Create, Write, diskVars
<1>3. CASE ~Create(h)
  <2>1. \A u \in Ulid :
           /\ file'[u] = "gone" => file[u] = "gone"
           /\ file'[u] \in {"partial", "whole"} <=> file[u] \in {"partial", "whole"}
    <3>1. CASE Mint(h)
      BY <3>1 DEF Mint
    <3>2. CASE Write(h)
      BY <3>2 DEF Write
    <3> QED
      BY <1>3, <3>1, <3>2 DEF HookStep, HookDies, CheckCap, Drop
  <2> QED
    BY <1>1, <1>2, <2>1, FilesOnly DEF Present
<1>4. CASE Create(h)
  <2>1. hpc[h] = "minted" /\ name[h] \in Ulid
    BY <1>4 DEF Create, HookType
  <2>2. file' \in [Ulid -> FileState] /\ file' = [file EXCEPT ![name[h]] = "partial"]
    BY <1>4, <2>1 DEF Create
  <2>3. (\E v \in seen : v > name[h]) => "late" \in window'[name[h]]
    BY <1>4, <2>1 DEF Create, HistoryType
  <2>4. ASSUME NEW v \in seen, ~(v > name[h]) PROVE v <= name[h]
    <3>1. v \in Nat /\ name[h] \in Nat
      BY <2>1 DEF HistoryType
    <3> QED
      BY <2>4, <3>1
  <2>5. (\E v \in seen : v > name[h]) => window'[name[h]] # {}
    BY <2>3
  <2>6. \A u \in Present' \ Present : u = name[h]
    BY <2>2 DEF Present
  <2>7. /\ \A u \in Ulid : file'[u] = "gone" => file[u] = "gone"
        /\ Present \subseteq Present'
    BY <2>2 DEF Present
  <2>8. \A u \in Present' \ Present : Kept(u)' \/ \A v \in seen : v <= u
    BY <2>4, <2>5, <2>6 DEF Kept
  <2> HIDE DEF IInv
  <2> QED
    BY <1>1, <1>2, <2>7, <2>8, FilesOnly
<1> QED
  BY <1>3, <1>4

\* One listed file is done with: it is gone, or it stays and is Kept.
LEMMA NextEntryInv ==
    ASSUME IInv, [Next]_vars, NEW u \in Ulid, First(u), NextEntry(u), Kept(u)',
           UNCHANGED <<dwm, seen>>,
           \A v \in Ulid : file'[v] # file[v] => v = u /\ file'[v] = "gone",
           \/ wm' = wm /\ pc # "idle" /\ pc # "down"
           \/ wm' = u /\ Backed(u) /\ u > wm /\ pc \in {"state", "unlink"}
    PROVE  IInv'
<1> USE UlidFacts DEF First, NextEntry
<1>1. TypeOK'
  BY TypeStep DEF IInv
<1>2. \A v \in Ulid : (Kept(v) => Kept(v)') /\ (Backed(v) => Backed(v)')
  BY KeptGrows DEF IInv
<1>3. /\ wm \in Ulid \cup {0} /\ dwm \in Ulid \cup {0}
      /\ "load" \notin Faults => dwm <= wm
      /\ todo \subseteq Ulid /\ u \in seen /\ todo \subseteq seen
  BY DEF IInv, TypeOK, CycleType, DiskType, Position
<1>4. LossOnlyInWindow'
  BY <1>2 DEF IInv, LossOnlyInWindow
<1>5. Position'
  <2>1. todo' \subseteq Present'
    BY <1>3 DEF IInv, Position, Present
  <2> QED
    BY <1>3, <2>1 DEF IInv, Position
<1>6. Appends'
  BY <1>2, <1>3 DEF IInv, Appends
<1>7. Present' \subseteq Present
  BY DEF Present
<1>8. ASSUME NEW v \in Present, v < u PROVE Kept(v)'
  <2>1. v \in Ulid /\ v \notin todo
    BY <1>8, <1>3 DEF Present
  <2> QED
    BY <1>2, <1>8, <2>1 DEF IInv, Visited
<1>9. ASSUME NEW v \in Present', v <= dwm' \/ v <= wm' PROVE Kept(v)'
  <2>1. v \in Present /\ v \in Ulid
    BY <1>7 DEF Present
  <2>2. CASE wm' = wm
    BY <1>2, <1>9, <2>1, <2>2 DEF IInv, Covered
  <2>3. CASE wm' = u /\ u > wm
    <3>1. CASE v <= dwm
      BY <1>2, <2>1, <3>1 DEF IInv, Covered
    <3>2. CASE v = u
      BY <3>2
    <3>3. CASE v < u
      BY <1>8, <2>1, <3>3
    <3>4. v <= dwm \/ v <= u
      BY <1>9, <2>3
    <3> QED
      BY <1>3, <2>1, <3>1, <3>2, <3>3, <3>4
  <2> QED
    BY <2>2, <2>3
<1>10. ASSUME NEW v \in Present' \ todo', NEW w \in todo', v < w PROVE Kept(v)'
  <2>1. v \in Present /\ v \in Ulid
    BY <1>7 DEF Present
  <2>2. CASE v = u
    BY <2>2
  <2>3. CASE v # u
    BY <1>2, <1>10, <2>1, <2>3 DEF IInv, Visited
  <2> QED
    BY <2>2, <2>3
<1> QED
  BY <1>1, <1>4, <1>5, <1>6, <1>9, <1>10 DEF IInv, Covered, Visited

\* The loop's steps that neither touch a file nor leave the current one.
LEMMA StayInv ==
    ASSUME IInv, [Next]_vars,
           UNCHANGED <<file, todo, dwm, wm, seen>>, pc # "idle", pc # "down",
           pc' \in {"session", "append", "state", "unlink"}, First(cur)',
           pc' \in {"session", "append", "state"} => cur' > wm,
           pc' \in {"state", "unlink"} => Backed(cur)'
    PROVE  IInv'
<1> USE UlidFacts
<1>1. TypeOK'
  BY TypeStep DEF IInv
<1>2. \A v \in Ulid : (Kept(v) => Kept(v)') /\ (Backed(v) => Backed(v)')
  BY KeptGrows DEF IInv
<1>3. todo \subseteq Ulid /\ wm \in Ulid \cup {0} /\ dwm \in Ulid \cup {0}
  BY DEF IInv, TypeOK, CycleType, DiskType
<1>4. LossOnlyInWindow'
  BY <1>2 DEF IInv, LossOnlyInWindow
<1>5. Position'
  BY DEF IInv, Position, First, Present
<1>6. Appends'
  BY <1>2, <1>3 DEF IInv, Appends, Backed
<1>7. Covered'
  BY <1>2 DEF IInv, Covered, Present
<1>8. Visited'
  BY <1>2, <1>3 DEF IInv, Visited, Present
<1> QED
  BY <1>1, <1>4, <1>5, <1>6, <1>7, <1>8 DEF IInv

\* A cycle that starts lists every file; one that ends, or dies, forgets it.
LEMMA CycleInv ==
    ASSUME IInv, [Next]_vars, UNCHANGED <<file, dwm>>,
           \/ /\ todo' = Present /\ pc' = "loop" /\ seen' = seen \cup Present
              /\ wm' = dwm \/ (wm' = 0 /\ "load" \in Faults)
           \/ /\ todo' = {} /\ wm' = 0 /\ pc' \in {"idle", "down"} /\ seen' = seen
    PROVE  IInv'
<1> USE UlidFacts
<1>1. TypeOK'
  BY TypeStep DEF IInv
<1>2. \A v \in Ulid : (Kept(v) => Kept(v)') /\ (Backed(v) => Backed(v)')
  BY KeptGrows DEF IInv
<1>3. dwm \in Ulid \cup {0} /\ Present \subseteq Ulid
  BY DEF IInv, TypeOK, DiskType, Present
<1>4. LossOnlyInWindow'
  BY <1>2 DEF IInv, LossOnlyInWindow
<1>5. Position'
  BY <1>3 DEF IInv, Position, Present
<1>6. Appends'
  BY <1>2, <1>3 DEF IInv, Appends
<1>7. Present' = Present
  BY DEF Present
<1>8. Covered'
  BY <1>2, <1>3, <1>7 DEF IInv, Covered
<1>9. Visited'
  BY <1>7 DEF Visited
<1> QED
  BY <1>1, <1>4, <1>5, <1>6, <1>8, <1>9 DEF IInv

\* The watermark moves to the file just appended: everything below it is Kept,
\* because the loop has passed it.
LEMMA SaveInv ==
    ASSUME IInv, [Next]_vars, pc = "state", pc' = "unlink", wm' = cur,
           dwm' = cur \/ dwm' = dwm, UNCHANGED <<file, todo, cur, seen>>
    PROVE  IInv'
<1> USE UlidFacts
<1>1. TypeOK'
  BY TypeStep DEF IInv
<1>2. \A v \in Ulid : (Kept(v) => Kept(v)') /\ (Backed(v) => Backed(v)')
  BY KeptGrows DEF IInv
<1>3. /\ cur \in Ulid /\ cur \in todo /\ todo \subseteq seen /\ cur > wm
      /\ "load" \notin Faults => dwm <= wm
      /\ wm \in Ulid \cup {0} /\ dwm \in Ulid \cup {0} /\ Backed(cur)
      /\ todo \subseteq Ulid /\ \A v \in todo : cur <= v
  BY DEF IInv, TypeOK, CycleType, DiskType, Position, Appends, First
<1>4. LossOnlyInWindow'
  BY <1>2 DEF IInv, LossOnlyInWindow
<1>5. Position'
  BY <1>3 DEF IInv, Position, First, Present
<1>6. Appends'
  BY <1>2, <1>3 DEF IInv, Appends
<1>7. ASSUME NEW v \in Present, v <= cur PROVE Kept(v)'
  <2>1. v \in Ulid
    BY DEF Present
  <2>2. CASE v = cur
    BY <1>2, <1>3, <2>2 DEF Backed, Kept
  <2>3. CASE v # cur
    <3>1. v < cur /\ v \notin todo
      BY <1>3, <1>7, <2>1, <2>3
    <3> QED
      BY <1>2, <1>3, <2>1, <3>1 DEF IInv, Visited
  <2> QED
    BY <2>2, <2>3
<1>8. Covered'
  <2>1. ASSUME NEW v \in Present', v <= dwm' \/ v <= wm' PROVE Kept(v)'
    <3>1. v \in Present /\ v \in Ulid
      BY DEF Present
    <3>2. CASE v <= cur
      BY <1>7, <3>1, <3>2
    <3>3. CASE v <= dwm
      BY <1>2, <3>1, <3>3 DEF IInv, Covered
    <3> QED
      BY <2>1, <3>2, <3>3
  <2> QED
    BY <2>1 DEF Covered
<1>9. Visited'
  BY <1>2, <1>3 DEF IInv, Visited, Present
<1> QED
  BY <1>1, <1>4, <1>5, <1>6, <1>8, <1>9 DEF IInv

\* The invariant is inductive: one case per action of the ingester.
LEMMA InvStep == IInv /\ [Next]_vars => IInv'
<1> SUFFICES ASSUME IInv, [Next]_vars PROVE IInv'
  OBVIOUS
<1> USE UlidFacts, SetFacts DEF memVars, diskVars
<1>t. TypeOK /\ TypeOK' /\ todo \subseteq Ulid
  BY TypeStep DEF IInv, TypeOK, CycleType
<1>k. \A u \in Ulid : (Kept(u) => Kept(u)') /\ (Backed(u) => Backed(u)')
  BY <1>t, KeptGrows
<1>c. pc \in {"session", "append", "state", "unlink"} => cur \in Ulid /\ First(cur)
  BY DEF IInv, TypeOK, CycleType, Position
<1>s. ASSUME NEW u \in Ulid, Skip(u) PROVE Kept(u)'
  BY <1>t, <1>s DEF Skip, Kept, TypeOK, HistoryType
<1>1. ASSUME NEW h \in Hook, HookStep(h) \/ HookDies(h) PROVE IInv'
  BY <1>1, HookInv
<1>2. CASE StartCycle
  BY <1>2, CycleInv DEF StartCycle, Fail
<1>3. CASE EndCycle \/ Crash
  BY <1>3, CycleInv DEF EndCycle, Crash, Forget
<1>4. ASSUME NEW u \in todo, DeleteStale(u) PROVE IInv'
  <2>1. u \in Ulid /\ First(u) /\ NextEntry(u) /\ u <= wm /\ pc = "loop"
    BY <1>4, <1>t DEF DeleteStale
  <2>2. Kept(u)'
    BY <1>k, <2>1 DEF IInv, Covered, Position
  <2> QED
    BY <1>4, <2>1, <2>2, NextEntryInv DEF DeleteStale, IInv, TypeOK, SpoolType
<1>5. ASSUME NEW u \in todo, Read(u) PROVE IInv'
  BY <1>5, <1>t, StayInv DEF Read, First
<1>6. ASSUME NEW u \in todo, ReadFails(u) PROVE IInv'
  BY <1>6, <1>t, <1>s, NextEntryInv DEF ReadFails, Skip
<1>7. CASE KnownSession \/ NewSession
  <2>1. First(cur) /\ cur > wm
    BY <1>7, <1>c DEF KnownSession, NewSession, IInv, Position
  <2> QED
    BY <1>7, <2>1, StayInv DEF KnownSession, NewSession, First
<1>8. CASE NewSessionFails
  <2>1. cur \in Ulid /\ First(cur) /\ cur > wm
    BY <1>8, <1>c DEF NewSessionFails, IInv, Position
  <2>2. CASE Skip(cur)
    BY <1>8, <1>s, <2>1, <2>2, NextEntryInv DEF NewSessionFails, Skip
  <2>3. CASE ~Skip(cur)
    BY <1>8, <2>1, <2>3, StayInv DEF NewSessionFails, First
  <2> QED
    BY <2>2, <2>3
<1>9. CASE Append
  <2>1. cur \in Ulid /\ First(cur) /\ cur > wm
    BY <1>9, <1>c DEF Append, IInv, Position
  <2>2. Backed(cur)'
    <3>1. CASE sess[CurKey] \in torn
      BY <1>9, <1>t, <2>1, <3>1 DEF Append, Backed, TypeOK, HistoryType
    <3>2. CASE sess[CurKey] \notin torn
      BY <1>9, <1>t, <2>1, <3>2 DEF Append, Appended, Backed, TypeOK, DiskType
    <3> QED
      BY <3>1, <3>2
  <2> QED
    BY <1>9, <2>1, <2>2, StayInv DEF Append, First
<1>10. CASE AppendFails
  <2>1. cur \in Ulid /\ First(cur)
    BY <1>10, <1>c DEF AppendFails
  <2> QED
    BY <1>10, <1>s, <2>1, NextEntryInv DEF AppendFails, Skip
<1>11. CASE SaveState
  BY <1>11, SaveInv DEF SaveState
<1>12. CASE SaveStateFails
  <2>1. cur \in Ulid /\ First(cur) /\ cur > wm /\ Backed(cur)
    BY <1>12, <1>c DEF SaveStateFails, IInv, Position, Appends
  <2>2. CASE Skip(cur)
    BY <1>12, <1>s, <2>1, <2>2, NextEntryInv DEF SaveStateFails, Skip
  <2>3. CASE ~Skip(cur)
    BY <1>12, <2>3, SaveInv DEF SaveStateFails
  <2> QED
    BY <2>2, <2>3
<1>13. CASE Unlink
  <2>1. cur \in Ulid /\ First(cur) /\ Backed(cur)
    BY <1>13, <1>c DEF Unlink, IInv, Appends
  <2>2. ASSUME NEW u \in Ulid, u = cur PROVE Kept(u)'
    BY <1>k, <2>1, <2>2 DEF Backed, Kept
  <2> QED
    BY <1>13, <2>1, <2>2, NextEntryInv DEF Unlink, IInv, TypeOK, SpoolType
<1>14. CASE UnlinkFails
  <2>1. cur \in Ulid /\ First(cur)
    BY <1>14, <1>c DEF UnlinkFails
  <2> QED
    BY <1>14, <1>s, <2>1, NextEntryInv DEF UnlinkFails, Skip
<1>15. CASE IdleTick \/ Restart \/ UNCHANGED vars
  <2>1. CASE Restart
    BY <2>1, CycleInv DEF Restart, IInv, Position
  <2>2. CASE UNCHANGED vars \/ IdleTick
    <3>1. UNCHANGED <<memVars, dwm, seen>> /\ file' = file
      BY <2>2 DEF IdleTick, vars
    <3>2. Present' = Present
      BY <3>1 DEF Present
    <3> QED
      BY <3>1, <3>2, FilesOnly
  <2> QED
    BY <1>15, <2>1, <2>2
<1> QED
  BY <1>1, <1>2, <1>3, <1>4, <1>5, <1>6, <1>7, <1>8, <1>9, <1>10, <1>11, <1>12,
     <1>13, <1>14, <1>15 DEF Next, Ingest

LEMMA InitInv == Init => IInv
<1> SUFFICES ASSUME Init PROVE IInv
  OBVIOUS
<1>1. TypeOK
  BY UlidFacts, SetFacts DEF Init, TypeOK, HookType, SpoolType, CycleType,
     DiskType, HistoryType
<1>2. Present = {}
  BY DEF Init, Present
<1> QED
  BY <1>1, <1>2, UlidFacts DEF Init, IInv, LossOnlyInWindow, Position, Appends,
     Covered, Visited

\* A capture leaves the spool only when it is readable in the trail or went
\* through a documented window, with any number of hooks, files and failures.
THEOREM NothingLostOutsideWindows == Spec => []LossOnlyInWindow
<1>1. IInv => LossOnlyInWindow
  BY DEF IInv
<1> QED
  BY <1>1, InitInv, InvStep, PTL DEF Spec

\* The saved watermark always names a capture that was appended before.
THEOREM WatermarkAfterAppend == Spec => []WatermarkBacked
<1>1. IInv => WatermarkBacked
  BY DEF IInv, Appends, Backed, WatermarkBacked
<1> QED
  BY <1>1, InitInv, InvStep, PTL DEF Spec

\* A step that appends a capture appends one above the saved watermark.
LEMMA AppendAbove ==
    ASSUME IInv, Next
    PROVE  \A u \in Ulid : copies'[u] > copies[u] => u > dwm \/ "load" \in Faults
<1> USE UlidFacts DEF diskVars
<1>1. \A u \in Ulid : copies[u] \in Nat
  BY DEF IInv, TypeOK, DiskType
<1>2. CASE UNCHANGED copies
  BY <1>1, <1>2
<1>3. CASE ~UNCHANGED copies
  <2>1. /\ pc = "append"
        /\ \E first, cut \in BOOLEAN : Appended(sess[CurKey], cur, CurKey, first, cut)
    <3>1. CASE Ingest
      BY <1>3, <3>1 DEF Ingest, StartCycle, EndCycle, DeleteStale, Read, ReadFails,
         KnownSession, NewSession, NewSessionFails, Append, AppendFails, SaveState,
         SaveStateFails, Unlink, UnlinkFails
    <3>2. CASE Crash
      BY <1>3, <3>2 DEF Crash
    <3> QED
      BY <1>3, <3>1, <3>2 DEF Next, HookStep, HookDies, CheckCap, Drop, Mint, Create,
         Write, IdleTick, Restart, vars
  <2>2. \A u \in Ulid : copies'[u] > copies[u] => u = cur
    BY <1>1, <2>1 DEF Appended, IInv, TypeOK, DiskType
  <2>3. cur \in Ulid /\ (cur > dwm \/ "load" \in Faults)
    BY <2>1 DEF IInv, Position, TypeOK, CycleType, DiskType
  <2> QED
    BY <2>2, <2>3
<1> QED
  BY <1>2, <1>3

\* No capture at or below the saved watermark is appended again, whatever
\* crashed, restarted or failed in between (ingest-state.json can be read).
THEOREM NeverReprocessed == Spec => NoReprocess
<1>1. IInv /\ [Next]_vars =>
        [\A u \in Ulid : copies'[u] > copies[u] => u > dwm \/ "load" \in Faults]_vars
  BY AppendAbove
<1> QED
  BY <1>1, InitInv, InvStep, PTL DEF Spec, NoReprocess

-----------------------------------------------------------------------------
(* One trail file per session.                                             *)

Sessions ==
    /\ pc \notin {"idle", "down"} => sess = dsess
    /\ \A k \in SessionKey : filed[k] \subseteq {dsess[k]} \ {0}
    /\ pc = "append" => sess[CurKey] # 0

\* The map in memory is the saved one, and only saved names are written to.
SInv == Faults \cap {"sessions", "load"} = {} => Sessions

LEMMA SessionStep == IInv /\ SInv /\ [Next]_vars => SInv'
<1> SUFFICES ASSUME IInv, Sessions, [Next]_vars, Faults \cap {"sessions", "load"} = {}
             PROVE  Sessions'
  BY DEF SInv
<1> USE SetFacts DEF memVars, diskVars, hookVars
<1>t. TypeOK
  BY DEF IInv
<1>c. pc \in {"session", "append"} => cur \in Ulid /\ cur \in Present /\ CurKey \in SessionKey
  BY <1>t, CurKeyType DEF IInv, TypeOK, CycleType, Position, First
<1>d. dsess \in [SessionKey -> Nat] /\ filed \in [SessionKey -> SUBSET Nat]
      /\ nextFile \in Nat \ {0}
  BY <1>t DEF TypeOK, DiskType
<1>1. ASSUME NEW h \in Hook, HookStep(h) \/ HookDies(h) PROVE Sessions'
  <2>1. UNCHANGED <<pc, cur, got, sess, dsess, filed>>
    BY <1>1 DEF HookStep, HookDies, CheckCap, Drop, Mint, Create, Write
  <2>2. pc = "append" => CurKey' = CurKey
    <3>1. CASE Mint(h)
      <4>1. PICK u \in Ulid, k \in SessionKey :
               file[u] = "unminted" /\ keyOf' = [keyOf EXCEPT ![u] = k]
        BY <3>1 DEF Mint
      <4>2. pc = "append" => cur # u
        BY <1>c, <4>1 DEF Present
      <4> QED
        BY <1>c, <1>t, <2>1, <4>1, <4>2 DEF CurKey, TypeOK, HookType
    <3>2. CASE ~Mint(h)
      BY <1>1, <2>1, <3>2 DEF HookStep, HookDies, CheckCap, Drop, Create, Write, CurKey
    <3> QED
      BY <3>1, <3>2
  <2> QED
    BY <2>1, <2>2 DEF Sessions
<1>2. CASE StartCycle
  BY <1>2 DEF StartCycle, Fail, Sessions
<1>3. CASE EndCycle
  BY <1>3 DEF EndCycle, Forget, Sessions
<1>4. ASSUME NEW u \in todo, DeleteStale(u) \/ Read(u) \/ ReadFails(u) PROVE Sessions'
  BY <1>4 DEF DeleteStale, Read, ReadFails, Skip, NextEntry, Sessions
<1>5. CASE KnownSession
  BY <1>5 DEF KnownSession, CurKey, Sessions
<1>6. CASE NewSession
  <2>1. sess = dsess /\ dsess[CurKey] = 0 /\ CurKey' = CurKey /\ CurKey \in SessionKey
    BY <1>6, <1>c DEF NewSession, Sessions, CurKey
  <2>2. sess' = dsess' /\ dsess' = [dsess EXCEPT ![CurKey] = nextFile] /\ filed' = filed
    BY <1>6, <2>1 DEF NewSession
  <2>3. filed[CurKey] = {}
    BY <1>d, <2>1 DEF Sessions
  <2>4. \A k \in SessionKey : filed'[k] \subseteq {dsess'[k]} \ {0}
    BY <1>d, <2>1, <2>2, <2>3 DEF Sessions
  <2>5. sess'[CurKey] # 0
    BY <1>d, <2>1, <2>2
  <2> QED
    BY <2>1, <2>2, <2>4, <2>5 DEF Sessions
<1>7. CASE NewSessionFails
  BY <1>7 DEF NewSessionFails, Fail
<1>8. ASSUME NEW first, NEW cut, Appended(sess[CurKey], cur, CurKey, first, cut), pc = "append"
      PROVE  \A k \in SessionKey : filed'[k] \subseteq {dsess[k]} \ {0}
  BY <1>8, <1>c, <1>d DEF Appended, Sessions
<1>9. CASE Append \/ AppendFails
  <2>1. UNCHANGED <<sess, dsess>> /\ pc = "append" /\ pc' \in {"state", "loop"}
    BY <1>9 DEF Append, AppendFails, Skip, NextEntry
  <2>2. \A k \in SessionKey : filed'[k] \subseteq {dsess[k]} \ {0}
    BY <1>8, <1>9 DEF Append, AppendFails
  <2> QED
    BY <2>1, <2>2 DEF Sessions
<1>10. CASE SaveState \/ SaveStateFails
  BY <1>10 DEF SaveState, SaveStateFails, Skip, NextEntry, Sessions
<1>11. CASE Unlink \/ UnlinkFails
  BY <1>11 DEF Unlink, UnlinkFails, Skip, NextEntry, Sessions
<1>12. CASE Crash
  <2>1. \A k \in SessionKey : filed'[k] \subseteq {dsess[k]} \ {0}
    <3>1. CASE UNCHANGED filed
      BY <3>1 DEF Sessions
    <3> QED
      BY <1>8, <1>12, <3>1 DEF Crash
  <2> QED
    BY <1>12, <2>1 DEF Crash, Forget, Sessions
<1>13. CASE IdleTick \/ Restart \/ UNCHANGED vars
  BY <1>13 DEF IdleTick, Restart, vars, Sessions, CurKey
<1> QED
  BY <1>1, <1>2, <1>3, <1>4, <1>5, <1>6, <1>7, <1>9, <1>10, <1>11, <1>12, <1>13
     DEF Next, Ingest

\* A session's lines all go to one trail file, across crashes and restarts, as
\* long as sessions.json can be read and saved.
THEOREM OneTrailFilePerSession == Spec => []SessionStable
<1>1. Init => SInv
  BY SetFacts DEF Init, SInv, Sessions
<1>2. SInv => SessionStable
  BY DEF SInv, Sessions, SessionStable
<1> QED
  BY <1>1, <1>2, InitInv, InvStep, SessionStep, PTL DEF Spec

-----------------------------------------------------------------------------
(* The overshoot of the cap.                                               *)

\* The hooks that passed the check and have not created their file.
Pending == {h \in Hook : hpc[h] \in {"checked", "minted"}}

\* Each file above the cap was created by a hook that is not pending any more.
CapInv ==
    "cap" \notin Faults =>
        Cardinality(Present) + Cardinality(Pending) <= MaxFiles + Cardinality(Hook)

LEMMA FiniteSets ==
    /\ IsFiniteSet(Present) /\ IsFiniteSet(Pending)
    /\ Cardinality(Present) \in Nat /\ Cardinality(Pending) \in Nat
    /\ Cardinality(Hook) \in Nat /\ Cardinality(Pending) <= Cardinality(Hook)
<1>1. IsFiniteSet(Ulid)
  BY SpanAssumption, MaxMsAssumption, FS_Interval DEF Ulid
<1>2. Present \subseteq Ulid /\ Pending \subseteq Hook
  BY DEF Present, Pending
<1> QED
  BY <1>1, <1>2, HookAssumption, FS_Subset, FS_CardinalityType

LEMMA CapStep == TypeOK /\ CapInv /\ [Next]_vars => CapInv'
<1> SUFFICES ASSUME TypeOK, CapInv, [Next]_vars, "cap" \notin Faults PROVE
        Cardinality(Present)' + Cardinality(Pending)' <= MaxFiles + Cardinality(Hook)
  BY DEF CapInv
<1> USE UlidFacts, SetFacts, FiniteSets, BoundAssumption DEF TypeOK, HookType, SpoolType
<1>0. /\ Cardinality(Present) + Cardinality(Pending) <= MaxFiles + Cardinality(Hook)
      /\ IsFiniteSet(Present') /\ IsFiniteSet(Pending')
      /\ Cardinality(Present') \in Nat /\ Cardinality(Pending') \in Nat
      /\ Cardinality(Pending') <= Cardinality(Hook)
  <2>1. /\ Present' \subseteq Ulid /\ Pending' \subseteq Hook
        /\ IsFiniteSet(Ulid)
    BY FS_Interval, SpanAssumption, MaxMsAssumption DEF Present, Pending, Ulid
  <2> QED
    BY <2>1, HookAssumption, FS_Subset, FS_CardinalityType DEF CapInv
<1>1. CASE Present' \subseteq Present /\ Pending' \subseteq Pending
  <2>1. Cardinality(Present') <= Cardinality(Present)
        /\ Cardinality(Pending') <= Cardinality(Pending)
    BY <1>1, FS_Subset
  <2> QED
    BY <1>0, <2>1
<1>2. ASSUME NEW h \in Hook, CheckCap(h) PROVE
        Cardinality(Present') + Cardinality(Pending') <= MaxFiles + Cardinality(Hook)
  <2>1. Present' = Present
    BY <1>2 DEF CheckCap, Present
  <2>2. Cardinality(Present) <= MaxFiles
    BY <1>2 DEF CheckCap, OverCap, Fail
  <2> QED
    BY <1>0, <2>1, <2>2
<1>3. ASSUME NEW h \in Hook, Create(h) PROVE
        Cardinality(Present') + Cardinality(Pending') <= MaxFiles + Cardinality(Hook)
  <2>1. Present' \subseteq Present \cup {name[h]}
    BY <1>3 DEF Create, Present
  <2>2. h \in Pending /\ Pending' \subseteq Pending \ {h}
    BY <1>3 DEF Create, HookTo, Pending
  <2>3. Cardinality(Present') <= Cardinality(Present) + 1
    <3>1. /\ IsFiniteSet(Present \cup {name[h]})
          /\ Cardinality(Present \cup {name[h]}) \in Nat
          /\ Cardinality(Present \cup {name[h]}) <= Cardinality(Present) + 1
      <4>1. /\ IsFiniteSet(Present \cup {name[h]})
            /\ Cardinality(Present \cup {name[h]}) =
                  IF name[h] \in Present THEN Cardinality(Present) ELSE Cardinality(Present) + 1
        BY FS_AddElement
      <4> QED
        BY <4>1
    <3>2. Cardinality(Present') <= Cardinality(Present \cup {name[h]})
      BY <2>1, <3>1, FS_Subset
    <3> QED
      BY <1>0, <3>1, <3>2
  <2>4. Cardinality(Pending') <= Cardinality(Pending) - 1
    <3>1. /\ IsFiniteSet(Pending \ {h})
          /\ Cardinality(Pending \ {h}) = Cardinality(Pending) - 1
      BY <2>2, FS_RemoveElement
    <3> QED
      BY <2>2, <3>1, FS_Subset
  <2> QED
    BY <1>0, <2>3, <2>4
<1>4. ASSUME NEW h \in Hook, Drop(h) \/ Mint(h) \/ Write(h) \/ HookDies(h) PROVE
        Present' \subseteq Present /\ Pending' \subseteq Pending
  <2>1. CASE Drop(h)
    BY <2>1 DEF Drop, Present, Pending
  <2>2. CASE Mint(h)
    BY <2>2 DEF Mint, HookTo, Present, Pending
  <2>3. CASE Write(h)
    BY <2>3 DEF Write, HookTo, Present, Pending
  <2>4. CASE HookDies(h)
    BY <2>4 DEF HookDies, HookTo, Present, Pending
  <2> QED
    BY <1>4, <2>1, <2>2, <2>3, <2>4
<1>5. ASSUME Ingest \/ Crash \/ Restart \/ IdleTick \/ UNCHANGED vars PROVE
        Present' \subseteq Present /\ Pending' \subseteq Pending
  <2>1. UNCHANGED hpc /\ \A u \in Ulid : file'[u] = file[u] \/ file'[u] = "gone"
    <3>1. CASE Unlink \/ \E u \in todo : DeleteStale(u)
      BY <3>1 DEF Unlink, DeleteStale, hookVars
    <3>2. CASE ~(Unlink \/ \E u \in todo : DeleteStale(u))
      BY <1>5, <3>2 DEF Ingest, StartCycle, EndCycle, Read, ReadFails, KnownSession,
         NewSession, NewSessionFails, Append, AppendFails, SaveState, SaveStateFails,
         UnlinkFails, Crash, Restart, IdleTick, vars, hookVars
    <3> QED
      BY <3>1, <3>2
  <2> QED
    BY <2>1 DEF Present, Pending
<1> QED
  BY <1>1, <1>2, <1>3, <1>4, <1>5 DEF Next, HookStep

\* The cap is overshot by one file per concurrent hook at most, whatever their
\* number.
THEOREM CapOvershoot == Spec => []CapBound
<1>1. Init => CapInv
  <2> SUFFICES ASSUME Init PROVE CapInv
    OBVIOUS
  <2>1. Present = {}
    BY DEF Init, Present
  <2> QED
    BY <2>1, FS_EmptySet, FiniteSets, BoundAssumption DEF CapInv
<1>2. CapInv => CapBound
  BY FiniteSets, BoundAssumption DEF CapInv, CapBound
<1> QED
  BY <1>1, <1>2, TypeCorrect, CapStep, PTL DEF Spec

-----------------------------------------------------------------------------
(* The capture path implements the at-least-once queue.                    *)

\* A hook about to create its file is the only one to have that name.
Names ==
    \A h \in Hook : hpc[h] = "minted" =>
        /\ file[name[h]] = "minted"
        /\ \A g \in Hook : hpc[g] = "minted" /\ name[g] = name[h] => g = h

LEMMA NamesStep == IInv /\ Names /\ [Next]_vars => Names'
<1> SUFFICES ASSUME IInv, Names, [Next]_vars PROVE Names'
  OBVIOUS
<1> USE DEF IInv, TypeOK, HookType, SpoolType
<1>1. ASSUME NEW h \in Hook, HookStep(h) \/ HookDies(h) PROVE Names'
  <2>1. CASE CheckCap(h)
    BY <2>1 DEF CheckCap, HookTo, Names
  <2>2. CASE Drop(h)
    BY <2>2 DEF Drop, Names
  <2>3. CASE Mint(h)
    BY <2>3, SetFacts DEF Mint, HookTo, Names
  <2>4. CASE Create(h)
    BY <2>4, SetFacts DEF Create, HookTo, Names
  <2>5. CASE Write(h)
    BY <2>5, SetFacts DEF Write, HookTo, Names
  <2>6. CASE HookDies(h)
    BY <2>6 DEF HookDies, HookTo, Names
  <2> QED
    BY <1>1, <2>1, <2>2, <2>3, <2>4, <2>5, <2>6 DEF HookStep
<1>2. CASE Ingest \/ Crash \/ Restart \/ IdleTick \/ UNCHANGED vars
  <2>1. UNCHANGED <<hpc, name>> /\ \A u \in Ulid : file[u] = "minted" => file'[u] = "minted"
    <3>1. CASE Unlink \/ \E u \in todo : DeleteStale(u)
      BY <3>1 DEF Unlink, DeleteStale, hookVars, Position, First, Present
    <3>2. CASE ~(Unlink \/ \E u \in todo : DeleteStale(u))
      BY <1>2, <3>2 DEF Ingest, StartCycle, EndCycle, Read, ReadFails, KnownSession,
         NewSession, NewSessionFails, Append, AppendFails, SaveState, SaveStateFails,
         UnlinkFails, Crash, Restart, IdleTick, vars, hookVars
    <3> QED
      BY <3>1, <3>2
  <2> QED
    BY <2>1 DEF Names
<1> QED
  BY <1>1, <1>2 DEF Next

\* The three kinds of steps of the queue, as the spool takes them.
LEMMA LedgerStutter ==
    ASSUME UNCHANGED <<file, copies, window>> PROVE UNCHANGED Ledger!ledger
BY DEF Ledger!ledger, Present, Retired, Exposed

LEMMA LedgerRetire ==
    ASSUME TypeOK, NEW u \in Present, Kept(u), file' = [file EXCEPT ![u] = "gone"],
           UNCHANGED <<copies, window>>
    PROVE  Ledger!Retire(u)
<1> USE DEF TypeOK, SpoolType
<1>1. Present' = Present \ {u} /\ Retired' = Retired \cup {u} /\ u \in Ulid
  BY SetFacts DEF Present, Retired
<1>2. Exposed' = Exposed /\ (copies[u] > 0 \/ u \in Exposed)
  BY <1>1 DEF Exposed, Kept
<1> QED
  BY <1>1, <1>2 DEF Ledger!Retire

LEMMA LedgerRecord ==
    ASSUME TypeOK, NEW u \in Present, UNCHANGED file,
           \A v \in Ulid : v # u => window'[v] = window[v],
           window[u] \subseteq window'[u],
           copies' = copies \/ copies' = [copies EXCEPT ![u] = @ + 1]
    PROVE  [Ledger!Expose(u) \/ Ledger!Record(u)]_Ledger!ledger
<1>1. Present' = Present /\ Retired' = Retired /\ u \in Ulid
  BY DEF Present, Retired
<1>2. Exposed' = Exposed \/ Exposed' = Exposed \cup {u}
  BY <1>1 DEF Exposed
<1> QED
  BY <1>1, <1>2 DEF Ledger!Expose, Ledger!Record, Ledger!MayExpose, Ledger!ledger

\* Every step of the spool is a step of the queue, or leaves it alone.
LEMMA LedgerStep ==
    ASSUME IInv, Names, [Next]_vars PROVE [Ledger!Next]_Ledger!ledger
<1> USE SetFacts DEF IInv, TypeOK, diskVars
<1>t. TypeOK /\ todo \subseteq Present /\ Present \subseteq Ulid
  BY DEF Position, Present
<1>c. pc \in {"session", "append", "state", "unlink"} => cur \in Present
  BY DEF Position, First
<1>a. ASSUME NEW u \in Present, Ledger!Retire(u) \/ [Ledger!Expose(u) \/ Ledger!Record(u)]_Ledger!ledger
      PROVE  [Ledger!Next]_Ledger!ledger
  BY <1>a, <1>t DEF Ledger!Next
<1>s. ASSUME NEW u \in Present, Skip(u) PROVE
         /\ \A v \in Ulid : v # u => window'[v] = window[v]
         /\ window[u] \subseteq window'[u]
  BY <1>s, <1>t DEF Skip, HistoryType
<1>r. ASSUME NEW u \in Present, UNCHANGED <<file, copies>>, Skip(u)
      PROVE  [Ledger!Next]_Ledger!ledger
  BY <1>r, <1>s, <1>a, LedgerRecord
<1>q. ASSUME NEW f, NEW k, NEW first, NEW cut, Appended(f, cur, k, first, cut)
      PROVE  copies' = copies \/ copies' = [copies EXCEPT ![cur] = @ + 1]
  BY <1>q DEF Appended, DiskType
<1>1. ASSUME NEW h \in Hook, HookStep(h) \/ HookDies(h) PROVE [Ledger!Next]_Ledger!ledger
  <2>1. CASE ~Create(h)
    <3>1. Present' = Present /\ Retired' = Retired
      <4>1. CASE Mint(h)
        BY <4>1 DEF Mint, Present, Retired, SpoolType
      <4>2. CASE Write(h)
        BY <4>2 DEF Write, Present, Retired, SpoolType, HookType
      <4>3. CASE ~(Mint(h) \/ Write(h))
        BY <1>1, <2>1, <4>3 DEF HookStep, HookDies, CheckCap, Drop, Present, Retired
      <4> QED
        BY <4>1, <4>2, <4>3
    <3>2. Exposed' = Exposed /\ copies' = copies
      BY <1>1, <2>1 DEF HookStep, HookDies, CheckCap, Drop, Mint, Write, Exposed
    <3> QED
      BY <3>1, <3>2 DEF Ledger!ledger
  <2>2. CASE Create(h)
    <3> DEFINE u == name[h]
    <3>1. u \in Ulid /\ file[u] = "minted" /\ file' = [file EXCEPT ![u] = "partial"]
      BY <2>2 DEF Create, HookType, Names
    <3>2. /\ \A v \in Ulid : v # u => window'[v] = window[v]
          /\ window[u] \subseteq window'[u]
      BY <2>2, <3>1 DEF Create, HistoryType
    <3> HIDE DEF u
    <3>3. /\ Present' = Present \cup {u} /\ Retired' = Retired
          /\ u \notin Present \cup Retired
      BY <3>1 DEF Present, Retired, SpoolType
    <3>4. Exposed' = Exposed \/ Exposed' = Exposed \cup {u}
      BY <3>1, <3>2 DEF Exposed
    <3>5. copies' = copies
      BY <2>2 DEF Create
    <3> QED
      BY <3>1, <3>3, <3>4, <3>5 DEF Ledger!Next, Ledger!Arrive, Ledger!MayExpose
  <2> QED
    BY <2>1, <2>2
<1>2. ASSUME NEW u \in todo, DeleteStale(u) PROVE [Ledger!Next]_Ledger!ledger
  <2>1. u \in Present /\ Kept(u)
    BY <1>2, <1>t DEF DeleteStale, Covered
  <2>2. CASE file' = [file EXCEPT ![u] = "gone"]
    BY <1>2, <1>a, <1>t, <2>1, <2>2, LedgerRetire DEF DeleteStale
  <2>3. CASE file' = file
    BY <1>2, <2>3, LedgerStutter DEF DeleteStale
  <2> QED
    BY <1>2, <2>2, <2>3 DEF DeleteStale
<1>3. ASSUME NEW u \in todo, Read(u) PROVE [Ledger!Next]_Ledger!ledger
  <2>1. /\ u \in Present /\ UNCHANGED <<file, copies>>
        /\ \A v \in Ulid : v # u => window'[v] = window[v]
        /\ window[u] \subseteq window'[u]
    BY <1>3, <1>t DEF Read, HistoryType
  <2> QED
    BY <1>a, <1>t, <2>1, LedgerRecord
<1>4. ASSUME NEW u \in todo, ReadFails(u) PROVE [Ledger!Next]_Ledger!ledger
  BY <1>4, <1>r, <1>t DEF ReadFails
<1>5. CASE NewSessionFails
  <2>1. CASE Skip(cur)
    BY <1>5, <1>c, <1>r, <2>1 DEF NewSessionFails
  <2>2. CASE ~Skip(cur)
    BY <1>5, <2>2, LedgerStutter DEF NewSessionFails
  <2> QED
    BY <2>1, <2>2
<1>6. CASE Append
  <2>1. /\ \A v \in Ulid : v # cur => window'[v] = window[v]
        /\ window[cur] \subseteq window'[cur]
    BY <1>6, <1>c, <1>t DEF Append, HistoryType
  <2>2. cur \in Present /\ UNCHANGED <<file, cur>>
    BY <1>6, <1>c DEF Append
  <2>3. copies' = copies \/ copies' = [copies EXCEPT ![cur] = @ + 1]
    BY <1>6, <1>q DEF Append
  <2> QED
    BY <1>a, <1>t, <2>1, <2>2, <2>3, LedgerRecord
<1>7. CASE AppendFails
  <2>1. cur \in Present /\ UNCHANGED file /\ Skip(cur)
    BY <1>7, <1>c DEF AppendFails
  <2>2. copies' = copies \/ copies' = [copies EXCEPT ![cur] = @ + 1]
    BY <1>7, <1>q DEF AppendFails
  <2> QED
    BY <1>a, <1>s, <1>t, <2>1, <2>2, LedgerRecord
<1>8. CASE SaveStateFails
  <2>1. CASE Skip(cur)
    BY <1>8, <1>c, <1>r, <2>1 DEF SaveStateFails
  <2>2. CASE ~Skip(cur)
    BY <1>8, <2>2, LedgerStutter DEF SaveStateFails
  <2> QED
    BY <2>1, <2>2
<1>9. CASE Unlink
  <2>1. cur \in Present /\ Kept(cur) /\ file' = [file EXCEPT ![cur] = "gone"]
        /\ UNCHANGED <<copies, window>>
    BY <1>9, <1>c DEF Unlink, Appends, Backed, Kept
  <2> QED
    BY <1>a, <1>t, <2>1, LedgerRetire
<1>10. CASE UnlinkFails
  BY <1>10, <1>c, <1>r DEF UnlinkFails
<1>11. CASE Crash
  <2>1. CASE copies' = copies
    BY <1>11, <2>1, LedgerStutter DEF Crash
  <2>2. CASE copies' # copies
    <3>1. pc = "append" /\ copies' = [copies EXCEPT ![cur] = @ + 1]
      BY <1>11, <1>q, <2>2 DEF Crash
    <3>2. cur \in Present /\ UNCHANGED <<file, window>>
      BY <1>11, <1>c, <3>1 DEF Crash
    <3> QED
      BY <1>a, <1>t, <3>1, <3>2, LedgerRecord
  <2> QED
    BY <2>1, <2>2
<1>12. CASE \/ StartCycle \/ EndCycle \/ KnownSession \/ NewSession \/ SaveState
            \/ Restart \/ IdleTick \/ UNCHANGED vars
  <2>1. UNCHANGED <<file, copies, window>>
    BY <1>12 DEF StartCycle, EndCycle, KnownSession, NewSession, SaveState, Restart,
       IdleTick, vars
  <2> QED
    BY <2>1, LedgerStutter
<1> QED
  BY <1>1, <1>2, <1>3, <1>4, <1>5, <1>6, <1>7, <1>8, <1>9, <1>10, <1>11, <1>12
     DEF Next, Ingest

\* Hooks, spool and ingester together implement the at-least-once queue.
THEOREM SpoolImplementsLedger == Spec => LedgerSpec
<1>1. Init => Ledger!Init /\ Names
  <2> SUFFICES ASSUME Init PROVE Ledger!Init /\ Names
    OBVIOUS
  <2>1. Present = {} /\ Retired = {} /\ Exposed = {}
    BY DEF Init, Present, Retired, Exposed
  <2> QED
    BY <2>1 DEF Init, Ledger!Init, Names
<1>2. IInv /\ Names /\ [Next]_vars => [Ledger!Next]_Ledger!ledger
  BY LedgerStep
<1> QED
  BY <1>1, <1>2, InitInv, InvStep, NamesStep, PTL DEF Spec, LedgerSpec, Ledger!Spec

-----------------------------------------------------------------------------
(* The lock of the OAuth refresh: what exclusion it gives, for any         *)
(* processes, calls, deaths and failures.                                  *)

\* The assumption of MCLive, as the lemmas cite it.
Constants ==
    /\ IsFiniteSet(Proc) /\ NoProc \notin Proc
    /\ MaxCall \in Nat /\ MaxPoll \in Nat

-----------------------------------------------------------------------------
(* The inductive invariant.                                                *)

\* Calls that have not opened a lock file yet: each may still create one.
Asking == {p \in Proc : lockPc[p] \in {"open", "stat", "read", "rename", "wait"}}

CountInv == created + Cardinality(Asking) <= calls

\* A file is one process's, from its open on; nobody else writes its pid in it.
MineInv ==
    /\ \A p \in Proc : mine[p] <= created
    /\ \A p \in Proc : lockPc[p] \notin {"write", "held", "unlinking"} => mine[p] = 0
    /\ \A p, q \in Proc : mine[p] = mine[q] /\ mine[p] # 0 => p = q

OwnerInv ==
    /\ \A i \in Lock!Inode : i > created => owner[i] = NoProc
    /\ \A p \in Proc : lockPc[p] = "write" => owner[mine[p]] = NoProc
    /\ \A p \in Proc : mine[p] # 0 => owner[mine[p]] \in {NoProc, p}

\* The file of that name bears a live process's pid while it is that process's.
PathInv == \A p \in alive : path # 0 /\ owner[path] = p => mine[p] = path

\* What a verdict was on: an old file, or one whose owner is dead for good.
VerdictInv ==
    /\ \A p \in Proc : sawOld[p] => old # {}
    /\ \A p \in Proc : lockPc[p] = "rename" =>
          judged[p] \in Lock!Inode /\ (sawOld[p] \/ owner[judged[p]] \in Proc \ alive)

\* As long as nobody dies and no file gets old, the name is the owner's.
CalmInv ==
    alive = Proc /\ old = {} =>
        \A p \in Proc : lockPc[p] \in {"write", "held", "unlinking"} => path = mine[p]

LockInv == Lock!TypeOK /\ CountInv /\ MineInv /\ OwnerInv /\ PathInv /\ VerdictInv /\ CalmInv

-----------------------------------------------------------------------------
(* Counting the calls that may still create a file.                        *)

\* One process asks no more, or begins to.
LEMMA AskingFacts ==
    ASSUME Constants
    PROVE  /\ Cardinality(Asking) \in Nat
           /\ \A p \in Asking : Cardinality(Asking \ {p}) = Cardinality(Asking) - 1
           /\ \A p \in Proc : p \notin Asking => Cardinality(Asking \cup {p}) = Cardinality(Asking) + 1
<1>1. Asking \subseteq Proc
  BY DEF Asking
<1>2. IsFiniteSet(Asking)
  BY <1>1, FS_Subset DEF Constants
<1>3. Cardinality(Asking) \in Nat
  BY <1>2, FS_CardinalityType
<1>4. \A p \in Asking : Cardinality(Asking \ {p}) = Cardinality(Asking) - 1
  BY <1>2, FS_RemoveElement
<1>5. \A p \in Proc : p \notin Asking => Cardinality(Asking \cup {p}) = Cardinality(Asking) + 1
  BY <1>2, FS_AddElement
<1> QED  BY <1>3, <1>4, <1>5

-----------------------------------------------------------------------------
(* Type correctness and the count.                                         *)

Pcs == {"idle", "open", "write", "stat", "read", "rename", "wait", "held", "unlinking", "unlocked"}

\* A step of p to l, between two states that may both still create a file, or
\* neither.
LEMMA AskingKept ==
    ASSUME Lock!TypeOK, NEW p \in Proc, NEW l \in Pcs, Lock!Goto(p, l),
           p \in Asking <=> l \in {"open", "stat", "read", "rename", "wait"}
    PROVE  Asking' = Asking
BY DEF Lock!TypeOK, Lock!Goto, Asking

LEMMA AskingMore ==
    ASSUME Lock!TypeOK, NEW p \in Proc, NEW l \in Pcs, Lock!Goto(p, l), l \in {"open", "stat", "read", "rename", "wait"}
    PROVE  Asking' = Asking \cup {p}
BY DEF Lock!TypeOK, Lock!Goto, Asking

LEMMA AskingLess ==
    ASSUME Lock!TypeOK, NEW p \in Proc, NEW l \in Pcs, Lock!Goto(p, l), l \notin {"open", "stat", "read", "rename", "wait"}
    PROVE  Asking' = Asking \ {p}
BY DEF Lock!TypeOK, Lock!Goto, Asking

-----------------------------------------------------------------------------
(* The steps that create no file, write no pid and take no name away: the  *)
(* caller goes from one place to another.                                  *)

\* What a step from one place to another may do.
LEMMA MoveStep ==
    ASSUME Constants, LockInv, Lock!TypeOK', CountInv', NEW p \in Proc, NEW l \in Pcs, Lock!Goto(p, l),
           l \notin {"write", "rename"}, l = "unlinking" => lockPc[p] = "held",
           l \in {"held", "unlinking"} => mine'[p] = mine[p],
           mine' = mine \/ mine' = [mine EXCEPT ![p] = 0],
           mine'[p] = mine[p] \/ path = 0 \/ owner[path] # p,
           l \in {"write", "held", "unlinking"} \/ mine'[p] = 0,
           UNCHANGED <<path, owner, old, created, alive>>,
           l = "held" => lockPc[p] = "write",
           \A q \in Proc : sawOld'[q] = sawOld[q] \/ q = p,
           sawOld'[p] => old # {},
           \A q \in Proc : judged'[q] = judged[q] \/ q = p
    PROVE  LockInv'
<1>1. /\ \A q \in Proc : q # p => lockPc'[q] = lockPc[q] /\ mine'[q] = mine[q]
      /\ lockPc'[p] = l /\ mine'[p] \in {mine[p], 0}
  BY DEF LockInv, Lock!TypeOK, Lock!Goto
<1>2. MineInv'
  BY <1>1 DEF LockInv, MineInv, Lock!TypeOK
<1>3. OwnerInv'
  BY <1>1 DEF LockInv, OwnerInv
<1>4. PathInv'
  BY <1>1 DEF LockInv, PathInv, Lock!TypeOK
<1>5. VerdictInv'
  BY <1>1 DEF LockInv, VerdictInv
<1>6. CalmInv'
  BY <1>1 DEF LockInv, CalmInv
<1> QED  BY <1>2, <1>3, <1>4, <1>5, <1>6 DEF LockInv

\* They keep the shape and the count.
LEMMA MoveType ==
    ASSUME Constants, LockInv, NEW p \in Proc, NEW l \in Pcs, Lock!Goto(p, l),
           l \in {"open", "stat", "read", "rename", "wait"} => p \in Asking,
           l \in {"write", "held", "unlinking"} => mine'[p] \in Lock!Inode,
           mine' \in [Proc -> Lock!Inode \cup {0}], \A q \in Proc : mine'[q] = mine[q] \/ q = p,
           sawOld' \in [Proc -> BOOLEAN], judged' \in [Proc -> Lock!Inode \cup {0}],
           polls' \in [Proc -> 0 .. MaxPoll], path' \in {path, 0}, owner' \in [Lock!Inode -> Proc \cup {NoProc}],
           UNCHANGED <<old, created, alive, calls>>
    PROVE  Lock!TypeOK' /\ CountInv'
<1>1. \A q \in Proc : q # p => lockPc'[q] = lockPc[q]
  BY DEF LockInv, Lock!TypeOK, Lock!Goto
<1>2. lockPc' \in [Proc -> Pcs] /\ lockPc'[p] = l
  BY DEF LockInv, Lock!TypeOK, Lock!Goto, Pcs
<1>3. \A q \in Proc : lockPc'[q] \in {"write", "held", "unlinking"} => mine'[q] \in Lock!Inode
  BY <1>1, <1>2 DEF LockInv, Lock!TypeOK
<1>4. Lock!TypeOK'
  BY <1>2, <1>3 DEF LockInv, Lock!TypeOK, Pcs
<1>5. CountInv'
  <2>0. Asking' = Asking \/ (p \in Asking /\ Asking' = Asking \ {p})
    <3>1. CASE l \in {"open", "stat", "read", "rename", "wait"}
      BY <3>1, AskingKept DEF LockInv
    <3>2. CASE l \notin {"open", "stat", "read", "rename", "wait"}
      BY <3>2, AskingKept, AskingLess DEF LockInv
    <3> QED  BY <3>1, <3>2
  <2>1. \/ Cardinality(Asking') = Cardinality(Asking)
        \/ Cardinality(Asking') = Cardinality(Asking) - 1
    BY <2>0, AskingFacts
  <2>2. created \in Nat /\ calls \in Nat /\ Cardinality(Asking) \in Nat
    BY AskingFacts DEF LockInv, Lock!TypeOK, Constants
  <2> QED  BY <2>1, <2>2 DEF LockInv, CountInv
<1> QED  BY <1>4, <1>5

-----------------------------------------------------------------------------
(* Every step keeps the invariant.                                         *)

LEMMA AcquireStep ==
    ASSUME Constants, LockInv, NEW p \in Proc, Lock!Acquire(p)
    PROVE  LockInv'
<1>1. /\ lockPc[p] = "idle" /\ calls < MaxCall /\ calls' = calls + 1 /\ Lock!Goto(p, "open") /\ "open" \in Pcs
      /\ UNCHANGED <<path, owner, old, created, alive, mine, sawOld, polls, judged>>
  BY DEF Lock!Acquire, Lock!At, Pcs
<1>2. lockPc' = [lockPc EXCEPT ![p] = "open"] /\ lockPc' \in [Proc -> Pcs]
  BY <1>1 DEF LockInv, Lock!TypeOK, Lock!Goto, Pcs
<1>3. Lock!TypeOK'
  BY <1>1, <1>2 DEF LockInv, Lock!TypeOK, Pcs, Constants
<1>4. CountInv'
  <2>1. Asking' = Asking \cup {p} /\ p \notin Asking
    BY <1>1, AskingMore DEF LockInv, Asking
  <2>2. Cardinality(Asking') = Cardinality(Asking) + 1
    BY <2>1, AskingFacts
  <2>3. created \in Nat /\ calls \in Nat /\ Cardinality(Asking) \in Nat
    BY AskingFacts DEF LockInv, Lock!TypeOK, Constants
  <2> QED  BY <1>1, <2>2, <2>3 DEF LockInv, CountInv
<1>5. mine[p] = 0
  BY <1>1 DEF LockInv, MineInv
<1>6. sawOld[p] => old # {}
  BY DEF LockInv, VerdictInv
<1> QED  BY <1>1, <1>3, <1>4, <1>5, <1>6, MoveStep

\* The file is new: no process has it, and it is empty.
LEMMA OpenStep ==
    ASSUME Constants, LockInv, NEW p \in Proc, Lock!Open(p)
    PROVE  LockInv'
<1>1. /\ lockPc[p] = "open" /\ path = 0 /\ created' = created + 1 /\ path' = created'
      /\ mine' = [mine EXCEPT ![p] = created'] /\ Lock!Goto(p, "write") /\ "write" \in Pcs
      /\ polls' = [polls EXCEPT ![p] = 0]
      /\ UNCHANGED <<owner, old, alive, sawOld, calls, judged>>
  BY DEF Lock!Open, Lock!At, Pcs
<1>2. Asking' = Asking \ {p} /\ p \in Asking
  BY <1>1, AskingLess DEF LockInv, Asking
<1>3. created \in Nat /\ calls \in Nat /\ Cardinality(Asking) \in Nat /\ calls <= MaxCall /\ MaxCall \in Nat
  BY AskingFacts DEF LockInv, Lock!TypeOK, Constants
<1>4. Cardinality(Asking') = Cardinality(Asking) - 1 /\ Cardinality(Asking') \in Nat
  <2>1. Asking \ {p} \subseteq Proc /\ IsFiniteSet(Asking \ {p})
    BY FS_Subset DEF Constants, Asking
  <2> QED  BY <1>2, <2>1, AskingFacts, FS_CardinalityType
<1>5. CountInv'
  BY <1>1, <1>3, <1>4 DEF LockInv, CountInv
<1>6. created' \in Lock!Inode /\ created' <= calls
  BY <1>1, <1>3, <1>4 DEF LockInv, CountInv, Lock!Inode
<1>7. /\ lockPc' = [lockPc EXCEPT ![p] = "write"] /\ lockPc' \in [Proc -> Pcs]
      /\ mine' \in [Proc -> Lock!Inode \cup {0}] /\ polls' \in [Proc -> 0 .. MaxPoll]
  BY <1>1, <1>6 DEF LockInv, Lock!TypeOK, Lock!Goto, Pcs, Constants
<1>8. /\ \A q \in Proc : q # p => lockPc'[q] = lockPc[q] /\ mine'[q] = mine[q]
      /\ lockPc'[p] = "write" /\ mine'[p] = created'
  BY <1>1, <1>7 DEF LockInv, Lock!TypeOK
<1>9. Lock!TypeOK'
  <2>1. \A q \in Proc : lockPc'[q] \in {"write", "held", "unlinking"} => mine'[q] \in Lock!Inode
    BY <1>6, <1>8 DEF LockInv, Lock!TypeOK
  <2>2. path' \in Lock!Inode \cup {0} /\ created' \in 0 .. calls /\ path' <= created'
    BY <1>1, <1>3, <1>6
  <2> QED  BY <1>1, <1>7, <2>1, <2>2 DEF LockInv, Lock!TypeOK, Pcs
<1>10. \A q \in Proc : mine[q] <= created /\ mine[q] \in Nat
  BY DEF LockInv, MineInv, Lock!TypeOK, Lock!Inode, Constants
<1>11. MineInv'
  <2>1. \A q \in Proc : mine'[q] <= created'
    BY <1>1, <1>3, <1>8, <1>10
  <2>2. \A q \in Proc : lockPc'[q] \notin {"write", "held", "unlinking"} => mine'[q] = 0
    BY <1>8 DEF LockInv, MineInv
  <2>3. \A q \in Proc : q # p => mine'[q] # mine'[p]
    BY <1>1, <1>3, <1>8, <1>10
  <2>4. \A q, r \in Proc : mine'[q] = mine'[r] /\ mine'[q] # 0 => q = r
    BY <1>8, <2>3 DEF LockInv, MineInv
  <2> QED  BY <2>1, <2>2, <2>4 DEF MineInv
<1>12. owner[created'] = NoProc
  <2>1. created' > created
    BY <1>1, <1>3
  <2> QED  BY <1>6, <2>1 DEF LockInv, OwnerInv
<1>13. OwnerInv'
  <2>1. \A i \in Lock!Inode : i > created' => owner'[i] = NoProc
    <3>1. \A i \in Lock!Inode : i > created' => i > created
      BY <1>1, <1>3 DEF Lock!Inode
    <3> QED  BY <1>1, <3>1 DEF LockInv, OwnerInv
  <2>2. \A q \in Proc : lockPc'[q] = "write" => owner'[mine'[q]] = NoProc
    BY <1>1, <1>8, <1>12 DEF LockInv, OwnerInv
  <2>3. \A q \in Proc : mine'[q] # 0 => owner'[mine'[q]] \in {NoProc, q}
    BY <1>1, <1>8, <1>12 DEF LockInv, OwnerInv
  <2> QED  BY <2>1, <2>2, <2>3 DEF OwnerInv
<1>14. PathInv'
  <2>1. \A q \in alive : owner[created'] # q
    BY <1>12 DEF LockInv, Lock!TypeOK, Constants
  <2> QED  BY <1>1, <2>1 DEF PathInv
<1>15. VerdictInv'
  BY <1>1, <1>8 DEF LockInv, VerdictInv
<1>16. CalmInv'
  <2>1. SUFFICES ASSUME alive = Proc, old = {}, NEW q \in Proc, lockPc'[q] \in {"write", "held", "unlinking"}
                 PROVE  path' = mine'[q]
    BY <1>1 DEF CalmInv
  <2>2. CASE q = p
    BY <2>2, <1>1, <1>8
  <2>3. CASE q # p
    <3>1. path = mine[q] /\ mine[q] \in Lock!Inode
      BY <2>1, <2>3, <1>8 DEF LockInv, CalmInv, Lock!TypeOK
    <3> QED  BY <3>1, <1>1 DEF Lock!Inode
  <2> QED  BY <2>2, <2>3
<1> QED  BY <1>5, <1>9, <1>11, <1>13, <1>14, <1>15, <1>16 DEF LockInv

LEMMA ExistsStep ==
    ASSUME Constants, LockInv, NEW p \in Proc, Lock!Exists(p) \/ Lock!Poll(p) \/ Lock!Unlocked(p)
    PROVE  LockInv'
<1>1. PICK l \in {"stat", "open", "unlocked", "idle"} :
        /\ Lock!Goto(p, l) /\ lockPc[p] \in {"open", "wait", "unlocked"}
        /\ l \in {"stat", "open"} => lockPc[p] \in {"open", "wait"}
        /\ polls' \in {polls, [polls EXCEPT ![p] = @ + 1], [polls EXCEPT ![p] = 0]}
        /\ polls' = [polls EXCEPT ![p] = @ + 1] => polls[p] < MaxPoll
        /\ UNCHANGED <<path, owner, old, created, alive, mine, sawOld, calls, judged>>
  <2>1. CASE Lock!Exists(p)
    <3>1. /\ Lock!Goto(p, "stat") /\ lockPc[p] = "open" /\ polls' = polls
          /\ UNCHANGED <<path, owner, old, created, alive, mine, sawOld, calls, judged>>
      BY <2>1 DEF Lock!Exists, Lock!At
    <3>2. polls' = [polls EXCEPT ![p] = @ + 1] => polls[p] < MaxPoll
      BY <3>1 DEF LockInv, Lock!TypeOK
    <3> QED  BY <3>1, <3>2
  <2>2. CASE Lock!Poll(p)
    <3>1. CASE polls[p] < MaxPoll
      BY <2>2, <3>1 DEF Lock!Poll, Lock!At
    <3>2. CASE ~(polls[p] < MaxPoll)
      <4>1. /\ Lock!Goto(p, "unlocked") /\ lockPc[p] = "wait" /\ polls' = [polls EXCEPT ![p] = 0]
            /\ UNCHANGED <<path, owner, old, created, alive, mine, sawOld, calls, judged>>
        BY <2>2, <3>2 DEF Lock!Poll, Lock!At
      <4>2. polls' # [polls EXCEPT ![p] = @ + 1]
        BY <4>1 DEF LockInv, Lock!TypeOK
      <4> QED  BY <4>1, <4>2
    <3> QED  BY <3>1, <3>2
  <2>3. CASE Lock!Unlocked(p)
    <3>1. /\ Lock!Goto(p, "idle") /\ lockPc[p] = "unlocked" /\ polls' = polls
          /\ UNCHANGED <<path, owner, old, created, alive, mine, sawOld, calls, judged>>
      BY <2>3 DEF Lock!Unlocked, Lock!At
    <3>2. polls' # [polls EXCEPT ![p] = @ + 1]
      BY <3>1 DEF LockInv, Lock!TypeOK
    <3> QED  BY <3>1, <3>2
  <2> QED  BY <2>1, <2>2, <2>3
<1>2. l \in Pcs /\ (l \in {"open", "stat"} => p \in Asking)
  BY <1>1 DEF Pcs, Asking
<1>3. polls' \in [Proc -> 0 .. MaxPoll]
  BY <1>1 DEF LockInv, Lock!TypeOK, Constants
<1>4. /\ mine' \in [Proc -> Lock!Inode \cup {0}] /\ sawOld' \in [Proc -> BOOLEAN]
      /\ judged' \in [Proc -> Lock!Inode \cup {0}] /\ owner' \in [Lock!Inode -> Proc \cup {NoProc}]
  BY <1>1 DEF LockInv, Lock!TypeOK
<1>5. Lock!TypeOK' /\ CountInv'
  BY <1>1, <1>2, <1>3, <1>4, MoveType
<1>6. mine[p] = 0 /\ (sawOld[p] => old # {})
  BY <1>1 DEF LockInv, MineInv, VerdictInv
<1> QED  BY <1>1, <1>2, <1>5, <1>6, MoveStep

\* The pid goes into the process's own file.
LEMMA WritePidStep ==
    ASSUME Constants, LockInv, NEW p \in Proc, Lock!WritePid(p)
    PROVE  LockInv'
<1>1. /\ lockPc[p] = "write" /\ p \in alive /\ owner' = [owner EXCEPT ![mine[p]] = p] /\ Lock!Goto(p, "held")
      /\ UNCHANGED <<path, old, created, alive, mine, sawOld, polls, calls, judged>>
  BY DEF Lock!WritePid, Lock!At
<1>2. "held" \in Pcs /\ mine[p] \in Lock!Inode /\ owner[mine[p]] = NoProc
  BY <1>1 DEF Pcs, LockInv, Lock!TypeOK, OwnerInv
<1>3. /\ mine' \in [Proc -> Lock!Inode \cup {0}] /\ sawOld' \in [Proc -> BOOLEAN]
      /\ judged' \in [Proc -> Lock!Inode \cup {0}] /\ polls' \in [Proc -> 0 .. MaxPoll]
      /\ owner' \in [Lock!Inode -> Proc \cup {NoProc}]
  BY <1>1, <1>2 DEF LockInv, Lock!TypeOK
<1>4. Lock!TypeOK' /\ CountInv'
  BY <1>1, <1>2, <1>3, MoveType
<1>5. /\ \A q \in Proc : q # p => lockPc'[q] = lockPc[q]
      /\ lockPc'[p] = "held" /\ owner'[mine[p]] = p /\ \A i \in Lock!Inode : i # mine[p] => owner'[i] = owner[i]
  BY <1>1, <1>2 DEF LockInv, Lock!TypeOK, Lock!Goto
<1>6. \A q \in Proc : q # p /\ mine[q] # 0 => mine[q] # mine[p] /\ mine[q] \in Lock!Inode
  BY DEF LockInv, MineInv, Lock!TypeOK
<1>7. MineInv'
  BY <1>1, <1>5 DEF LockInv, MineInv
<1>8. OwnerInv'
  <2>1. \A i \in Lock!Inode : i > created' => owner'[i] = NoProc
    <3>1. mine[p] <= created /\ created \in Nat /\ mine[p] \in Nat
      BY <1>2 DEF LockInv, MineInv, Lock!TypeOK, Lock!Inode, Constants
    <3>2. \A i \in Lock!Inode : i > created => i # mine[p]
      BY <3>1 DEF Lock!Inode
    <3> QED  BY <1>1, <1>5, <3>2 DEF LockInv, OwnerInv
  <2>2. \A q \in Proc : lockPc'[q] = "write" => mine[q] # 0 /\ q # p
    BY <1>5 DEF LockInv, Lock!TypeOK, Lock!Inode, Constants
  <2>3. \A q \in Proc : lockPc'[q] = "write" => owner'[mine'[q]] = NoProc
    BY <1>1, <1>5, <1>6, <2>2 DEF LockInv, OwnerInv
  <2>4. \A q \in Proc : mine'[q] # 0 => owner'[mine'[q]] \in {NoProc, q}
    BY <1>1, <1>5, <1>6 DEF LockInv, OwnerInv
  <2> QED  BY <2>1, <2>3, <2>4 DEF OwnerInv
<1>9. PathInv'
  <2>1. SUFFICES ASSUME NEW q \in alive, path # 0, owner'[path] = q PROVE mine[q] = path
    BY <1>1 DEF PathInv
  <2>2. path \in Lock!Inode /\ alive \subseteq Proc
    BY <2>1 DEF LockInv, Lock!TypeOK
  <2> QED  BY <2>1, <2>2, <1>5 DEF LockInv, PathInv
<1>10. VerdictInv'
  <2>1. \A q \in Proc : sawOld'[q] => old' # {}
    BY <1>1 DEF LockInv, VerdictInv
  <2>2. SUFFICES ASSUME NEW q \in Proc, lockPc'[q] = "rename"
                 PROVE  judged[q] \in Lock!Inode /\ (sawOld[q] \/ owner'[judged[q]] \in Proc \ alive)
    BY <1>1, <2>1 DEF VerdictInv
  <2>3. judged[q] \in Lock!Inode /\ (sawOld[q] \/ owner[judged[q]] \in Proc \ alive)
    BY <2>2, <1>5 DEF LockInv, VerdictInv
  <2>4. owner[judged[q]] \in Proc => judged[q] # mine[p]
    BY <1>2 DEF Constants
  <2> QED  BY <2>3, <2>4, <1>5
<1>11. CalmInv'
  BY <1>1, <1>5 DEF LockInv, CalmInv
<1> QED  BY <1>4, <1>7, <1>8, <1>9, <1>10, <1>11 DEF LockInv

LEMMA GiveUpStep ==
    ASSUME Constants, LockInv, NEW p \in Proc, Lock!WriteFails(p) \/ Lock!ReleaseRead(p)
    PROVE  LockInv'
<1>1. PICK l \in {"idle", "unlinking"} :
        /\ Lock!Goto(p, l) /\ p \in alive /\ lockPc[p] \in {"write", "held"}
        /\ l = "unlinking" => lockPc[p] = "held" /\ mine' = mine
        /\ l = "idle" => mine' = [mine EXCEPT ![p] = 0]
        /\ l = "idle" => lockPc[p] = "write" \/ path = 0 \/ owner[path] # p
        /\ UNCHANGED <<path, owner, old, created, alive, sawOld, polls, calls, judged>>
  BY DEF Lock!WriteFails, Lock!ReleaseRead, Lock!At
<1>2. l \in Pcs /\ mine[p] \in Lock!Inode
  BY <1>1 DEF Pcs, LockInv, Lock!TypeOK
<1>3. /\ mine' \in [Proc -> Lock!Inode \cup {0}] /\ sawOld' \in [Proc -> BOOLEAN]
      /\ judged' \in [Proc -> Lock!Inode \cup {0}] /\ polls' \in [Proc -> 0 .. MaxPoll]
      /\ owner' \in [Lock!Inode -> Proc \cup {NoProc}]
      /\ l = "idle" => mine'[p] = 0
      /\ \A q \in Proc : mine'[q] = mine[q] \/ q = p
  BY <1>1 DEF LockInv, Lock!TypeOK
<1>4. Lock!TypeOK' /\ CountInv'
  BY <1>1, <1>2, <1>3, MoveType
\* The name is not taken from under a file that bears the pid of p.
<1>5. mine'[p] = mine[p] \/ path = 0 \/ owner[path] # p
  <2>1. lockPc[p] = "write" => owner[mine[p]] = NoProc
    BY DEF LockInv, OwnerInv
  <2>2. path # 0 /\ owner[path] = p => mine[p] = path
    BY <1>1 DEF LockInv, PathInv
  <2> QED  BY <1>1, <2>1, <2>2 DEF Constants
<1>6. sawOld[p] => old # {}
  BY DEF LockInv, VerdictInv
<1> QED  BY <1>1, <1>2, <1>3, <1>4, <1>5, <1>6, MoveStep

\* A verdict: the file is old, or its owner is dead.
LEMMA JudgeStep ==
    ASSUME Constants, LockInv, NEW p \in Proc, Lock!Stat(p) \/ Lock!Judge(p)
    PROVE  LockInv'
<1>1. PICK l \in {"wait", "read", "rename"} :
        /\ Lock!Goto(p, l) /\ lockPc[p] \in {"stat", "read"}
        /\ sawOld' \in {sawOld, [sawOld EXCEPT ![p] = path \in old], [sawOld EXCEPT ![p] = FALSE]}
        /\ l # "rename" => judged' = judged
        /\ l = "rename" => /\ path # 0 /\ judged' = [judged EXCEPT ![p] = path] /\ sawOld' = sawOld
                           /\ sawOld[p] \/ Lock!Dead(owner[path])
        /\ UNCHANGED <<path, owner, old, created, alive, mine, polls, calls>>
  <2>1. CASE Lock!Stat(p)
    <3>1. CASE path = 0
      BY <2>1, <3>1 DEF Lock!Stat, Lock!At
    <3>2. CASE path # 0
      BY <2>1, <3>2 DEF Lock!Stat, Lock!At
    <3> QED  BY <3>1, <3>2
  <2>2. CASE Lock!Judge(p)
    BY <2>2 DEF Lock!Judge, Lock!At, Lock!Stale, Lock!Young
  <2> QED  BY <2>1, <2>2
<1>2. l \in Pcs /\ p \in Asking /\ mine[p] = 0
  BY <1>1 DEF Pcs, Asking, LockInv, MineInv
<1>3. /\ mine' \in [Proc -> Lock!Inode \cup {0}] /\ sawOld' \in [Proc -> BOOLEAN]
      /\ polls' \in [Proc -> 0 .. MaxPoll]
      /\ owner' \in [Lock!Inode -> Proc \cup {NoProc}]
  <2>1. (path \in old) \in BOOLEAN /\ sawOld \in [Proc -> BOOLEAN]
    BY DEF LockInv, Lock!TypeOK
  <2>2. \A b \in BOOLEAN : [sawOld EXCEPT ![p] = b] \in [Proc -> BOOLEAN]
    BY <2>1
  <2>3. sawOld' \in [Proc -> BOOLEAN]
    BY <1>1, <2>1, <2>2, Zenon
  <2> QED  BY <1>1, <2>3 DEF LockInv, Lock!TypeOK
<1>4. /\ judged' \in [Proc -> Lock!Inode \cup {0}]
      /\ \A q \in Proc : q # p => sawOld'[q] = sawOld[q] /\ judged'[q] = judged[q]
      /\ l = "rename" => judged'[p] = path
  BY <1>1 DEF LockInv, Lock!TypeOK
<1>5. Lock!TypeOK' /\ CountInv'
  BY <1>1, <1>2, <1>3, <1>4, MoveType
<1>6. sawOld'[p] => old # {}
  BY <1>1 DEF LockInv, Lock!TypeOK, VerdictInv
<1>7. CASE l # "rename"
  BY <1>1, <1>2, <1>4, <1>5, <1>6, <1>7, MoveStep
<1>8. CASE l = "rename"
  <2>1. \A q \in Proc : q # p => lockPc'[q] = lockPc[q]
    BY <1>1 DEF LockInv, Lock!TypeOK, Lock!Goto
  <2>2. lockPc'[p] = "rename"
    BY <1>1, <1>8 DEF LockInv, Lock!TypeOK, Lock!Goto
  <2>3. path \in Lock!Inode /\ (sawOld[p] \/ owner[path] \in Proc \ alive)
    BY <1>1, <1>8 DEF LockInv, Lock!TypeOK, Lock!Dead
  <2>4. VerdictInv'
    BY <1>1, <1>4, <1>6, <1>8, <2>1, <2>2, <2>3 DEF LockInv, VerdictInv
  <2>5. MineInv' /\ OwnerInv'
    BY <1>1, <1>2, <2>1, <2>2 DEF LockInv, MineInv, OwnerInv
  <2>6. PathInv' /\ CalmInv'
    BY <1>1, <2>1, <2>2 DEF LockInv, PathInv, CalmInv
  <2> QED  BY <1>5, <2>4, <2>5, <2>6 DEF LockInv
<1> QED  BY <1>7, <1>8

\* The steps that take the name away: in a calm state only the owner's unlink.
LEMMA NameFreedStep ==
    ASSUME Constants, LockInv, NEW p \in Proc, Lock!Rename(p) \/ Lock!ReleaseUnlink(p)
    PROVE  LockInv'
<1>1. PICK l \in {"open", "idle"} :
        /\ Lock!Goto(p, l) /\ path' \in {path, 0}
        /\ l = "open" => lockPc[p] = "rename" /\ mine' = mine
        /\ l = "idle" => lockPc[p] = "unlinking" /\ mine' = [mine EXCEPT ![p] = 0] /\ path' = 0
        /\ sawOld' \in {sawOld, [sawOld EXCEPT ![p] = FALSE]}
        /\ judged' \in {judged, [judged EXCEPT ![p] = 0]}
        /\ UNCHANGED <<owner, old, created, alive, polls, calls>>
  <2>1. CASE Lock!Rename(p)
    BY <2>1 DEF Lock!Rename, Lock!At
  <2>2. CASE Lock!ReleaseUnlink(p)
    BY <2>2 DEF Lock!ReleaseUnlink, Lock!At
  <2> QED  BY <2>1, <2>2
<1>2. l \in Pcs /\ (l = "open" => p \in Asking)
  BY <1>1 DEF Pcs, Asking
<1>3. /\ mine' \in [Proc -> Lock!Inode \cup {0}] /\ sawOld' \in [Proc -> BOOLEAN]
      /\ polls' \in [Proc -> 0 .. MaxPoll] /\ judged' \in [Proc -> Lock!Inode \cup {0}]
      /\ owner' \in [Lock!Inode -> Proc \cup {NoProc}]
      /\ \A q \in Proc : mine'[q] = mine[q] \/ q = p
  BY <1>1 DEF LockInv, Lock!TypeOK
<1>4. Lock!TypeOK' /\ CountInv'
  BY <1>1, <1>2, <1>3, MoveType
<1>5. /\ \A q \in Proc : q # p => /\ lockPc'[q] = lockPc[q] /\ mine'[q] = mine[q]
                                 /\ sawOld'[q] = sawOld[q] /\ judged'[q] = judged[q]
      /\ lockPc'[p] = l /\ mine'[p] = 0 /\ (sawOld'[p] => sawOld[p])
  BY <1>1 DEF LockInv, Lock!TypeOK, MineInv, Lock!Goto
<1>6. MineInv' /\ OwnerInv'
  <2>1. MineInv'
    <3>1. \A q \in Proc : mine'[q] <= created
      <4>1. 0 <= created
        BY DEF LockInv, Lock!TypeOK, Constants
      <4> QED  BY <4>1, <1>5 DEF LockInv, MineInv
    <3> QED  BY <1>1, <3>1, <1>5 DEF LockInv, MineInv
  <2>2. OwnerInv'
    BY <1>1, <1>5 DEF LockInv, OwnerInv
  <2> QED  BY <2>1, <2>2
<1>7. PathInv'
  <2>1. alive \subseteq Proc
    BY DEF LockInv, Lock!TypeOK
  <2>2. path' = path => mine' = mine \/ path = 0
    BY <1>1
  <2> QED  BY <1>1, <2>1, <2>2 DEF LockInv, PathInv
<1>8. VerdictInv'
  BY <1>1, <1>5 DEF LockInv, VerdictInv
<1>9. CalmInv'
  <2>1. SUFFICES ASSUME alive = Proc, old = {}, NEW q \in Proc, lockPc'[q] \in {"write", "held", "unlinking"}
                 PROVE  path' = mine'[q]
    BY <1>1 DEF CalmInv
  <2>2. q # p /\ path = mine[q] /\ mine[q] # 0
    <3>1. q # p /\ lockPc[q] \in {"write", "held", "unlinking"}
      BY <2>1, <1>5
    <3> QED  BY <2>1, <3>1 DEF LockInv, CalmInv, Lock!TypeOK, Lock!Inode, Constants
\* A contender's verdict needs an old file or a dead owner.
  <2>3. CASE l = "open"
    <3>1. sawOld[p] \/ owner[judged[p]] \in Proc \ alive
      BY <1>1, <2>3 DEF LockInv, VerdictInv
    <3> QED  BY <2>1, <3>1 DEF LockInv, VerdictInv
\* Whoever unlinks is the owner.
  <2>4. CASE l = "idle"
    <3>1. path = mine[p]
      BY <1>1, <2>1, <2>4 DEF LockInv, CalmInv
    <3> QED  BY <2>2, <3>1 DEF LockInv, MineInv
  <2> QED  BY <2>3, <2>4
<1> QED  BY <1>4, <1>6, <1>7, <1>8, <1>9 DEF LockInv

LEMMA WorldStep ==
    ASSUME Constants, LockInv, Lock!Age \/ \E p \in Proc : Lock!Crash(p)
    PROVE  LockInv'
<1>1. /\ alive' \subseteq alive /\ old \subseteq old' /\ old' \subseteq Lock!Inode
      /\ UNCHANGED <<path, owner, created, lockPc, mine, sawOld, polls, calls, judged>>
  <2>1. CASE Lock!Age
    BY <2>1 DEF Lock!Age, LockInv, Lock!TypeOK
  <2>2. ASSUME NEW p \in Proc, Lock!Crash(p) PROVE <1>1!:
    BY <2>2 DEF Lock!Crash, LockInv, Lock!TypeOK
  <2> QED  BY <2>1, <2>2
<1>2. Lock!TypeOK'
  BY <1>1 DEF LockInv, Lock!TypeOK
<1>3. CountInv'
  BY <1>1 DEF LockInv, CountInv, Asking
<1>4. MineInv' /\ OwnerInv' /\ PathInv'
  BY <1>1 DEF LockInv, MineInv, OwnerInv, PathInv
<1>5. VerdictInv'
  BY <1>1 DEF LockInv, VerdictInv
<1>6. CalmInv'
  BY <1>1 DEF LockInv, CalmInv, Lock!TypeOK
<1> QED  BY <1>2, <1>3, <1>4, <1>5, <1>6 DEF LockInv

LEMMA LockInitInv == Constants /\ Lock!Init => LockInv
<1> SUFFICES ASSUME Constants, Lock!Init PROVE LockInv
  OBVIOUS
<1>1. /\ path = 0 /\ created = 0 /\ owner = [i \in Lock!Inode |-> NoProc] /\ old = {} /\ alive = Proc
      /\ lockPc = [p \in Proc |-> "idle"] /\ mine = [p \in Proc |-> 0] /\ sawOld = [p \in Proc |-> FALSE]
      /\ polls = [p \in Proc |-> 0] /\ calls = 0 /\ judged = [p \in Proc |-> 0]
  BY DEF Lock!Init
<1>2. Lock!TypeOK
  BY <1>1 DEF Lock!TypeOK, Constants
<1>3. CountInv
  <2>1. Asking = {}
    BY <1>1 DEF Asking
  <2> QED  BY <1>1, <2>1, FS_EmptySet DEF CountInv
<1>4. MineInv /\ OwnerInv /\ PathInv /\ VerdictInv /\ CalmInv
  BY <1>1 DEF MineInv, OwnerInv, PathInv, VerdictInv, CalmInv
<1> QED  BY <1>2, <1>3, <1>4 DEF LockInv

LEMMA StepInv == Constants /\ LockInv /\ [Lock!Next]_(Lock!vars) => LockInv'
<1> SUFFICES ASSUME Constants, LockInv, [Lock!Next]_(Lock!vars) PROVE LockInv'
  OBVIOUS
<1>1. ASSUME NEW p \in Proc, Lock!Attempt(p) PROVE LockInv'
  BY <1>1, OpenStep, ExistsStep, WritePidStep, GiveUpStep, JudgeStep, NameFreedStep DEF Lock!Attempt
<1>2. ASSUME NEW p \in Proc, Lock!Release(p) PROVE LockInv'
  BY <1>2, ExistsStep, GiveUpStep, NameFreedStep DEF Lock!Release
<1>3. ASSUME NEW p \in Proc, Lock!Acquire(p) PROVE LockInv'
  BY <1>3, AcquireStep
<1>4. CASE Lock!Age \/ \E p \in Proc : Lock!Crash(p)
  BY <1>4, WorldStep
<1>5. CASE UNCHANGED Lock!vars
  BY <1>5 DEF Lock!vars, LockInv, Lock!TypeOK, CountInv, Asking, MineInv, OwnerInv, PathInv, VerdictInv, CalmInv
<1> QED  BY <1>1, <1>2, <1>3, <1>4, <1>5 DEF Lock!Next

LEMMA ConstantsHold == Constants
BY ProcAssumption DEF Constants

LEMMA InvHolds == Lock!Spec => []LockInv
<1>1. Lock!Init => LockInv
  BY ConstantsHold, LockInitInv
<1>2. LockInv /\ [Lock!Next]_(Lock!vars) => LockInv'
  BY ConstantsHold, StepInv
<1> QED  BY <1>1, <1>2, PTL DEF Lock!Spec

-----------------------------------------------------------------------------
(* The theorems.                                                           *)

\* Type correctness: every variable keeps its shape; a process past its open has a
\* lock file, and no more files are created than calls were made.
THEOREM LockTypeCorrect == Lock!Spec => []Lock!TypeOK
<1>1. LockInv => Lock!TypeOK
  BY DEF LockInv
<1> QED  BY <1>1, InvHolds, PTL

LEMMA SameCardinality == ASSUME NEW S PROVE Lock!Cardinality(S) = Cardinality(S)
BY DEF Lock!Cardinality, Cardinality

\* At most one process has the lock, for any number of processes and calls, as
\* long as nobody dies and no lock file gets older than the cap.
THEOREM OneHolder == Lock!Spec => []Lock!OneHolderWithoutReclaim
<1>1. LockInv => Lock!OneHolderWithoutReclaim
  <2>1. SUFFICES ASSUME LockInv, alive = Proc, old = {} PROVE Cardinality(Lock!Holders) <= 1
    BY SameCardinality DEF Lock!OneHolderWithoutReclaim
  <2>2. \A p, q \in Lock!Holders : p = q
    <3>1. SUFFICES ASSUME NEW p \in Lock!Holders, NEW q \in Lock!Holders PROVE p = q
      OBVIOUS
    <3>2. /\ p \in Proc /\ lockPc[p] \in {"held", "unlinking"}
          /\ q \in Proc /\ lockPc[q] \in {"held", "unlinking"}
      BY <2>1, <3>1 DEF Lock!Holders, LockInv, Lock!TypeOK
    <3>3. path = mine[p] /\ path = mine[q] /\ mine[p] \in Lock!Inode
      BY <2>1, <3>2 DEF LockInv, CalmInv, Lock!TypeOK
    <3>4. mine[p] # 0
      BY <3>3, ConstantsHold DEF Lock!Inode, Constants
    <3> QED  BY <2>1, <3>2, <3>3, <3>4 DEF LockInv, MineInv
  <2>3. CASE Lock!Holders = {}
    BY <2>3, FS_EmptySet
  <2>4. CASE Lock!Holders # {}
    <3>1. PICK p \in Lock!Holders : TRUE
      BY <2>4
    <3>2. Lock!Holders = {p}
      BY <2>2, <3>1
    <3>3. Cardinality({p}) = 1
      BY FS_Singleton
    <3> QED  BY <3>2, <3>3
  <2> QED  BY <2>3, <2>4
<1> QED  BY <1>1, InvHolds, PTL

\* The reclaim takes a live owner's young lock only on a verdict that was about an
\* earlier file of that name, or about an old one, whoever dies in between.
THEOREM StolenOnlyOnOldVerdictHolds == Lock!Spec => Lock!StolenOnlyOnOldVerdict
<1>1. LockInv => \A p \in Proc :
          Lock!At(p, "rename") /\ path # 0 /\ (\E q \in alive : mine[q] = path)
              => judged[p] # path \/ sawOld[p]
  <2>1. SUFFICES ASSUME LockInv, NEW p \in Proc, lockPc[p] = "rename", path # 0, NEW q \in alive, mine[q] = path,
                        judged[p] = path, ~sawOld[p]
                 PROVE  FALSE
    BY DEF Lock!At
  <2>2. owner[path] \in Proc \ alive
    BY <2>1 DEF LockInv, VerdictInv
  <2>3. owner[path] \in {NoProc, q}
    BY <2>1 DEF LockInv, OwnerInv, Lock!TypeOK
  <2> QED  BY <2>1, <2>2, <2>3, ConstantsHold DEF Constants
<1>2. Lock!Spec => []LockInv
  BY InvHolds
<1>3. LockInv /\ [Lock!Next]_(Lock!vars) => [\A p \in Proc :
          Lock!At(p, "rename") /\ lockPc'[p] = "open" /\ path # 0 /\ path \notin old
          /\ path' = 0
          /\ (\E q \in alive : mine[q] = path)
              => judged[p] # path \/ sawOld[p]]_(Lock!vars)
  BY <1>1
<1> QED  BY <1>2, <1>3, PTL DEF Lock!Spec, Lock!StolenOnlyOnOldVerdict

\* A process whose lock was taken over does not go on to unlink the successor's:
\* the pid it reads in a file of that name is its own only in its own file.
THEOREM ReleaseOnlyOwnHolds == Lock!Spec => Lock!ReleaseOnlyOwn
<1>1. LockInv /\ [Lock!Next]_(Lock!vars) => [\A p \in Proc :
          Lock!At(p, "held") /\ lockPc'[p] = "unlinking" => path = mine[p]]_(Lock!vars)
  <2>1. SUFFICES ASSUME LockInv, Lock!Next, NEW p \in Proc, p \in alive, lockPc[p] = "held", lockPc'[p] = "unlinking"
                 PROVE  path = mine[p]
    BY DEF Lock!At
\* Only the release of p goes there.
  <2>2. Lock!ReleaseRead(p)
    <3>1. \A q \in Proc : \A l : q # p /\ Lock!Goto(q, l) => lockPc'[p] = lockPc[p]
      BY DEF LockInv, Lock!TypeOK, Lock!Goto
    <3>2. ASSUME NEW q \in Proc, Lock!Attempt(q) PROVE FALSE
      <4>1. \E l \in {"write", "stat", "held", "idle", "read", "rename", "wait", "open", "unlocked"} : Lock!Goto(q, l)
        BY <3>2, Zenon DEF Lock!Attempt, Lock!Open, Lock!Exists, Lock!WritePid, Lock!WriteFails, Lock!Stat,
                           Lock!Judge, Lock!Stale, Lock!Young, Lock!Rename, Lock!Poll
      <4> QED  BY <2>1, <3>1, <4>1 DEF LockInv, Lock!TypeOK, Lock!Goto
    <3>3. ASSUME NEW q \in Proc, Lock!Acquire(q) \/ Lock!ReleaseUnlink(q) \/ Lock!Unlocked(q) PROVE FALSE
      <4>1. \E l \in {"open", "idle"} : Lock!Goto(q, l)
        BY <3>3 DEF Lock!Acquire, Lock!ReleaseUnlink, Lock!Unlocked
      <4> QED  BY <2>1, <3>1, <4>1 DEF LockInv, Lock!TypeOK, Lock!Goto
    <3>4. ASSUME NEW q \in Proc, Lock!ReleaseRead(q) PROVE q = p
      <4>1. \E l \in {"unlinking", "idle"} : Lock!Goto(q, l)
        BY <3>4 DEF Lock!ReleaseRead
      <4> QED  BY <2>1, <3>1, <4>1 DEF LockInv, Lock!TypeOK, Lock!Goto
    <3>5. ASSUME Lock!Age \/ \E q \in Proc : Lock!Crash(q) PROVE FALSE
      BY <2>1, <3>5 DEF Lock!Age, Lock!Crash
    <3> QED  BY <2>1, <3>2, <3>3, <3>4, <3>5 DEF Lock!Next, Lock!Release
  <2>3. path # 0 /\ owner[path] = p
    BY <2>1, <2>2 DEF Lock!ReleaseRead, Lock!Goto, LockInv, Lock!TypeOK
  <2> QED  BY <2>1, <2>3 DEF LockInv, PathInv
<1> QED  BY <1>1, InvHolds, PTL DEF Lock!Spec, Lock!ReleaseOnlyOwn

\* The exclusion the lock gives, with dead owners, old locks and a late release.
THEOREM ExclusionHolds == Lock!Spec => Exclusion
<1>1. Lock!Spec => []Lock!OneHolderWithoutReclaim
  BY OneHolder
<1> QED  BY <1>1, StolenOnlyOnOldVerdictHolds, ReleaseOnlyOwnHolds DEF Exclusion, Lock!Exclusion

=============================================================================
