-------------------------- MODULE CompactorProofs --------------------------
(***************************************************************************)
(* Proofs about the compaction of the trail: every variable keeps its      *)
(* shape, no line is lost outside the windows the model names, and no line *)
(* is twice in a day file, for any sessions, days, lines and failures.     *)
(***************************************************************************)
EXTENDS Compactor, FiniteSetTheorems, TLAPS

-----------------------------------------------------------------------------
(* The lines of a sequence.                                                *)

LEMMA LinesEmpty == Lines(<<>>) = {}
BY DEF Lines, ToSet

LEMMA LinesOf ==
    ASSUME NEW S, NEW q \in Seq(S)
    PROVE  Lines(q) \subseteq S
BY DEF Lines, ToSet

LEMMA LinesAppend ==
    ASSUME NEW S, NEW q \in Seq(S), NEW x \in S
    PROVE  /\ Append(q, x) \in Seq(S)
           /\ Lines(Append(q, x)) = Lines(q) \cup {x}
<1>1. /\ Append(q, x) \in Seq(S) /\ Len(Append(q, x)) = Len(q) + 1
      /\ DOMAIN Append(q, x) = 1 .. Len(q) + 1 /\ DOMAIN q = 1 .. Len(q) /\ Len(q) \in Nat
  OBVIOUS
<1>2. /\ Append(q, x)[Len(q) + 1] = x
      /\ \A i \in 1 .. Len(q) : Append(q, x)[i] = q[i]
  OBVIOUS
<1> QED  BY <1>1, <1>2 DEF Lines, ToSet

LEMMA LinesConcat ==
    ASSUME NEW S, NEW q \in Seq(S), NEW r \in Seq(S)
    PROVE  /\ q \o r \in Seq(S) /\ Len(q \o r) = Len(q) + Len(r)
           /\ Lines(q \o r) = Lines(q) \cup Lines(r)
<1>1. /\ q \o r \in Seq(S) /\ Len(q \o r) = Len(q) + Len(r)
      /\ DOMAIN (q \o r) = 1 .. Len(q) + Len(r)
      /\ DOMAIN q = 1 .. Len(q) /\ DOMAIN r = 1 .. Len(r) /\ Len(q) \in Nat /\ Len(r) \in Nat
  OBVIOUS
<1>2. /\ \A i \in 1 .. Len(q) : (q \o r)[i] = q[i]
      /\ \A i \in 1 .. Len(q) + Len(r) : i > Len(q) => (q \o r)[i] = r[i - Len(q)]
  OBVIOUS
<1>3. \A j \in 1 .. Len(r) : (q \o r)[j + Len(q)] = r[j]
  BY <1>1, <1>2
<1>4. Lines(q \o r) \subseteq Lines(q) \cup Lines(r)
  <2>1. SUFFICES ASSUME NEW i \in 1 .. Len(q) + Len(r)
                 PROVE  (q \o r)[i] \in Lines(q) \cup Lines(r)
    BY <1>1 DEF Lines, ToSet
  <2>2. CASE i <= Len(q)
    BY <2>2, <1>1, <1>2 DEF Lines, ToSet
  <2>3. CASE i > Len(q)
    <3>1. i - Len(q) \in 1 .. Len(r)
      BY <2>3, <1>1
    <3> QED  BY <2>3, <3>1, <1>1, <1>2 DEF Lines, ToSet
  <2> QED  BY <2>2, <2>3, <1>1
<1>5. Lines(q) \subseteq Lines(q \o r)
  BY <1>1, <1>2 DEF Lines, ToSet
<1>6. Lines(r) \subseteq Lines(q \o r)
  <2>1. \A j \in 1 .. Len(r) : j + Len(q) \in 1 .. Len(q) + Len(r)
    BY <1>1
  <2> QED  BY <1>1, <1>3, <2>1 DEF Lines, ToSet
<1> QED  BY <1>1, <1>4, <1>5, <1>6

\* A prefix, and a prefix of a longer sequence.
LEMMA PrefixFacts ==
    ASSUME NEW S, NEW q \in Seq(S), NEW k \in 0 .. Len(q)
    PROVE  /\ SubSeq(q, 1, k) \in Seq(S) /\ Len(SubSeq(q, 1, k)) = k
           /\ \A i \in 1 .. k : SubSeq(q, 1, k)[i] = q[i]
           /\ Lines(SubSeq(q, 1, k)) \subseteq Lines(q)
<1>1. k \in Nat /\ k <= Len(q) /\ Len(q) \in Nat
  OBVIOUS
<1>2. /\ SubSeq(q, 1, k) \in Seq(S) /\ Len(SubSeq(q, 1, k)) = k
      /\ \A i \in 1 .. k : SubSeq(q, 1, k)[i] = q[i]
  BY <1>1
<1>3. DOMAIN SubSeq(q, 1, k) = 1 .. k /\ DOMAIN q = 1 .. Len(q)
  BY <1>2
<1> QED  BY <1>1, <1>2, <1>3 DEF Lines, ToSet

LEMMA PrefixOfConcat ==
    ASSUME NEW S, NEW q \in Seq(S), NEW r \in Seq(S), NEW k \in 0 .. Len(q)
    PROVE  SubSeq(q \o r, 1, k) = SubSeq(q, 1, k)
<1>1. k \in 0 .. Len(q \o r)
  BY LinesConcat
<1>2. /\ SubSeq(q, 1, k) \in Seq(S) /\ Len(SubSeq(q, 1, k)) = k
      /\ \A i \in 1 .. k : SubSeq(q, 1, k)[i] = q[i]
  BY PrefixFacts
<1>3. /\ SubSeq(q \o r, 1, k) \in Seq(S) /\ Len(SubSeq(q \o r, 1, k)) = k
      /\ \A i \in 1 .. k : SubSeq(q \o r, 1, k)[i] = (q \o r)[i]
  BY <1>1, PrefixFacts, LinesConcat
<1>4. \A i \in 1 .. k : (q \o r)[i] = q[i]
  OBVIOUS
<1> QED  BY <1>2, <1>3, <1>4

LEMMA PrefixOfPrefix ==
    ASSUME NEW S, NEW q \in Seq(S), NEW k \in 0 .. Len(q), NEW j \in 0 .. k
    PROVE  SubSeq(SubSeq(q, 1, k), 1, j) = SubSeq(q, 1, j)
<1>1. /\ SubSeq(q, 1, k) \in Seq(S) /\ Len(SubSeq(q, 1, k)) = k
      /\ \A i \in 1 .. k : SubSeq(q, 1, k)[i] = q[i]
  BY PrefixFacts
<1>2. j \in 0 .. Len(q) /\ \A i \in 1 .. j : i \in 1 .. k
  OBVIOUS
<1>3. /\ SubSeq(q, 1, j) \in Seq(S) /\ Len(SubSeq(q, 1, j)) = j
      /\ \A i \in 1 .. j : SubSeq(q, 1, j)[i] = q[i]
  BY <1>2, PrefixFacts
<1>4. /\ SubSeq(SubSeq(q, 1, k), 1, j) \in Seq(S) /\ Len(SubSeq(SubSeq(q, 1, k), 1, j)) = j
      /\ \A i \in 1 .. j : SubSeq(SubSeq(q, 1, k), 1, j)[i] = SubSeq(q, 1, k)[i]
  BY <1>1, PrefixFacts
<1> QED  BY <1>1, <1>2, <1>3, <1>4

LEMMA WholePrefix ==
    ASSUME NEW S, NEW q \in Seq(S)
    PROVE  SubSeq(q, 1, Len(q)) = q
<1>1. Len(q) \in 0 .. Len(q)
  OBVIOUS
<1> QED  BY <1>1, PrefixFacts

\* A prefix of a sequence without repetitions has none; nor has a sequence with
\* another one, of other lines, after it.
LEMMA PrefixInjective ==
    ASSUME NEW S, NEW q \in Seq(S), IsInjective(q), NEW k \in 0 .. Len(q)
    PROVE  IsInjective(SubSeq(q, 1, k))
<1>1. /\ SubSeq(q, 1, k) \in Seq(S) /\ Len(SubSeq(q, 1, k)) = k
      /\ \A i \in 1 .. k : SubSeq(q, 1, k)[i] = q[i]
  BY PrefixFacts
<1>2. DOMAIN SubSeq(q, 1, k) = 1 .. k /\ DOMAIN q = 1 .. Len(q)
      /\ \A i \in 1 .. k : i \in 1 .. Len(q)
  BY <1>1
<1> QED  BY <1>1, <1>2 DEF IsInjective

LEMMA ConcatInjective ==
    ASSUME NEW S, NEW q \in Seq(S), NEW r \in Seq(S), IsInjective(q), IsInjective(r),
           Lines(q) \cap Lines(r) = {}
    PROVE  IsInjective(q \o r)
<1>1. /\ DOMAIN (q \o r) = 1 .. Len(q) + Len(r)
      /\ DOMAIN q = 1 .. Len(q) /\ DOMAIN r = 1 .. Len(r) /\ Len(q) \in Nat /\ Len(r) \in Nat
  OBVIOUS
<1>2. /\ \A i \in 1 .. Len(q) : (q \o r)[i] = q[i]
      /\ \A i \in 1 .. Len(q) + Len(r) : i > Len(q) => (q \o r)[i] = r[i - Len(q)]
  OBVIOUS
<1>3. \A i \in 1 .. Len(q) + Len(r) : i > Len(q) => i - Len(q) \in 1 .. Len(r)
  BY <1>1
<1>4. SUFFICES ASSUME NEW i \in 1 .. Len(q) + Len(r), NEW j \in 1 .. Len(q) + Len(r),
                      (q \o r)[i] = (q \o r)[j]
               PROVE  i = j
  BY <1>1 DEF IsInjective
<1>5. CASE i <= Len(q) /\ j <= Len(q)
  <2>1. i \in 1 .. Len(q) /\ j \in 1 .. Len(q)
    BY <1>5, <1>1
  <2> QED  BY <2>1, <1>1, <1>2, <1>4 DEF IsInjective
<1>6. CASE i > Len(q) /\ j > Len(q)
  <2>1. i - Len(q) \in 1 .. Len(r) /\ j - Len(q) \in 1 .. Len(r)
    BY <1>6, <1>3
  <2>2. r[i - Len(q)] = r[j - Len(q)]
    BY <1>6, <1>2, <1>4
  <2>3. i - Len(q) = j - Len(q)
    BY <2>1, <2>2, <1>1 DEF IsInjective
  <2> QED  BY <2>3, <1>1
<1>7. CASE i <= Len(q) /\ j > Len(q)
  <2>1. (q \o r)[i] \in Lines(q)
    BY <1>7, <1>1, <1>2 DEF Lines, ToSet
  <2>2. (q \o r)[j] \in Lines(r)
    BY <1>7, <1>1, <1>2, <1>3 DEF Lines, ToSet
  <2> QED  BY <2>1, <2>2, <1>4
<1>8. CASE i > Len(q) /\ j <= Len(q)
  <2>1. (q \o r)[j] \in Lines(q)
    BY <1>8, <1>1, <1>2 DEF Lines, ToSet
  <2>2. (q \o r)[i] \in Lines(r)
    BY <1>8, <1>1, <1>2, <1>3 DEF Lines, ToSet
  <2> QED  BY <2>1, <2>2, <1>4
<1> QED  BY <1>1, <1>5, <1>6, <1>7, <1>8

\* A sequence as long as the finite set its elements are distinct members of.
LEMMA AllListed ==
    ASSUME NEW S, IsFiniteSet(S), NEW q \in [1 .. Cardinality(S) -> S], IsInjective(q)
    PROVE  q \in Seq(S) /\ Lines(q) = S
<1>1. Cardinality(S) \in Nat
  BY FS_CardinalityType
<1>2. q \in Injection(1 .. Cardinality(S), S)
  BY DEF Injection
<1>3. Cardinality(1 .. Cardinality(S)) = Cardinality(S)
  BY <1>1, FS_Interval
<1>4. q \in Surjection(1 .. Cardinality(S), S)
  BY <1>2, <1>3, FS_Injection
<1>5. q \in Seq(S) /\ DOMAIN q = 1 .. Cardinality(S)
  BY <1>1
<1>6. \A x \in S : \E i \in 1 .. Cardinality(S) : q[i] = x
  BY <1>4 DEF Surjection
<1> QED  BY <1>5, <1>6 DEF Lines, ToSet

-----------------------------------------------------------------------------
(* The shape of the state.                                                 *)

Pcs == {"idle", "stat", "read", "load", "append", "sync", "restat", "unlink"}

DayType ==
    /\ dtext \in [Day -> Seq(Line)] /\ dopen \subseteq Day
    /\ synced \in [Day -> Nat] /\ \A d \in Day : synced[d] <= Len(dtext[d])
    /\ mtime \in [Source \cup Day -> 1 .. now]

RestType ==
    /\ sweeping \subseteq Source \cup Day
    /\ now \in 1 .. MaxTime /\ wrote \in [Line -> 0 .. now] /\ faults \in Nat
    /\ window \in [Line -> SUBSET {"orphan", "gap", "swept", "unsynced"}] /\ purged \subseteq Line

LEMMA OpenType ==
    ASSUME TypeOK, NEW L, NEW w \in {"orphan", "gap", "swept", "unsynced"}
    PROVE  /\ Open(L, w) \in [Line -> SUBSET {"orphan", "gap", "swept", "unsynced"}]
           /\ \A l \in Line : window[l] \subseteq Open(L, w)[l]
           /\ \A l \in Line : l \in L => w \in Open(L, w)[l]
BY DEF TypeOK, Open

LEMMA EndGroupType ==
    ASSUME TypeOK, NEW d, EndGroup(d), batch' = batch
    PROVE  CycleType'
BY DEF TypeOK, CycleType, EndGroup, None, NoToken

LEMMA StopType ==
    ASSUME TypeOK, Stop
    PROVE  CycleType' /\ (sweeping \subseteq Source \cup Day)'
<1>1. <<>> \in Seq(Line)
  OBVIOUS
<1> QED  BY <1>1 DEF TypeOK, CycleType, Stop, None, NoToken

LEMMA NowFacts ==
    ASSUME TypeOK
    PROVE  now \in Nat /\ now \in 1 .. now /\ now \in 0 .. now /\ MaxTime \in Nat
BY BoundAssumption DEF TypeOK

LEMMA CutType ==
    ASSUME TypeOK, cur \in Day, pc = "append", Cut, UNCHANGED <<synced, now>>
    PROVE  DayType'
<1>1. PICK k \in 0 .. Len(payload) :
        /\ dtext' = [dtext EXCEPT ![cur] = @ \o SubSeq(payload, 1, k)]
        /\ dopen' = dopen \cup {cur}
        /\ mtime' = [mtime EXCEPT ![cur] = now]
  BY DEF Cut
<1>2. /\ dtext \in [Day -> Seq(Line)] /\ payload \in Seq(Line) /\ dopen \subseteq Day
      /\ synced \in [Day -> Nat] /\ \A d \in Day : synced[d] <= Len(dtext[d])
      /\ mtime \in [Source \cup Day -> 1 .. now]
  BY DEF TypeOK, FileType, CycleType
<1>3. SubSeq(payload, 1, k) \in Seq(Line)
  BY <1>2, PrefixFacts
<1>4. /\ dtext[cur] \o SubSeq(payload, 1, k) \in Seq(Line)
      /\ Len(dtext[cur] \o SubSeq(payload, 1, k)) >= Len(dtext[cur])
  BY <1>2, <1>3
<1>5. dtext' \in [Day -> Seq(Line)] /\ \A d \in Day : Len(dtext'[d]) >= Len(dtext[d])
  BY <1>1, <1>2, <1>4
<1>6. mtime' \in [Source \cup Day -> 1 .. now]
  BY <1>1, <1>2, NowFacts
<1>7. \A d \in Day : synced[d] <= Len(dtext'[d])
  <2> SUFFICES ASSUME NEW d \in Day PROVE synced[d] <= Len(dtext'[d])
    OBVIOUS
  <2>1. synced[d] \in Nat /\ Len(dtext[d]) \in Nat /\ Len(dtext'[d]) \in Nat
    BY <1>2, <1>5
  <2> QED  BY <1>2, <1>5, <2>1
<1> QED  BY <1>1, <1>2, <1>5, <1>6, <1>7 DEF DayType

-----------------------------------------------------------------------------
(* Every step of a writer keeps it.                                        *)

LEMMA WrapperWriteType ==
    ASSUME TypeOK, NEW l \in Line, WrapperWrite(l)
    PROVE  TypeOK'
<1> DEFINE s == Owner[l]
<1>1. s \in Source
  BY LineAssumption
<1>2. /\ s \in present => /\ text' = [text EXCEPT ![s] = Append(@, l)]
                          /\ mtime' = [mtime EXCEPT ![s] = now] /\ window' = window
      /\ s \notin present => window' = Open({l}, "orphan") /\ text' = text /\ mtime' = mtime
      /\ writer' \in {writer, [writer EXCEPT ![s] = "ending"]}
      /\ ended' \in {ended, ended \cup ({s} \cap present)}
      /\ wrote' = [wrote EXCEPT ![l] = now]
      /\ UNCHANGED <<present, torn, dayVars, cycleVars, sweeping, now, faults, purged>>
  BY DEF WrapperWrite
<1>3. text[s] \in Seq(Line) /\ Append(text[s], l) \in Seq(Line)
  BY <1>1, LinesAppend DEF TypeOK, FileType
<1>4. text' \in [Source -> Seq(Line)]
  BY <1>1, <1>2, <1>3 DEF TypeOK, FileType
<1>5. mtime' \in [Source \cup Day -> 1 .. now]
  BY <1>1, <1>2, NowFacts, ZenonT(60) DEF TypeOK, FileType
<1>6. window' \in [Line -> SUBSET {"orphan", "gap", "swept", "unsynced"}]
  BY <1>2, OpenType DEF TypeOK
<1>7. writer' \in [Source -> {"live", "ending", "gone"}]
  BY <1>1, <1>2 DEF TypeOK, FileType
<1>8. wrote' \in [Line -> 0 .. now]
  BY <1>2, NowFacts DEF TypeOK
<1>9. FileType'
  BY <1>1, <1>2, <1>4, <1>5, <1>7 DEF TypeOK, FileType, dayVars
<1>10. CycleType'
  BY <1>2 DEF TypeOK, CycleType, cycleVars
<1> QED  BY <1>2, <1>6, <1>8, <1>9, <1>10 DEF TypeOK

LEMMA IngestWriteType ==
    ASSUME TypeOK, NEW l \in Line, IngestWrite(l)
    PROVE  TypeOK'
<1> DEFINE s == Owner[l]
<1>1. s \in Source
  BY LineAssumption
<1>2. /\ text' = [text EXCEPT ![s] = IF s \in present THEN Append(@, l) ELSE <<l>>]
      /\ present' = present \cup {s} /\ mtime' = [mtime EXCEPT ![s] = now]
      /\ ended' \in {ended, ended \cup {s}}
      /\ wrote' = [wrote EXCEPT ![l] = now]
      /\ UNCHANGED <<torn, writer, dayVars, cycleVars, sweeping, now, faults, histVars>>
  BY DEF IngestWrite
<1>3. Append(text[s], l) \in Seq(Line) /\ <<l>> \in Seq(Line)
  BY <1>1, LinesAppend DEF TypeOK, FileType
<1>4. text' \in [Source -> Seq(Line)]
  BY <1>1, <1>2, <1>3 DEF TypeOK, FileType
<1>5. mtime' \in [Source \cup Day -> 1 .. now]
  BY <1>1, <1>2, NowFacts DEF TypeOK, FileType
<1>6. wrote' \in [Line -> 0 .. now]
  BY <1>2, NowFacts DEF TypeOK
<1>7. FileType'
  BY <1>1, <1>2, <1>4, <1>5 DEF TypeOK, FileType, dayVars
<1>8. CycleType'
  BY <1>2 DEF TypeOK, CycleType, cycleVars
<1> QED  BY <1>2, <1>6, <1>7, <1>8 DEF TypeOK, histVars

LEMMA WriterEndsType ==
    ASSUME TypeOK, NEW s \in Source, WrapperExit(s) \/ WrapperKilled(s)
    PROVE  TypeOK'
<1>1. /\ writer' = [writer EXCEPT ![s] = "gone"]
      /\ torn' \in {torn, torn \cup ({s} \cap present)}
      /\ mtime' \in {mtime, [mtime EXCEPT ![s] = now]}
      /\ faults' \in {faults, faults + 1}
      /\ UNCHANGED <<present, text, ended, dayVars, cycleVars, sweeping, now, wrote, histVars>>
  BY DEF WrapperExit, WrapperKilled, Fail, worldVars
<1>2. mtime' \in [Source \cup Day -> 1 .. now]
  BY <1>1, NowFacts DEF TypeOK, FileType
<1>3. FileType'
  BY <1>1, <1>2 DEF TypeOK, FileType, dayVars
<1>4. CycleType'
  BY <1>1 DEF TypeOK, CycleType, cycleVars
<1> QED  BY <1>1, <1>3, <1>4 DEF TypeOK, histVars

-----------------------------------------------------------------------------
(* Every step of the cycle.                                                *)

\* A step that leaves the files alone.
LEMMA QuietType ==
    ASSUME TypeOK, Quiet, DayType', faults' \in Nat, CycleType'
    PROVE  TypeOK'
BY DEF TypeOK, Quiet, FileType, DayType, fileVars, histVars

LEMMA DayKept ==
    ASSUME TypeOK, UNCHANGED <<dayVars, mtime, now>>
    PROVE  DayType'
BY DEF TypeOK, FileType, DayType, dayVars

LEMMA FailType ==
    ASSUME TypeOK, NEW kind, Fail(kind)
    PROVE  faults' \in Nat
BY DEF TypeOK, Fail

LEMMA ScanType ==
    ASSUME TypeOK, StartCycle \/ ScanRead \/ NextGroup \/ \E s \in Source : ScanStat(s)
    PROVE  TypeOK'
<1>1. Quiet /\ UNCHANGED <<dayVars, mtime, now, faults>>
  BY DEF StartCycle, ScanRead, NextGroup, ScanStat, Quiet
<1>2. DayType' /\ faults' \in Nat
  BY <1>1, DayKept DEF TypeOK
<1>3. CASE StartCycle
  <2>1. <<>> \in Seq(Line) /\ present \subseteq Source
    BY DEF TypeOK, FileType
  <2>2. CycleType'
    BY <2>1, <1>3 DEF TypeOK, CycleType, StartCycle, NoToken
  <2> QED  BY <2>2, <1>1, <1>2, QuietType
<1>4. CASE ScanRead
  <2>1. text \in [Source -> Seq(Line)] /\ present \subseteq Source
    BY DEF TypeOK, FileType
  <2>2. CycleType'
    BY <2>1, <1>4 DEF TypeOK, CycleType, ScanRead, NoToken, None
  <2> QED  BY <2>2, <1>1, <1>2, QuietType
<1>5. CASE NextGroup
  <2>1. Days \subseteq Day
    BY DayAssumption DEF Days, Entries
  <2>2. CycleType'
    BY <2>1, <1>5 DEF TypeOK, CycleType, NextGroup
  <2> QED  BY <2>2, <1>1, <1>2, QuietType
<1>6. ASSUME NEW s \in Source, ScanStat(s) PROVE TypeOK'
  <2>1. Token(s) \in Nat \X BOOLEAN \X Nat
    <3>1. Len(text[s]) \in Nat /\ (s \in torn) \in BOOLEAN /\ mtime[s] \in Nat
      BY DEF TypeOK, FileType
    <3> QED  BY <3>1, Zenon DEF Token
  <2>2. CycleType'
    BY <2>1, <1>6 DEF TypeOK, CycleType, ScanStat
  <2> QED  BY <2>2, <1>1, <1>2, QuietType
<1> QED  BY <1>3, <1>4, <1>5, <1>6

LEMMA BatchLines ==
    ASSUME TypeOK
    PROVE  \A G \in SUBSET Source : \A found : NewLines(G, found) \in SUBSET Line /\ IsFiniteSet(NewLines(G, found))
<1>1. SUFFICES ASSUME NEW G \in SUBSET Source, NEW found
               PROVE  NewLines(G, found) \in SUBSET Line /\ IsFiniteSet(NewLines(G, found))
  OBVIOUS
<1>2. \A s \in Source : Lines(batch[s]) \subseteq Line
  BY LinesOf DEF TypeOK, CycleType
<1>3. NewLines(G, found) \in SUBSET Line
  BY <1>2 DEF NewLines
<1> QED  BY <1>3, LineAssumption, FS_Subset

\* The payload is a sequence of the new lines, each once.
LEMMA PayloadFacts ==
    ASSUME TypeOK, NEW G \in SUBSET Source, NEW found, NEW q \in Payload(G, found)
    PROVE  /\ q \in Seq(Line) /\ IsInjective(q)
           /\ Lines(q) = NewLines(G, found)
<1>1. NewLines(G, found) \in SUBSET Line /\ IsFiniteSet(NewLines(G, found))
  BY BatchLines
<1>2. /\ q \in [1 .. Cardinality(NewLines(G, found)) -> NewLines(G, found)]
      /\ IsInjective(q)
  BY DEF Payload
<1>3. q \in Seq(NewLines(G, found)) /\ Lines(q) = NewLines(G, found)
  BY <1>1, <1>2, AllListed
<1> QED  BY <1>1, <1>2, <1>3

LEMMA LoadType ==
    ASSUME TypeOK, Load, cur \in Day
    PROVE  TypeOK'
<1>1. /\ Quiet /\ UNCHANGED <<dayVars, mtime, now, faults, token, batch, cur>>
      /\ ids' = Lines(dtext[cur]) /\ payload' \in Payload(Group(cur), ids')
      /\ todo' = Group(cur) /\ pc' \in {"restat", "append"}
  BY DEF Load, Quiet
<1>2. Group(cur) \subseteq Source
  BY DEF Group, Entries
<1>3. payload' \in Seq(Line)
  BY <1>1, <1>2, PayloadFacts
<1>4. ids' \subseteq Line
  BY <1>1, LinesOf DEF TypeOK, FileType
<1>5. CycleType'
  BY <1>1, <1>2, <1>3, <1>4 DEF TypeOK, CycleType
<1>6. DayType' /\ faults' \in Nat
  BY <1>1, DayKept DEF TypeOK
<1> QED  BY <1>1, <1>5, <1>6, QuietType

LEMMA GiveUpType ==
    ASSUME TypeOK, LoadFails \/ SyncFails \/ UnlinkFails \/ GroupDone
    PROVE  TypeOK'
<1>1. Quiet /\ UNCHANGED <<dayVars, mtime, now, batch>> /\ EndGroup(cur)
      /\ (faults' = faults \/ Fail("io"))
  BY DEF LoadFails, SyncFails, UnlinkFails, GroupDone, Quiet
<1>2. DayType' /\ faults' \in Nat
  BY <1>1, DayKept, FailType DEF TypeOK
<1> QED  BY <1>1, <1>2, EndGroupType, QuietType

LEMMA AppendType ==
    ASSUME TypeOK, cur \in Day, AppendLines \/ AppendFails
    PROVE  TypeOK'
<1>1. /\ UNCHANGED <<synced, fileVars, sweeping, now, wrote, histVars>> /\ pc = "append"
  BY DEF AppendLines, AppendFails, worldVars
<1>2. CASE AppendLines
  <2>1. /\ dtext \in [Day -> Seq(Line)] /\ payload \in Seq(Line) /\ dopen \subseteq Day
        /\ synced \in [Day -> Nat] /\ \A d \in Day : synced[d] <= Len(dtext[d])
        /\ mtime \in [Source \cup Day -> 1 .. now]
    BY <1>1 DEF TypeOK, FileType, CycleType
  <2>2. /\ dtext' = [dtext EXCEPT ![cur] = @ \o payload] /\ dopen' = dopen \ {cur}
        /\ mtime' = [mtime EXCEPT ![cur] = now] /\ pc' = "sync"
        /\ UNCHANGED <<todo, token, batch, cur, ids, payload, faults>>
    BY <1>2 DEF AppendLines, worldVars
  <2>3. dtext[cur] \o payload \in Seq(Line) /\ Len(dtext[cur] \o payload) >= Len(dtext[cur])
    BY <2>1
  <2>4. dtext' \in [Day -> Seq(Line)] /\ \A d \in Day : Len(dtext'[d]) >= Len(dtext[d])
    BY <2>1, <2>2, <2>3
  <2>5. mtime' \in [Source \cup Day -> 1 .. now]
    BY <2>1, <2>2, NowFacts
  <2>6. \A d \in Day : synced[d] <= Len(dtext'[d])
    <3> SUFFICES ASSUME NEW d \in Day PROVE synced[d] <= Len(dtext'[d])
      OBVIOUS
    <3>1. synced[d] \in Nat /\ Len(dtext[d]) \in Nat /\ Len(dtext'[d]) \in Nat
      BY <2>1, <2>4
    <3> QED  BY <2>1, <2>4, <3>1
  <2>7. FileType'
    BY <1>1, <2>1, <2>2, <2>4, <2>5, <2>6 DEF TypeOK, FileType, fileVars
  <2>8. CycleType'
    BY <2>2 DEF TypeOK, CycleType
  <2> QED  BY <1>1, <2>2, <2>7, <2>8 DEF TypeOK, histVars
<1>3. CASE AppendFails
  <2>1. Fail("io") /\ Cut /\ EndGroup(cur) /\ batch' = batch
    BY <1>3 DEF AppendFails
  <2>2. DayType' /\ CycleType' /\ faults' \in Nat
    BY <1>1, <2>1, CutType, EndGroupType, FailType
  <2> QED  BY <1>1, <2>2 DEF TypeOK, FileType, DayType, fileVars, histVars
<1> QED  BY <1>2, <1>3

LEMMA SyncType ==
    ASSUME TypeOK, cur \in Day, Sync
    PROVE  TypeOK'
<1>1. /\ pc' = "restat" /\ synced' = [synced EXCEPT ![cur] = Len(dtext[cur])] /\ Quiet
      /\ UNCHANGED <<todo, token, batch, cur, ids, payload, dtext, dopen, faults, mtime, now>>
  BY DEF Sync, Quiet
<1>2. CycleType'
  BY <1>1 DEF TypeOK, CycleType
<1>3. Len(dtext[cur]) \in Nat
  BY DEF TypeOK, FileType
<1>4. DayType'
  BY <1>1, <1>3 DEF TypeOK, FileType, DayType
<1> QED  BY <1>1, <1>2, <1>4, QuietType DEF TypeOK

LEMMA RestatType ==
    ASSUME TypeOK, NEW s \in Source, Restat(s)
    PROVE  TypeOK'
<1>1. Quiet /\ UNCHANGED <<dayVars, mtime, now, faults>>
  BY DEF Restat, Quiet
<1>2. <<s>> \in Seq(Source) /\ Len(<<s>>) = 1
  OBVIOUS
<1>3. CycleType'
  BY <1>2 DEF TypeOK, CycleType, Restat
<1> QED  BY <1>1, <1>3, DayKept, QuietType DEF TypeOK

LEMMA UnlinkType ==
    ASSUME TypeOK, Unlink
    PROVE  TypeOK'
<1> DEFINE s == payload[1]
           W == {"orphan", "gap", "swept", "unsynced"}
<1>1. /\ pc' = "restat" /\ payload' = <<>>
      /\ present' = present \ {s} /\ ended' = ended \ {s} /\ torn' = torn \ {s}
      /\ text' = [text EXCEPT ![s] = <<>>]
      /\ UNCHANGED <<todo, token, batch, cur, ids, writer, mtime, dayVars, sweeping,
                     worldVars, purged>>
  BY DEF Unlink
<1>2. window' \in [Line -> SUBSET W]
  <2>1. window' = [l \in Line |-> window[l]
                 \cup {w \in {"gap"} : l \in Lines(text[s]) \ Lines(batch[s])}
                 \cup {w \in {"unsynced"} : l \in Lines(text[s]) \cap (ids \ Synced(cur))}]
    BY DEF Unlink
  <2>2. \A l \in Line : window'[l] \subseteq W
    BY <2>1 DEF TypeOK
  <2> QED  BY <2>1, <2>2
<1>3. text' \in [Source -> Seq(Line)]
  <2>1. <<>> \in Seq(Line)
    OBVIOUS
  <2> QED  BY <1>1, <2>1 DEF TypeOK, FileType
<1>4. FileType'
  BY <1>1, <1>3 DEF TypeOK, FileType, dayVars, worldVars
<1>5. CycleType'
  BY <1>1 DEF TypeOK, CycleType
<1> QED  BY <1>1, <1>2, <1>4, <1>5 DEF TypeOK, worldVars

-----------------------------------------------------------------------------
(* Every step of the sweep, and the end of the app.                        *)

LEMMA SweepType ==
    ASSUME TypeOK, NEW f \in Source \cup Day, SweepCollect \/ SweepUnlink(f) \/ SweepFails(f)
    PROVE  TypeOK'
<1>1. CASE SweepCollect
  <2>1. UNCHANGED <<fileVars, mtime, dayVars, cycleVars, worldVars, histVars>>
        /\ sweeping' \subseteq Source \cup Day
    BY <1>1 DEF SweepCollect
  <2>2. FileType'
    BY <2>1 DEF TypeOK, FileType, fileVars, dayVars, worldVars
  <2>3. CycleType'
    BY <2>1 DEF TypeOK, CycleType, cycleVars
  <2> QED  BY <2>1, <2>2, <2>3 DEF TypeOK, worldVars, histVars
<1>2. CASE SweepFails(f)
  <2>1. UNCHANGED <<fileVars, mtime, dayVars, cycleVars, now, wrote, histVars>>
        /\ sweeping' = sweeping \ {f} /\ Fail("io")
    BY <1>2 DEF SweepFails
  <2>2. FileType'
    BY <2>1 DEF TypeOK, FileType, fileVars, dayVars
  <2>3. CycleType'
    BY <2>1 DEF TypeOK, CycleType, cycleVars
  <2> QED  BY <2>1, <2>2, <2>3, FailType DEF TypeOK, histVars
<1>3. CASE SweepUnlink(f)
  <2> DEFINE gone == Lines(IF f \in Day THEN dtext[f] ELSE text[f])
             old == {l \in gone : now - wrote[l] >= Keep}
  <2>1. /\ sweeping' = sweeping \ {f}
        /\ present' = present \ {f} /\ ended' = ended \ {f} /\ torn' = torn \ {f}
        /\ text' = [s \in Source |-> IF s = f THEN <<>> ELSE text[s]]
        /\ dtext' = [d \in Day |-> IF d = f THEN <<>> ELSE dtext[d]]
        /\ synced' = [d \in Day |-> IF d = f THEN 0 ELSE synced[d]]
        /\ dopen' = dopen \ {f}
        /\ UNCHANGED <<writer, mtime, cycleVars, worldVars>>
    BY <1>3 DEF SweepUnlink
  <2>2. window' = Open(gone \ old, "swept") /\ purged' = purged \cup old
    BY <1>3 DEF SweepUnlink
  <2>3. gone \subseteq Line
    BY LinesOf DEF TypeOK, FileType
  <2>4. window' \in [Line -> SUBSET {"orphan", "gap", "swept", "unsynced"}] /\ purged' \subseteq Line
    BY <2>2, <2>3, OpenType DEF TypeOK
  <2>5. <<>> \in Seq(Line) /\ Len(<<>>) = 0
    OBVIOUS
  <2>6. text' \in [Source -> Seq(Line)] /\ dtext' \in [Day -> Seq(Line)]
    BY <2>1, <2>5 DEF TypeOK, FileType
  <2>7. synced' \in [Day -> Nat] /\ \A d \in Day : synced'[d] <= Len(dtext'[d])
    BY <2>1, <2>5 DEF TypeOK, FileType
  <2>8. FileType'
    BY <2>1, <2>6, <2>7 DEF TypeOK, FileType, worldVars
  <2>9. CycleType'
    BY <2>1 DEF TypeOK, CycleType, cycleVars
  <2> QED  BY <2>1, <2>4, <2>8, <2>9 DEF TypeOK, worldVars
<1> QED  BY <1>1, <1>2, <1>3

LEMMA TickType ==
    ASSUME TypeOK, Tick
    PROVE  TypeOK'
<1>1. /\ now < MaxTime /\ now' = now + 1
      /\ UNCHANGED <<fileVars, mtime, dayVars, cycleVars, sweeping, wrote, faults, histVars>>
  BY DEF Tick
<1>2. now' \in 1 .. MaxTime /\ 1 .. now \subseteq 1 .. now' /\ 0 .. now \subseteq 0 .. now'
  BY <1>1, NowFacts
<1>3. FileType'
  BY <1>1, <1>2 DEF TypeOK, FileType, fileVars, dayVars
<1>4. CycleType'
  BY <1>1 DEF TypeOK, CycleType, cycleVars
<1> QED  BY <1>1, <1>2, <1>3, <1>4 DEF TypeOK, histVars

LEMMA CrashType ==
    ASSUME TypeOK, pc = "append" => cur \in Day, Crash
    PROVE  TypeOK'
<1>1. /\ Fail("crash") /\ Stop
      /\ UNCHANGED <<fileVars, synced, now, wrote, histVars>>
  BY DEF Crash
<1>2. DayType'
  <2>1. CASE pc = "append"
    BY <1>1, <2>1, CutType DEF Crash
  <2>2. CASE pc # "append"
    BY <1>1, <2>2, DayKept DEF Crash, dayVars
  <2> QED  BY <2>1, <2>2
<1>3. CycleType' /\ (sweeping \subseteq Source \cup Day)' /\ faults' \in Nat
  BY <1>1, StopType, FailType
<1> QED  BY <1>1, <1>2, <1>3 DEF TypeOK, FileType, DayType, fileVars, histVars

\* A power loss: one day file may be shorter, of lines no fsync covers.
LEMMA PowerFacts ==
    ASSUME TypeOK, PowerLoss
    PROVE  \E d \in Day : \E k \in 0 .. Len(dtext[d]) :
              /\ synced[d] <= k /\ synced[d] \in 0 .. k
              /\ dtext' = [dtext EXCEPT ![d] = SubSeq(@, 1, k)]
              /\ dopen' \in {dopen, dopen \cup {d}}
<1>1. PICK d \in Day : \E k \in synced[d] .. Len(dtext[d]) :
          /\ dtext' = [dtext EXCEPT ![d] = SubSeq(@, 1, k)]
          /\ dopen' = IF k < Len(dtext[d]) THEN dopen \cup {d} ELSE dopen
  BY DEF PowerLoss
<1>2. PICK k \in synced[d] .. Len(dtext[d]) :
          /\ dtext' = [dtext EXCEPT ![d] = SubSeq(@, 1, k)]
          /\ dopen' = IF k < Len(dtext[d]) THEN dopen \cup {d} ELSE dopen
  BY <1>1
<1>3. synced[d] \in Nat /\ Len(dtext[d]) \in Nat
  BY DEF TypeOK, FileType
<1>4. k \in 0 .. Len(dtext[d]) /\ synced[d] <= k /\ synced[d] \in 0 .. k
  BY <1>3
<1> QED  BY <1>2, <1>4

LEMMA PowerType ==
    ASSUME TypeOK, PowerLoss
    PROVE  TypeOK'
<1>0. PICK d \in Day : \E k \in 0 .. Len(dtext[d]) :
              /\ synced[d] <= k /\ synced[d] \in 0 .. k
              /\ dtext' = [dtext EXCEPT ![d] = SubSeq(@, 1, k)]
              /\ dopen' \in {dopen, dopen \cup {d}}
  BY PowerFacts
<1>1. PICK k \in 0 .. Len(dtext[d]) :
              /\ synced[d] <= k /\ synced[d] \in 0 .. k
              /\ dtext' = [dtext EXCEPT ![d] = SubSeq(@, 1, k)]
              /\ dopen' \in {dopen, dopen \cup {d}}
  BY <1>0
<1>2. /\ Fail("power") /\ Stop
      /\ writer' = [s \in Source |-> IF s \in Wrapper THEN "gone" ELSE writer[s]]
      /\ UNCHANGED <<present, text, torn, ended, mtime, synced, now, wrote, histVars>>
  BY DEF PowerLoss
<1>3. SubSeq(dtext[d], 1, k) \in Seq(Line) /\ Len(SubSeq(dtext[d], 1, k)) = k
  BY PrefixFacts DEF TypeOK, FileType
<1>4. dtext' \in [Day -> Seq(Line)] /\ \A e \in Day : synced[e] <= Len(dtext'[e])
  BY <1>1, <1>3 DEF TypeOK, FileType
<1>5. FileType'
  BY <1>1, <1>2, <1>4 DEF TypeOK, FileType
<1>6. CycleType' /\ (sweeping \subseteq Source \cup Day)' /\ faults' \in Nat
  BY <1>2, StopType, FailType
<1> QED  BY <1>2, <1>5, <1>6 DEF TypeOK, histVars

-----------------------------------------------------------------------------
(* The inductive invariant.  A line is in its session's file, or on its    *)
(* way: staged by the cycle in a batch, then in the payload, then in the   *)
(* day file but not yet under an fsync, and only then does the unlink      *)
(* come.                                                                   *)

Lost(l) == l \in purged \/ window[l] # {}
InFile(l, s) == s \in present /\ l \in Lines(text[s])

\* The group of s is at the unlinks: its file may be gone.
Leaving(s) == pc \in {"restat", "unlink"} /\ DayOf[s] = cur

TextOwner == \A s \in Source : \A l \in Lines(text[s]) : Owner[l] = s
BatchOwner == \A s \in Source : \A l \in Lines(batch[s]) : Owner[l] = s
DayOwner == \A d \in Day : \A l \in Lines(dtext[d]) : DayOf[Owner[l]] = d

CurInv ==
    /\ pc = "read" => cur \in Source
    /\ pc \in {"load", "append", "sync", "restat", "unlink"} => cur \in Day
    /\ pc \in {"append", "sync", "restat", "unlink"} => todo \subseteq Group(cur)
    /\ pc = "unlink" => payload[1] \in Group(cur)

\* The scan reaches a file once.
ScanInv == pc \in {"stat", "read"} => \A s \in todo : batch[s] = <<>>

\* What no fsync covers is still in a session file.
UnsyncedInv ==
    \A d \in Day : \A l \in Lines(dtext[d]) \ Synced(d) :
        Lost(l) \/ \E s \in Source : InFile(l, s)

BackedInv ==
    \A s \in Entries : \A l \in Lines(batch[s]) : Lost(l) \/ InFile(l, s) \/ Leaving(s)

PayloadInv == pc = "append" =>
    /\ IsInjective(payload)
    /\ \A l \in Lines(payload) : l \notin Lines(dtext[cur]) /\ \E s \in Group(cur) : l \in Lines(batch[s])

StagedInv == pc \in {"append", "sync", "restat", "unlink"} =>
    \A s \in Group(cur) : \A l \in Lines(batch[s]) :
       \/ Lost(l)
       \/ l \in Synced(cur)
       \/ l \in ids /\ l \in Lines(dtext[cur])
       \/ pc = "append" /\ l \in Lines(payload)
       \/ pc = "sync" /\ l \in Lines(dtext[cur])

\* What the cycle holds, and what the files hold.
CycleInv == BatchOwner /\ CurInv /\ ScanInv /\ BackedInv /\ PayloadInv /\ StagedInv
TrailInv == TextOwner /\ DayOwner /\ UnsyncedInv /\ NothingLost /\ OncePerDay

IInv == TypeOK /\ CycleInv /\ TrailInv

-----------------------------------------------------------------------------
(* Steps that leave the cycle and the day files alone.                     *)

LEMMA FilesStep ==
    ASSUME IInv, TypeOK', UNCHANGED <<dayVars, cycleVars>>, TextOwner',
           \A l \in Line : l \in purged => l \in purged',
           \A l \in Line : window[l] # {} => window'[l] # {},
           \A s \in present : s \in present' /\ Lines(text[s]) \subseteq Lines(text'[s]),
           \A l \in Line : wrote[l] = 0 /\ wrote'[l] # 0 =>
               \/ window'[l] # {}
               \/ \E s \in present' : l \in Lines(text'[s])
    PROVE  IInv'
<1>1. /\ dtext' = dtext /\ synced' = synced /\ dopen' = dopen
      /\ pc' = pc /\ todo' = todo /\ token' = token /\ batch' = batch /\ cur' = cur
      /\ ids' = ids /\ payload' = payload
  BY DEF dayVars, cycleVars
<1>2. /\ \A s \in Source : Lines(batch[s]) \subseteq Line
      /\ \A d \in Day : Lines(dtext[d]) \subseteq Line
  BY LinesOf DEF IInv, TypeOK, FileType, CycleType
<1>3. BatchOwner' /\ CurInv' /\ ScanInv' /\ PayloadInv'
  BY <1>1 DEF IInv, CycleInv, BatchOwner, CurInv, ScanInv, PayloadInv, Group, Entries
<1>4. BackedInv'
  BY <1>1, <1>2 DEF IInv, CycleInv, BackedInv, Lost, InFile, Leaving, Entries
<1>5. StagedInv'
  BY <1>1, <1>2 DEF IInv, CycleInv, StagedInv, Lost, Group, Entries, Synced
<1>6. UnsyncedInv'
  BY <1>1, <1>2 DEF IInv, TrailInv, UnsyncedInv, Lost, InFile, Synced
<1>7. DayOwner' /\ OncePerDay'
  BY <1>1 DEF IInv, TrailInv, DayOwner, OncePerDay
<1>8. NothingLost'
  BY <1>1 DEF IInv, TrailInv, NothingLost, View
<1> QED  BY <1>3, <1>4, <1>5, <1>6, <1>7, <1>8 DEF IInv, CycleInv, TrailInv

LEMMA WriterStep ==
    ASSUME IInv, TypeOK', NEW l \in Line, WrapperWrite(l) \/ IngestWrite(l)
    PROVE  IInv'
<1> DEFINE s == Owner[l]
<1>1. s \in Source /\ text \in [Source -> Seq(Line)] /\ window \in [Line -> SUBSET {"orphan", "gap", "swept", "unsynced"}]
      /\ wrote \in [Line -> 0 .. now] /\ present \subseteq Source
  BY LineAssumption DEF IInv, TypeOK, FileType
<1>2. UNCHANGED <<dayVars, cycleVars, purged>> /\ wrote' = [wrote EXCEPT ![l] = now]
  BY DEF WrapperWrite, IngestWrite, histVars
<1>3. CASE text' = [text EXCEPT ![s] = Append(@, l)] /\ present' = present \cup {s} /\ window' = window
  <2>1. Lines(text'[s]) = Lines(text[s]) \cup {l}
    BY <1>1, <1>3, LinesAppend
  <2>2. \A r \in Source : r # s => text'[r] = text[r]
    BY <1>1, <1>3
  <2>3. TextOwner'
    BY <2>1, <2>2 DEF IInv, TrailInv, TextOwner
  <2>4. \A r \in present : r \in present' /\ Lines(text[r]) \subseteq Lines(text'[r])
    BY <1>1, <1>3, <2>1, <2>2
  <2>5. \A m \in Line : wrote[m] = 0 /\ wrote'[m] # 0 => m = l
    BY <1>1, <1>2
  <2> QED  BY <1>2, <1>3, <2>1, <2>3, <2>4, <2>5, FilesStep
<1>4. CASE text' = [text EXCEPT ![s] = <<l>>] /\ s \notin present /\ present' = present \cup {s} /\ window' = window
  <2>1. Lines(text'[s]) = {l}
    <3>1. text'[s] = <<l>>
      BY <1>1, <1>4
    <3> QED  BY <3>1 DEF Lines, ToSet
  <2>2. \A r \in Source : r # s => text'[r] = text[r]
    BY <1>1, <1>4
  <2>3. TextOwner'
    BY <2>1, <2>2 DEF IInv, TrailInv, TextOwner
  <2>4. \A r \in present : r \in present' /\ Lines(text[r]) \subseteq Lines(text'[r])
    BY <1>1, <1>4, <2>2
  <2>5. \A m \in Line : wrote[m] = 0 /\ wrote'[m] # 0 => m = l
    BY <1>1, <1>2
  <2> QED  BY <1>2, <1>4, <2>1, <2>3, <2>4, <2>5, FilesStep
<1>5. CASE text' = text /\ present' = present /\ window' = Open({l}, "orphan")
  <2>1. \A m \in Line : window[m] \subseteq window'[m] /\ window'[l] # {}
    BY <1>5, OpenType DEF IInv
  <2>2. TextOwner'
    BY <1>5 DEF IInv, TrailInv, TextOwner
  <2>3. \A m \in Line : wrote[m] = 0 /\ wrote'[m] # 0 => m = l
    BY <1>1, <1>2
  <2>4. \A m \in Line : window[m] # {} => window'[m] # {}
    BY <2>1
  <2> QED  BY <1>2, <1>5, <2>1, <2>2, <2>3, <2>4, FilesStep
<1>6. CASE WrapperWrite(l)
  <2>1. CASE s \in present
    <3>1. text' = [text EXCEPT ![s] = Append(@, l)] /\ present' = present \cup {s} /\ window' = window
      BY <1>6, <2>1 DEF WrapperWrite
    <3> QED  BY <3>1, <1>3
  <2>2. CASE s \notin present
    <3>1. text' = text /\ present' = present /\ window' = Open({l}, "orphan")
      BY <1>6, <2>2 DEF WrapperWrite
    <3> QED  BY <3>1, <1>5
  <2> QED  BY <2>1, <2>2
<1>7. CASE IngestWrite(l)
  <2>1. text' = [text EXCEPT ![s] = IF s \in present THEN Append(@, l) ELSE <<l>>]
        /\ present' = present \cup {s} /\ window' = window
    BY <1>7 DEF IngestWrite, histVars
  <2>2. CASE s \in present
    BY <2>1, <2>2, <1>3
  <2>3. CASE s \notin present
    BY <2>1, <2>3, <1>4
  <2> QED  BY <2>2, <2>3
<1> QED  BY <1>6, <1>7

\* The other steps of the writers, of the sweep and of time write no line.
LEMMA IdleStep ==
    ASSUME IInv, TypeOK', UNCHANGED <<dayVars, cycleVars, present, text, wrote, histVars>>
    PROVE  IInv'
<1>1. TextOwner'
  BY DEF IInv, TrailInv, TextOwner
<1> QED  BY <1>1, FilesStep DEF histVars

-----------------------------------------------------------------------------
(* Steps of the cycle that leave the files alone.                          *)

\* Nothing the trail's invariants speak of changes.
LEMMA TrailKept ==
    ASSUME IInv, UNCHANGED <<fileVars, dayVars, wrote, histVars>>
    PROVE  TrailInv'
<1>1. /\ text' = text /\ dtext' = dtext /\ synced' = synced /\ present' = present
      /\ window' = window /\ purged' = purged /\ wrote' = wrote
  BY DEF fileVars, dayVars, histVars
<1>2. TextOwner' /\ DayOwner' /\ OncePerDay'
  BY <1>1 DEF IInv, TrailInv, TextOwner, DayOwner, OncePerDay
<1>3. UnsyncedInv'
  BY <1>1 DEF IInv, TrailInv, UnsyncedInv, Lost, InFile, Synced
<1>4. NothingLost'
  BY <1>1 DEF IInv, TrailInv, NothingLost, View
<1> QED  BY <1>2, <1>3, <1>4 DEF TrailInv

\* The group that ends leaves its files to the next cycle: what is in the other
\* batches is in the files.
LEMMA EndGroupStep ==
    ASSUME IInv, EndGroup(cur), batch' = batch, UNCHANGED <<present, text, histVars>>
    PROVE  CycleInv'
<1>1. /\ token' = [s \in Source |-> IF DayOf[s] = cur THEN NoToken ELSE token[s]]
      /\ pc' = "stat" /\ todo' = {} /\ batch' = batch
      /\ present' = present /\ text' = text /\ window' = window /\ purged' = purged
  BY DEF EndGroup, histVars
<1>2. BatchOwner' /\ CurInv' /\ ScanInv' /\ PayloadInv' /\ StagedInv'
  BY <1>1 DEF IInv, CycleInv, BatchOwner, CurInv, ScanInv, PayloadInv, StagedInv
<1>3. \A s \in Source : token'[s] # NoToken => token[s] # NoToken /\ DayOf[s] # cur
  BY <1>1
<1>4. BackedInv'
  BY <1>1, <1>3 DEF IInv, CycleInv, BackedInv, Lost, InFile, Leaving, Entries
<1> QED  BY <1>2, <1>4 DEF CycleInv

LEMMA GiveUpStep ==
    ASSUME IInv, TypeOK', LoadFails \/ SyncFails \/ UnlinkFails \/ GroupDone
    PROVE  IInv'
<1>1. Quiet /\ UNCHANGED <<dayVars, batch>> /\ EndGroup(cur)
  BY DEF LoadFails, SyncFails, UnlinkFails, GroupDone
<1>2. UNCHANGED <<fileVars, wrote, histVars, present, text>>
  BY <1>1 DEF Quiet, fileVars
<1> QED  BY <1>1, <1>2, EndGroupStep, TrailKept DEF IInv

LEMMA ScanStep ==
    ASSUME IInv, TypeOK', StartCycle \/ ScanRead \/ NextGroup \/ \E s \in Source : ScanStat(s)
    PROVE  IInv'
<1>1. Quiet /\ UNCHANGED <<dayVars, ids, payload>>
  BY DEF StartCycle, ScanRead, NextGroup, ScanStat
<1>2. /\ UNCHANGED <<fileVars, wrote, histVars>>
      /\ present' = present /\ text' = text /\ window' = window /\ purged' = purged
  BY <1>1 DEF Quiet, fileVars, histVars
<1>3. /\ text \in [Source -> Seq(Line)] /\ batch \in [Source -> Seq(Line)]
      /\ token \in [Source -> {NoToken} \cup (Nat \X BOOLEAN \X Nat)]
  BY DEF IInv, TypeOK, FileType, CycleType
<1>trail. TrailInv'
  BY <1>1, <1>2, TrailKept
<1>4. CASE StartCycle
  <2>1. pc' = "stat" /\ token' = [s \in Source |-> NoToken] /\ batch' = [s \in Source |-> <<>>]
    BY <1>4 DEF StartCycle
  <2>2. \A s \in Source : batch'[s] = <<>> /\ Lines(batch'[s]) = {} /\ token'[s] = NoToken
    BY <2>1, LinesEmpty
  <2>3. BatchOwner' /\ ScanInv' /\ BackedInv'
    BY <2>1, <2>2 DEF BatchOwner, ScanInv, BackedInv, Entries, TypeOK, CycleType
  <2>4. CurInv' /\ PayloadInv' /\ StagedInv'
    BY <2>1 DEF CurInv, PayloadInv, StagedInv
  <2> QED  BY <1>trail, <2>3, <2>4 DEF IInv, CycleInv
<1>5. CASE ScanRead
  <2>1. /\ pc = "read" /\ pc' = "stat" /\ todo' = todo \ {cur} /\ cur \in Source
        /\ \/ /\ cur \in present /\ batch' = [batch EXCEPT ![cur] = text[cur]] /\ token' = token
           \/ batch' = batch /\ token' = [token EXCEPT ![cur] = NoToken]
    BY <1>5 DEF ScanRead, IInv, CycleInv, CurInv
  <2>2. \A s \in Source : s # cur => batch'[s] = batch[s] /\ token'[s] = token[s]
    BY <1>3, <2>1
  <2>3. \/ batch'[cur] = text[cur] /\ cur \in present
        \/ batch'[cur] = batch[cur] /\ token'[cur] = NoToken
    BY <1>3, <2>1
  <2>4. BatchOwner'
    BY <2>1, <2>2, <2>3 DEF IInv, CycleInv, TrailInv, BatchOwner, TextOwner
  <2>5. ScanInv'
    <3>1. todo \subseteq Source
      BY DEF IInv, TypeOK, CycleType
    <3> QED  BY <2>1, <2>2, <3>1 DEF IInv, CycleInv, ScanInv
  <2>6. BackedInv'
    <3>1. SUFFICES ASSUME NEW s \in Source, token'[s] # NoToken, NEW l \in Lines(batch'[s])
                   PROVE  l \in purged' \/ window'[l] # {} \/ (s \in present' /\ l \in Lines(text'[s]))
      BY DEF BackedInv, Entries, Lost, InFile
    <3>2. CASE s = cur
      BY <3>1, <3>2, <2>3, <1>2
    <3>3. CASE s # cur
      BY <3>1, <3>3, <2>1, <2>2, <1>2 DEF IInv, CycleInv, BackedInv, Entries, Lost, InFile, Leaving
    <3> QED  BY <3>2, <3>3
  <2>7. CurInv' /\ PayloadInv' /\ StagedInv'
    BY <2>1 DEF CurInv, PayloadInv, StagedInv
  <2> QED  BY <1>trail, <2>4, <2>5, <2>6, <2>7 DEF IInv, CycleInv
<1>6. CASE NextGroup
  <2>1. /\ pc = "stat" /\ UNCHANGED <<todo, token, batch>>
        /\ \/ pc' = "idle"
           \/ pc' = "load" /\ cur' \in Days
    BY <1>6 DEF NextGroup
  <2>2. Days \subseteq Day
    BY DayAssumption DEF Days, Entries
  <2>3. BatchOwner' /\ ScanInv' /\ CurInv' /\ PayloadInv' /\ StagedInv'
    BY <2>1, <2>2 DEF IInv, CycleInv, BatchOwner, ScanInv, CurInv, PayloadInv, StagedInv
  <2>4. BackedInv'
    BY <1>2, <2>1 DEF IInv, CycleInv, BackedInv, Entries, Lost, InFile, Leaving
  <2> QED  BY <1>trail, <2>3, <2>4 DEF IInv, CycleInv
<1>7. ASSUME NEW s \in Source, ScanStat(s) PROVE IInv'
  <2>1. /\ pc = "stat" /\ s \in todo /\ batch' = batch /\ pc' \in {"stat", "read"}
        /\ todo' \subseteq todo
        /\ (pc' = "read" => cur' = s)
        /\ token' \in {token, [token EXCEPT ![s] = Token(s)]}
    BY <1>7 DEF ScanStat
  <2>2. batch[s] = <<>> /\ Lines(batch[s]) = {}
    BY <2>1, LinesEmpty DEF IInv, CycleInv, ScanInv
  <2>3. \A r \in Source : r # s => token'[r] = token[r]
    BY <1>3, <2>1
  <2>4. BatchOwner' /\ ScanInv' /\ CurInv' /\ PayloadInv' /\ StagedInv'
    BY <2>1 DEF IInv, CycleInv, BatchOwner, ScanInv, CurInv, PayloadInv, StagedInv
  <2>5. BackedInv'
    <3>1. SUFFICES ASSUME NEW r \in Source, token'[r] # NoToken, NEW l \in Lines(batch'[r])
                   PROVE  l \in purged' \/ window'[l] # {} \/ (r \in present' /\ l \in Lines(text'[r]))
      BY DEF BackedInv, Entries, Lost, InFile
    <3>2. r # s
      BY <3>1, <2>1, <2>2
    <3> QED  BY <3>1, <3>2, <2>1, <2>3, <1>2 DEF IInv, CycleInv, BackedInv, Entries, Lost, InFile, Leaving
  <2> QED  BY <1>trail, <2>4, <2>5 DEF IInv, CycleInv
<1> QED  BY <1>4, <1>5, <1>6, <1>7

\* What the day file has not is in the payload.
LEMMA LoadStep ==
    ASSUME IInv, TypeOK', Load
    PROVE  IInv'
<1>1. /\ pc = "load" /\ Quiet /\ UNCHANGED <<dayVars, token, batch, cur>>
      /\ ids' = Lines(dtext[cur]) /\ payload' \in Payload(Group(cur), ids')
      /\ todo' = Group(cur) /\ pc' \in {"restat", "append"}
      /\ (pc' = "restat" => payload' = <<>>)
  BY DEF Load
<1>2. /\ UNCHANGED <<fileVars, wrote, histVars>> /\ dtext' = dtext /\ cur' = cur
      /\ present' = present /\ text' = text /\ window' = window /\ purged' = purged
      /\ token' = token /\ batch' = batch
  BY <1>1 DEF Quiet, fileVars, histVars, dayVars
<1>3. cur \in Day /\ Group(cur) \subseteq Source /\ Group(cur)' = Group(cur)
  BY <1>1, <1>2 DEF IInv, CycleInv, CurInv, Group, Entries
<1>4. /\ payload' \in Seq(Line) /\ IsInjective(payload')
      /\ Lines(payload') = NewLines(Group(cur), ids')
  BY <1>1, <1>3, PayloadFacts DEF IInv
<1>listed. \A l : l \in Lines(payload') <=> (l \notin ids' /\ \E s \in Group(cur) : l \in Lines(batch[s]))
  BY <1>4 DEF NewLines
<1>5. BatchOwner' /\ ScanInv' /\ CurInv'
  BY <1>1, <1>2, <1>3 DEF IInv, CycleInv, BatchOwner, ScanInv, CurInv
<1>6. BackedInv'
  BY <1>1, <1>2 DEF IInv, CycleInv, BackedInv, Entries, Lost, InFile, Leaving
<1>7. PayloadInv'
  BY <1>1, <1>2, <1>3, <1>4, <1>listed DEF PayloadInv
<1>8. StagedInv'
  <2>1. SUFFICES ASSUME NEW s \in Group(cur), NEW l \in Lines(batch[s])
                 PROVE  (l \in ids' /\ l \in Lines(dtext[cur])) \/ (pc' = "append" /\ l \in Lines(payload'))
    BY <1>2, <1>3 DEF StagedInv
  <2>2. l \in ids' \/ l \in Lines(payload')
    BY <1>listed, <2>1
  <2>3. pc' = "restat" => Lines(payload') = {}
    BY <1>1, LinesEmpty
  <2> QED  BY <1>1, <2>2, <2>3
<1>9. TrailInv'
  BY <1>1, <1>2, TrailKept
<1> QED  BY <1>5, <1>6, <1>7, <1>8, <1>9 DEF IInv, CycleInv

LEMMA RestatStep ==
    ASSUME IInv, TypeOK', NEW s \in Source, Restat(s)
    PROVE  IInv'
<1>1. /\ pc = "restat" /\ s \in todo /\ todo' \subseteq todo /\ Quiet
      /\ UNCHANGED <<token, batch, cur, ids, dayVars>>
      /\ \/ pc' = "unlink" /\ payload' = <<s>>
         \/ pc' = "restat"
  BY DEF Restat
<1>2. /\ UNCHANGED <<fileVars, wrote, histVars>> /\ dtext' = dtext /\ synced' = synced
      /\ present' = present /\ text' = text /\ window' = window /\ purged' = purged
      /\ token' = token /\ batch' = batch /\ cur' = cur /\ ids' = ids
  BY <1>1 DEF Quiet, fileVars, histVars, dayVars
<1>3. todo \subseteq Group(cur) /\ cur \in Day /\ Group(cur)' = Group(cur)
  BY <1>1, <1>2 DEF IInv, CycleInv, CurInv, Group, Entries
<1>4. pc' = "unlink" => payload'[1] = s
  BY <1>1
<1>5. BatchOwner' /\ ScanInv' /\ PayloadInv'
  BY <1>1, <1>2 DEF IInv, CycleInv, BatchOwner, ScanInv, PayloadInv
<1>6. CurInv'
  BY <1>1, <1>2, <1>3, <1>4 DEF CurInv
<1>7. BackedInv'
  BY <1>1, <1>2 DEF IInv, CycleInv, BackedInv, Entries, Lost, InFile, Leaving
<1>8. StagedInv'
  BY <1>1, <1>2, <1>3 DEF IInv, CycleInv, StagedInv, Lost, Synced
<1>9. TrailInv'
  BY <1>1, <1>2, TrailKept
<1> QED  BY <1>5, <1>6, <1>7, <1>8, <1>9 DEF IInv, CycleInv

-----------------------------------------------------------------------------
(* The append and the fsync.                                               *)

LEMMA SyncedFacts ==
    ASSUME TypeOK, NEW d \in Day
    PROVE  /\ dtext[d] \in Seq(Line) /\ synced[d] \in 0 .. Len(dtext[d])
           /\ Synced(d) \subseteq Lines(dtext[d]) /\ Lines(dtext[d]) \subseteq Line
<1>1. dtext[d] \in Seq(Line) /\ synced[d] \in Nat /\ synced[d] <= Len(dtext[d])
  BY DEF TypeOK, FileType
<1>2. synced[d] \in 0 .. Len(dtext[d])
  BY <1>1
<1> QED  BY <1>1, <1>2, PrefixFacts, LinesOf DEF Synced

\* What the payload holds: new lines of the day, still in their files.
LEMMA AppendFacts ==
    ASSUME IInv, pc = "append"
    PROVE  /\ cur \in Day /\ payload \in Seq(Line) /\ IsInjective(payload)
           /\ \A l \in Lines(payload) :
                 /\ l \notin Lines(dtext[cur]) /\ DayOf[Owner[l]] = cur
                 /\ Lost(l) \/ \E s \in Source : InFile(l, s)
<1>1. /\ cur \in Day /\ payload \in Seq(Line) /\ IsInjective(payload)
      /\ \A l \in Lines(payload) : l \notin Lines(dtext[cur]) /\ \E s \in Group(cur) : l \in Lines(batch[s])
  BY DEF IInv, TypeOK, CycleType, CycleInv, CurInv, PayloadInv
<1>2. \A s \in Group(cur) : s \in Entries /\ s \in Source /\ DayOf[s] = cur
  BY DEF Group, Entries
<1>3. \A s \in Group(cur) : \A l \in Lines(batch[s]) : DayOf[Owner[l]] = cur
  BY <1>2 DEF IInv, CycleInv, BatchOwner
<1>4. \A s \in Group(cur) : \A l \in Lines(batch[s]) : Lost(l) \/ InFile(l, s)
  BY <1>2 DEF IInv, CycleInv, BackedInv, Leaving
<1> QED  BY <1>1, <1>2, <1>3, <1>4

\* A day file grows, by lines that are elsewhere too.
LEMMA GrowStep ==
    ASSUME IInv, cur \in Day, NEW q \in Seq(Line), IsInjective(q),
           \A l \in Lines(q) :
                 /\ l \notin Lines(dtext[cur]) /\ DayOf[Owner[l]] = cur
                 /\ Lost(l) \/ \E s \in Source : InFile(l, s),
           dtext' = [dtext EXCEPT ![cur] = @ \o q],
           UNCHANGED <<present, text, synced, wrote, histVars>>
    PROVE  /\ TrailInv'
           /\ Lines(dtext'[cur]) = Lines(dtext[cur]) \cup Lines(q)
           /\ \A d \in Day : SubSeq(dtext'[d], 1, synced'[d]) = SubSeq(dtext[d], 1, synced[d])
<1>1. /\ present' = present /\ text' = text /\ synced' = synced /\ wrote' = wrote
      /\ window' = window /\ purged' = purged
  BY DEF histVars
<1>2. \A d \in Day : dtext[d] \in Seq(Line) /\ synced[d] \in 0 .. Len(dtext[d])
  BY SyncedFacts DEF IInv
<1>3. dtext'[cur] = dtext[cur] \o q /\ \A d \in Day : d # cur => dtext'[d] = dtext[d]
  BY DEF IInv, TypeOK, FileType
<1>4. Lines(dtext'[cur]) = Lines(dtext[cur]) \cup Lines(q)
  <2>1. Lines(dtext[cur] \o q) = Lines(dtext[cur]) \cup Lines(q)
    BY <1>2, LinesConcat
  <2> QED  BY <2>1, <1>3
<1>5. \A d \in Day : SubSeq(dtext'[d], 1, synced'[d]) = SubSeq(dtext[d], 1, synced[d])
  <2>1. SubSeq(dtext[cur] \o q, 1, synced[cur]) = SubSeq(dtext[cur], 1, synced[cur])
    BY <1>2, PrefixOfConcat
  <2> QED  BY <1>1, <1>3, <2>1
<1>6. TextOwner'
  BY <1>1 DEF IInv, TrailInv, TextOwner
<1>7. DayOwner'
  BY <1>3, <1>4 DEF IInv, TrailInv, DayOwner
<1>8. UnsyncedInv'
  <2>1. SUFFICES ASSUME NEW d \in Day, NEW l \in Lines(dtext'[d]),
                        l \notin Lines(SubSeq(dtext'[d], 1, synced'[d]))
                 PROVE  \/ l \in purged \/ window[l] # {}
                        \/ \E s \in Source : s \in present /\ l \in Lines(text[s])
    BY <1>1 DEF UnsyncedInv, Lost, InFile, Synced
  <2>2. l \notin Synced(d)
    BY <2>1, <1>5 DEF Synced
  <2>3. CASE l \in Lines(dtext[d])
    BY <2>2, <2>3 DEF IInv, TrailInv, UnsyncedInv, Lost, InFile
  <2>4. CASE l \notin Lines(dtext[d])
    <3>1. l \in Lines(q)
      BY <2>1, <2>4, <1>3, <1>4
    <3> QED  BY <3>1 DEF Lost, InFile
  <2> QED  BY <2>3, <2>4
<1>9. \A d \in Day : Lines(dtext[d]) \subseteq Lines(dtext'[d])
  BY <1>3, <1>4
<1>10. NothingLost'
  BY <1>1, <1>9 DEF IInv, TrailInv, NothingLost, View
<1>11. OncePerDay'
  <2>1. IsInjective(dtext[cur] \o q)
    <3>1. IsInjective(dtext[cur])
      BY DEF IInv, TrailInv, OncePerDay
    <3>2. Lines(dtext[cur]) \cap Lines(q) = {}
      OBVIOUS
    <3> QED  BY <1>2, <3>1, <3>2, ConcatInjective
  <2> QED  BY <1>3, <2>1 DEF IInv, TrailInv, OncePerDay
<1> QED  BY <1>4, <1>5, <1>6, <1>7, <1>8, <1>10, <1>11 DEF TrailInv

LEMMA AppendStep ==
    ASSUME IInv, TypeOK', AppendLines
    PROVE  IInv'
<1>1. /\ pc = "append" /\ pc' = "sync" /\ dtext' = [dtext EXCEPT ![cur] = @ \o payload]
      /\ UNCHANGED <<todo, token, batch, cur, ids, payload, synced, present, text, wrote, histVars>>
      /\ window' = window /\ purged' = purged
  BY DEF AppendLines, fileVars, worldVars, histVars
<1>2. /\ TrailInv'
      /\ Lines(dtext'[cur]) = Lines(dtext[cur]) \cup Lines(payload)
      /\ \A d \in Day : SubSeq(dtext'[d], 1, synced'[d]) = SubSeq(dtext[d], 1, synced[d])
  BY <1>1, AppendFacts, GrowStep
<1>3. BatchOwner' /\ ScanInv' /\ PayloadInv'
  BY <1>1 DEF IInv, CycleInv, BatchOwner, ScanInv, PayloadInv
<1>4. cur \in Day /\ CurInv'
  BY <1>1 DEF IInv, CycleInv, CurInv, Group, Entries
<1>5. BackedInv'
  BY <1>1 DEF IInv, CycleInv, BackedInv, Entries, Lost, InFile, Leaving
<1>6. StagedInv'
  <2>1. SUFFICES ASSUME NEW s \in Group(cur), NEW l \in Lines(batch[s])
                 PROVE  \/ l \in purged \/ window[l] # {}
                        \/ l \in Lines(SubSeq(dtext'[cur], 1, synced'[cur]))
                        \/ l \in Lines(dtext'[cur])
    BY <1>1 DEF StagedInv, Lost, Group, Entries, Synced
  <2>2. \/ Lost(l) \/ l \in Synced(cur) \/ l \in Lines(dtext[cur]) \/ l \in Lines(payload)
    BY <1>1, <2>1 DEF IInv, CycleInv, StagedInv
  <2> QED  BY <1>2, <1>4, <2>2 DEF Lost, Synced
<1> QED  BY <1>2, <1>3, <1>4, <1>5, <1>6 DEF IInv, CycleInv

\* An append cut short adds some of the payload.
LEMMA CutStep ==
    ASSUME IInv, pc = "append", Cut, UNCHANGED <<present, text, synced, wrote, histVars>>
    PROVE  TrailInv'
<1>1. PICK k \in 0 .. Len(payload) : dtext' = [dtext EXCEPT ![cur] = @ \o SubSeq(payload, 1, k)]
  BY DEF Cut
<1>2. /\ SubSeq(payload, 1, k) \in Seq(Line) /\ IsInjective(SubSeq(payload, 1, k))
      /\ Lines(SubSeq(payload, 1, k)) \subseteq Lines(payload)
  BY AppendFacts, PrefixFacts, PrefixInjective
<1> QED  BY <1>1, <1>2, AppendFacts, GrowStep

LEMMA AppendFailsStep ==
    ASSUME IInv, TypeOK', AppendFails
    PROVE  IInv'
<1>1. /\ pc = "append" /\ Cut /\ EndGroup(cur) /\ batch' = batch
      /\ UNCHANGED <<present, text, synced, wrote, histVars>>
  BY DEF AppendFails, fileVars
<1> QED  BY <1>1, CutStep, EndGroupStep DEF IInv

LEMMA SyncStep ==
    ASSUME IInv, TypeOK', Sync
    PROVE  IInv'
<1>1. /\ pc = "sync" /\ pc' = "restat" /\ synced' = [synced EXCEPT ![cur] = Len(dtext[cur])]
      /\ UNCHANGED <<todo, token, batch, cur, ids, dtext, present, text, wrote, histVars>>
      /\ window' = window /\ purged' = purged
  BY DEF Sync, Quiet, fileVars, histVars
<1>2. cur \in Day /\ todo \subseteq Group(cur)
  BY <1>1 DEF IInv, CycleInv, CurInv
<1>3. /\ Lines(SubSeq(dtext'[cur], 1, synced'[cur])) = Lines(dtext[cur])
      /\ \A d \in Day : d # cur => synced'[d] = synced[d]
  <2>1. synced'[cur] = Len(dtext[cur]) /\ \A d \in Day : d # cur => synced'[d] = synced[d]
    BY <1>1, <1>2 DEF IInv, TypeOK, FileType
  <2>2. SubSeq(dtext[cur], 1, Len(dtext[cur])) = dtext[cur]
    BY <1>2, SyncedFacts, WholePrefix DEF IInv
  <2> QED  BY <1>1, <2>1, <2>2
<1>4. BatchOwner' /\ ScanInv' /\ PayloadInv'
  BY <1>1 DEF IInv, CycleInv, BatchOwner, ScanInv, PayloadInv
<1>5. CurInv'
  BY <1>1, <1>2 DEF CurInv, Group, Entries
<1>6. BackedInv'
  BY <1>1 DEF IInv, CycleInv, BackedInv, Entries, Lost, InFile, Leaving
<1>7. StagedInv'
  <2>1. SUFFICES ASSUME NEW s \in Group(cur), NEW l \in Lines(batch[s])
                 PROVE  \/ l \in purged \/ window[l] # {}
                        \/ l \in Lines(SubSeq(dtext'[cur], 1, synced'[cur]))
    BY <1>1 DEF StagedInv, Lost, Group, Entries, Synced
  <2>2. \/ Lost(l) \/ l \in Synced(cur) \/ l \in Lines(dtext[cur])
    BY <1>1, <2>1 DEF IInv, CycleInv, StagedInv
  <2>3. Synced(cur) \subseteq Lines(dtext[cur])
    BY <1>2, SyncedFacts DEF IInv
  <2> QED  BY <1>3, <2>2, <2>3 DEF Lost
<1>8. TextOwner' /\ DayOwner' /\ OncePerDay'
  BY <1>1 DEF IInv, TrailInv, TextOwner, DayOwner, OncePerDay
<1>9. UnsyncedInv'
  <2>1. SUFFICES ASSUME NEW d \in Day, NEW l \in Lines(dtext'[d]),
                        l \notin Lines(SubSeq(dtext'[d], 1, synced'[d]))
                 PROVE  \/ l \in purged \/ window[l] # {}
                        \/ \E s \in Source : s \in present /\ l \in Lines(text[s])
    BY <1>1 DEF UnsyncedInv, Lost, InFile, Synced
  <2>2. d # cur
    BY <1>1, <1>3, <2>1
  <2>3. l \in Lines(dtext[d]) /\ l \notin Synced(d)
    BY <1>1, <1>3, <2>1, <2>2 DEF Synced
  <2> QED  BY <2>3 DEF IInv, TrailInv, UnsyncedInv, Lost, InFile
<1>10. NothingLost'
  BY <1>1 DEF IInv, TrailInv, NothingLost, View
<1> QED  BY <1>4, <1>5, <1>6, <1>7, <1>8, <1>9, <1>10 DEF IInv, CycleInv, TrailInv

-----------------------------------------------------------------------------
(* What removes: the unlink, the sweep, the end of the app.                *)

\* The unlink removes a file of the group: each of its lines was not read by the
\* cycle, or is in the day file.
LEMMA UnlinkStep ==
    ASSUME IInv, TypeOK', Unlink
    PROVE  IInv'
<1> DEFINE f == payload[1]
<1>1. /\ pc = "unlink" /\ pc' = "restat"
      /\ present' = present \ {f} /\ text' = [text EXCEPT ![f] = <<>>]
      /\ UNCHANGED <<todo, token, batch, cur, ids, dtext, synced, wrote>> /\ purged' = purged
  BY DEF Unlink, dayVars, worldVars
<1>2. f \in Group(cur) /\ f \in Source /\ DayOf[f] = cur /\ cur \in Day /\ todo \subseteq Group(cur)
  BY <1>1 DEF IInv, CycleInv, CurInv, Group, Entries
<1>3. \A l \in Line :
         /\ window[l] \subseteq window'[l]
         /\ l \in Lines(text[f]) /\ l \notin Lines(batch[f]) => window'[l] # {}
         /\ l \in Lines(text[f]) /\ l \in ids /\ l \notin Synced(cur) => window'[l] # {}
  <2>1. window' = [l \in Line |-> window[l]
                 \cup {w \in {"gap"} : l \in Lines(text[f]) \ Lines(batch[f])}
                 \cup {w \in {"unsynced"} : l \in Lines(text[f]) \cap (ids \ Synced(cur))}]
    BY DEF Unlink
  <2>2. \A l \in Line :
         /\ window[l] \subseteq window'[l]
         /\ l \in Lines(text[f]) /\ l \notin Lines(batch[f]) => "gap" \in window'[l]
         /\ l \in Lines(text[f]) /\ l \in ids /\ l \notin Synced(cur) => "unsynced" \in window'[l]
    BY <2>1
  <2> QED  BY <2>2
<1>4. \A s \in Source : s # f => text'[s] = text[s]
  BY <1>1 DEF IInv, TypeOK, FileType
<1>5. /\ \A s \in Source : Lines(text[s]) \subseteq Line /\ Lines(batch[s]) \subseteq Line
      /\ \A d \in Day : Lines(dtext[d]) \subseteq Line
  BY LinesOf DEF IInv, TypeOK, FileType, CycleType
\* Each line of the file is in the day file, unless a window lost it.
<1>6. \A l \in Lines(text[f]) : \/ l \in purged \/ window'[l] # {}
                                \/ l \in Synced(cur)
  <2>1. SUFFICES ASSUME NEW l \in Lines(text[f]), l \notin purged, window'[l] = {}
                 PROVE  l \in Synced(cur)
    OBVIOUS
  <2>2. l \in Line /\ l \in Lines(batch[f]) /\ window[l] = {}
    BY <2>1, <1>2, <1>3, <1>5
  <2>3. l \in Synced(cur) \/ l \in ids
    BY <2>1, <2>2, <1>1, <1>2 DEF IInv, CycleInv, StagedInv, Lost
  <2> QED  BY <2>1, <2>2, <2>3, <1>3
<1>7. BatchOwner' /\ ScanInv' /\ PayloadInv'
  BY <1>1 DEF IInv, CycleInv, BatchOwner, ScanInv, PayloadInv
<1>8. CurInv'
  BY <1>1, <1>2 DEF CurInv, Group, Entries
<1>9. BackedInv'
  <2>1. SUFFICES ASSUME NEW s \in Source, token[s] # NoToken, NEW l \in Lines(batch[s]), DayOf[s] # cur
                 PROVE  l \in purged \/ window'[l] # {} \/ (s \in present' /\ l \in Lines(text'[s]))
    BY <1>1 DEF BackedInv, Entries, Lost, InFile, Leaving
  <2>2. Lost(l) \/ InFile(l, s)
    BY <2>1 DEF IInv, CycleInv, BackedInv, Entries, Leaving
  <2>3. s # f /\ l \in Line
    BY <2>1, <1>2, <1>5
  <2> QED  BY <2>2, <2>3, <1>1, <1>3, <1>4 DEF Lost, InFile
<1>10. StagedInv'
  <2>1. SUFFICES ASSUME NEW s \in Group(cur), NEW l \in Lines(batch[s])
                 PROVE  \/ l \in purged \/ window'[l] # {} \/ l \in Synced(cur)
                        \/ l \in ids /\ l \in Lines(dtext[cur])
    BY <1>1 DEF StagedInv, Lost, Group, Entries, Synced
  <2>2. l \in Line
    BY <1>5 DEF Group, Entries
  <2> QED  BY <2>1, <2>2, <1>1, <1>3 DEF IInv, CycleInv, StagedInv, Lost
<1>11. TextOwner'
  <2>1. text'[f] = <<>> /\ Lines(text'[f]) = {}
    BY <1>1, <1>2, LinesEmpty DEF IInv, TypeOK, FileType
  <2> QED  BY <1>4, <2>1 DEF IInv, TrailInv, TextOwner
<1>12. DayOwner' /\ OncePerDay'
  BY <1>1 DEF IInv, TrailInv, DayOwner, OncePerDay
<1>13. UnsyncedInv'
  <2>1. SUFFICES ASSUME NEW d \in Day, NEW l \in Lines(dtext[d]), l \notin Synced(d),
                        l \notin purged, window'[l] = {}
                 PROVE  \E s \in Source : s \in present' /\ l \in Lines(text'[s])
    BY <1>1 DEF UnsyncedInv, Lost, InFile, Synced
  <2>2. l \in Line /\ window[l] = {}
    BY <2>1, <1>3, <1>5
  <2>3. PICK s \in Source : s \in present /\ l \in Lines(text[s])
    BY <2>1, <2>2 DEF IInv, TrailInv, UnsyncedInv, Lost, InFile
  <2>4. s # f
    <3>1. SUFFICES ASSUME s = f PROVE FALSE
      OBVIOUS
    <3>2. Owner[l] = f /\ DayOf[Owner[l]] = d
      BY <2>1, <2>3, <3>1 DEF IInv, TrailInv, TextOwner, DayOwner
    <3> QED  BY <2>1, <2>3, <3>1, <3>2, <1>2, <1>6
  <2> QED  BY <2>3, <2>4, <1>1, <1>4
<1>14. NothingLost'
  <2>1. SUFFICES ASSUME NEW l \in Line, wrote[l] # 0, l \notin purged, window'[l] = {}
                 PROVE  l \in View'
    BY <1>1 DEF NothingLost
  <2>2. l \in View
    BY <2>1, <1>3 DEF IInv, TrailInv, NothingLost
  <2>3. CASE \E d \in Day : l \in Lines(dtext[d])
    BY <2>3, <1>1 DEF View
  <2>4. CASE \E s \in present : s # f /\ l \in Lines(text[s])
    <3>1. present \subseteq Source
      BY DEF IInv, TypeOK, FileType
    <3> QED  BY <2>4, <3>1, <1>1, <1>4 DEF View
  <2>5. CASE l \in Lines(text[f])
    <3>1. l \in Lines(dtext[cur])
      BY <2>1, <2>5, <1>2, <1>6, SyncedFacts DEF IInv
    <3> QED  BY <3>1, <1>1, <1>2 DEF View
  <2> QED  BY <2>2, <2>3, <2>4, <2>5 DEF View
<1>15. CycleInv' /\ TrailInv'
  BY <1>7, <1>8, <1>9, <1>10, <1>11, <1>12, <1>13, <1>14 DEF CycleInv, TrailInv
<1> QED  BY <1>15 DEF IInv

\* The sweep removes a whole file: its lines are past their age, or were written
\* after its look.
LEMMA SweepStep ==
    ASSUME IInv, TypeOK', NEW f \in Source \cup Day, SweepUnlink(f)
    PROVE  IInv'
<1>1. /\ present' = present \ {f}
      /\ text' = [s \in Source |-> IF s = f THEN <<>> ELSE text[s]]
      /\ dtext' = [d \in Day |-> IF d = f THEN <<>> ELSE dtext[d]]
      /\ synced' = [d \in Day |-> IF d = f THEN 0 ELSE synced[d]]
      /\ UNCHANGED <<pc, todo, token, batch, cur, ids, payload, wrote>>
  BY DEF SweepUnlink, cycleVars, worldVars
<1>2. /\ \A s \in Source : Lines(text[s]) \subseteq Line /\ Lines(batch[s]) \subseteq Line
      /\ \A d \in Day : Lines(dtext[d]) \subseteq Line /\ Synced(d) \subseteq Lines(dtext[d])
  BY LinesOf, SyncedFacts DEF IInv, TypeOK, FileType, CycleType
<1>3. /\ \A l \in Line : l \in purged => l \in purged'
      /\ \A l \in Line : window[l] # {} => window'[l] # {}
      /\ \A l \in Lines(IF f \in Day THEN dtext[f] ELSE text[f]) : l \in purged' \/ window'[l] # {}
  <2> DEFINE gone == Lines(IF f \in Day THEN dtext[f] ELSE text[f])
             old == {l \in gone : now - wrote[l] >= Keep}
  <2>1. window' = Open(gone \ old, "swept") /\ purged' = purged \cup old
    BY DEF SweepUnlink
  <2>2. gone \subseteq Line
    BY <1>2
  <2>3. /\ \A l \in Line : window[l] \subseteq window'[l]
        /\ \A l \in Line : l \in gone \ old => "swept" \in window'[l]
    BY <2>1, OpenType DEF IInv
  <2> HIDE DEF gone, old
  <2>4. \A l \in gone : l \in purged' \/ window'[l] # {}
    BY <2>1, <2>2, <2>3
  <2> QED  BY <2>1, <2>3, <2>4 DEF gone
\* A line that is not lost by it is where it was.
<1>4. \A s \in Source : \A l \in Lines(text[s]) :
         \/ l \in purged' \/ window'[l] # {}
         \/ s # f /\ text'[s] = text[s]
  BY <1>1, <1>3, DayAssumption
<1>5. \A d \in Day : \A l \in Lines(dtext[d]) :
         \/ l \in purged' \/ window'[l] # {}
         \/ d # f /\ dtext'[d] = dtext[d] /\ synced'[d] = synced[d]
  BY <1>1, <1>3
<1>6. /\ \A s \in Source : Lines(text'[s]) \subseteq Lines(text[s])
      /\ \A d \in Day : /\ dtext'[d] = <<>> \/ dtext'[d] = dtext[d]
                        /\ Lines(dtext'[d]) \subseteq Lines(dtext[d])
      /\ \A d \in Day : \A l \in Lines(dtext'[d]) : dtext'[d] = dtext[d] /\ synced'[d] = synced[d]
  BY <1>1, LinesEmpty
<1>7. BatchOwner' /\ ScanInv'
  BY <1>1 DEF IInv, CycleInv, BatchOwner, ScanInv
<1>8. CurInv'
  BY <1>1 DEF IInv, CycleInv, CurInv, Group, Entries
<1>9. BackedInv'
  <2>1. SUFFICES ASSUME NEW s \in Source, token[s] # NoToken, NEW l \in Lines(batch[s]), ~Leaving(s)
                 PROVE  l \in purged' \/ window'[l] # {} \/ (s \in present' /\ l \in Lines(text'[s]))
    BY <1>1 DEF BackedInv, Entries, Lost, InFile, Leaving
  <2>2. Lost(l) \/ InFile(l, s)
    BY <2>1 DEF IInv, CycleInv, BackedInv, Entries
  <2>3. l \in Line
    BY <1>2
  <2> QED  BY <2>2, <2>3, <1>1, <1>3, <1>4 DEF Lost, InFile
<1>10. PayloadInv'
  <2>1. SUFFICES ASSUME pc = "append" PROVE PayloadInv'
    BY <1>1 DEF PayloadInv
  <2>2. cur \in Day
    BY <2>1 DEF IInv, CycleInv, CurInv
  <2> QED  BY <2>1, <2>2, <1>1, <1>6 DEF IInv, CycleInv, PayloadInv, Group, Entries
<1>11. StagedInv'
  <2>1. SUFFICES ASSUME pc \in {"append", "sync", "restat", "unlink"},
                        NEW s \in Group(cur), NEW l \in Lines(batch[s])
                 PROVE  \/ l \in purged' \/ window'[l] # {}
                        \/ l \in Lines(SubSeq(dtext'[cur], 1, synced'[cur]))
                        \/ l \in ids /\ l \in Lines(dtext'[cur])
                        \/ pc = "append" /\ l \in Lines(payload)
                        \/ pc = "sync" /\ l \in Lines(dtext'[cur])
    BY <1>1 DEF StagedInv, Lost, Group, Entries, Synced
  <2>2. cur \in Day /\ l \in Line
    BY <2>1, <1>2 DEF IInv, CycleInv, CurInv, Group, Entries
  <2>3. \/ Lost(l) \/ l \in Synced(cur)
        \/ l \in ids /\ l \in Lines(dtext[cur])
        \/ pc = "append" /\ l \in Lines(payload)
        \/ pc = "sync" /\ l \in Lines(dtext[cur])
    BY <2>1 DEF IInv, CycleInv, StagedInv
  <2>4. CASE l \in Lines(dtext[cur])
    <3>1. \/ l \in purged' \/ window'[l] # {}
          \/ dtext'[cur] = dtext[cur] /\ synced'[cur] = synced[cur]
      BY <2>2, <2>4, <1>5
    <3> QED  BY <2>2, <2>3, <3>1, <1>3 DEF Lost, Synced
  <2>5. CASE l \notin Lines(dtext[cur])
    BY <2>2, <2>3, <2>5, <1>2, <1>3 DEF Lost
  <2> QED  BY <2>4, <2>5
<1>12. TextOwner' /\ DayOwner'
  BY <1>6 DEF IInv, TrailInv, TextOwner, DayOwner
<1>13. OncePerDay'
  <2>1. IsInjective(<<>>)
    BY DEF IsInjective
  <2> QED  BY <1>6, <2>1 DEF IInv, TrailInv, OncePerDay
<1>14. UnsyncedInv'
  <2>1. SUFFICES ASSUME NEW d \in Day, NEW l \in Lines(dtext'[d]),
                        l \notin Lines(SubSeq(dtext'[d], 1, synced'[d])),
                        l \notin purged', window'[l] = {}
                 PROVE  \E s \in Source : s \in present' /\ l \in Lines(text'[s])
    BY DEF UnsyncedInv, Lost, InFile, Synced
  <2>2. l \in Line /\ l \in Lines(dtext[d]) /\ l \notin Synced(d) /\ l \notin purged /\ window[l] = {}
    BY <2>1, <1>2, <1>3, <1>6 DEF Synced
  <2>3. PICK s \in Source : s \in present /\ l \in Lines(text[s])
    BY <2>2 DEF IInv, TrailInv, UnsyncedInv, Lost, InFile
  <2> QED  BY <2>1, <2>3, <1>1, <1>4
<1>15. NothingLost'
  <2>1. SUFFICES ASSUME NEW l \in Line, wrote[l] # 0, l \notin purged', window'[l] = {}
                 PROVE  l \in View'
    BY <1>1 DEF NothingLost
  <2>2. l \in View /\ present \subseteq Source
    BY <2>1, <1>3 DEF IInv, TrailInv, NothingLost, TypeOK, FileType
  <2>3. CASE \E s \in present : l \in Lines(text[s])
    BY <2>1, <2>2, <2>3, <1>1, <1>4 DEF View
  <2>4. CASE \E d \in Day : l \in Lines(dtext[d])
    BY <2>1, <2>4, <1>5 DEF View
  <2> QED  BY <2>2, <2>3, <2>4 DEF View
<1>16. CycleInv' /\ TrailInv'
  BY <1>7, <1>8, <1>9, <1>10, <1>11, <1>12, <1>13, <1>14, <1>15 DEF CycleInv, TrailInv
<1> QED  BY <1>16 DEF IInv

\* The cycle of an app that ended holds nothing.
LEMMA StopStep ==
    ASSUME Stop
    PROVE  CycleInv'
<1>1. pc' = "idle" /\ \A s \in Source : token'[s] = NoToken /\ batch'[s] = <<>> /\ Lines(batch'[s]) = {}
  BY LinesEmpty DEF Stop
<1>2. BatchOwner' /\ BackedInv'
  BY <1>1 DEF BatchOwner, BackedInv, Entries
<1>3. CurInv' /\ ScanInv' /\ PayloadInv' /\ StagedInv'
  BY <1>1 DEF CurInv, ScanInv, PayloadInv, StagedInv
<1> QED  BY <1>2, <1>3 DEF CycleInv

LEMMA CrashStep ==
    ASSUME IInv, TypeOK', Crash
    PROVE  IInv'
<1>1. Stop /\ UNCHANGED <<fileVars, synced, wrote, histVars>>
  BY DEF Crash
<1>2. UNCHANGED <<present, text>>
  BY <1>1 DEF fileVars
<1>3. TrailInv'
  <2>1. CASE pc = "append"
    BY <1>1, <1>2, <2>1, CutStep DEF Crash
  <2>2. CASE pc # "append"
    <3>1. UNCHANGED dayVars
      BY <1>1, <2>2 DEF Crash, dayVars
    <3> QED  BY <1>1, <3>1, TrailKept
  <2> QED  BY <2>1, <2>2
<1> QED  BY <1>1, <1>3, StopStep DEF IInv

\* What no fsync covered is in a session file.
LEMMA PowerStep ==
    ASSUME IInv, TypeOK', PowerLoss
    PROVE  IInv'
<1>0. PICK d \in Day : \E k \in 0 .. Len(dtext[d]) :
              /\ synced[d] <= k /\ synced[d] \in 0 .. k
              /\ dtext' = [dtext EXCEPT ![d] = SubSeq(@, 1, k)]
              /\ dopen' \in {dopen, dopen \cup {d}}
  BY PowerFacts DEF IInv
<1>1. PICK k \in 0 .. Len(dtext[d]) :
              /\ synced[d] <= k /\ synced[d] \in 0 .. k
              /\ dtext' = [dtext EXCEPT ![d] = SubSeq(@, 1, k)]
              /\ dopen' \in {dopen, dopen \cup {d}}
  BY <1>0
<1>2. /\ Stop /\ present' = present /\ text' = text /\ synced' = synced /\ wrote' = wrote
      /\ window' = window /\ purged' = purged
  BY DEF PowerLoss, histVars
<1>3. dtext'[d] = SubSeq(dtext[d], 1, k) /\ \A e \in Day : e # d => dtext'[e] = dtext[e]
  BY <1>1 DEF IInv, TypeOK, FileType
<1>4. dtext[d] \in Seq(Line) /\ IsInjective(dtext[d]) /\ synced[d] \in 0 .. k
  BY <1>1, SyncedFacts DEF IInv, TrailInv, OncePerDay
<1>5. /\ Lines(dtext'[d]) \subseteq Lines(dtext[d]) /\ IsInjective(dtext'[d])
      /\ SubSeq(dtext'[d], 1, synced'[d]) = SubSeq(dtext[d], 1, synced[d])
  BY <1>2, <1>3, <1>4, PrefixFacts, PrefixInjective, PrefixOfPrefix
<1>6. \A e \in Day : /\ Lines(dtext'[e]) \subseteq Lines(dtext[e]) /\ IsInjective(dtext'[e])
                     /\ SubSeq(dtext'[e], 1, synced'[e]) = SubSeq(dtext[e], 1, synced[e])
  BY <1>2, <1>3, <1>5 DEF IInv, TrailInv, OncePerDay
<1>7. TextOwner' /\ DayOwner' /\ OncePerDay'
  BY <1>2, <1>6 DEF IInv, TrailInv, TextOwner, DayOwner, OncePerDay
<1>8. UnsyncedInv'
  <2>1. SUFFICES ASSUME NEW e \in Day, NEW l \in Lines(dtext'[e]),
                        l \notin Lines(SubSeq(dtext'[e], 1, synced'[e]))
                 PROVE  \/ l \in purged \/ window[l] # {}
                        \/ \E s \in Source : s \in present /\ l \in Lines(text[s])
    BY <1>2 DEF UnsyncedInv, Lost, InFile, Synced
  <2>2. l \in Lines(dtext[e]) /\ l \notin Synced(e)
    BY <2>1, <1>6 DEF Synced
  <2> QED  BY <2>2 DEF IInv, TrailInv, UnsyncedInv, Lost, InFile
<1>9. NothingLost'
  <2>1. SUFFICES ASSUME NEW l \in Line, wrote[l] # 0, l \notin purged, window[l] = {}
                 PROVE  l \in View'
    BY <1>2 DEF NothingLost
  <2>2. l \in View
    BY <2>1 DEF IInv, TrailInv, NothingLost
  <2>3. CASE \E s \in present : l \in Lines(text[s])
    BY <2>3, <1>2 DEF View
  <2>4. ASSUME NEW e \in Day, l \in Lines(dtext[e]) PROVE l \in View'
    <3>1. CASE l \in Synced(e)
      <4>1. l \in Lines(SubSeq(dtext'[e], 1, synced'[e]))
        BY <3>1, <1>6 DEF Synced
      <4>2. Synced(e)' \subseteq Lines(dtext[e])'
        <5>1. dtext'[e] \in Seq(Line) /\ synced'[e] \in 0 .. Len(dtext'[e])
          BY DEF TypeOK, FileType
        <5> QED  BY <5>1, PrefixFacts DEF Synced
      <4> QED  BY <4>1, <4>2 DEF View, Synced
    <3>2. CASE l \notin Synced(e)
      <4>1. \E s \in Source : s \in present /\ l \in Lines(text[s])
        BY <2>1, <2>4, <3>2 DEF IInv, TrailInv, UnsyncedInv, Lost, InFile
      <4> QED  BY <4>1, <2>3
    <3> QED  BY <3>1, <3>2
  <2> QED  BY <2>2, <2>3, <2>4 DEF View
<1> QED  BY <1>2, <1>7, <1>8, <1>9, StopStep DEF IInv, TrailInv

-----------------------------------------------------------------------------
(* The invariant.                                                          *)

LEMMA InitInv == Init => IInv
<1> SUFFICES ASSUME Init PROVE IInv
  OBVIOUS
<1>1. /\ present = Wrapper /\ torn = {} /\ ended = {} /\ dopen = {} /\ todo = {} /\ sweeping = {}
      /\ text = [s \in Source |-> <<>>] /\ batch = [s \in Source |-> <<>>]
      /\ token = [s \in Source |-> NoToken] /\ writer = [s \in Source |-> "live"]
      /\ mtime = [f \in Source \cup Day |-> 1]
      /\ dtext = [d \in Day |-> <<>>] /\ synced = [d \in Day |-> 0]
      /\ pc = "idle" /\ cur = None /\ ids = {} /\ payload = <<>>
      /\ now = 1 /\ wrote = [l \in Line |-> 0] /\ faults = 0
      /\ window = [l \in Line |-> {}] /\ purged = {}
  BY DEF Init
<1>2. Wrapper \subseteq Source /\ 1 \in 1 .. MaxTime /\ 1 \in 1 .. 1 /\ 0 \in 0 .. 1
  BY SourceAssumption, BoundAssumption
<1>3. <<>> \in Seq(Line) /\ Len(<<>>) = 0
  OBVIOUS
<1>4. FileType
  BY <1>1, <1>2, <1>3 DEF FileType
<1>5. CycleType
  BY <1>1, <1>3 DEF CycleType, NoToken, None
<1>6. TypeOK
  BY <1>1, <1>2, <1>4, <1>5 DEF TypeOK
<1>7. /\ \A s \in Source : Lines(text[s]) = {} /\ Lines(batch[s]) = {} /\ token[s] = NoToken
      /\ \A d \in Day : Lines(dtext[d]) = {} /\ IsInjective(dtext[d])
  BY <1>1, LinesEmpty DEF IsInjective
<1>8. CycleInv
  BY <1>1, <1>7 DEF CycleInv, BatchOwner, CurInv, ScanInv, BackedInv, PayloadInv, StagedInv, Entries
<1>9. TrailInv
  BY <1>1, <1>7 DEF TrailInv, TextOwner, DayOwner, UnsyncedInv, NothingLost, OncePerDay
<1> QED  BY <1>6, <1>8, <1>9 DEF IInv

LEMMA StepInv == IInv /\ [Next]_vars => IInv'
<1> SUFFICES ASSUME IInv, [Next]_vars PROVE IInv'
  OBVIOUS
<1>1. TypeOK /\ CurInv
  BY DEF IInv, CycleInv
<1>2. CASE Writers
  <2>1. ASSUME NEW l \in Line, WrapperWrite(l) \/ IngestWrite(l) PROVE IInv'
    BY <2>1, <1>1, WrapperWriteType, IngestWriteType, WriterStep
  <2>2. ASSUME NEW s \in Source, WrapperExit(s) \/ WrapperKilled(s) PROVE IInv'
    <3>1. UNCHANGED <<dayVars, cycleVars, present, text, wrote, histVars>>
      BY <2>2 DEF WrapperExit, WrapperKilled, worldVars
    <3> QED  BY <2>2, <3>1, <1>1, WriterEndsType, IdleStep
  <2> QED  BY <1>2, <2>1, <2>2 DEF Writers
<1>3. CASE Cycle
  <2>1. CASE StartCycle \/ ScanRead \/ NextGroup \/ \E s \in Source : ScanStat(s)
    BY <2>1, <1>1, ScanType, ScanStep
  <2>2. CASE Load
    <3>1. cur \in Day
      BY <2>2, <1>1 DEF Load, CurInv
    <3> QED  BY <2>2, <3>1, <1>1, LoadType, LoadStep
  <2>3. CASE LoadFails \/ SyncFails \/ UnlinkFails \/ GroupDone
    BY <2>3, <1>1, GiveUpType, GiveUpStep
  <2>4. CASE AppendLines \/ AppendFails
    <3>1. cur \in Day
      BY <2>4, <1>1 DEF AppendLines, AppendFails, CurInv
    <3> QED  BY <2>4, <3>1, <1>1, AppendType, AppendStep, AppendFailsStep
  <2>5. CASE Sync
    <3>1. cur \in Day
      BY <2>5, <1>1 DEF Sync, CurInv
    <3> QED  BY <2>5, <3>1, <1>1, SyncType, SyncStep
  <2>6. CASE Unlink
    BY <2>6, <1>1, UnlinkType, UnlinkStep
  <2>7. ASSUME NEW s \in Source, Restat(s) PROVE IInv'
    BY <2>7, <1>1, RestatType, RestatStep
  <2> QED  BY <1>3, <2>1, <2>2, <2>3, <2>4, <2>5, <2>6, <2>7 DEF Cycle
<1>4. CASE Sweep
  <2>1. ASSUME NEW f \in Source \cup Day, SweepUnlink(f) PROVE IInv'
    BY <2>1, <1>1, SweepType, SweepStep
  <2>2. ASSUME NEW f \in Source \cup Day, SweepFails(f) PROVE IInv'
    <3>1. UNCHANGED <<dayVars, cycleVars, present, text, wrote, histVars>>
      BY <2>2 DEF SweepFails, fileVars
    <3> QED  BY <2>2, <3>1, <1>1, SweepType, IdleStep
  <2>3. CASE SweepCollect
    <3>1. UNCHANGED <<dayVars, cycleVars, present, text, wrote, histVars>>
      BY <2>3 DEF SweepCollect, fileVars, worldVars
    <3>2. PICK f \in Source \cup Day : TRUE
      BY <2>3 DEF SweepCollect
    <3> QED  BY <2>3, <3>1, <3>2, <1>1, SweepType, IdleStep
  <2> QED  BY <1>4, <2>1, <2>2, <2>3 DEF Sweep
<1>5. CASE Crash
  BY <1>5, <1>1, CrashType, CrashStep DEF CurInv
<1>6. CASE PowerLoss
  BY <1>6, <1>1, PowerType, PowerStep
<1>7. CASE Tick
  <2>1. UNCHANGED <<dayVars, cycleVars, present, text, wrote, histVars>>
    BY <1>7 DEF Tick, fileVars
  <2> QED  BY <1>7, <2>1, <1>1, TickType, IdleStep
<1>8. CASE UNCHANGED vars
  <2>1. /\ UNCHANGED <<present, text, torn, ended, writer, mtime, dtext, dopen, synced>>
        /\ UNCHANGED <<pc, todo, token, batch, cur, ids, payload, sweeping>>
        /\ UNCHANGED <<now, wrote, faults, window, purged>>
    BY <1>8 DEF vars, fileVars, dayVars, cycleVars, worldVars, histVars
  <2>2. FileType' /\ CycleType'
    BY <1>1, <2>1 DEF TypeOK, FileType, CycleType
  <2>3. TypeOK'
    BY <1>1, <2>1, <2>2 DEF TypeOK
  <2>4. UNCHANGED <<dayVars, cycleVars, present, text, wrote, histVars>>
    BY <2>1 DEF dayVars, cycleVars, histVars
  <2> QED  BY <2>3, <2>4, IdleStep
<1> QED  BY <1>2, <1>3, <1>4, <1>5, <1>6, <1>7, <1>8 DEF Next

LEMMA InvHolds == Spec => []IInv
BY InitInv, StepInv, PTL DEF Spec

\* Type correctness: every variable keeps its shape, and what an fsync covers of a
\* day file is in it, whatever the appends, the power losses and the sweeps do.
THEOREM TypeCorrect == Spec => []TypeOK
<1>1. IInv => TypeOK
  BY DEF IInv
<1> QED  BY <1>1, InvHolds, PTL

\* A line written to the trail is readable in its session's file or in a day
\* file, at every moment of the compaction, for any number of sessions, days,
\* lines and failures, until retention removes it at its age; the exceptions are
\* the four windows of NothingLost.
THEOREM NothingLostHolds == Spec => []NothingLost
<1>1. IInv => NothingLost
  BY DEF IInv, TrailInv
<1> QED  BY <1>1, InvHolds, PTL

\* No line is twice in a day file, however often a cycle fails, or the app ends,
\* between the append and the unlink and the files are read again.
THEOREM OncePerDayHolds == Spec => []OncePerDay
<1>1. IInv => OncePerDay
  BY DEF IInv, TrailInv
<1> QED  BY <1>1, InvHolds, PTL

=============================================================================
