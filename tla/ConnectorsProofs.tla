-------------------------- MODULE ConnectorsProofs --------------------------
(***************************************************************************)
(* Proofs about the connector changes.                                     *)
(*                                                                         *)
(* Of the app: a change of authorization is announced once, for any trail, *)
(* any number of passes, clicks and views that read it half way at once    *)
(* over one cache, failed markers and restarts.                            *)
(*                                                                         *)
(* Of the proxies' baselines, for any proxies, sections, catalogs, rules,  *)
(* builds and faults: a change has its line, and one; a marker that the    *)
(* rules of reviewed_with match has its finding.                           *)
(***************************************************************************)
EXTENDS MCConnectors, FiniteSetTheorems, TLAPS

-----------------------------------------------------------------------------
(* The inductive invariant.                                                *)

IsSeq(s) == s \in Seq(Range(s))

Knows(e, i) == e # None => IsSeq(e.seen) /\ i \in ToldIn(e.seen)

Seen(e) == e # None => IsSeq(e.seen)

\* A call that reads has the app's file before it, or its markers.
Hears(o, i) ==
    /\ o.pc \in {"stat", "read"} => App \in o.todo \/ i \in Told(o.got)
    /\ o.pc = "note" => Knows(o.entry, i)

\* The marker of i is in the file, and nobody has read it without.
Marked(i) ==
    /\ i \in ToldIn(trail[App]) /\ Knows(cache[App], i)
    /\ \A c \in Call : Hears(call[c], i)

CallShape(o) ==
    \/ o = Idle
    \/ /\ o = [pc |-> o.pc, todo |-> o.todo, listed |-> o.listed, got |-> o.got, size |-> o.size,
               then |-> o.then, id |-> o.id, to |-> o.to, mount |-> o.mount, entry |-> o.entry]
       /\ o.pc \in {"stat", "read", "note"} /\ IsSeq(o.got) /\ Seen(o.entry)

Shape ==
    /\ trail = [f \in Files |-> trail[f]] /\ IsSeq(trail[App])
    /\ cache = [f \in Files |-> cache[f]] /\ Seen(cache[App])
    /\ call = [c \in Call |-> call[c]] /\ \A c \in Call : CallShape(call[c])
    /\ shown \in [Ids -> Nat]

Announced(i) == i \in notifiedChanges \/ Marked(i)

AInv ==
    /\ Shape
    /\ "told lost" \notin cause => \A i \in Ids : shown[i] <= 1 /\ (shown[i] > 0 => Announced(i))

-----------------------------------------------------------------------------
(* Files.                                                                  *)

LEMMA SeqFacts ==
    ASSUME NEW T, NEW s \in Seq(T)
    PROVE  IsSeq(s)
<1>1. Len(s) \in Nat /\ DOMAIN s = 1..Len(s) /\ s = [i \in 1..Len(s) |-> s[i]]
  OBVIOUS
<1>2. \A i \in 1..Len(s) : s[i] \in Range(s)
  BY <1>1 DEF Range
<1>3. [i \in 1..Len(s) |-> s[i]] \in Seq(Range(s))
  BY <1>1, <1>2
<1> QED  BY <1>1, <1>3 DEF IsSeq

LEMMA AppendFacts ==
    ASSUME NEW s, IsSeq(s), NEW x
    PROVE  IsSeq(Append(s, x)) /\ ToldIn(s) \subseteq ToldIn(Append(s, x)) /\ Append(s, x) # <<>>
           /\ \A i \in DOMAIN s : Append(s, x)[i] = s[i]
           /\ DOMAIN s \subseteq DOMAIN Append(s, x) /\ Append(s, x)[Len(s) + 1] = x /\ Len(s) + 1 \in DOMAIN Append(s, x)
<1> DEFINE a == Append(s, x)
<1>1. s \in Seq(Range(s) \cup {x})
  BY DEF IsSeq
<1>2. a \in Seq(Range(s) \cup {x}) /\ Len(a) = Len(s) + 1
  BY <1>1
<1>3. \A i \in DOMAIN s : i \in DOMAIN a /\ a[i] = s[i]
  BY <1>1
<1>4. a[Len(s) + 1] = x /\ Len(s) + 1 \in DOMAIN a
  BY <1>1
<1>5. IsSeq(a)
  BY <1>2, SeqFacts
<1>6. a # <<>>
  BY <1>4
<1> HIDE DEF a
<1>7. ToldIn(s) \subseteq ToldIn(a)
  BY <1>3 DEF ToldIn
<1> QED  BY <1>3, <1>4, <1>5, <1>6, <1>7 DEF IsSeq, a

LEMMA JoinFacts ==
    ASSUME NEW s, IsSeq(s), NEW t, NEW T, t \in Seq(T)
    PROVE  IsSeq(s \o t) /\ ToldIn(s) \subseteq ToldIn(s \o t)
<1> DEFINE a == s \o t
<1>1. s \in Seq(Range(s) \cup T) /\ t \in Seq(Range(s) \cup T)
  BY DEF IsSeq
<1>2. a \in Seq(Range(s) \cup T) /\ Len(a) = Len(s) + Len(t)
  BY <1>1
<1>3. \A i \in DOMAIN s : i \in DOMAIN a /\ a[i] = s[i]
  BY <1>1
<1>5. IsSeq(a)
  BY <1>2, SeqFacts
<1> HIDE DEF a
<1>7. ToldIn(s) \subseteq ToldIn(a)
  BY <1>3 DEF ToldIn
<1> QED  BY <1>5, <1>7 DEF IsSeq, a

\* The markers of one pass, in some order.
LEMMA LinesFacts ==
    ASSUME NEW S, IsFiniteSet(S)
    PROVE  SetToSeq(S) \in Seq(S)
<1>1. Cardinality(S) \in Nat /\ ExistsBijection(1..Cardinality(S), S)
  BY FS_CardinalityType
<1>2. \E f \in [1..Cardinality(S) -> S] : IsInjective(f)
  BY <1>1 DEF ExistsBijection, Bijection, Injection
<1>3. SetToSeq(S) \in [1..Cardinality(S) -> S]
  BY <1>2 DEF SetToSeq
<1> QED  BY <1>1, <1>3

-----------------------------------------------------------------------------
(* Readings.                                                               *)

LEMMA AtFacts ==
    ASSUME NEW c, NEW pc \in {"stat", "read", "note"}, NEW todo, NEW got, IsSeq(got), NEW size, NEW entry, Seen(entry)
    PROVE  LET o == At(c, pc, todo, got, size, entry) IN
           CallShape(o) /\ o.pc = pc /\ o.todo = todo /\ o.got = got /\ o.entry = entry
<1> DEFINE o == At(c, pc, todo, got, size, entry)
<1>1. /\ o.pc = pc /\ o.todo = todo /\ o.got = got /\ o.entry = entry
      /\ o = [pc |-> o.pc, todo |-> o.todo, listed |-> o.listed, got |-> o.got, size |-> o.size,
              then |-> o.then, id |-> o.id, to |-> o.to, mount |-> o.mount, entry |-> o.entry]
  BY DEF At
<1> HIDE DEF o
<1> QED  BY <1>1 DEF CallShape, o

LEMMA AskingFacts ==
    ASSUME Shape, NEW then, NEW id, NEW to, NEW mount
    PROVE  LET o == Asking(then, id, to, mount) IN
           CallShape(o) /\ \A i : Marked(i) => Hears(o, i)
<1> DEFINE o == Asking(then, id, to, mount)
<1>1. /\ o.pc = "stat" /\ o.todo = Present /\ o.got = <<>> /\ o.entry = None
      /\ o = [pc |-> o.pc, todo |-> o.todo, listed |-> o.listed, got |-> o.got, size |-> o.size,
              then |-> o.then, id |-> o.id, to |-> o.to, mount |-> o.mount, entry |-> o.entry]
  BY DEF Asking
<1>2. IsSeq(<<>>) /\ Seen(None)
  <2>1. <<>> \in Seq({})
    OBVIOUS
  <2> QED  BY <2>1, SeqFacts DEF Seen
<1>3. \A i : Marked(i) => App \in Present
  BY FeedAssumption DEF Marked, ToldIn, Present
<1> HIDE DEF o
<1> QED  BY <1>1, <1>2, <1>3 DEF CallShape, Hears, o

LEMMA IdleFacts == Idle.pc = "idle" /\ CallShape(Idle) /\ \A i : Hears(Idle, i)
<1>1. Idle.pc = "idle"
  BY DEF Idle
<1> QED  BY <1>1 DEF CallShape, Hears

LEMMA ParsedTold ==
    ASSUME NEW got, IsSeq(got), NEW seen
    PROVE  LET all == Append(got, ParseChangesFile(seen)) IN
           IsSeq(all) /\ Told(got) \subseteq Told(all) /\ ToldIn(seen) \subseteq Told(all)
<1> DEFINE p == ParseChangesFile(seen)
           all == Append(got, p)
<1>1. p.told = ToldIn(seen)
  BY DEF ParseChangesFile
<1> HIDE DEF p
<1>2. /\ IsSeq(all) /\ \A i \in DOMAIN got : i \in DOMAIN all /\ all[i] = got[i]
      /\ Len(got) + 1 \in DOMAIN all /\ all[Len(got) + 1] = p
  BY AppendFacts
<1> HIDE DEF all
<1>3. Told(got) \subseteq Told(all)
  BY <1>2 DEF Told
<1>4. p.told \subseteq Told(all)
  BY <1>2 DEF Told
<1> QED  BY <1>1, <1>2, <1>3, <1>4 DEF all, p

-----------------------------------------------------------------------------
(* Steps.                                                                  *)

LEMMA Kept ==
    ASSUME AInv, Shape', UNCHANGED <<shown, notifiedChanges>>, cause \subseteq cause',
           \A i : Marked(i) => Marked(i)'
    PROVE  AInv'
BY DEF AInv, Announced

\* One call goes on; the app's file may have grown.
LEMMA OneStep ==
    ASSUME AInv, NEW c \in Call, NEW r, CallShape(r), Step(c, r),
           trail' = [f \in Files |-> trail'[f]], IsSeq(trail'[App]), ToldIn(trail[App]) \subseteq ToldIn(trail'[App]),
           cache' = [f \in Files |-> cache'[f]], Seen(cache'[App]),
           \A i : Marked(i) => Knows(cache'[App], i) /\ Hears(r, i),
           UNCHANGED <<shown, notifiedChanges>>, cause \subseteq cause'
    PROVE  AInv'
<1>1. call' = [d \in Call |-> IF d = c THEN r ELSE call[d]]
  BY DEF Step, AInv, Shape
<1>2. Shape'
  BY <1>1 DEF AInv, Shape
<1>3. ASSUME NEW i, Marked(i) PROVE Marked(i)'
  BY <1>1, <1>3 DEF Marked
<1> QED  BY <1>2, <1>3, Kept

LEMMA PruneFacts ==
    ASSUME AInv, NEW c, Prune(c)
    PROVE  /\ cache' = [f \in Files |-> cache'[f]] /\ Seen(cache'[App])
           /\ \A i : Marked(i) => Knows(cache'[App], i)
<1>1. cache'[App] \in {cache[App], None} /\ cache' = [f \in Files |-> cache'[f]]
  BY FeedAssumption DEF Prune
<1> QED  BY <1>1 DEF AInv, Shape, Seen, Knows, Marked

LEMMA StatStep ==
    ASSUME AInv, NEW c \in Call, Stat(c)
    PROVE  AInv'
<1> DEFINE f == File(c)
           o == call[c]
<1>1. o.pc = "stat" /\ IsSeq(o.got) /\ UNCHANGED <<trail, shown, notifiedChanges, cause>>
  <2>1. o.pc = "stat" /\ UNCHANGED <<trail, shown, notifiedChanges, cause>>
    BY DEF Stat
  <2>2. CallShape(o)
    BY DEF AInv, Shape
  <2>3. o # Idle
    BY <2>1, IdleFacts
  <2> QED  BY <2>1, <2>2, <2>3 DEF CallShape
<1>2. \A i : Marked(i) => App \in o.todo \/ i \in Told(o.got)
  BY <1>1 DEF Marked, Hears
<1>3. \A i : Marked(i) => trail[App] # <<>>
  BY DEF Marked, ToldIn
<1>4. Seen(None)
  BY DEF Seen
<1>5. trail = [g \in Files |-> trail[g]] /\ IsSeq(trail[App]) /\ cache = [g \in Files |-> cache[g]] /\ Seen(cache[App])
  BY DEF AInv, Shape
<1> HIDE DEF f, o
<1>6. CASE trail[f] = <<>> /\ cache' = [cache EXCEPT ![f] = None] /\ Step(c, Skipped(c))
  <2> DEFINE r == Skipped(c)
  <2>1. CallShape(r) /\ r.pc = "stat" /\ r.todo = o.todo \ {f} /\ r.got = o.got
    BY <1>1, <1>4, AtFacts DEF Skipped, f, o
  <2> HIDE DEF r
  <2>2. cache' = [g \in Files |-> cache'[g]] /\ cache'[App] \in {cache[App], None}
    BY <1>5, <1>6
  <2>3. \A i : Marked(i) => Knows(cache'[App], i) /\ Hears(r, i)
    BY <1>2, <1>3, <1>6, <2>1, <2>2 DEF Marked, Knows, Hears
  <2>4. Seen(cache'[App])
    BY <1>5, <2>2 DEF Seen
  <2> QED  BY <1>1, <1>5, <1>6, <2>1, <2>2, <2>3, <2>4, OneStep DEF r
<1>7. CASE Hit(f) /\ Step(c, Parsed(c, cache[f].seen)) /\ UNCHANGED cache
  <2> DEFINE r == Parsed(c, cache[f].seen)
             all == Append(o.got, ParseChangesFile(cache[f].seen))
  <2>1. IsSeq(all) /\ Told(o.got) \subseteq Told(all) /\ ToldIn(cache[f].seen) \subseteq Told(all)
    BY <1>1, ParsedTold
  <2>2. CallShape(r) /\ r.pc = "stat" /\ r.todo = o.todo \ {f} /\ r.got = all
    <3>1. r = At(c, "stat", o.todo \ {f}, all, 0, None)
      BY DEF Parsed, f, o
    <3> HIDE DEF r, all
    <3> QED  BY <1>4, <2>1, <3>1, AtFacts
  <2> HIDE DEF r, all
  <2>3. \A i : Marked(i) => Knows(cache[App], i) /\ Hears(r, i)
    BY <1>2, <1>7, <2>1, <2>2 DEF Marked, Knows, Hears, Hit
  <2> QED  BY <1>1, <1>5, <1>7, <2>2, <2>3, OneStep DEF r
<1>8. CASE Step(c, At(c, "read", call[c].todo, call[c].got, Len(trail[f]), None)) /\ UNCHANGED cache
  <2> DEFINE r == At(c, "read", call[c].todo, call[c].got, Len(trail[f]), None)
  <2>1. CallShape(r) /\ r.pc = "read" /\ r.todo = o.todo /\ r.got = o.got
    BY <1>1, <1>4, AtFacts DEF o
  <2> HIDE DEF r
  <2>2. \A i : Marked(i) => Knows(cache[App], i) /\ Hears(r, i)
    BY <1>2, <2>1 DEF Marked, Hears
  <2> QED  BY <1>1, <1>5, <1>8, <2>1, <2>2, OneStep DEF r
<1> QED  BY <1>6, <1>7, <1>8 DEF Stat, f

LEMMA ReadStep ==
    ASSUME AInv, NEW c \in Call, Read(c)
    PROVE  AInv'
<1> DEFINE f == File(c)
           o == call[c]
<1>1. o.pc = "read" /\ IsSeq(o.got) /\ UNCHANGED <<trail, shown, notifiedChanges, cause>>
  <2>1. o.pc = "read" /\ UNCHANGED <<trail, shown, notifiedChanges, cause>>
    BY DEF Read
  <2>2. CallShape(o)
    BY DEF AInv, Shape
  <2>3. o # Idle
    BY <2>1, IdleFacts
  <2> QED  BY <2>1, <2>2, <2>3 DEF CallShape
<1>2. \A i : Marked(i) => App \in o.todo \/ i \in Told(o.got)
  BY <1>1 DEF Marked, Hears
<1>3. \A i : Marked(i) => trail[App] # <<>>
  BY DEF Marked, ToldIn
<1>4. Seen(None)
  BY DEF Seen
<1>5. trail = [g \in Files |-> trail[g]] /\ IsSeq(trail[App]) /\ cache = [g \in Files |-> cache[g]] /\ Seen(cache[App])
  BY DEF AInv, Shape
<1> HIDE DEF f, o
<1>6. CASE trail[f] = <<>> /\ cache' = [cache EXCEPT ![f] = None] /\ Step(c, Skipped(c))
  <2> DEFINE r == Skipped(c)
  <2>1. CallShape(r) /\ r.pc = "stat" /\ r.todo = o.todo \ {f} /\ r.got = o.got
    BY <1>1, <1>4, AtFacts DEF Skipped, f, o
  <2> HIDE DEF r
  <2>2. cache' = [g \in Files |-> cache'[g]] /\ cache'[App] \in {cache[App], None}
    BY <1>5, <1>6
  <2>3. \A i : Marked(i) => Knows(cache'[App], i) /\ Hears(r, i)
    BY <1>2, <1>3, <1>6, <2>1, <2>2 DEF Marked, Knows, Hears
  <2>4. Seen(cache'[App])
    BY <1>5, <2>2 DEF Seen
  <2> QED  BY <1>1, <1>5, <1>6, <2>1, <2>2, <2>3, <2>4, OneStep DEF r
<1>7. CASE Step(c, Parsed(c, trail[f])) /\ cache' = [cache EXCEPT ![f] = [size |-> Key(c, f), seen |-> trail[f]]]
  <2> DEFINE r == Parsed(c, trail[f])
             all == Append(o.got, ParseChangesFile(trail[f]))
             e == [size |-> Key(c, f), seen |-> trail[f]]
  <2>1. IsSeq(all) /\ Told(o.got) \subseteq Told(all) /\ ToldIn(trail[f]) \subseteq Told(all)
    BY <1>1, ParsedTold
  <2>2. CallShape(r) /\ r.pc = "stat" /\ r.todo = o.todo \ {f} /\ r.got = all
    <3>1. r = At(c, "stat", o.todo \ {f}, all, 0, None)
      BY DEF Parsed, f, o
    <3> HIDE DEF r, all
    <3> QED  BY <1>4, <2>1, <3>1, AtFacts
  <2>3. e.seen = trail[f] /\ cache' = [g \in Files |-> IF g = f THEN e ELSE cache[g]]
    BY <1>5, <1>7
  <2> HIDE DEF r, all, e
  <2>4. cache' = [g \in Files |-> cache'[g]] /\ cache'[App] = IF App = f THEN e ELSE cache[App]
    BY <2>3, FeedAssumption
  <2>5. \A i : Marked(i) => Knows(cache'[App], i)
    BY <1>5, <2>3, <2>4 DEF Marked, Knows
  <2>6. \A i : Marked(i) => Hears(r, i)
    BY <1>2, <2>1, <2>2 DEF Marked, Hears
  <2>7. Seen(cache'[App])
    BY <1>5, <2>3, <2>4 DEF Seen
  <2> QED  BY <1>1, <1>5, <1>7, <2>2, <2>4, <2>5, <2>6, <2>7, OneStep DEF r
<1> QED  BY <1>6, <1>7 DEF Read, f

LEMMA AskStep ==
    ASSUME AInv, NEW c \in Call, NEW then, NEW id, NEW to, NEW mount, Step(c, Asking(then, id, to, mount)),
           UNCHANGED <<trail, shown, notifiedChanges>>, cause \subseteq cause', UNCHANGED cache \/ \E d : Prune(d)
    PROVE  AInv'
<1> DEFINE r == Asking(then, id, to, mount)
<1>1. CallShape(r) /\ \A i : Marked(i) => Hears(r, i)
  BY AskingFacts DEF AInv
<1>2. /\ cache' = [f \in Files |-> cache'[f]] /\ Seen(cache'[App])
      /\ \A i : Marked(i) => Knows(cache'[App], i)
  BY PruneFacts DEF AInv, Shape, Marked
<1>3. trail = [f \in Files |-> trail[f]] /\ IsSeq(trail[App])
  BY DEF AInv, Shape
<1> HIDE DEF r
<1> QED  BY <1>1, <1>2, <1>3, OneStep DEF r

LEMMA IdleStep ==
    ASSUME AInv, NEW c \in Call, Step(c, Idle), UNCHANGED <<trail, shown, notifiedChanges>>, cause \subseteq cause', Prune(c)
    PROVE  AInv'
<1>1. /\ cache' = [f \in Files |-> cache'[f]] /\ Seen(cache'[App])
      /\ \A i : Marked(i) => Knows(cache'[App], i)
  BY PruneFacts
<1>2. trail = [f \in Files |-> trail[f]] /\ IsSeq(trail[App])
  BY DEF AInv, Shape
<1> QED  BY <1>1, <1>2, IdleFacts, OneStep

\* A pass: what it announces was not announced before.
LEMMA EndPassStep ==
    ASSUME AInv, NEW c \in Call, EndPass(c)
    PROVE  AInv'
<1> DEFINE new == Notifications(Rows(c), Told(call[c].got), notifiedChanges)
           all == SetToSeq({ToldLine(i) : i \in new})
<1>1. /\ Done(c, "pass") /\ Prune(c) /\ Step(c, Idle) /\ cause' = cause
      /\ shown' = [i \in Ids |-> shown[i] + (IF i \in new THEN 1 ELSE 0)]
      /\ notifiedChanges' = notifiedChanges \cup new
      /\ trail' = [trail EXCEPT ![App] = @ \o all] \/ trail' = trail
  BY DEF EndPass
<1>2. new \subseteq Ids /\ \A i \in new : i \notin Told(call[c].got) /\ i \notin notifiedChanges
  BY DEF Notifications
<1> HIDE DEF new
<1>3. \A i \in new : ~ Marked(i)
  BY <1>1, <1>2 DEF Done, Marked, Hears
<1>4. all \in Seq({ToldLine(i) : i \in new})
  <2>1. IsFiniteSet(new)
    BY <1>2, FS_Subset, FeedAssumption
  <2>2. IsFiniteSet({ToldLine(i) : i \in new})
    <3> DEFINE g == [i \in new |-> ToldLine(i)]
    <3>1. g \in Surjection(new, {ToldLine(i) : i \in new})
      BY DEF Surjection
    <3> QED  BY <2>1, <3>1, FS_Surjection
  <2> QED  BY <2>2, LinesFacts
<1> HIDE DEF all
<1>5. IsSeq(trail'[App]) /\ ToldIn(trail[App]) \subseteq ToldIn(trail'[App]) /\ trail' = [f \in Files |-> trail'[f]]
  <2>1. trail = [f \in Files |-> trail[f]] /\ IsSeq(trail[App])
    BY DEF AInv, Shape
  <2>2. IsSeq(trail[App] \o all) /\ ToldIn(trail[App]) \subseteq ToldIn(trail[App] \o all)
    BY <1>4, <2>1, JoinFacts
  <2> QED  BY <1>1, <2>1, <2>2, FeedAssumption
<1>6. /\ cache' = [f \in Files |-> cache'[f]] /\ Seen(cache'[App])
      /\ \A i : Marked(i) => Knows(cache'[App], i)
  BY <1>1, PruneFacts
<1>7. call' = [d \in Call |-> IF d = c THEN Idle ELSE call[d]]
  BY <1>1 DEF Step, AInv, Shape
<1>8. shown' \in [Ids -> Nat]
  <2>1. \A i \in Ids : shown[i] \in Nat
    BY DEF AInv, Shape
  <2>2. \A i \in Ids : shown[i] + (IF i \in new THEN 1 ELSE 0) \in Nat
    BY <2>1
  <2> QED  BY <1>1, <2>2
<1>9. Shape'
  BY <1>5, <1>6, <1>7, <1>8, IdleFacts DEF AInv, Shape
<1>10. ASSUME NEW i, Marked(i) PROVE Marked(i)'
  BY <1>5, <1>6, <1>7, <1>10, IdleFacts DEF Marked
<1>11. ASSUME "told lost" \notin cause', NEW i \in Ids PROVE shown'[i] <= 1 /\ (shown'[i] > 0 => Announced(i)')
  <2>1. shown[i] \in Nat /\ shown[i] <= 1 /\ (shown[i] > 0 => Announced(i))
    BY <1>1, <1>11 DEF AInv, Shape
  <2>2. CASE i \in new
    <3>1. shown[i] = 0
      BY <1>2, <1>3, <2>1, <2>2 DEF Announced
    <3> QED  BY <1>1, <2>2, <3>1 DEF Announced
  <2>3. CASE i \notin new
    <3>1. shown'[i] = shown[i]
      BY <1>1, <2>1, <2>3
    <3> QED  BY <1>1, <1>10, <2>1, <3>1 DEF Announced
  <2> QED  BY <2>2, <2>3
<1> QED  BY <1>9, <1>11 DEF AInv

-----------------------------------------------------------------------------
(* The click.                                                              *)

LEMMA ResolveStep ==
    ASSUME AInv, NEW c \in Call, NEW w, Resolve(c, w), Prune(c), UNCHANGED <<trail, shown, notifiedChanges>>
    PROVE  AInv'
<1>1. /\ cache' = [f \in Files |-> cache'[f]] /\ Seen(cache'[App])
      /\ \A i : Marked(i) => Knows(cache'[App], i)
  BY PruneFacts
<1>2. cause \subseteq cause'
  BY DEF Resolve
<1>3. CASE Step(c, Idle)
  BY <1>2, <1>3, IdleStep
<1>4. CASE \E v \in View : call' = [[call EXCEPT ![c] = Idle] EXCEPT ![v] = Reading("list", ui.mounted)]
  <2> DEFINE r == Reading("list", ui.mounted)
  <2>1. CallShape(r) /\ \A i : Marked(i) => Hears(r, i)
    BY AskingFacts DEF AInv, Reading
  <2> HIDE DEF r
  <2>2. PICK v \in View : call' = [[call EXCEPT ![c] = Idle] EXCEPT ![v] = r]
    BY <1>4 DEF r
  <2>3. call = [d \in Call |-> call[d]] /\ \A d \in Call : CallShape(call[d])
    BY DEF AInv, Shape
  <2>4. call' = [d \in Call |-> IF d = v THEN r ELSE IF d = c THEN Idle ELSE call[d]]
    BY <2>2, <2>3
  <2>5. Shape'
    BY <1>1, <2>1, <2>3, <2>4, IdleFacts DEF AInv, Shape
  <2>6. ASSUME NEW i, Marked(i) PROVE Marked(i)'
    BY <1>1, <2>1, <2>4, <2>6, IdleFacts DEF Marked
  <2> QED  BY <1>2, <2>5, <2>6, Kept
<1> QED
  <2>1. (\E v \in View : call[v] = Idle) => (CHOOSE v \in View : call[v] = Idle) \in View
    OBVIOUS
  <2> QED  BY <1>3, <1>4, <2>1 DEF Resolve

LEMMA WriteMarkStep ==
    ASSUME AInv, NEW c \in Call, WriteMark(c)
    PROVE  AInv'
<1> DEFINE r == At(c, "note", {}, <<>>, 0, cache'[App])
<1>1. /\ Prune(c) /\ Step(c, r) /\ UNCHANGED <<shown, notifiedChanges, cause>>
      /\ \E x : trail' = [trail EXCEPT ![App] = Append(@, x)]
  BY DEF WriteMark
<1>2. /\ cache' = [f \in Files |-> cache'[f]] /\ Seen(cache'[App])
      /\ \A i : Marked(i) => Knows(cache'[App], i)
  BY <1>1, PruneFacts
<1>3. IsSeq(<<>>)
  <2>1. <<>> \in Seq({})
    OBVIOUS
  <2> QED  BY <2>1, SeqFacts
<1>4. CallShape(r) /\ r.pc = "note" /\ r.entry = cache'[App]
  BY <1>2, <1>3, AtFacts
<1> HIDE DEF r
<1>5. IsSeq(trail'[App]) /\ ToldIn(trail[App]) \subseteq ToldIn(trail'[App]) /\ trail' = [f \in Files |-> trail'[f]]
  <2>1. trail = [f \in Files |-> trail[f]] /\ IsSeq(trail[App])
    BY DEF AInv, Shape
  <2>2. PICK x : trail' = [trail EXCEPT ![App] = Append(@, x)]
    BY <1>1
  <2>3. IsSeq(Append(trail[App], x)) /\ ToldIn(trail[App]) \subseteq ToldIn(Append(trail[App], x))
    BY <2>1, AppendFacts
  <2> QED  BY <2>1, <2>2, <2>3, FeedAssumption
<1>6. \A i : Marked(i) => Hears(r, i)
  BY <1>2, <1>4 DEF Hears
<1> QED  BY <1>1, <1>2, <1>4, <1>5, <1>6, OneStep

LEMMA NoteAppendedStep ==
    ASSUME AInv, NEW c \in Call, NoteAppended(c)
    PROVE  AInv'
<1> DEFINE old == call[c].entry
           line == Mark(call[c].id, IF call[c].to = "reviewed" THEN "unreviewed" ELSE "reviewed", call[c].to)
           e == [size |-> Len(trail[App]), seen |-> Append(old.seen, line)]
           r == Again(c)
<1>1. /\ call[c].pc = "note" /\ Step(c, r) /\ UNCHANGED <<trail, shown, notifiedChanges, cause>>
      /\ cache' = [cache EXCEPT ![App] = IF old = None THEN @ ELSE IF Len(trail[App]) = old.size + 1 THEN e ELSE None]
  BY DEF NoteAppended
<1>2. CallShape(r) /\ \A i : Marked(i) => Hears(r, i)
  BY AskingFacts DEF AInv, Again
<1>3. trail = [f \in Files |-> trail[f]] /\ IsSeq(trail[App]) /\ cache = [f \in Files |-> cache[f]] /\ Seen(cache[App])
  BY DEF AInv, Shape
<1>4. Seen(old) /\ \A i : Marked(i) => Knows(old, i)
  <2>1. CallShape(call[c])
    BY DEF AInv, Shape
  <2>2. call[c] # Idle
    BY <1>1, IdleFacts
  <2> QED  BY <1>1, <2>1, <2>2 DEF CallShape, Marked, Hears
<1>5. e.seen = Append(old.seen, line)
  OBVIOUS
<1> HIDE DEF r, e, line, old
<1>6. cache' = [f \in Files |-> cache'[f]] /\ (cache'[App] \in {cache[App], None} \/ (cache'[App] = e /\ old # None))
  BY <1>1, <1>3, FeedAssumption
<1>7. old # None => IsSeq(e.seen) /\ ToldIn(old.seen) \subseteq ToldIn(e.seen)
  BY <1>4, <1>5, AppendFacts DEF Seen
<1>8. Seen(cache'[App])
  BY <1>3, <1>6, <1>7 DEF Seen
<1>9. \A i : Marked(i) => Knows(cache'[App], i)
  BY <1>4, <1>6, <1>7 DEF Knows, Marked
<1> QED  BY <1>1, <1>2, <1>3, <1>6, <1>8, <1>9, OneStep

-----------------------------------------------------------------------------
(* The environment.                                                        *)

LEMMA EnvironmentStep ==
    ASSUME AInv, Environment
    PROVE  AInv'
<1>1. ASSUME NEW f \in DOMAIN Feed, ProxyWrites(f) \/ Purge(f) PROVE AInv'
  <2>1. /\ UNCHANGED <<cache, call, notifiedChanges, shown>> /\ cause \subseteq cause'
        /\ \E s : trail' = [trail EXCEPT ![f] = s]
    BY <1>1 DEF ProxyWrites, Purge
  <2>2. trail' = [g \in Files |-> trail'[g]] /\ trail'[App] = trail[App]
    BY <2>1, FeedAssumption DEF AInv, Shape
  <2>3. Shape'
    BY <2>1, <2>2 DEF AInv, Shape
  <2>4. \A i : Marked(i) => Marked(i)'
    BY <2>1, <2>2 DEF Marked
  <2> QED  BY <2>1, <2>3, <2>4, Kept
<1>2. CASE Restart
  <2>1. /\ UNCHANGED <<trail, shown>> /\ cache' = [f \in Files |-> None] /\ call' = [c \in Call |-> Idle]
        /\ "told lost" \notin cause' =>
             "told lost" \notin cause /\ \A i \in Ids : shown[i] > 0 => i \in ToldIn(trail[App])
    BY <1>2 DEF Restart
  <2>2. Shape'
    BY <2>1, IdleFacts, FeedAssumption DEF AInv, Shape, Seen
  <2>3. \A i : i \in ToldIn(trail[App]) => Marked(i)'
    BY <2>1, IdleFacts, FeedAssumption DEF Marked, Knows
  <2> QED  BY <2>1, <2>2, <2>3 DEF AInv, Announced
<1> QED  BY <1>1, <1>2 DEF Environment

-----------------------------------------------------------------------------
(* The invariant, and what it shows.                                       *)

LEMMA AInvInit == Init => AInv
<1> SUFFICES ASSUME Init PROVE AInv
  OBVIOUS
<1>1. Shape
  BY IdleFacts, FeedAssumption DEF Init, Shape, Seen, IsSeq
<1>2. \A i \in Ids : shown[i] = 0
  BY DEF Init
<1>3. \A i \in Ids : shown[i] <= 1 /\ ~ (shown[i] > 0)
  BY <1>2
<1> QED  BY <1>1, <1>3 DEF AInv

LEMMA AInvStep == AInv /\ [Next]_vars => AInv'
<1> SUFFICES ASSUME AInv, [Next]_vars PROVE AInv'
  OBVIOUS
<1>1. ASSUME NEW c \in Call, Stat(c) \/ Read(c) PROVE AInv'
  BY <1>1, StatStep, ReadStep
<1>2. ASSUME NEW c \in Pass, RunChangesPass(c) PROVE AInv'
  <2>1. CASE StartPass(c)
    BY <2>1, AskStep DEF StartPass, Reading, Call
  <2> QED  BY <1>1, <1>2, <2>1, EndPassStep DEF RunChangesPass, Reads, Call
<1>3. ASSUME NEW c \in Click, SetReviewStatus(c) PROVE AInv'
  <2>0. c \in Call
    BY DEF Call
  <2>1. CASE HandleReview(c)
    <3>1. PICK id, to, m : Step(c, Asking("find", id, to, m))
      BY <2>1 DEF HandleReview
    <3>2. UNCHANGED <<trail, cache, shown, notifiedChanges, cause>>
      BY <2>1 DEF HandleReview
    <3> QED  BY <2>0, <3>1, <3>2, AskStep
  <2>2. CASE Refuse(c) \/ Count(c)
    BY <2>0, <2>2, ResolveStep DEF Refuse, Count
  <2>3. CASE MarkFails(c)
    BY <2>0, <2>3, AskStep DEF MarkFails, Again
  <2> QED  BY <1>1, <1>3, <2>0, <2>1, <2>2, <2>3, WriteMarkStep, NoteAppendedStep DEF SetReviewStatus, Reads
<1>4. ASSUME NEW c \in View, ChangePage(c) PROVE AInv'
  <2>1. CASE Mount(c)
    BY <2>1, AskStep DEF Mount, Reading, Call
  <2>2. CASE Answer(c)
    BY <2>2, IdleStep DEF Answer, Call
  <2> QED  BY <1>1, <1>4, <2>1, <2>2 DEF ChangePage, Reads, Call
<1>5. CASE Select \/ UNCHANGED vars
  <2>1. UNCHANGED <<trail, cache, call, notifiedChanges, shown, cause>>
    BY <1>5 DEF Select, vars
  <2>2. Shape' /\ \A i : Marked(i) => Marked(i)'
    BY <2>1 DEF AInv, Shape, Marked
  <2> QED  BY <2>1, <2>2, Kept
<1> QED  BY <1>2, <1>3, <1>4, <1>5, EnvironmentStep DEF Next

\* A change of authorization comes up at most once as a notification, in the
\* passes of this process and of the ones before it, as long as no restart finds
\* one that was shown and whose marker could not be written.
THEOREM NotifiedOnceHolds == Spec => []NotifiedOnce
<1>1. AInv => NotifiedOnce
  BY DEF AInv, NotifiedOnce
<1> QED  BY <1>1, AInvInit, AInvStep, PTL DEF Spec

-----------------------------------------------------------------------------
(* What the proxies remember of a surface: the shape of the state.         *)

State == [snap : Catalog, rev : {0} \cup {b.ver : b \in Build}]
Sections == [Section -> State \cup {None}]
Baseline == [kind : {"absent", "ok", "corrupt", "future"}, secs : Sections]
Records == [Section -> Catalog \cup {None}]

\* At most one of the lines is a change, of the section, to the catalog.
LinesShape(o) ==
    /\ IsSeq(o.lines)
    /\ \A i \in DOMAIN o.lines : o.lines[i].t = "change" => o.lines[i].sec = o.sec /\ o.lines[i].to = o.cat
    /\ \A i, j \in DOMAIN o.lines : o.lines[i].t = "change" /\ o.lines[j].t = "change" => i = j

Tells(o) == \E i \in DOMAIN o.lines : o.lines[i].t = "change"

Has(secs, s) == secs[s] # None

\* The file that was read, the one that will be written, and the line of what
\* differs between the two.
Plan(o) ==
    /\ o.kind = "full" /\ o.read \in Baseline /\ o.read.kind # "future" /\ o.seen \in Records
    /\ o.next \in Sections /\ Has(o.next, o.sec) /\ o.next[o.sec].snap = o.cat
    /\ \A s \in Section \ {o.sec} : o.next[s] = o.read.secs[s]
    /\ Has(o.read.secs, o.sec) =>
         Tells(o) \/ Surface!Watched(o.sec, o.read.secs[o.sec].snap) = Surface!Watched(o.sec, o.cat)

Migration(o) ==
    /\ o.kind = "full" /\ o.sec = "tools" /\ o.lines = <<>>
    /\ o.read \in Baseline /\ o.read.kind # "future" /\ ~ Has(o.read.secs, "tools") /\ o.next = o.read.secs

Observation(o) ==
    /\ o = Surface!At(o.pc, o, o.read, o.next, o.lines, o.seen)
    /\ o.pc \in {"base", "migrate", "check", "rename", "v1", "after", "old"}
    /\ o.sec \in Section /\ o.kind \in {"full", "page", "bad"} /\ o.cat \in Catalog /\ LinesShape(o)
    /\ o.pc = "base" => o.lines = <<>>
    /\ o.pc = "migrate" => Migration(o)
    /\ o.pc \in {"check", "rename"} => Plan(o)
    /\ o.pc = "v1" => o.kind # "page" /\ o.seen \in Records
    /\ o.pc = "old" => o.sec = "tools" /\ o.kind = "full" /\ o.seen \in Records /\ "old build" \in window

FileShape(f) == f \in Baseline /\ (f.kind # "ok" => f.secs = Surface!Nothing)

SurfaceShape ==
    /\ \A s \in Section : served[s] \in Catalog
    /\ v1 \in {Surface!Manifest(cat) : cat \in Catalog \cup {<<>>}} \cup {None}
    /\ FileShape(v2)
    /\ build \in [Proxy -> Build]
    /\ proc = [p \in Proxy |-> proc[p]] /\ \A p \in Proxy : proc[p] = Surface!Idle \/ Observation(proc[p])
    /\ IsSeq(lines)
    /\ recorded \in Records
    /\ hops \in [Section -> [cat : Catalog \cup {None}, n : Nat]]
    /\ (v2.kind = "corrupt" => "corrupt" \in window)

-----------------------------------------------------------------------------
(* Nothing is swallowed.                                                   *)

Unlost == window \cap Surface!Losing = {}

\* Going from a catalog to what is watched of another needs no line any more.
Settled(was, w) == w = Surface!Manifest(was) \/ Surface!Reported("tools", w) \/ Surface!Emptied("tools", w)

Readable == v2.kind # "future"

\* Without tools in the v2 file, the line will be by the v1 file.
ByV1(o) == o.seen["tools"] # None => Settled(o.seen["tools"], Surface!Manifest(o.cat))

\* The v2 file is there for the taking, and has no tools.
Untracked == Readable /\ ~ Has(v2.secs, "tools")

KeptBy(o) ==
    /\ o.pc \in {"check", "rename", "v1"} /\ o.kind = "full" /\ o.sec = "tools" /\ Untracked => ByV1(o)
    /\ o.pc = "old" => o.seen["tools"] = None \/ Tells(o)

\* What the v2 file holds is what was recorded last, but for older builds.
Held(s) ==
    IF Has(v2.secs, s) THEN v2.secs[s].snap = recorded[s] \/ (s = "tools" /\ "old build" \in window)
    ELSE s = "tools" \/ recorded[s] = None

V1Kept ==
    /\ v1 = None /\ recorded["tools"] # None => \E p \in Proxy : proc[p].pc = "v1" /\ proc[p].sec = "tools"
    /\ Untracked /\ recorded["tools"] # None => v1 # None /\ Settled(recorded["tools"], v1)

KeptInv ==
    Unlost =>
      /\ \A p \in Proxy : proc[p].pc # "idle" => KeptBy(proc[p])
      /\ Readable => \A s \in Section : Held(s)
      /\ V1Kept
      /\ Surface!NothingSwallowed

-----------------------------------------------------------------------------
(* Nothing is repeated.                                                    *)

Once == window \cap Surface!Repeating = {}

Reports(s) == Cardinality(Surface!Changes(s))

\* One observation at a time, and the lines it owes are counted.
OnceBy(o) ==
    LET last(s) == hops[s].cat
    IN  /\ o.pc # "old"
        /\ o.pc \in {"base", "migrate", "check", "rename"} /\ o.kind = "full" => o.cat = last(o.sec)
        /\ o.pc \in {"migrate", "check", "rename"} => \A s \in Section \ {o.sec} : Has(o.next, s) => o.next[s].snap = last(s)
        /\ o.pc \in {"migrate", "check", "rename"} /\ v1 # None => Has(o.read.secs, "tools")
        /\ o.pc = "v1" /\ o.kind = "full" /\ o.sec = "tools" => ~ Readable \/ Has(v2.secs, "tools")
        /\ o.pc = "base" /\ o.kind = "full" /\ Has(v2.secs, o.sec) /\ v2.secs[o.sec].snap # o.cat
              => Reports(o.sec) + 1 <= hops[o.sec].n
        /\ Tells(o) => Reports(o.sec) + 1 <= hops[o.sec].n

Compares(o, s) == o.pc \in {"base", "check", "rename"} /\ o.kind = "full" /\ o.sec = s

Underway(s) == \E p \in Proxy : Compares(proc[p], s)

OnceInv ==
    Once =>
      /\ \A p, q \in Proxy : proc[p].pc # "idle" /\ proc[q].pc # "idle" => p = q
      /\ \A p \in Proxy : proc[p].pc # "idle" => OnceBy(proc[p])
      /\ v1 # None => ~ Readable \/ Has(v2.secs, "tools")
      /\ \A s \in Section : Has(v2.secs, s) => v2.secs[s].snap = hops[s].cat \/ Underway(s)
      /\ Surface!NothingRepeated

SurfaceInv == SurfaceShape /\ KeptInv /\ OnceInv

-----------------------------------------------------------------------------
(* Lines.                                                                  *)

\* A proxy that owes nothing, or the line of a change.
LEMMA ChangedFacts ==
    ASSUME NEW sec, NEW to, NEW reports, NEW attention
    PROVE  LET l == Surface!Changed(sec, to, reports, attention) IN
           /\ IsSeq(l) /\ Len(l) <= 1 /\ Len(l) \in Nat /\ DOMAIN l = 1..Len(l)
           /\ \A i \in DOMAIN l : l[i].t = "change" /\ l[i].sec = sec /\ l[i].to = to
           /\ Len(l) = 1 <=> reports # <<>>
<1> DEFINE x == Surface!Line("change", sec, to, reports[1], attention)
           l == Surface!Changed(sec, to, reports, attention)
<1>1. x.t = "change" /\ x.sec = sec /\ x.to = to
  BY DEF Surface!Line
<1> HIDE DEF x
<1>2. CASE reports = <<>>
  <2>1. l = <<>>
    BY <1>2 DEF Surface!Changed
  <2>2. l \in Seq({}) /\ Len(l) = 0 /\ DOMAIN l = {}
    BY <2>1
  <2> QED  BY <1>2, <2>2, SeqFacts DEF l
<1>3. CASE reports # <<>>
  <2>1. l = <<x>>
    BY <1>3 DEF Surface!Changed, x
  <2>2. l \in Seq({x}) /\ Len(l) = 1 /\ DOMAIN l = 1..1 /\ l[1] = x
    BY <2>1
  <2> QED  BY <1>1, <1>3, <2>2, SeqFacts DEF l
<1> QED  BY <1>2, <1>3

LEMMA ReviewedFacts ==
    ASSUME NEW sec, NEW to, NEW found
    PROVE  LET l == Surface!Reviewed(sec, to, found) IN
           /\ IsSeq(l) /\ Len(l) \in Nat /\ DOMAIN l = 1..Len(l)
           /\ \A i \in DOMAIN l : l[i].t = "review"
<1> DEFINE x == Surface!Line("review", sec, to, Surface!Report({}, found), FALSE)
           l == Surface!Reviewed(sec, to, found)
<1>1. x.t = "review"
  BY DEF Surface!Line
<1> HIDE DEF x
<1>2. CASE found = {}
  <2>1. l = <<>>
    BY <1>2 DEF Surface!Reviewed
  <2>2. l \in Seq({}) /\ Len(l) = 0 /\ DOMAIN l = {}
    BY <2>1
  <2>3. IsSeq(l)
    BY <2>2, SeqFacts
  <2> HIDE DEF l
  <2> QED  BY <2>2, <2>3 DEF l
<1>3. CASE found # {}
  <2>1. l = <<x>>
    BY <1>3 DEF Surface!Reviewed, x
  <2>2. l \in Seq({x}) /\ Len(l) = 1 /\ DOMAIN l = 1..1 /\ l[1] = x
    BY <2>1
  <2> QED  BY <1>1, <2>2, SeqFacts DEF l
<1> QED  BY <1>2, <1>3

LEMMA JoinedShape ==
    ASSUME NEW s, IsSeq(s), NEW t, IsSeq(t), NEW a, a = s \o t
    PROVE  IsSeq(a) /\ Len(s) \in Nat /\ Len(t) \in Nat
<1>1. s \in Seq(Range(s) \cup Range(t)) /\ t \in Seq(Range(s) \cup Range(t))
  BY DEF IsSeq
<1>2. a \in Seq(Range(s) \cup Range(t)) /\ Len(s) \in Nat /\ Len(t) \in Nat
  BY <1>1
<1> QED  BY <1>2, SeqFacts

LEMMA JoinedItems ==
    ASSUME NEW s, IsSeq(s), NEW t, IsSeq(t), NEW a, a = s \o t
    PROVE  /\ DOMAIN s = 1..Len(s) /\ DOMAIN t = 1..Len(t) /\ DOMAIN a = 1..(Len(s) + Len(t))
           /\ \A i \in DOMAIN s : a[i] = s[i]
           /\ \A i \in DOMAIN t : a[Len(s) + i] = t[i]
           /\ \A i \in DOMAIN a : i \in DOMAIN s \/ (i - Len(s) \in DOMAIN t /\ a[i] = t[i - Len(s)])
<1>1. s \in Seq(Range(s) \cup Range(t)) /\ t \in Seq(Range(s) \cup Range(t))
  BY DEF IsSeq
<1>2. a \in Seq(Range(s) \cup Range(t)) /\ Len(a) = Len(s) + Len(t) /\ Len(s) \in Nat /\ Len(t) \in Nat
  BY <1>1
<1>3. DOMAIN s = 1..Len(s) /\ DOMAIN t = 1..Len(t) /\ DOMAIN a = 1..Len(a)
  BY <1>1, <1>2
<1>4. \A i \in 1..Len(a) : a[i] = IF i <= Len(s) THEN s[i] ELSE t[i - Len(s)]
  BY <1>1
<1>6. /\ \A i \in DOMAIN s : a[i] = s[i]
      /\ \A i \in DOMAIN t : a[Len(s) + i] = t[i]
      /\ \A i \in DOMAIN a : i \in DOMAIN s \/ (i - Len(s) \in DOMAIN t /\ a[i] = t[i - Len(s)])
  BY <1>2, <1>3, <1>4
<1> QED  BY <1>2, <1>3, <1>6

-----------------------------------------------------------------------------
(* Observations.                                                           *)

LEMMA AtIs ==
    ASSUME NEW pc, NEW o, NEW read, NEW next, NEW owed, NEW seen
    PROVE  LET a == Surface!At(pc, o, read, next, owed, seen) IN
           /\ a.pc = pc /\ a.sec = o.sec /\ a.kind = o.kind /\ a.cat = o.cat
           /\ a.read = read /\ a.next = next /\ a.lines = owed /\ a.seen = seen
           /\ a = Surface!At(a.pc, a, a.read, a.next, a.lines, a.seen)
  BY DEF Surface!At

LEMMA Constants ==
    /\ Responses \subseteq {"full", "page", "bad"}
    /\ "tools" \in Section /\ None \notin Catalog /\ None \notin State
    /\ \A cat \in Catalog \cup {<<>>} : Surface!Manifest(cat) # None
    /\ \A s \in Section : \A cat \in Shows[s] : cat \in Catalog
  BY SurfaceAssumption DEF State, Catalog

\* What is watched differs when there is a report, and only then.
LEMMA DiffFacts ==
    ASSUME NEW ver, NEW sec, NEW a, NEW b
    PROVE  Surface!ChangeBetween(ver, sec, a, b) = <<>> <=> Surface!Watched(sec, a) = Surface!Watched(sec, b)
<1>1. \A x : <<x>> # <<>>
  OBVIOUS
<1>2. CASE sec = "tools"
  <2>1. Surface!ChangeBetween(ver, sec, a, b) =
          IF Surface!Manifest(a) = Surface!Manifest(b) THEN <<>>
          ELSE <<Surface!Report(Surface!DescribeChanges(Surface!Manifest(a), Surface!Manifest(b)),
                                Surface!ScanRules(ver, Surface!Manifest(a), Surface!Manifest(b), b))>>
    BY <1>2 DEF Surface!ChangeBetween, Surface!ReportChanges
  <2> QED  BY <1>1, <1>2, <2>1 DEF Surface!Watched
<1>3. CASE sec # "tools"
  <2>1. Surface!ChangeBetween(ver, sec, a, b) =
          IF a = b THEN <<>> ELSE <<Surface!Report(Surface!ItemChanges(a, b), {})>>
    BY <1>3 DEF Surface!ChangeBetween
  <2> QED  BY <1>1, <1>3, <2>1 DEF Surface!Watched
<1> QED  BY <1>2, <1>3

LEMMA PlanFacts ==
    ASSUME NEW ver, NEW prev, NEW cat
    PROVE  Surface!ReportChanges(ver, prev, Surface!Manifest(cat), cat) = <<>> <=> prev = Surface!Manifest(cat)
<1>1. \A x : <<x>> # <<>>
  OBVIOUS
<1> QED  BY <1>1 DEF Surface!ReportChanges

LEMMA OwedShape ==
    ASSUME NEW o, NEW r, NEW c, NEW reports, IsSeq(r), IsSeq(c), o.lines = r \o c,
           \A i \in DOMAIN r : r[i].t = "review",
           DOMAIN c = 1..Len(c), Len(c) <= 1,
           \A i \in DOMAIN c : c[i].t = "change" /\ c[i].sec = o.sec /\ c[i].to = o.cat,
           Len(c) = 1 <=> reports # <<>>
    PROVE  LinesShape(o) /\ (Tells(o) <=> reports # <<>>)
<1> DEFINE a == o.lines
<1>0. IsSeq(a) /\ Len(r) \in Nat /\ Len(c) \in Nat
  BY JoinedShape
<1>1. /\ DOMAIN r = 1..Len(r) /\ DOMAIN a = 1..(Len(r) + Len(c))
      /\ \A i \in DOMAIN r : a[i] = r[i]
      /\ \A i \in DOMAIN c : a[Len(r) + i] = c[i]
      /\ \A i \in DOMAIN a : i \in DOMAIN r \/ (i - Len(r) \in DOMAIN c /\ a[i] = c[i - Len(r)])
  BY JoinedItems
<1> HIDE DEF a
<1>3. \A i \in DOMAIN a : a[i].t = "change" => i = Len(r) + 1 /\ Len(c) = 1 /\ a[i] = c[1]
  BY <1>0, <1>1
<1>4. Len(c) = 1 => Len(r) + 1 \in DOMAIN a /\ a[Len(r) + 1].t = "change"
  BY <1>0, <1>1
<1> QED  BY <1>0, <1>1, <1>3, <1>4 DEF LinesShape, Tells, a

\* The lines of an observation: a review, then a change.
LEMMA OwedFacts ==
    ASSUME NEW o, NEW from, NEW found, NEW reports, NEW attention,
           o.lines = Surface!Reviewed(o.sec, from, found) \o Surface!Changed(o.sec, o.cat, reports, attention)
    PROVE  LinesShape(o) /\ (Tells(o) <=> reports # <<>>)
<1> DEFINE r == Surface!Reviewed(o.sec, from, found)
           c == Surface!Changed(o.sec, o.cat, reports, attention)
<1>1. IsSeq(r) /\ \A i \in DOMAIN r : r[i].t = "review"
  BY ReviewedFacts
<1>2. IsSeq(c) /\ DOMAIN c = 1..Len(c) /\ Len(c) <= 1 /\ (Len(c) = 1 <=> reports # <<>>)
  BY ChangedFacts
<1>3. \A i \in DOMAIN c : c[i].t = "change" /\ c[i].sec = o.sec /\ c[i].to = o.cat
  BY ChangedFacts
<1>4. o.lines = r \o c
  OBVIOUS
<1> HIDE DEF r, c
<1> QED  BY <1>1, <1>2, <1>3, <1>4, OwedShape, Zenon


-----------------------------------------------------------------------------
(* From one state to the next.                                             *)

ProcIs(p, o) == proc' = [proc EXCEPT ![p] = o]

LEMMA WindowFacts ==
    ASSUME window \subseteq window'
    PROVE  (Unlost' => Unlost) /\ (Once' => Once)
  BY DEF Unlost, Once, Surface!Losing, Surface!Repeating

LEMMA SettledStays ==
    ASSUME NEW sec, NEW was, NEW w, Surface!Lines \subseteq Surface!Lines', window \subseteq window'
    PROVE  /\ Surface!Reported(sec, w) => Surface!Reported(sec, w)'
           /\ Surface!Emptied(sec, w) => Surface!Emptied(sec, w)'
           /\ Settled(was, w) => Settled(was, w)'
<1>1. Surface!Reported(sec, w) => Surface!Reported(sec, w)'
  BY DEF Surface!Reported
<1>2. Surface!Reported("tools", w) => Surface!Reported("tools", w)'
  BY DEF Surface!Reported
<1>3. Surface!Emptied(sec, w) => Surface!Emptied(sec, w)'
  BY DEF Surface!Emptied
<1>4. Surface!Emptied("tools", w) => Surface!Emptied("tools", w)'
  BY DEF Surface!Emptied
<1> QED  BY <1>1, <1>2, <1>3, <1>4 DEF Settled

LEMMA KeptByStays ==
    ASSUME NEW q, KeptBy(proc[q]), proc'[q] = proc[q], Untracked' => Untracked,
           Surface!Lines \subseteq Surface!Lines', window \subseteq window'
    PROVE  KeptBy(proc[q])'
<1>1. ByV1(proc[q]) => ByV1(proc[q])'
  <2>1. PICK o : o = proc[q]
    OBVIOUS
  <2>2. ByV1(o) => ByV1(o)'
    BY SettledStays DEF ByV1
  <2> QED  BY <2>1, <2>2
<1> QED  BY <1>1 DEF KeptBy, Tells

LEMMA SwallowedStays ==
    ASSUME Surface!NothingSwallowed, Unlost, silent' = silent,
           Surface!Lines \subseteq Surface!Lines', window \subseteq window'
    PROVE  Surface!NothingSwallowed'
<1> SUFFICES ASSUME NEW o \in silent
             PROVE  LET now == Surface!Watched(o.sec, o.to)
                    IN  Surface!Watched(o.sec, o.from) = now \/ Surface!Reported(o.sec, now)' \/ Surface!Emptied(o.sec, now)'
  BY DEF Surface!NothingSwallowed
<1> DEFINE now == Surface!Watched(o.sec, o.to)
<1>1. Surface!Watched(o.sec, o.from) = now \/ Surface!Reported(o.sec, now) \/ Surface!Emptied(o.sec, now)
  BY DEF Surface!NothingSwallowed, Unlost
<1> QED  BY <1>1, SettledStays

\* A line is in the trail, or with a proxy.
IsIn(l, f) == \E i \in DOMAIN f : l = f[i]

LEMMA LinesAre ==
    ASSUME NEW l
    PROVE  /\ l \in Surface!Lines <=> IsIn(l, lines) \/ \E p \in Proxy : proc[p].pc # "idle" /\ IsIn(l, proc[p].lines)
           /\ l \in Surface!Lines' <=> IsIn(l, lines') \/ \E p \in Proxy : proc'[p].pc # "idle" /\ IsIn(l, proc'[p].lines)
  BY DEF IsIn, Surface!Lines

\* The lines of a proxy that goes on are still there.
LEMMA LinesStay ==
    ASSUME NEW p \in Proxy, NEW o, ProcIs(p, o), SurfaceShape, lines' = lines, o.pc # "idle",
           proc[p].pc = "idle" \/ proc[p].lines = <<>> \/ o.lines = proc[p].lines
    PROVE  Surface!Lines \subseteq Surface!Lines'
<1>1. proc = [q \in Proxy |-> proc[q]] /\ proc'[p] = o /\ \A q \in Proxy \ {p} : proc'[q] = proc[q]
  BY DEF SurfaceShape, ProcIs
<1>2. \A l : ~ IsIn(l, <<>>)
  BY DEF IsIn
<1>3. ASSUME NEW l, NEW q \in Proxy, proc[q].pc # "idle", IsIn(l, proc[q].lines)
      PROVE  proc'[q].pc # "idle" /\ IsIn(l, proc'[q].lines)
  BY <1>1, <1>2, <1>3
<1>4. ASSUME NEW l, l \in Surface!Lines PROVE l \in Surface!Lines'
  BY <1>3, <1>4, LinesAre
<1> QED  BY <1>4

Active(o) == o.pc # "idle"

LEMMA IdleIs == Surface!Idle.pc = "idle" /\ ~ Active(Surface!Idle)
  BY DEF Surface!Idle, Active

LEMMA ProcShape ==
    ASSUME SurfaceShape, NEW p \in Proxy, NEW o, ProcIs(p, o), o = Surface!Idle \/ Observation(o)',
           window \subseteq window'
    PROVE  proc' = [q \in Proxy |-> proc'[q]] /\ \A q \in Proxy : proc'[q] = Surface!Idle \/ Observation(proc[q])'
<1>1. proc' = [q \in Proxy |-> proc'[q]] /\ \A q \in Proxy : proc'[q] = IF q = p THEN o ELSE proc[q]
  BY DEF SurfaceShape, ProcIs
<1>2. \A q \in Proxy : proc[q] = Surface!Idle \/ Observation(proc[q])
  BY DEF SurfaceShape
<1>3. ASSUME NEW q \in Proxy PROVE proc'[q] = Surface!Idle \/ Observation(proc[q])'
  <2>1. CASE q = p
    BY <1>1, <2>1
  <2>2. CASE q # p
    <3>1. PICK x : x = proc[q]
      OBVIOUS
    <3>2. proc'[q] = x /\ (x = Surface!Idle \/ Observation(x))
      BY <1>1, <1>2, <2>2, <3>1
    <3>3. Observation(x) => Observation(x)'
      BY DEF Observation
    <3> QED  BY <3>2, <3>3
  <2> QED  BY <2>1, <2>2
<1>4. \A q \in Proxy : proc'[q] = Surface!Idle \/ Observation(proc[q])'
  BY <1>3
<1> QED  BY <1>1, <1>4

LEMMA ShapeStep ==
    ASSUME SurfaceShape, NEW p \in Proxy, NEW o, ProcIs(p, o), o = Surface!Idle \/ Observation(o)',
           UNCHANGED <<served, v1, v2, build, lines, recorded, hops>>, window \subseteq window'
    PROVE  SurfaceShape'
<1>1. proc' = [q \in Proxy |-> proc'[q]] /\ \A q \in Proxy : proc'[q] = Surface!Idle \/ Observation(proc[q])'
  BY ProcShape
<1> QED  BY <1>1 DEF SurfaceShape, FileShape

LEMMA KeptStep ==
    ASSUME SurfaceShape, KeptInv, NEW p \in Proxy, NEW o, ProcIs(p, o),
           UNCHANGED <<v1, v2, lines, recorded, silent>>, window \subseteq window',
           proc[p].pc \notin {"idle", "v1"}, Active(o),
           proc[p].lines = <<>> \/ o.lines = proc[p].lines,
           Unlost' => KeptBy(o)'
    PROVE  KeptInv'
<1> SUFFICES ASSUME Unlost'
             PROVE  /\ \A q \in Proxy : proc'[q].pc # "idle" => KeptBy(proc[q])'
                    /\ Readable' => \A s \in Section : Held(s)'
                    /\ V1Kept'
                    /\ Surface!NothingSwallowed'
  BY DEF KeptInv
<1>0. Unlost /\ Surface!Lines \subseteq Surface!Lines'
  BY WindowFacts, LinesStay DEF Active
<1>1. proc'[p] = o /\ \A q \in Proxy \ {p} : proc'[q] = proc[q]
  BY DEF SurfaceShape, ProcIs
<1>2. ASSUME NEW q \in Proxy, proc'[q].pc # "idle" PROVE KeptBy(proc[q])'
  <2>1. CASE q = p
    BY <1>1, <2>1
  <2>2. CASE q # p
    <3>1. proc'[q] = proc[q] /\ KeptBy(proc[q])
      BY <1>0, <1>1, <1>2, <2>2 DEF KeptInv
    <3>2. Untracked' => Untracked
      BY DEF Untracked, Readable
    <3> QED  BY <1>0, <3>1, <3>2, KeptByStays
  <2> QED  BY <2>1, <2>2
<1>3. Readable' => \A s \in Section : Held(s)'
  BY <1>0 DEF KeptInv, Readable, Held
<1>4. V1Kept'
  <2>1. V1Kept
    BY <1>0 DEF KeptInv
  <2>2. v1 = None /\ recorded["tools"] # None => \E q \in Proxy : proc'[q].pc = "v1" /\ proc'[q].sec = "tools"
    BY <1>1, <2>1 DEF V1Kept
  <2>3. Untracked' => Untracked
    BY DEF Untracked, Readable
  <2>4. PICK r, w : r = recorded["tools"] /\ w = v1
    OBVIOUS
  <2>5. Settled(r, w) => Settled(r, w)'
    BY <1>0, SettledStays
  <2> QED  BY <2>1, <2>2, <2>3, <2>4, <2>5 DEF V1Kept
<1>5. Surface!NothingSwallowed'
  BY <1>0, SwallowedStays DEF KeptInv
<1> QED  BY <1>2, <1>3, <1>4, <1>5

LEMMA OnceStep ==
    ASSUME SurfaceShape, OnceInv, NEW p \in Proxy, NEW o, ProcIs(p, o),
           UNCHANGED <<v1, v2, lines, hops>>, window \subseteq window',
           Active(proc[p]), Active(o),
           Once' => OnceBy(o)',
           Once' => \A s \in Section : Has(v2.secs, s) /\ Compares(proc[p], s) =>
                       Compares(o, s) \/ v2.secs[s].snap = hops[s].cat
    PROVE  OnceInv'
<1> SUFFICES ASSUME Once'
             PROVE  /\ \A q, r \in Proxy : proc'[q].pc # "idle" /\ proc'[r].pc # "idle" => q = r
                    /\ \A q \in Proxy : proc'[q].pc # "idle" => OnceBy(proc[q])'
                    /\ v1' # None => ~ Readable' \/ Has(v2.secs, "tools")'
                    /\ \A s \in Section : Has(v2.secs, s)' => v2'.secs[s].snap = hops'[s].cat \/ Underway(s)'
                    /\ Surface!NothingRepeated'
  BY DEF OnceInv
<1>0. Once
  BY WindowFacts
<1>1. proc'[p] = o /\ \A q \in Proxy \ {p} : proc'[q] = proc[q] /\ proc[q].pc = "idle"
  BY <1>0 DEF SurfaceShape, ProcIs, OnceInv, Active
<1>2. \A q, r \in Proxy : proc'[q].pc # "idle" /\ proc'[r].pc # "idle" => q = r
  BY <1>1
<1>3. \A q \in Proxy : proc'[q].pc # "idle" => OnceBy(proc[q])'
  BY <1>1
<1>4. v1' # None => ~ Readable' \/ Has(v2.secs, "tools")'
  BY <1>0 DEF OnceInv, Readable, Has
<1>5. ASSUME NEW s \in Section, Has(v2.secs, s)' PROVE v2'.secs[s].snap = hops'[s].cat \/ Underway(s)'
  <2>1. Has(v2.secs, s) /\ (v2.secs[s].snap = hops[s].cat \/ Underway(s))
    BY <1>0, <1>5 DEF OnceInv, Has
  <2>2. Underway(s) => Compares(proc[p], s)
    BY <1>1 DEF Underway, Compares
  <2>3. Compares(o, s) => Underway(s)'
    BY <1>1 DEF Underway, Compares
  <2> QED  BY <2>1, <2>2, <2>3
<1>6. Surface!NothingRepeated'
  BY <1>0 DEF OnceInv, Surface!NothingRepeated, Surface!Changes, Once
<1> QED  BY <1>2, <1>3, <1>4, <1>5, <1>6

(***************************************************************************)
(* One step of an observation that touches no file.                        *)
(***************************************************************************)
LEMMA ThinkStep ==
    ASSUME SurfaceInv, NEW p \in Proxy, NEW o, ProcIs(p, o), Observation(o)',
           UNCHANGED <<served, v1, v2, build, lines, recorded, silent, hops>>, window \subseteq window',
           proc[p].pc \notin {"idle", "v1"}, Active(o),
           proc[p].lines = <<>> \/ o.lines = proc[p].lines,
           Unlost' => KeptBy(o)',
           Once' => OnceBy(o)',
           Once' => \A s \in Section : Has(v2.secs, s) /\ Compares(proc[p], s) =>
                       Compares(o, s) \/ v2.secs[s].snap = hops[s].cat
    PROVE  SurfaceInv'
<1>1. SurfaceShape'
  BY ShapeStep DEF SurfaceInv
<1>2. KeptInv'
  BY KeptStep DEF SurfaceInv
<1>3. OnceInv'
  BY OnceStep DEF SurfaceInv, Active
<1> QED  BY <1>1, <1>2, <1>3 DEF SurfaceInv

LEMMA ProcFacts ==
    ASSUME SurfaceInv, NEW p \in Proxy, proc[p].pc # "idle"
    PROVE  Observation(proc[p]) /\ (Unlost => KeptBy(proc[p])) /\ (Once => OnceBy(proc[p]))
  BY IdleIs DEF SurfaceInv, SurfaceShape, KeptInv, OnceInv

LEMMA FileFacts ==
    ASSUME SurfaceInv
    PROVE  /\ Surface!Stored = v2.secs /\ v2.secs \in Sections /\ v2 \in Baseline
           /\ v2.kind # "ok" => \A s \in Section : ~ Has(v2.secs, s)
           /\ recorded \in Records
<1>1. FileShape(v2) /\ recorded \in Records
  BY DEF SurfaceInv, SurfaceShape
<1>2. v2.secs \in Sections /\ v2 \in Baseline /\ (v2.kind # "ok" => v2.secs = Surface!Nothing)
  BY <1>1 DEF FileShape, Baseline
<1>3. Surface!Stored = v2.secs
  BY <1>2 DEF Surface!Stored
<1>4. \A s \in Section : Surface!Nothing[s] = None
  BY DEF Surface!Nothing
<1> QED  BY <1>1, <1>2, <1>3, <1>4 DEF Has

\* What an observation leaves when it goes on with its lines.
LEMMA GoneFacts ==
    ASSUME NEW m, Observation(m), NEW pc, NEW seen, NEW o, o = Surface!At(pc, m, None, None, m.lines, seen),
           pc = "after" \/ (pc = "v1" /\ seen \in Records /\ m.kind # "page"), window \subseteq window'
    PROVE  /\ Observation(o)' /\ Active(o) /\ o.lines = m.lines /\ (Tells(o) <=> Tells(m))
           /\ o.pc = pc /\ o.sec = m.sec /\ o.kind = m.kind /\ o.cat = m.cat /\ o.seen = seen
<1>1. /\ o.pc = pc /\ o.sec = m.sec /\ o.kind = m.kind /\ o.cat = m.cat /\ o.lines = m.lines /\ o.seen = seen
      /\ o = Surface!At(o.pc, o, o.read, o.next, o.lines, o.seen)
  BY AtIs
<1>2. LinesShape(o) /\ (Tells(o) <=> Tells(m))
  <2>1. LinesShape(m)
    BY DEF Observation
  <2>2. o.sec = m.sec /\ o.cat = m.cat /\ o.lines = m.lines
    BY <1>1
  <2> QED  BY <2>1, <2>2 DEF LinesShape, Tells
<1> QED  BY <1>1, <1>2 DEF Observation, Active

LEMMA SkipPageStep ==
    ASSUME SurfaceInv, NEW p \in Proxy, Surface!SkipPage(p)
    PROVE  SurfaceInv'
<1>1. PICK m, o : m = proc[p] /\ o = Surface!At("after", m, None, None, m.lines, None)
  OBVIOUS
<1>2. /\ ProcIs(p, o) /\ m.pc = "base" /\ m.kind = "page"
      /\ UNCHANGED <<served, v1, v2, build, lines, recorded, silent, hops, window>>
  BY <1>1 DEF Surface!SkipPage, Surface!Done, Surface!Go, ProcIs
<1>3. Observation(m) /\ (Once => OnceBy(m))
  BY <1>1, <1>2, ProcFacts
<1>4. /\ Observation(o)' /\ Active(o) /\ o.lines = m.lines /\ (Tells(o) <=> Tells(m))
      /\ o.pc = "after" /\ o.sec = m.sec /\ o.kind = m.kind
  BY <1>1, <1>2, <1>3, GoneFacts
<1>5. Unlost' => KeptBy(o)'
  BY <1>4 DEF KeptBy
<1>6. Once' => OnceBy(o)'
  BY <1>2, <1>3, <1>4 DEF OnceBy, Once, Reports, Surface!Changes, Tells
<1>7. \A s \in Section : ~ Compares(proc[p], s)
  BY <1>1, <1>2 DEF Compares
<1> QED  BY <1>1, <1>2, <1>4, <1>5, <1>6, <1>7, ThinkStep

LEMMA SkipResultStep ==
    ASSUME SurfaceInv, NEW p \in Proxy, Surface!SkipResult(p)
    PROVE  SurfaceInv'
<1>1. PICK m, o : m = proc[p] /\ o = Surface!At("v1", m, None, None, m.lines, recorded)
  OBVIOUS
<1>2. /\ ProcIs(p, o) /\ m.pc = "base" /\ m.kind # "page" /\ (m.kind = "bad" \/ v2.kind = "future")
      /\ UNCHANGED <<served, v1, v2, build, lines, recorded, silent, hops, window>>
  BY <1>1 DEF Surface!SkipResult, Surface!ToV1, Surface!Go, ProcIs
<1>3. Observation(m) /\ (Once => OnceBy(m))
  BY <1>1, <1>2, ProcFacts
<1>4. /\ Observation(o)' /\ Active(o) /\ o.lines = m.lines /\ (Tells(o) <=> Tells(m))
      /\ o.pc = "v1" /\ o.sec = m.sec /\ o.kind = m.kind
  BY <1>1, <1>2, <1>3, FileFacts, GoneFacts
<1>5. Unlost' => KeptBy(o)'
  BY <1>2, <1>4 DEF KeptBy, Untracked, Readable
<1>6. Once' => OnceBy(o)'
  BY <1>2, <1>3, <1>4 DEF OnceBy, Once, Reports, Surface!Changes, Tells, Readable
<1>7. \A s \in Section : ~ (Has(v2.secs, s) /\ Compares(proc[p], s))
  BY <1>1, <1>2, FileFacts DEF Compares
<1> QED  BY <1>1, <1>2, <1>4, <1>5, <1>6, <1>7, ThinkStep

\* The lines of a section that is not in the file yet.
LEMMA SeedLinesFacts ==
    ASSUME NEW o, NEW change, NEW found, o.lines = Surface!SeedLines(o, change, found)
    PROVE  LinesShape(o) /\ (Tells(o) <=> change # <<>>)
<1>1. CASE change # <<>>
  <2> DEFINE x == Surface!Line("change", o.sec, o.cat, change[1], FALSE)
  <2>1. x.t = "change" /\ x.sec = o.sec /\ x.to = o.cat
    BY DEF Surface!Line
  <2>2. o.lines = <<x>>
    BY <1>1 DEF Surface!SeedLines, Surface!Changed
  <2> HIDE DEF x
  <2>3. <<x>> \in Seq({x}) /\ DOMAIN <<x>> = 1..1 /\ <<x>>[1] = x
    OBVIOUS
  <2>4. IsSeq(<<x>>)
    BY <2>3, SeqFacts
  <2> QED  BY <1>1, <2>1, <2>2, <2>3, <2>4 DEF LinesShape, Tells
<1>2. CASE change = <<>>
  <2>1. PICK r : r = Surface!Reviewed(o.sec, o.cat, found)
    OBVIOUS
  <2>2. IsSeq(r) /\ \A i \in DOMAIN r : r[i].t = "review"
    BY <2>1, ReviewedFacts
  <2>3. o.lines = r
    BY <1>2, <2>1 DEF Surface!SeedLines
  <2> QED  BY <1>2, <2>2, <2>3 DEF LinesShape, Tells
<1> QED  BY <1>1, <1>2

\* The observation that seeds a section that is not in the file yet.
Seeded(o, m, read, change, found, rev) ==
    /\ Observation(m) /\ m.kind = "full" /\ m.lines = <<>>
    /\ read \in Baseline /\ read.kind # "future" /\ ~ Has(read.secs, m.sec)
    /\ rev \in {0} \cup {b.ver : b \in Build}
    /\ o.pc = "check" /\ o.sec = m.sec /\ o.kind = m.kind /\ o.cat = m.cat /\ o.read = read
    /\ o.next = [read.secs EXCEPT ![m.sec] = [snap |-> m.cat, rev |-> rev]]
    /\ o.lines = Surface!SeedLines(o, change, found) /\ o.seen = recorded
    /\ o = Surface!At(o.pc, o, o.read, o.next, o.lines, o.seen)

LEMMA SeedFacts ==
    ASSUME SurfaceInv, NEW o, NEW m, NEW read, NEW change, NEW found, NEW rev,
           Seeded(o, m, read, change, found, rev)
    PROVE  /\ Observation(o) /\ (Tells(o) <=> change # <<>>)
           /\ \A s \in Section \ {m.sec} : o.next[s] = read.secs[s]
<1> USE DEF Seeded
<1> DEFINE state == [snap |-> m.cat, rev |-> rev]
<1>4. state \in State /\ state # None /\ state.snap = m.cat
  <2>2. m.cat \in Catalog
    BY DEF Observation
  <2>3. state \in State /\ state.snap = m.cat
    BY <2>2 DEF State
  <2> QED  BY <2>3, Constants
<1>5. m.sec \in Section /\ read.secs \in Sections
  BY DEF Observation, Baseline
<1>6. /\ o.next \in Sections /\ o.next[m.sec] = state
      /\ \A s \in Section \ {m.sec} : o.next[s] = read.secs[s]
  <2> HIDE DEF state
  <2> QED  BY <1>4, <1>5 DEF Sections, state
<1>8. recorded \in Records
  BY FileFacts
<1>9. LinesShape(o) /\ (Tells(o) <=> change # <<>>)
  BY SeedLinesFacts
<1>10. Plan(o)
  <2> HIDE DEF state
  <2> QED  BY <1>4, <1>5, <1>6, <1>8 DEF Plan, Has
<1>11. m.cat \in Catalog
  BY DEF Observation
<1>12. Observation(o)
  BY <1>5, <1>9, <1>10, <1>11 DEF Observation
<1> QED  BY <1>6, <1>9, <1>12

\* In an observation by itself, the file holds what was seen last of the others.
LEMMA AloneFacts ==
    ASSUME SurfaceInv, Once, NEW p \in Proxy, proc[p].pc # "idle"
    PROVE  /\ \A s \in Section \ {proc[p].sec} : Has(v2.secs, s) => v2.secs[s].snap = hops[s].cat
           /\ ~ Compares(proc[p], proc[p].sec) =>
                 \A s \in Section : Has(v2.secs, s) => v2.secs[s].snap = hops[s].cat
           /\ v1 # None => ~ Readable \/ Has(v2.secs, "tools")
<1>1. \A q \in Proxy \ {p} : proc[q].pc = "idle"
  BY DEF SurfaceInv, OnceInv
<1>2. \A s \in Section : Underway(s) => Compares(proc[p], s)
  BY <1>1 DEF Underway, Compares
<1>3. \A s \in Section : Has(v2.secs, s) => v2.secs[s].snap = hops[s].cat \/ Underway(s)
  BY DEF SurfaceInv, OnceInv
<1>4. v1 # None => ~ Readable \/ Has(v2.secs, "tools")
  BY DEF SurfaceInv, OnceInv
<1> QED  BY <1>2, <1>3, <1>4 DEF Compares

LEMMA TellsFacts ==
    ASSUME SurfaceShape, NEW p \in Proxy, NEW o, ProcIs(p, o), Active(o), LinesShape(o), Tells(o)
    PROVE  Surface!Reported(o.sec, Surface!Watched(o.sec, o.cat))'
<1>1. proc'[p] = o
  BY DEF SurfaceShape, ProcIs
<1>2. PICK i \in DOMAIN o.lines : o.lines[i].t = "change" /\ o.lines[i].sec = o.sec /\ o.lines[i].to = o.cat
  BY DEF Tells, LinesShape
<1>3. PICK l : l = o.lines[i]
  OBVIOUS
<1>4. IsIn(l, proc'[p].lines) /\ proc'[p].pc # "idle"
  BY <1>1, <1>3 DEF IsIn, Active
<1>5. l \in Surface!Lines'
  BY <1>4, LinesAre
<1> QED  BY <1>2, <1>3, <1>5 DEF Surface!Reported

LEMMA SeedSectionStep ==
    ASSUME SurfaceInv, NEW p \in Proxy, Surface!SeedSection(p)
    PROVE  SurfaceInv'
<1>1. PICK m, read, change : m = proc[p] /\ read = v2 /\ change = <<>>
  OBVIOUS
<1>2. /\ m.pc = "base" /\ m.kind = "full" /\ v2.kind # "future" /\ m.sec # "tools" /\ v2.secs[m.sec] = None
      /\ Surface!Seed(p, read.secs, read, change)
      /\ UNCHANGED <<served, v1, v2, build, lines, recorded, silent, hops, window>>
  BY <1>1, FileFacts DEF Surface!SeedSection, Surface!Readable
<1>3. Observation(m) /\ (Once => OnceBy(m))
  BY <1>1, <1>2, ProcFacts
<1>4. m.lines = <<>> /\ read \in Baseline /\ ~ Has(read.secs, m.sec)
  BY <1>1, <1>2, <1>3, FileFacts DEF Observation, Has
<1>a. PICK judged, found : /\ judged = Surface!SeedReviews(m.sec, change)
                           /\ found = IF judged THEN Surface!ReviewToolSurfaces(build[p].ver, m.cat) ELSE {}
  OBVIOUS
<1>b. PICK rev : rev = IF judged THEN build[p].ver ELSE 0
  OBVIOUS
<1>d. PICK next, owed : /\ next = [read.secs EXCEPT ![m.sec] = [snap |-> m.cat, rev |-> rev]]
                        /\ owed = Surface!SeedLines(m, change, found)
  OBVIOUS
<1>e. PICK o : o = Surface!At("check", m, read, next, owed, recorded)
  OBVIOUS
<1>c. ProcIs(p, o)
  BY <1>1, <1>2, <1>4, <1>a, <1>b, <1>d, <1>e DEF Surface!Seed, Surface!Go, ProcIs
<1>f. /\ o.pc = "check" /\ o.sec = m.sec /\ o.kind = "full" /\ o.cat = m.cat /\ o.read = read
      /\ o.next = next /\ o.lines = owed /\ o.seen = recorded
      /\ o = Surface!At(o.pc, o, o.read, o.next, o.lines, o.seen)
  BY <1>2, <1>4, <1>e, AtIs
<1>5. Observation(o) /\ (Tells(o) <=> change # <<>>) /\ \A s \in Section \ {m.sec} : o.next[s] = read.secs[s]
  <2>1. m.kind = "full" /\ read.kind # "future" /\ rev \in {0} \cup {b.ver : b \in Build}
    BY <1>1, <1>2, <1>4, <1>b DEF SurfaceInv, SurfaceShape
  <2>2. owed = Surface!SeedLines(o, change, found)
    BY <1>d, <1>f DEF Surface!SeedLines
  <2>3. o.lines = Surface!SeedLines(o, change, found)
    BY <1>f, <2>2
  <2>4. o.next = [read.secs EXCEPT ![m.sec] = [snap |-> m.cat, rev |-> rev]] /\ o.kind = m.kind
    BY <1>d, <1>f, <2>1
  <2>5. Observation(m) /\ m.lines = <<>> /\ ~ Has(read.secs, m.sec) /\ read \in Baseline
    BY <1>3, <1>4
  <2>6. Seeded(o, m, read, change, found, rev)
    BY <1>f, <2>1, <2>3, <2>4, <2>5 DEF Seeded
  <2> QED  BY <2>6, SeedFacts
<1>g. Observation(o)' /\ Active(o)
  BY <1>2, <1>5, <1>f DEF Observation, Active
<1>6. Unlost' => KeptBy(o)'
  BY <1>2, <1>5, <1>f, <1>g DEF KeptBy
<1>7. ASSUME Once' PROVE OnceBy(o)'
  <2>1. Once
    BY <1>2, <1>7 DEF Once
  <2>2. /\ \A s \in Section \ {m.sec} : Has(v2.secs, s) => v2.secs[s].snap = hops[s].cat
        /\ v1 # None => ~ Readable \/ Has(v2.secs, "tools")
    BY <1>1, <1>2, <2>1, AloneFacts
  <2>3. o.cat = hops[o.sec].cat
    BY <1>2, <1>3, <1>5, <1>f, <1>g, <2>1 DEF OnceBy
  <2> QED  BY <1>1, <1>2, <1>5, <1>f, <1>g, <2>2, <2>3 DEF OnceBy, Has, Readable
<1>8. \A s \in Section : Compares(proc[p], s) => Compares(o, s)
  BY <1>1, <1>5, <1>f, <1>g DEF Compares
<1> QED  BY <1>1, <1>2, <1>4, <1>c, <1>5, <1>f, <1>g, <1>6, <1>7, <1>8, ThinkStep

LEMMA ReadForMigrationStep ==
    ASSUME SurfaceInv, NEW p \in Proxy, Surface!ReadForMigration(p)
    PROVE  SurfaceInv'
<1>1. PICK m, o : m = proc[p] /\ o = Surface!At("migrate", m, v2, v2.secs, <<>>, None)
  OBVIOUS
<1>2. /\ ProcIs(p, o) /\ m.pc = "base" /\ m.kind = "full" /\ v2.kind # "future"
      /\ m.sec = "tools" /\ ~ Has(v2.secs, "tools")
      /\ UNCHANGED <<served, v1, v2, build, lines, recorded, silent, hops, window>>
  BY <1>1, FileFacts DEF Surface!ReadForMigration, Surface!Readable, Surface!Go, ProcIs, Has
<1>3. Observation(m) /\ (Once => OnceBy(m))
  BY <1>1, <1>2, ProcFacts
<1>4. /\ o.pc = "migrate" /\ o.sec = "tools" /\ o.kind = "full" /\ o.cat = m.cat
      /\ o.read = v2 /\ o.next = v2.secs /\ o.lines = <<>>
      /\ o = Surface!At(o.pc, o, o.read, o.next, o.lines, o.seen)
  BY <1>1, <1>2, AtIs
<1>5. ~ Tells(o) /\ LinesShape(o)
  <2>1. <<>> \in Seq({}) /\ DOMAIN <<>> = {}
    OBVIOUS
  <2>2. IsSeq(<<>>)
    BY <2>1, SeqFacts
  <2> QED  BY <1>4, <2>1, <2>2 DEF Tells, LinesShape
<1>6. Observation(o)'
  BY <1>2, <1>3, <1>4, <1>5, FileFacts DEF Observation, Migration
<1>7. Unlost' => KeptBy(o)'
  BY <1>4 DEF KeptBy
<1>8. ASSUME Once' PROVE OnceBy(o)'
  <2>1. Once
    BY <1>2, <1>8 DEF Once
  <2>2. /\ \A s \in Section \ {"tools"} : Has(v2.secs, s) => v2.secs[s].snap = hops[s].cat
        /\ v1 # None => ~ Readable \/ Has(v2.secs, "tools")
    BY <1>1, <1>2, <2>1, AloneFacts
  <2>3. o.cat = hops[o.sec].cat
    BY <1>2, <1>3, <1>4, <2>1 DEF OnceBy
  <2> QED  BY <1>1, <1>2, <1>4, <1>5, <2>2, <2>3 DEF OnceBy, Has, Readable
<1>9. \A s \in Section : ~ (Has(v2.secs, s) /\ Compares(proc[p], s))
  BY <1>1, <1>2 DEF Compares
<1>10. m.lines = <<>> /\ Active(o)
  BY <1>2, <1>3, <1>4 DEF Observation, Active
<1> QED  BY <1>1, <1>2, <1>4, <1>6, <1>7, <1>8, <1>9, <1>10, ThinkStep

LEMMA MigrateStep ==
    ASSUME SurfaceInv, NEW p \in Proxy, Surface!Migrate(p)
    PROVE  SurfaceInv'
<1>1. PICK m, read, change : m = proc[p] /\ read = m.read /\ change = Surface!PlanMigration(build[p].ver, m.cat)
  OBVIOUS
<1>2. /\ m.pc = "migrate" /\ Surface!Seed(p, m.next, read, change)
      /\ UNCHANGED <<served, v1, v2, build, lines, recorded, silent, hops, window>>
  BY <1>1 DEF Surface!Migrate
<1>3. Observation(m) /\ (Once => OnceBy(m))
  BY <1>1, <1>2, ProcFacts
<1>4. /\ m.kind = "full" /\ m.sec = "tools" /\ m.lines = <<>> /\ m.next = read.secs
      /\ read \in Baseline /\ read.kind # "future" /\ ~ Has(read.secs, m.sec) /\ m.cat \in Catalog
  BY <1>1, <1>2, <1>3 DEF Observation, Migration
<1>a. PICK judged, found : /\ judged = Surface!SeedReviews(m.sec, change)
                           /\ found = IF judged THEN Surface!ReviewToolSurfaces(build[p].ver, m.cat) ELSE {}
  OBVIOUS
<1>b. PICK rev : rev = IF judged THEN build[p].ver ELSE 0
  OBVIOUS
<1>d. PICK next, owed : /\ next = [read.secs EXCEPT ![m.sec] = [snap |-> m.cat, rev |-> rev]]
                        /\ owed = Surface!SeedLines(m, change, found)
  OBVIOUS
<1>e. PICK o : o = Surface!At("check", m, read, next, owed, recorded)
  OBVIOUS
<1>c. ProcIs(p, o)
  BY <1>1, <1>2, <1>4, <1>a, <1>b, <1>d, <1>e DEF Surface!Seed, Surface!Go, ProcIs
<1>f. /\ o.pc = "check" /\ o.sec = m.sec /\ o.kind = "full" /\ o.cat = m.cat /\ o.read = read
      /\ o.next = next /\ o.lines = owed /\ o.seen = recorded
      /\ o = Surface!At(o.pc, o, o.read, o.next, o.lines, o.seen)
  BY <1>2, <1>4, <1>e, AtIs
<1>5. Observation(o) /\ (Tells(o) <=> change # <<>>) /\ \A s \in Section \ {m.sec} : o.next[s] = read.secs[s]
  <2>1. m.kind = "full" /\ read.kind # "future" /\ rev \in {0} \cup {b.ver : b \in Build}
    BY <1>1, <1>2, <1>4, <1>b DEF SurfaceInv, SurfaceShape
  <2>2. owed = Surface!SeedLines(o, change, found)
    BY <1>d, <1>f DEF Surface!SeedLines
  <2>3. o.lines = Surface!SeedLines(o, change, found)
    BY <1>f, <2>2
  <2>4. o.next = [read.secs EXCEPT ![m.sec] = [snap |-> m.cat, rev |-> rev]] /\ o.kind = m.kind
    BY <1>d, <1>f, <2>1
  <2>5. Observation(m) /\ m.lines = <<>> /\ ~ Has(read.secs, m.sec) /\ read \in Baseline
    BY <1>3, <1>4
  <2>6. Seeded(o, m, read, change, found, rev)
    BY <1>f, <2>1, <2>3, <2>4, <2>5 DEF Seeded
  <2> QED  BY <2>6, SeedFacts
<1>g. Observation(o)' /\ Active(o)
  BY <1>2, <1>5, <1>f DEF Observation, Active
<1>6. change = <<>> => v1 = None \/ v1 = Surface!Manifest(m.cat)
  BY <1>1, PlanFacts DEF Surface!PlanMigration
<1>7. ASSUME Unlost' PROVE KeptBy(o)'
  <2>0. Unlost
    BY <1>2, <1>7 DEF Unlost
  <2>1. SUFFICES ASSUME Untracked, recorded["tools"] # None
                 PROVE  Settled(recorded["tools"], Surface!Manifest(m.cat))'
    <3>1. PICK r : r = recorded["tools"]
      OBVIOUS
    <3> QED  BY <1>2, <1>4, <1>5, <1>f, <1>g, <3>1 DEF KeptBy, ByV1, Untracked, Readable, Has
  <2>2. v1 # None /\ Settled(recorded["tools"], v1)
    BY <2>0, <2>1 DEF SurfaceInv, KeptInv, V1Kept
  <2>3. PICK r, w : r = recorded["tools"] /\ w = Surface!Manifest(m.cat)
    OBVIOUS
  <2>4. CASE change # <<>>
    <3>1. LinesShape(o) /\ Tells(o) /\ SurfaceShape
      BY <1>5, <1>f, <1>g, <2>4 DEF Observation, SurfaceInv
    <3>2. Surface!Reported(o.sec, Surface!Watched(o.sec, o.cat))'
      BY <1>c, <1>5, <1>f, <1>g, <3>1, TellsFacts
    <3>3. Surface!Reported("tools", w)'
      BY <1>4, <1>5, <1>f, <1>g, <2>3, <3>2 DEF Surface!Watched
    <3> QED  BY <2>3, <3>3 DEF Settled
  <2>5. CASE change = <<>>
    <3>1. Settled(r, w)
      BY <1>6, <2>2, <2>3, <2>5
    <3>2. Surface!Lines \subseteq Surface!Lines'
      BY <1>1, <1>2, <1>4, <1>c, <1>5, <1>f, <1>g, LinesStay DEF SurfaceInv, Active
    <3>3. Settled(r, w)'
      BY <1>2, <3>1, <3>2, SettledStays
    <3> QED  BY <1>2, <2>3, <3>3
  <2> QED  BY <2>4, <2>5
<1>8. ASSUME Once' PROVE OnceBy(o)'
  <2>1. Once
    BY <1>2, <1>8 DEF Once
  <2>2. /\ o.cat = hops[o.sec].cat /\ v1 = None
        /\ \A s \in Section \ {m.sec} : Has(m.next, s) => m.next[s].snap = hops[s].cat
    BY <1>1, <1>2, <1>3, <1>4, <1>5, <1>f, <1>g, <2>1 DEF OnceBy, Has
  <2>3. ~ Tells(o)
    BY <1>1, <1>5, <1>f, <1>g, <2>2 DEF Surface!PlanMigration
  <2> QED  BY <1>2, <1>4, <1>5, <1>f, <1>g, <2>2, <2>3 DEF OnceBy, Has
<1>9. \A s \in Section : ~ Compares(proc[p], s)
  BY <1>1, <1>2 DEF Compares
<1> QED  BY <1>1, <1>2, <1>4, <1>c, <1>5, <1>f, <1>g, <1>7, <1>8, <1>9, ThinkStep

LEMMA CompareStep ==
    ASSUME SurfaceInv, NEW p \in Proxy, Surface!Compare(p)
    PROVE  SurfaceInv'
<1>1. PICK m, old, ver : m = proc[p] /\ old = v2.secs[m.sec] /\ ver = build[p].ver
  OBVIOUS
<1>2. PICK found, change, attention :
         /\ found = IF Surface!Stale(ver, m.sec, old) THEN Surface!ReviewToolSurfaces(ver, old.snap) ELSE {}
         /\ change = Surface!ChangeBetween(ver, m.sec, old.snap, m.cat)
         /\ attention = Surface!AttentionFor(old.snap, m.cat)
  OBVIOUS
<1>3. PICK rev, owed :
         /\ rev = IF Surface!Stale(ver, m.sec, old) THEN ver ELSE old.rev
         /\ owed = Surface!Reviewed(m.sec, old.snap, found) \o Surface!Changed(m.sec, m.cat, change, attention)
  OBVIOUS
<1>4. PICK next, idle, o : /\ next = [v2.secs EXCEPT ![m.sec] = [snap |-> m.cat, rev |-> rev]]
                           /\ idle = Surface!At("v1", m, None, None, m.lines, recorded)
                           /\ o = Surface!At("check", m, v2, next, owed, recorded)
  OBVIOUS
<1>5. /\ m.pc = "base" /\ m.kind = "full" /\ v2.kind # "future" /\ old # None
      /\ UNCHANGED <<served, v1, v2, build, lines, recorded, silent, hops, window>>
      /\ (old.snap = m.cat /\ ProcIs(p, idle)) \/ ProcIs(p, o)
  BY <1>1, <1>2, <1>3, <1>4, FileFacts DEF Surface!Compare, Surface!Readable, Surface!ToV1, Surface!Go, ProcIs
<1>6. Observation(m) /\ (Once => OnceBy(m)) /\ m.lines = <<>> /\ m.sec \in Section /\ m.cat \in Catalog
  BY <1>1, <1>5, ProcFacts DEF Observation
<1>7. /\ v2 \in Baseline /\ v2.secs \in Sections /\ recorded \in Records
      /\ Has(v2.secs, m.sec) /\ old \in State
  BY <1>1, <1>5, <1>6, FileFacts DEF Has, Sections
<1>8. Once => m.cat = hops[m.sec].cat
  BY <1>5, <1>6 DEF OnceBy
<1>9. CASE old.snap = m.cat /\ ProcIs(p, idle)
  <2>1. /\ Observation(idle)' /\ Active(idle) /\ idle.lines = m.lines /\ (Tells(idle) <=> Tells(m))
        /\ idle.pc = "v1" /\ idle.sec = m.sec /\ idle.kind = m.kind
    <3>1. idle = Surface!At("v1", m, None, None, m.lines, recorded) /\ window' = window
      BY <1>4, <1>5
    <3>2. Observation(m) /\ recorded \in Records /\ m.kind # "page" /\ window \subseteq window'
      BY <1>5, <1>6, <1>7, <3>1
    <3> QED  BY <3>1, <3>2, GoneFacts
  <2>2. Unlost' => KeptBy(idle)'
    BY <1>5, <1>7, <2>1 DEF KeptBy, Untracked, Has
  <2>3. Once' => OnceBy(idle)'
    BY <1>5, <1>6, <1>7, <2>1 DEF OnceBy, Once, Reports, Surface!Changes, Tells, Readable, Has
  <2>4. \A s \in Section : Compares(proc[p], s) => s = m.sec
    BY <1>1 DEF Compares
  <2>5. Once' => v2.secs[m.sec].snap = hops[m.sec].cat
    BY <1>1, <1>5, <1>8, <1>9 DEF Once
  <2> QED  BY <1>1, <1>5, <1>9, <2>1, <2>2, <2>3, <2>4, <2>5, ThinkStep
<1>10. CASE ProcIs(p, o)
  <2>1. /\ o.pc = "check" /\ o.sec = m.sec /\ o.kind = "full" /\ o.cat = m.cat /\ o.read = v2
        /\ o.next = next /\ o.lines = owed /\ o.seen = recorded
        /\ o = Surface!At(o.pc, o, o.read, o.next, o.lines, o.seen)
    BY <1>4, <1>5, AtIs
  <2>2. LinesShape(o) /\ (Tells(o) <=> change # <<>>)
    <3>1. o.lines = Surface!Reviewed(o.sec, old.snap, found) \o Surface!Changed(o.sec, o.cat, change, attention)
      BY <1>3, <2>1
    <3> QED  BY <3>1, OwedFacts
  <2>3. change = <<>> <=> Surface!Watched(m.sec, old.snap) = Surface!Watched(m.sec, m.cat)
    BY <1>2, DiffFacts
  <2>4. PICK state : state = [snap |-> m.cat, rev |-> rev]
    OBVIOUS
  <2>5. state \in State /\ state # None /\ state.snap = m.cat
    <3>1. rev \in {0} \cup {b.ver : b \in Build}
      BY <1>1, <1>3, <1>7 DEF State, SurfaceInv, SurfaceShape
    <3>2. state \in State /\ state.snap = m.cat
      BY <1>6, <2>4, <3>1 DEF State
    <3> QED  BY <3>2, Constants
  <2>6. /\ next \in Sections /\ next[m.sec] = state
        /\ \A s \in Section \ {m.sec} : next[s] = v2.secs[s]
    BY <1>4, <1>6, <1>7, <2>4, <2>5 DEF Sections
  <2>7. Plan(o)
    BY <1>1, <1>5, <1>7, <2>1, <2>2, <2>3, <2>5, <2>6 DEF Plan, Has
  <2>8. Observation(o)' /\ Active(o)
    BY <1>5, <1>6, <2>1, <2>2, <2>7 DEF Observation, Active
  <2>9. Unlost' => KeptBy(o)'
    BY <1>5, <1>7, <2>1 DEF KeptBy, Untracked, Has
  <2>10. ASSUME Once' PROVE OnceBy(o)'
    <3>1. Once
      BY <1>5, <2>10 DEF Once
    <3>2. /\ \A s \in Section \ {m.sec} : Has(v2.secs, s) => v2.secs[s].snap = hops[s].cat
          /\ v1 # None => ~ Readable \/ Has(v2.secs, "tools")
      BY <1>1, <1>5, <3>1, AloneFacts
    <3>3. Tells(o) => Reports(o.sec) + 1 <= hops[o.sec].n
      BY <1>1, <1>5, <1>6, <1>7, <2>1, <2>2, <2>3, <3>1 DEF OnceBy, Surface!Watched
    <3>4. (Tells(o) => Reports(o.sec) + 1 <= hops[o.sec].n)'
      BY <1>5, <3>3 DEF Tells, Reports, Surface!Changes
    <3> QED  BY <1>5, <1>8, <2>1, <2>6, <3>1, <3>2, <3>4 DEF OnceBy, Has, Readable
  <2>11. \A s \in Section : Compares(proc[p], s) => Compares(o, s)
    BY <1>1, <2>1 DEF Compares
  <2> QED  BY <1>1, <1>5, <1>6, <1>10, <2>8, <2>9, <2>10, <2>11, ThinkStep
<1> QED  BY <1>5, <1>9, <1>10

LEMMA CheckStep ==
    ASSUME SurfaceInv, NEW p \in Proxy, Surface!Check(p)
    PROVE  SurfaceInv'
<1>1. PICK m, gone, o : /\ m = proc[p]
                        /\ gone = Surface!At("v1", m, None, None, m.lines, m.seen)
                        /\ o = Surface!At("rename", m, m.read, m.next, m.lines, m.seen)
  OBVIOUS
<1>2. /\ m.pc = "check"
      /\ UNCHANGED <<served, v1, v2, build, lines, recorded, silent, hops, window>>
      /\ (v2.kind = "future" /\ ProcIs(p, gone)) \/ ProcIs(p, o)
  BY <1>1 DEF Surface!Check, Surface!ToV1, Surface!Go, ProcIs
<1>3. /\ Observation(m) /\ (Once => OnceBy(m)) /\ (Unlost => KeptBy(m))
      /\ Plan(m) /\ m.kind = "full" /\ m.seen \in Records /\ LinesShape(m)
  BY <1>1, <1>2, ProcFacts DEF Observation, Plan
<1>4. CASE v2.kind = "future" /\ ProcIs(p, gone)
  <2>1. /\ Observation(gone)' /\ Active(gone) /\ gone.lines = m.lines /\ (Tells(gone) <=> Tells(m))
        /\ gone.pc = "v1" /\ gone.sec = m.sec /\ gone.kind = m.kind
    <3>0. PICK seen : seen = m.seen
      OBVIOUS
    <3>1. gone = Surface!At("v1", m, None, None, m.lines, seen) /\ window \subseteq window'
      BY <1>1, <1>2, <3>0
    <3>2. Observation(m) /\ seen \in Records /\ m.kind # "page"
      BY <1>3, <3>0
    <3> QED  BY <3>1, <3>2, GoneFacts
  <2>2. Unlost' => KeptBy(gone)'
    BY <1>2, <1>4, <2>1 DEF KeptBy, Untracked, Readable
  <2>3. Once' => OnceBy(gone)'
    BY <1>2, <1>3, <1>4, <2>1 DEF OnceBy, Once, Reports, Surface!Changes, Tells, Readable
  <2>4. \A s \in Section : ~ Has(v2.secs, s)
    BY <1>4, FileFacts
  <2> QED  BY <1>1, <1>2, <1>4, <2>1, <2>2, <2>3, <2>4, ThinkStep
<1>5. CASE ProcIs(p, o)
  <2>1. /\ o.pc = "rename" /\ o.sec = m.sec /\ o.kind = m.kind /\ o.cat = m.cat /\ o.read = m.read
        /\ o.next = m.next /\ o.lines = m.lines /\ o.seen = m.seen
        /\ o = Surface!At(o.pc, o, o.read, o.next, o.lines, o.seen)
    BY <1>1, AtIs
  <2>2. LinesShape(o) /\ (Tells(o) <=> Tells(m))
    BY <1>3, <2>1 DEF LinesShape, Tells
  <2>3. Plan(o)
    BY <1>3, <2>1, <2>2 DEF Plan
  <2>4. Observation(o)' /\ Active(o)
    BY <1>2, <1>3, <2>1, <2>2, <2>3 DEF Observation, Active
  <2>5. Unlost' => KeptBy(o)'
    <3>1. PICK r, w : r = m.seen["tools"] /\ w = Surface!Manifest(m.cat)
      OBVIOUS
    <3>2. Surface!Lines \subseteq Surface!Lines'
      BY <1>1, <1>2, <1>5, <2>1, LinesStay DEF SurfaceInv
    <3>3. Settled(r, w) => Settled(r, w)'
      BY <1>2, <3>2, SettledStays
    <3>4. Unlost' => Unlost
      BY <1>2 DEF Unlost
    <3> QED  BY <1>2, <1>3, <2>1, <3>1, <3>3, <3>4 DEF KeptBy, ByV1, Untracked, Readable, Has
  <2>6. Once' => OnceBy(o)'
    BY <1>2, <1>3, <2>1, <2>2 DEF OnceBy, Once, Reports, Surface!Changes, Tells, Has
  <2>7. \A s \in Section : Compares(proc[p], s) => Compares(o, s)
    BY <1>1, <1>2, <2>1 DEF Compares
  <2> QED  BY <1>1, <1>2, <1>5, <2>1, <2>4, <2>5, <2>6, <2>7, ThinkStep
<1> QED  BY <1>2, <1>4, <1>5


LEMMA RenameFailsStep ==
    ASSUME SurfaceInv, NEW p \in Proxy, Surface!RenameFails(p)
    PROVE  SurfaceInv'
<1>1. PICK m, seen : m = proc[p] /\ seen = m.seen
  OBVIOUS
<1>2. PICK o : o = Surface!At("v1", m, None, None, m.lines, seen)
  OBVIOUS
<1>3. /\ m.pc = "rename" /\ ProcIs(p, o) /\ window' = window \cup {"write"}
      /\ UNCHANGED <<served, v1, v2, build, lines, recorded, silent, hops>>
  BY <1>1, <1>2 DEF Surface!RenameFails, Surface!ToV1, Surface!Go, ProcIs
<1>4. /\ Observation(m) /\ (Unlost => KeptBy(m)) /\ m.kind = "full" /\ seen \in Records
  BY <1>1, <1>3, ProcFacts DEF Observation, Plan
<1>5. /\ Observation(o)' /\ Active(o) /\ o.lines = m.lines
      /\ o.pc = "v1" /\ o.sec = m.sec /\ o.kind = m.kind /\ o.cat = m.cat /\ o.seen = seen
  <2>1. Observation(m) /\ seen \in Records /\ m.kind # "page" /\ window \subseteq window'
    BY <1>3, <1>4
  <2> QED  BY <1>2, <2>1, GoneFacts
<1>6. Unlost' => KeptBy(o)'
  <2>1. PICK r, w : r = m.seen["tools"] /\ w = Surface!Manifest(m.cat)
    OBVIOUS
  <2>2. Surface!Lines \subseteq Surface!Lines'
    BY <1>1, <1>3, <1>5, LinesStay DEF SurfaceInv, Active
  <2>3. Settled(r, w) => Settled(r, w)'
    BY <1>3, <2>2, SettledStays
  <2>4. Unlost' => Unlost
    BY <1>3 DEF Unlost
  <2> QED  BY <1>1, <1>3, <1>4, <1>5, <2>1, <2>3, <2>4 DEF KeptBy, ByV1, Untracked, Readable, Has
<1>7. ~ Once'
  BY <1>3 DEF Once, Surface!Repeating
<1> QED  BY <1>1, <1>3, <1>5, <1>6, <1>7, ThinkStep

-----------------------------------------------------------------------------
(* The steps that touch a file, the trail, or begin an observation.        *)

\* The other proxies' observations are as they were.
LEMMA OthersKept ==
    ASSUME SurfaceShape, KeptInv, NEW p \in Proxy, NEW o, ProcIs(p, o), Unlost', window \subseteq window',
           Untracked' => Untracked, Surface!Lines \subseteq Surface!Lines', Active(o) => KeptBy(o)'
    PROVE  \A q \in Proxy : proc'[q].pc # "idle" => KeptBy(proc[q])'
<1>1. proc'[p] = o /\ \A q \in Proxy \ {p} : proc'[q] = proc[q]
  BY DEF SurfaceShape, ProcIs
<1>2. Unlost
  BY WindowFacts
<1>3. ASSUME NEW q \in Proxy, proc'[q].pc # "idle" PROVE KeptBy(proc[q])'
  <2>1. CASE q = p
    BY <1>1, <1>3, <2>1 DEF Active
  <2>2. CASE q # p
    <3>1. proc'[q] = proc[q] /\ KeptBy(proc[q])
      BY <1>1, <1>2, <1>3, <2>2 DEF KeptInv
    <3> QED  BY <3>1, KeptByStays
  <2> QED  BY <2>1, <2>2
<1> QED  BY <1>3

LEMMA WriteV1Step ==
    ASSUME SurfaceInv, NEW p \in Proxy, Surface!WriteV1(p)
    PROVE  SurfaceInv'
<1>1. PICK m : m = proc[p]
  OBVIOUS
<1>2. PICK o : o = Surface!At("after", m, None, None, m.lines, None)
  OBVIOUS
<1>3. /\ m.pc = "v1" /\ ProcIs(p, o)
      /\ v1' = IF m.sec = "tools" THEN Surface!Manifest(IF m.kind = "bad" THEN <<>> ELSE m.cat) ELSE v1
      /\ window \subseteq window' /\ (m.kind = "bad" => "bad" \in window')
      /\ (Surface!Hash("tools") = None /\ recorded # m.seen => "stale" \in window')
      /\ UNCHANGED <<served, v2, build, lines, recorded, silent, hops>>
  BY <1>1, <1>2 DEF Surface!WriteV1, Surface!ExtractTools, Surface!Done, Surface!Go, ProcIs
<1>4. /\ Observation(m) /\ (Unlost => KeptBy(m)) /\ (Once => OnceBy(m))
      /\ m.kind \in {"full", "bad"} /\ m.cat \in Catalog
  BY <1>1, <1>3, ProcFacts DEF Observation
<1>5. Observation(o)' /\ Active(o) /\ o.lines = m.lines /\ (Tells(o) <=> Tells(m)) /\ o.pc = "after" /\ o.sec = m.sec
  <2>1. Observation(m) /\ window \subseteq window'
    BY <1>3, <1>4
  <2> QED  BY <1>2, <2>1, GoneFacts
<1>6. Surface!Lines \subseteq Surface!Lines'
  BY <1>1, <1>3, <1>5, LinesStay DEF SurfaceInv, Active
<1>7. proc'[p] = o /\ \A q \in Proxy \ {p} : proc'[q] = proc[q]
  BY <1>3 DEF ProcIs, SurfaceInv, SurfaceShape
<1>8. m.sec = "tools" => v1' # None /\ v1' \in {Surface!Manifest(cat) : cat \in Catalog \cup {<<>>}}
  BY <1>3, <1>4, Constants
<1>9. SurfaceShape'
  <2>1. SurfaceShape /\ (v1' \in {Surface!Manifest(cat) : cat \in Catalog \cup {<<>>}} \cup {None})
    BY <1>3, <1>8 DEF SurfaceInv, SurfaceShape
  <2>2. proc' = [q \in Proxy |-> proc'[q]] /\ \A q \in Proxy : proc'[q] = Surface!Idle \/ Observation(proc[q])'
    BY <1>3, <1>5, <2>1, ProcShape
  <2> QED  BY <1>3, <2>1, <2>2 DEF SurfaceShape, FileShape
<1>10. ASSUME Unlost' PROVE KeptInv'
  <2>0. Unlost /\ SurfaceShape /\ KeptInv
    BY <1>3, <1>10, WindowFacts DEF SurfaceInv
  <2>1. \A q \in Proxy : proc'[q].pc # "idle" => KeptBy(proc[q])'
    <3>1. Untracked' => Untracked
      BY <1>3 DEF Untracked, Readable, Has
    <3>2. KeptBy(o)'
      BY <1>5 DEF KeptBy
    <3> QED  BY <1>3, <1>6, <1>10, <2>0, <3>1, <3>2, OthersKept
  <2>2. Readable' => \A s \in Section : Held(s)'
    BY <1>3, <2>0 DEF KeptInv, Readable, Held, Has
  <2>3. V1Kept'
    <3>1. V1Kept
      BY <2>0 DEF KeptInv
    <3>2. CASE m.sec # "tools"
      <4>1. v1' = v1 /\ (v1 = None /\ recorded["tools"] # None => \E q \in Proxy : proc'[q].pc = "v1" /\ proc'[q].sec = "tools")
        BY <1>1, <1>3, <1>7, <3>1, <3>2 DEF V1Kept
      <4>2. PICK r, w : r = recorded["tools"] /\ w = v1
        OBVIOUS
      <4>3. Settled(r, w) => Settled(r, w)'
        BY <1>3, <1>6, SettledStays
      <4> QED  BY <1>3, <3>1, <4>1, <4>2, <4>3 DEF V1Kept, Untracked, Readable, Has
    <3>3. CASE m.sec = "tools"
      <4>1. ASSUME Untracked, recorded["tools"] # None PROVE Settled(recorded["tools"], v1)'
        <5>1. PICK r, w : r = recorded["tools"] /\ w = v1'
          OBVIOUS
        <5>2. CASE m.kind = "bad"
          BY <1>3, <3>3, <5>1, <5>2 DEF Settled, Surface!Emptied
        <5>3. CASE m.kind # "bad"
          <6>1. Surface!Hash("tools") = None
            BY <4>1 DEF Untracked, Has, Surface!Hash
          <6>2. recorded = m.seen
            BY <1>3, <1>10, <6>1 DEF Unlost, Surface!Losing
          <6>3. Settled(r, w)
            BY <1>3, <1>4, <2>0, <3>3, <4>1, <5>1, <5>3, <6>2 DEF KeptBy, ByV1
          <6>4. Settled(r, w)'
            BY <1>3, <1>6, <6>3, SettledStays
          <6> QED  BY <1>3, <5>1, <6>4
        <5> QED  BY <5>2, <5>3
      <4> QED  BY <1>3, <1>8, <3>3, <4>1 DEF V1Kept, Untracked, Readable, Has
    <3> QED  BY <3>2, <3>3
  <2>4. Surface!NothingSwallowed'
    BY <1>3, <1>6, <2>0, SwallowedStays DEF KeptInv
  <2> QED  BY <2>1, <2>2, <2>3, <2>4 DEF KeptInv
<1>11. ASSUME Once' PROVE OnceInv'
  <2>0. Once /\ OnceInv /\ m.kind = "full"
    BY <1>3, <1>4, <1>11, WindowFacts DEF SurfaceInv, Once, Surface!Repeating
  <2>1. \A q \in Proxy \ {p} : proc[q].pc = "idle"
    BY <1>1, <1>3, <2>0 DEF OnceInv
  <2>2. OnceBy(o)'
    BY <1>3, <1>4, <1>5, <2>0 DEF OnceBy, Reports, Surface!Changes, Tells
  <2>3. v1' # None => ~ Readable' \/ Has(v2.secs, "tools")'
    BY <1>3, <1>4, <2>0 DEF OnceInv, OnceBy, Readable, Has
  <2>4. \A s \in Section : ~ Underway(s)
    BY <1>1, <1>3, <2>1 DEF Underway, Compares
  <2>5. \A s \in Section : Has(v2.secs, s)' => v2'.secs[s].snap = hops'[s].cat
    BY <1>3, <2>0, <2>4 DEF OnceInv, Has
  <2>6. Surface!NothingRepeated'
    BY <1>3, <2>0 DEF OnceInv, Surface!NothingRepeated, Surface!Changes, Once
  <2> QED  BY <1>7, <2>1, <2>2, <2>3, <2>5, <2>6 DEF OnceInv
<1>12. KeptInv' /\ OnceInv'
  BY <1>10, <1>11 DEF KeptInv, OnceInv
<1> QED  BY <1>9, <1>12 DEF SurfaceInv


LEMMA WriteV1FailsStep ==
    ASSUME SurfaceInv, NEW p \in Proxy, Surface!WriteV1Fails(p)
    PROVE  SurfaceInv'
<1>1. PICK m : m = proc[p]
  OBVIOUS
<1>2. PICK o : o = Surface!At("after", m, None, None, m.lines, None)
  OBVIOUS
<1>3. /\ m.pc = "v1" /\ ProcIs(p, o) /\ window' = window \cup {"write", "v1 lost"}
      /\ UNCHANGED <<served, v1, v2, build, lines, recorded, silent, hops>>
  BY <1>1, <1>2 DEF Surface!WriteV1Fails, Surface!Done, Surface!Go, ProcIs
<1>4. Observation(m) /\ window \subseteq window'
  BY <1>1, <1>3, ProcFacts
<1>5. Observation(o)'
  BY <1>2, <1>4, GoneFacts
<1>6. SurfaceShape'
  BY <1>3, <1>4, <1>5, ShapeStep DEF SurfaceInv
<1>7. ~ Unlost' /\ ~ Once'
  BY <1>3 DEF Unlost, Once, Surface!Losing, Surface!Repeating
<1> QED  BY <1>6, <1>7 DEF SurfaceInv, KeptInv, OnceInv

LEMMA CrashStep ==
    ASSUME SurfaceInv, NEW p \in Proxy, Surface!Crash(p)
    PROVE  SurfaceInv'
<1>1. PICK o : o = Surface!Idle
  OBVIOUS
<1>2. /\ ProcIs(p, o) /\ window' = window \cup {"crash"}
      /\ UNCHANGED <<served, v1, v2, build, lines, recorded, silent, hops>>
  BY <1>1 DEF Surface!Crash, Surface!Go, ProcIs
<1>3. SurfaceShape'
  BY <1>1, <1>2, ShapeStep DEF SurfaceInv
<1>4. ~ Unlost' /\ ~ Once'
  BY <1>2 DEF Unlost, Once, Surface!Losing, Surface!Repeating
<1> QED  BY <1>3, <1>4 DEF SurfaceInv, KeptInv, OnceInv

LEMMA NothingFacts == Surface!Nothing \in Sections /\ \A s \in Section : Surface!Nothing[s] = None
  BY DEF Surface!Nothing, Sections

LEMMA CorruptStep ==
    ASSUME SurfaceInv, Surface!Corrupt
    PROVE  SurfaceInv'
<1>1. /\ window' = window \cup {"corrupt"} /\ v2.kind = "ok"
      /\ UNCHANGED <<served, v1, build, proc, lines, recorded, silent, hops>>
  BY DEF Surface!Corrupt
<1>2. v2 \in Baseline
  BY DEF SurfaceInv, SurfaceShape, FileShape
<1>3. FileShape(v2)'
  <2>1. CASE v2' = [kind |-> "corrupt", secs |-> Surface!Nothing]
    <3>1. PICK secs : secs = Surface!Nothing /\ secs \in Sections
      BY NothingFacts
    <3>2. v2' = [kind |-> "corrupt", secs |-> secs]
      BY <2>1, <3>1
    <3>3. v2' \in Baseline /\ v2'.secs = secs
      BY <3>1, <3>2 DEF Baseline
    <3> QED  BY <3>1, <3>3 DEF FileShape
  <2>2. ASSUME NEW s \in Section, v2' = [v2 EXCEPT !.secs[s] = None] PROVE FileShape(v2)'
    <3>1. PICK secs : secs = [v2.secs EXCEPT ![s] = None]
      OBVIOUS
    <3>2. secs \in Sections
      BY <1>2, <3>1 DEF Baseline, Sections
    <3>3. v2' = [v2 EXCEPT !.secs = secs]
      BY <2>2, <3>1
    <3>4. v2' \in Baseline /\ v2'.kind = "ok"
      BY <1>1, <1>2, <3>2, <3>3 DEF Baseline
    <3> QED  BY <3>4 DEF FileShape
  <2> QED  BY <2>1, <2>2 DEF Surface!Corrupt
<1>4. SurfaceShape'
  <2>1. \A q \in Proxy : Observation(proc[q]) => Observation(proc[q])'
    <3>1. TAKE q \in Proxy
    <3>2. PICK x : x = proc[q]
      OBVIOUS
    <3>3. Observation(x) => Observation(x)'
      BY <1>1 DEF Observation
    <3> QED  BY <1>1, <3>2, <3>3
  <2> QED  BY <1>1, <1>3, <2>1 DEF SurfaceInv, SurfaceShape
<1>5. ~ Unlost' /\ ~ Once'
  BY <1>1 DEF Unlost, Once, Surface!Losing, Surface!Repeating
<1> QED  BY <1>4, <1>5 DEF SurfaceInv, KeptInv, OnceInv

\* The server or the builds move: nothing the properties look at does.
LEMMA ElsewhereStep ==
    ASSUME SurfaceInv, \A s \in Section : served'[s] \in Catalog, build' \in [Proxy -> Build],
           UNCHANGED <<v1, v2, proc, lines, recorded, silent, hops, window>>
    PROVE  SurfaceInv'
<1>1. \A q \in Proxy : Observation(proc[q]) => Observation(proc[q])'
  BY DEF Observation
<1>2. SurfaceShape'
  BY <1>1 DEF SurfaceInv, SurfaceShape, FileShape
<1>3. \A sec, w : Surface!Reported(sec, w)' = Surface!Reported(sec, w)
  BY DEF Surface!Reported, Surface!Lines
<1>4. KeptInv'
  <2>1. \A was, w : Settled(was, w)' = Settled(was, w)
    BY <1>3 DEF Settled, Surface!Emptied
  <2>2. Surface!NothingSwallowed' = Surface!NothingSwallowed
    BY <1>3 DEF Surface!NothingSwallowed, Surface!Emptied
  <2>3. \A q \in Proxy : KeptBy(proc[q])' = KeptBy(proc[q])
    BY <2>1 DEF KeptBy, ByV1, Untracked, Readable, Has, Tells
  <2>4. V1Kept' = V1Kept
    BY <2>1 DEF V1Kept, Untracked, Readable, Has
  <2>5. \A s \in Section : Held(s)' = Held(s)
    BY DEF Held, Has
  <2> QED  BY <2>2, <2>3, <2>4, <2>5 DEF SurfaceInv, KeptInv, Unlost, Readable
<1>5. OnceInv'
  <2>1. \A s \in Section : Reports(s)' = Reports(s) /\ Underway(s)' = Underway(s)
    BY DEF Reports, Surface!Changes, Underway, Compares
  <2>2. \A q \in Proxy : OnceBy(proc[q])' = OnceBy(proc[q])
    BY DEF OnceBy, Reports, Surface!Changes, Readable, Has, Tells
  <2>3. Surface!NothingRepeated' = Surface!NothingRepeated
    BY DEF Surface!NothingRepeated, Surface!Changes
  <2> QED  BY <2>1, <2>2, <2>3 DEF SurfaceInv, OnceInv, Once, Readable, Has
<1> QED  BY <1>2, <1>4, <1>5 DEF SurfaceInv

LEMMA MovesStep ==
    ASSUME SurfaceInv, NEW s \in Section, Surface!ServerMoves(s)
    PROVE  SurfaceInv'
<1>1. \A x \in Section : served'[x] \in Catalog
  BY Constants DEF Surface!ServerMoves, SurfaceInv, SurfaceShape
<1>2. build' \in [Proxy -> Build] /\ UNCHANGED <<v1, v2, proc, lines, recorded, silent, hops, window>>
  BY DEF Surface!ServerMoves, SurfaceInv, SurfaceShape
<1> QED  BY <1>1, <1>2, ElsewhereStep

LEMMA SwitchStep ==
    ASSUME SurfaceInv, NEW p \in Proxy, Surface!Switch(p)
    PROVE  SurfaceInv'
<1>1. build' \in [Proxy -> Build]
  BY DEF Surface!Switch, SurfaceInv, SurfaceShape
<1>2. /\ \A x \in Section : served'[x] \in Catalog
      /\ UNCHANGED <<v1, v2, proc, lines, recorded, silent, hops, window>>
  BY DEF Surface!Switch, SurfaceInv, SurfaceShape
<1> QED  BY <1>1, <1>2, ElsewhereStep

LEMMA NewerStep ==
    ASSUME SurfaceInv, Surface!Newer
    PROVE  SurfaceInv'
<1>1. UNCHANGED <<served, v1, build, proc, lines, recorded, silent, hops, window>>
  BY DEF Surface!Newer
<1>2. v2' \in Baseline /\ v2'.kind = "future" /\ \A s \in Section : v2'.secs[s] = None
  <2>1. PICK secs : secs = Surface!Nothing /\ secs \in Sections /\ \A s \in Section : secs[s] = None
    BY NothingFacts
  <2>2. v2' = [kind |-> "future", secs |-> secs]
    BY <2>1 DEF Surface!Newer
  <2> QED  BY <2>1, <2>2 DEF Baseline
<1>3. FileShape(v2)'
  BY <1>2 DEF FileShape, Surface!Newer
<1>4. SurfaceShape'
  <2>1. \A q \in Proxy : Observation(proc[q]) => Observation(proc[q])'
    BY <1>1 DEF Observation
  <2> QED  BY <1>1, <1>2, <1>3, <2>1 DEF SurfaceInv, SurfaceShape
<1>5. \A sec, w : Surface!Reported(sec, w)' = Surface!Reported(sec, w)
  BY <1>1 DEF Surface!Reported, Surface!Lines
<1>6. ~ Readable' /\ ~ Untracked'
  BY <1>2 DEF Readable, Untracked
<1>7. KeptInv'
  <2>1. Surface!NothingSwallowed' = Surface!NothingSwallowed
    BY <1>1, <1>5 DEF Surface!NothingSwallowed, Surface!Emptied
  <2>2. \A q \in Proxy : KeptBy(proc[q]) => KeptBy(proc[q])'
    BY <1>1, <1>6 DEF KeptBy, Tells
  <2>3. V1Kept => V1Kept'
    BY <1>1, <1>6 DEF V1Kept
  <2> QED  BY <1>1, <1>6, <2>1, <2>2, <2>3 DEF SurfaceInv, KeptInv, Unlost
<1>8. OnceInv'
  <2>1. \A s \in Section : Reports(s)' = Reports(s) /\ ~ Has(v2.secs, s)'
    BY <1>1, <1>2 DEF Reports, Surface!Changes, Has
  <2>2. \A q \in Proxy : proc[q].pc # "idle" => (Once /\ OnceBy(proc[q]) => OnceBy(proc[q])')
    <3>1. TAKE q \in Proxy
    <3>2. HAVE proc[q].pc # "idle"
    <3>3. proc[q].sec \in Section
      BY <3>2, IdleIs DEF SurfaceInv, SurfaceShape, Observation
    <3> QED  BY <1>1, <1>6, <2>1, <3>3 DEF OnceBy, Tells
  <2>3. Surface!NothingRepeated' = Surface!NothingRepeated
    BY <1>1 DEF Surface!NothingRepeated, Surface!Changes
  <2> QED  BY <1>1, <1>6, <2>1, <2>2, <2>3 DEF SurfaceInv, OnceInv, Once
<1> QED  BY <1>4, <1>7, <1>8 DEF SurfaceInv


\* A write: the file holds what was seen, and owes a line for what it replaced.
LEMMA RenameStep ==
    ASSUME SurfaceInv, NEW p \in Proxy, Surface!Rename(p)
    PROVE  SurfaceInv'
<1>1. PICK m, s, now, seen, was : m = proc[p] /\ s = m.sec /\ now = m.cat /\ seen = recorded' /\ was = recorded[s]
  OBVIOUS
<1>2. PICK o : o = Surface!At("v1", m, None, None, m.lines, seen)
  OBVIOUS
<1>3. m.pc = "rename"
  BY <1>1 DEF Surface!Rename
<1>4. /\ Observation(m) /\ (Unlost => KeptBy(m)) /\ (Once => OnceBy(m)) /\ LinesShape(m)
      /\ Plan(m) /\ m.kind = "full" /\ s \in Section /\ now \in Catalog /\ m.next \in Sections
      /\ m.read.kind # "future" /\ m.next[s] # None /\ m.next[s].snap = now
      /\ \A x \in Section \ {s} : m.next[x] = m.read.secs[x]
  BY <1>1, <1>3, ProcFacts DEF Observation, Plan, Has
<1>5. /\ ProcIs(p, o) /\ v2' = [kind |-> "ok", secs |-> m.next]
      /\ silent' = silent \cup Surface!Owes(s, was, now) /\ recorded' = [recorded EXCEPT ![s] = now]
      /\ window \subseteq window' /\ (v2 # m.read \/ recorded # m.seen => "stale" \in window')
      /\ ("old build" \in window /\ m.read.secs[s] # None /\ m.read.secs[s].snap # was => "v2 behind" \in window')
      /\ UNCHANGED <<served, v1, build, lines, hops>>
  BY <1>1, <1>2, <1>3, <1>4 DEF Surface!Rename, Surface!NewFile, Surface!Behind, Surface!ToV1, Surface!Go, ProcIs
<1>6. /\ recorded \in Records /\ v2 \in Baseline /\ v2.secs \in Sections
  BY FileFacts
<1>7. seen \in Records /\ seen[s] = now /\ now # None /\ \A x \in Section \ {s} : seen[x] = recorded[x]
  BY <1>1, <1>4, <1>5, <1>6, Constants DEF Records
<1>8. /\ Observation(o)' /\ Active(o) /\ o.lines = m.lines /\ (Tells(o) <=> Tells(m))
      /\ o.pc = "v1" /\ o.sec = s /\ o.kind = "full" /\ o.cat = now /\ o.seen = seen
  <2>1. Observation(m) /\ seen \in Records /\ m.kind # "page" /\ window \subseteq window'
    BY <1>4, <1>5, <1>7
  <2>2. /\ Observation(o)' /\ Active(o) /\ o.lines = m.lines /\ (Tells(o) <=> Tells(m))
        /\ o.pc = "v1" /\ o.sec = m.sec /\ o.kind = m.kind /\ o.cat = m.cat /\ o.seen = seen
    <3>1. Observation(o)' /\ Active(o) /\ o.lines = m.lines
      BY <1>2, <2>1, GoneFacts
    <3>2. o.pc = "v1" /\ o.sec = m.sec /\ o.kind = m.kind /\ o.cat = m.cat /\ o.seen = seen
      BY <1>2, AtIs
    <3> QED  BY <3>1, <3>2 DEF Tells
  <2> QED  BY <1>1, <1>4, <2>2
<1>9. Surface!Lines \subseteq Surface!Lines'
  BY <1>1, <1>5, <1>8, LinesStay DEF SurfaceInv, Active
<1>10. proc'[p] = o /\ \A q \in Proxy \ {p} : proc'[q] = proc[q]
  BY <1>5 DEF ProcIs, SurfaceInv, SurfaceShape
<1>11. v2' \in Baseline /\ v2'.kind = "ok" /\ v2'.secs = m.next
  BY <1>4, <1>5 DEF Baseline
<1>12. SurfaceShape'
  <2>1. proc' = [q \in Proxy |-> proc'[q]] /\ \A q \in Proxy : proc'[q] = Surface!Idle \/ Observation(proc[q])'
    BY <1>5, <1>8, ProcShape DEF SurfaceInv
  <2> QED  BY <1>1, <1>5, <1>7, <1>11, <2>1 DEF SurfaceInv, SurfaceShape, FileShape
<1>13. ASSUME Unlost' PROVE KeptInv'
  <2>0. Unlost /\ SurfaceShape /\ KeptInv /\ KeptBy(m)
    BY <1>4, <1>5, <1>13, WindowFacts DEF SurfaceInv
  <2>1. /\ v2 = m.read /\ recorded = m.seen /\ Readable
        /\ ("old build" \in window /\ Has(v2.secs, s) => v2.secs[s].snap = was)
    BY <1>4, <1>5, <1>13 DEF Unlost, Surface!Losing, Readable, Has
  <2>2. \A x \in Section : Held(x)
    BY <2>0, <2>1 DEF KeptInv
  <2>3. Untracked' => Untracked /\ s # "tools"
    BY <1>4, <1>11, <2>1, Constants DEF Untracked, Readable, Has
  <2>4. \A q \in Proxy : proc'[q].pc # "idle" => KeptBy(proc[q])'
    <3>1. KeptBy(o)'
      BY <1>8, <2>3 DEF KeptBy
    <3> QED  BY <1>5, <1>9, <1>13, <2>0, <2>3, <3>1, OthersKept
  <2>5. \A x \in Section : Held(x)'
    <3>1. Held(s)'
      BY <1>1, <1>4, <1>7, <1>11 DEF Held, Has
    <3>2. ASSUME NEW x \in Section \ {s} PROVE Held(x)'
      <4>1. v2'.secs[x] = v2.secs[x] /\ recorded'[x] = recorded[x] /\ window \subseteq window'
        BY <1>1, <1>4, <1>5, <1>7, <1>11, <2>1
      <4>2. Held(x)
        BY <2>2
      <4> QED  BY <4>1, <4>2 DEF Held, Has
    <3> QED  BY <3>1, <3>2
  <2>6. V1Kept'
    <3>1. V1Kept
      BY <2>0 DEF KeptInv
    <3>2. v1' = None /\ recorded'["tools"] # None => \E q \in Proxy : proc'[q].pc = "v1" /\ proc'[q].sec = "tools"
      <4>1. CASE s = "tools"
        BY <1>8, <1>10, <4>1
      <4>2. CASE s # "tools"
        BY <1>1, <1>3, <1>5, <1>7, <1>10, <3>1, <4>2, Constants DEF V1Kept
      <4> QED  BY <4>1, <4>2
    <3>3. Untracked' /\ recorded'["tools"] # None => v1' # None /\ Settled(recorded["tools"], v1)'
      <4>1. SUFFICES ASSUME Untracked', recorded'["tools"] # None PROVE v1' # None /\ Settled(recorded["tools"], v1)'
        OBVIOUS
      <4>2. PICK r, w : r = recorded["tools"] /\ w = v1
        OBVIOUS
      <4>3. r = recorded'["tools"] /\ w = v1' /\ Untracked
        BY <1>1, <1>5, <1>7, <2>3, <4>1, <4>2, Constants
      <4>4. w # None /\ Settled(r, w)
        BY <3>1, <4>1, <4>2, <4>3 DEF V1Kept
      <4>5. Settled(r, w)'
        BY <1>5, <1>9, <4>4, SettledStays
      <4> QED  BY <4>3, <4>4, <4>5
    <3> QED  BY <3>2, <3>3 DEF V1Kept
  <2>7. Surface!NothingSwallowed'
    <3> DEFINE Owed(x) == LET w == Surface!Watched(x.sec, x.to)
                          IN  Surface!Watched(x.sec, x.from) = w \/ Surface!Reported(x.sec, w)' \/ Surface!Emptied(x.sec, w)'
    <3>1. ASSUME NEW x \in silent PROVE Owed(x)
      <4>1. PICK w, from : w = Surface!Watched(x.sec, x.to) /\ from = Surface!Watched(x.sec, x.from)
        OBVIOUS
      <4>2. from = w \/ Surface!Reported(x.sec, w) \/ Surface!Emptied(x.sec, w)
        BY <2>0, <4>1 DEF KeptInv, Surface!NothingSwallowed, Unlost
      <4>3. from = w \/ Surface!Reported(x.sec, w)' \/ Surface!Emptied(x.sec, w)'
        BY <1>5, <1>9, <4>2, SettledStays
      <4> QED  BY <4>1, <4>3
    <3>2. ASSUME was # None, was # now
          PROVE  \/ Surface!Watched(s, was) = Surface!Watched(s, now)
                 \/ Surface!Reported(s, Surface!Watched(s, now))' \/ Surface!Emptied(s, Surface!Watched(s, now))'
      <4>1. CASE Has(v2.secs, s)
        <5>1. v2.secs[s].snap = was
          BY <1>1, <1>4, <2>1, <2>2, <4>1 DEF Held
        <5>2. CASE Tells(m)
          <6>1. LinesShape(o) /\ Tells(o) /\ SurfaceShape
            BY <1>8, <2>0, <5>2 DEF Observation
          <6>2. Surface!Reported(o.sec, Surface!Watched(o.sec, o.cat))'
            BY <1>5, <1>8, <6>1, TellsFacts
          <6> QED  BY <1>8, <6>2
        <5>3. CASE ~ Tells(m)
          BY <1>1, <1>4, <2>1, <4>1, <5>1, <5>3 DEF Plan
        <5> QED  BY <5>2, <5>3
      <4>2. CASE ~ Has(v2.secs, s)
        <5>1. s = "tools" /\ Untracked
          BY <1>1, <1>4, <2>1, <2>2, <3>2, <4>2 DEF Held, Untracked
        <5>2. PICK w : w = Surface!Manifest(now)
          OBVIOUS
        <5>3. Settled(was, w)
          BY <1>1, <1>3, <1>4, <2>0, <2>1, <3>2, <5>1, <5>2 DEF KeptBy, ByV1
        <5>4. Surface!Manifest(was) = w \/ Surface!Reported("tools", w)' \/ Surface!Emptied("tools", w)'
          BY <1>5, <1>9, <5>3, SettledStays DEF Settled
        <5> QED  BY <5>1, <5>2, <5>4 DEF Surface!Watched
      <4> QED  BY <4>1, <4>2
    <3>3. ASSUME NEW x \in Surface!Owes(s, was, now) PROVE Owed(x)
      <4>1. x.sec = s /\ x.from = was /\ x.to = now /\ was # None /\ was # now
        BY <3>3 DEF Surface!Owes
      <4> QED  BY <3>2, <4>1
    <3>4. \A x \in silent' : Owed(x)
      BY <1>5, <3>1, <3>3
    <3> QED  BY <3>4 DEF Surface!NothingSwallowed
  <2> QED  BY <2>4, <2>5, <2>6, <2>7 DEF KeptInv
<1>14. ASSUME Once' PROVE OnceInv'
  <2>0. Once /\ OnceInv /\ OnceBy(m)
    BY <1>4, <1>5, <1>14, WindowFacts DEF SurfaceInv
  <2>1. \A q \in Proxy \ {p} : proc[q].pc = "idle"
    BY <1>1, <1>3, <2>0 DEF OnceInv
  <2>2. v1 # None => Has(m.next, "tools")
    BY <1>1, <1>3, <1>4, <2>0, Constants DEF OnceBy, Has
  <2>3. OnceBy(o)'
    <3>1. (Tells(o) => Reports(o.sec) + 1 <= hops[o.sec].n)'
      BY <1>1, <1>5, <1>8, <2>0 DEF OnceBy, Reports, Surface!Changes, Tells
    <3>2. o.sec = "tools" => Has(v2.secs, "tools")'
      BY <1>4, <1>8, <1>11 DEF Has
    <3> QED  BY <1>8, <3>1, <3>2 DEF OnceBy
  <2>4. \A x \in Section : Has(m.next, x) => m.next[x].snap = hops[x].cat
    BY <1>1, <1>3, <1>4, <2>0 DEF OnceBy
  <2>5. Surface!NothingRepeated'
    BY <1>5, <2>0 DEF OnceInv, Surface!NothingRepeated, Surface!Changes, Once
  <2>6. v1' # None => Has(v2.secs, "tools")'
    BY <1>5, <1>11, <2>2 DEF Has
  <2>7. \A x \in Section : Has(v2.secs, x)' => v2'.secs[x].snap = hops'[x].cat
    BY <1>5, <1>11, <2>4 DEF Has
  <2> QED  BY <1>10, <2>1, <2>3, <2>5, <2>6, <2>7 DEF OnceInv
<1>15. KeptInv' /\ OnceInv'
  BY <1>13, <1>14 DEF KeptInv, OnceInv
<1> QED  BY <1>12, <1>15 DEF SurfaceInv


LEMMA CountIs == \A S : Surface!Cardinality(S) = Cardinality(S)
  BY DEF Cardinality, Surface!Cardinality

LEMMA RepeatedIs ==
    /\ Surface!NothingRepeated <=> (Once => \A s \in Section : Reports(s) <= hops[s].n)
    /\ Surface!NothingRepeated' <=> (Once' => \A s \in Section : Reports(s)' <= hops'[s].n)
<1>1. Surface!NothingRepeated <=> (Once => \A s \in Section : Reports(s) <= hops[s].n)
  BY CountIs DEF Surface!NothingRepeated, Reports, Once
<1>2. Surface!NothingRepeated' <=> (Once' => \A s \in Section : Reports(s)' <= hops'[s].n)
  BY CountIs DEF Surface!NothingRepeated, Reports, Once
<1> QED  BY <1>1, <1>2

\* The trail grows by the lines of a proxy that ends.
LEMMA AppendedFacts ==
    ASSUME SurfaceInv, NEW p \in Proxy, NEW m, m = proc[p], Active(m),
           ProcIs(p, Surface!Idle), lines' = lines \o m.lines
    PROVE  /\ IsSeq(lines') /\ Surface!Lines \subseteq Surface!Lines'
           /\ Tells(m) => Surface!Reported(m.sec, Surface!Watched(m.sec, m.cat))'
           /\ \A s \in Section :
                /\ Reports(s) \in Nat /\ Reports(s)' \in Nat
                /\ Reports(s)' <= Reports(s) \/ (Reports(s)' <= Reports(s) + 1 /\ Tells(m) /\ s = m.sec)
<1>1. PICK a, b : a = lines /\ b = lines'
  OBVIOUS
<1>2. Observation(m) /\ IsSeq(a) /\ LinesShape(m) /\ IsSeq(m.lines)
  BY <1>1, IdleIs DEF SurfaceInv, SurfaceShape, Observation, LinesShape, Active
<1>3. IsSeq(b) /\ Len(a) \in Nat /\ Len(m.lines) \in Nat
  BY <1>1, <1>2, JoinedShape
<1>4. /\ DOMAIN a = 1..Len(a) /\ DOMAIN m.lines = 1..Len(m.lines) /\ DOMAIN b = 1..(Len(a) + Len(m.lines))
      /\ \A i \in DOMAIN a : b[i] = a[i]
      /\ \A i \in DOMAIN m.lines : b[Len(a) + i] = m.lines[i]
      /\ \A i \in DOMAIN b : i \in DOMAIN a \/ (i - Len(a) \in DOMAIN m.lines /\ b[i] = m.lines[i - Len(a)])
  BY <1>1, <1>2, JoinedItems
<1>5. proc'[p] = Surface!Idle /\ \A q \in Proxy \ {p} : proc'[q] = proc[q]
  BY DEF SurfaceInv, SurfaceShape, ProcIs
<1>6. \A l : IsIn(l, a) \/ IsIn(l, m.lines) => IsIn(l, b)
  <2>1. ASSUME NEW l, IsIn(l, a) PROVE IsIn(l, b)
    <3>1. PICK i \in DOMAIN a : l = a[i]
      BY <2>1 DEF IsIn
    <3>2. i \in DOMAIN b /\ b[i] = l
      BY <1>3, <1>4, <3>1
    <3> QED  BY <3>2 DEF IsIn
  <2>2. ASSUME NEW l, IsIn(l, m.lines) PROVE IsIn(l, b)
    <3>1. PICK i \in DOMAIN m.lines : l = m.lines[i]
      BY <2>2 DEF IsIn
    <3>2. Len(a) + i \in DOMAIN b /\ b[Len(a) + i] = l
      BY <1>3, <1>4, <3>1
    <3> QED  BY <3>2 DEF IsIn
  <2> QED  BY <2>1, <2>2
<1>7. Surface!Lines \subseteq Surface!Lines'
  <2>1. ASSUME NEW l, l \in Surface!Lines PROVE l \in Surface!Lines'
    <3>1. IsIn(l, a) \/ \E q \in Proxy : proc[q].pc # "idle" /\ IsIn(l, proc[q].lines)
      BY <1>1, <2>1, LinesAre
    <3>2. IsIn(l, b) \/ \E q \in Proxy : proc'[q].pc # "idle" /\ IsIn(l, proc'[q].lines)
      BY <1>1, <1>5, <1>6, <3>1
    <3> QED  BY <1>1, <3>2, LinesAre
  <2> QED  BY <2>1
<1>8. ASSUME Tells(m) PROVE Surface!Reported(m.sec, Surface!Watched(m.sec, m.cat))'
  <2>1. PICK i \in DOMAIN m.lines : m.lines[i].t = "change" /\ m.lines[i].sec = m.sec /\ m.lines[i].to = m.cat
    BY <1>2, <1>8 DEF Tells, LinesShape
  <2>2. PICK l : l = m.lines[i]
    OBVIOUS
  <2>3. IsIn(l, lines')
    BY <1>1, <1>6, <2>2 DEF IsIn
  <2>4. l \in Surface!Lines'
    BY <2>3, LinesAre
  <2> QED  BY <2>1, <2>2, <2>4 DEF Surface!Reported
<1>9. ASSUME NEW s \in Section
      PROVE  /\ Reports(s) \in Nat /\ Reports(s)' \in Nat
             /\ Reports(s)' <= Reports(s) \/ (Reports(s)' <= Reports(s) + 1 /\ Tells(m) /\ s = m.sec)
  <2>1. PICK before, after : before = Surface!Changes(s) /\ after = Surface!Changes(s)'
    OBVIOUS
  <2>2. /\ before = {i \in DOMAIN a : a[i].t = "change" /\ a[i].sec = s}
        /\ after = {i \in DOMAIN b : b[i].t = "change" /\ b[i].sec = s}
    BY <1>1, <2>1 DEF Surface!Changes
  <2>3. IsFiniteSet(before) /\ IsFiniteSet(after)
    <3>1. IsFiniteSet(1..Len(a)) /\ IsFiniteSet(1..(Len(a) + Len(m.lines)))
      <4>1. 1 \in Int /\ Len(a) \in Int /\ Len(a) + Len(m.lines) \in Int
        BY <1>3
      <4> QED  BY <4>1, FS_Interval
    <3> QED  BY <1>4, <2>2, <3>1, FS_Subset
  <2>4. Cardinality(before) \in Nat /\ Cardinality(after) \in Nat
    BY <2>3, FS_CardinalityType
  <2>5. CASE \E k \in DOMAIN m.lines : m.lines[k].t = "change" /\ m.lines[k].sec = s
    <3>1. PICK k \in DOMAIN m.lines : m.lines[k].t = "change" /\ m.lines[k].sec = s
      BY <2>5
    <3>2. Tells(m) /\ s = m.sec
      BY <1>2, <3>1 DEF Tells, LinesShape
    <3>3. after \subseteq before \cup {Len(a) + k}
      <4>1. ASSUME NEW i \in after PROVE i \in before \/ i = Len(a) + k
        <5>1. CASE i \in DOMAIN a
          BY <1>4, <2>2, <5>1
        <5>2. CASE i \notin DOMAIN a
          <6>1. i - Len(a) \in DOMAIN m.lines /\ m.lines[i - Len(a)].t = "change" /\ i \in Nat
            BY <1>3, <1>4, <2>2, <5>2
          <6>2. i - Len(a) = k
            BY <1>2, <3>1, <6>1 DEF LinesShape
          <6> QED  BY <1>3, <1>4, <6>1, <6>2
        <5> QED  BY <5>1, <5>2
      <4> QED  BY <4>1
    <3>4. IsFiniteSet(before \cup {Len(a) + k}) /\ Cardinality(before \cup {Len(a) + k}) <= Cardinality(before) + 1
      <4>1. PICK x : x = Len(a) + k
        OBVIOUS
      <4>2. IsFiniteSet(before \cup {x})
        BY <2>3, FS_AddElement
      <4>3. Cardinality(before \cup {x}) = IF x \in before THEN Cardinality(before) ELSE Cardinality(before) + 1
        BY <2>3, FS_AddElement
      <4> QED  BY <2>4, <4>1, <4>2, <4>3
    <3>5. Cardinality(after) <= Cardinality(before \cup {Len(a) + k}) /\ Cardinality(before \cup {Len(a) + k}) \in Nat
      BY <3>3, <3>4, FS_Subset, FS_CardinalityType
    <3>6. Cardinality(after) <= Cardinality(before) + 1
      BY <2>4, <3>4, <3>5
    <3> QED  BY <2>1, <2>4, <3>2, <3>6 DEF Reports
  <2>6. CASE ~ \E k \in DOMAIN m.lines : m.lines[k].t = "change" /\ m.lines[k].sec = s
    <3>1. after \subseteq before
      BY <1>4, <2>2, <2>6, SMTT(30)
    <3>2. Cardinality(after) <= Cardinality(before)
      BY <2>3, <3>1, FS_Subset
    <3> QED  BY <2>1, <2>4, <3>2 DEF Reports
  <2> QED  BY <2>5, <2>6
<1>10. IsSeq(lines')
  BY <1>1, <1>3
<1> QED  BY <1>7, <1>8, <1>9, <1>10


LEMMA EmitStep ==
    ASSUME SurfaceInv, NEW p \in Proxy, Surface!Emit(p)
    PROVE  SurfaceInv'
<1>1. PICK m, o : m = proc[p] /\ o = Surface!Idle
  OBVIOUS
<1>2. /\ m.pc = "after" /\ Active(m) /\ ProcIs(p, Surface!Idle) /\ ProcIs(p, o) /\ lines' = lines \o m.lines
      /\ UNCHANGED <<served, v1, v2, build, recorded, silent, hops, window>>
  BY <1>1 DEF Surface!Emit, Surface!Go, ProcIs, Active
<1>3. Observation(m) /\ (Once => OnceBy(m))
  BY <1>1, <1>2, ProcFacts
<1>4. IsSeq(lines') /\ Surface!Lines \subseteq Surface!Lines'
  BY <1>1, <1>2, AppendedFacts
<1>5. ASSUME NEW s \in Section
      PROVE  /\ Reports(s) \in Nat /\ Reports(s)' \in Nat
             /\ Reports(s)' <= Reports(s) \/ (Reports(s)' <= Reports(s) + 1 /\ Tells(m) /\ s = m.sec)
  BY <1>1, <1>2, AppendedFacts
<1>6. proc'[p] = o /\ ~ Active(o) /\ \A q \in Proxy \ {p} : proc'[q] = proc[q]
  BY <1>1, <1>2, IdleIs DEF ProcIs, SurfaceInv, SurfaceShape
<1>7. SurfaceShape'
  <2>1. proc' = [q \in Proxy |-> proc'[q]] /\ \A q \in Proxy : proc'[q] = Surface!Idle \/ Observation(proc[q])'
    BY <1>1, <1>2, ProcShape DEF SurfaceInv
  <2> QED  BY <1>2, <1>4, <2>1 DEF SurfaceInv, SurfaceShape, FileShape
<1>8. ASSUME Unlost' PROVE KeptInv'
  <2>0. Unlost /\ SurfaceShape /\ KeptInv /\ window \subseteq window'
    BY <1>2, <1>8 DEF SurfaceInv, Unlost
  <2>1. \A q \in Proxy : proc'[q].pc # "idle" => KeptBy(proc[q])'
    <3>1. Untracked' => Untracked
      BY <1>2 DEF Untracked, Readable, Has
    <3> QED  BY <1>2, <1>4, <1>6, <1>8, <2>0, <3>1, OthersKept
  <2>2. Readable' => \A s \in Section : Held(s)'
    BY <1>2, <2>0 DEF KeptInv, Readable, Held, Has
  <2>3. V1Kept'
    <3>1. V1Kept
      BY <2>0 DEF KeptInv
    <3>2. v1 = None /\ recorded["tools"] # None => \E q \in Proxy : proc'[q].pc = "v1" /\ proc'[q].sec = "tools"
      BY <1>1, <1>2, <1>6, <3>1 DEF V1Kept
    <3>3. PICK r, w : r = recorded["tools"] /\ w = v1
      OBVIOUS
    <3>4. Settled(r, w) => Settled(r, w)'
      BY <1>4, <2>0, SettledStays
    <3> QED  BY <1>2, <3>1, <3>2, <3>3, <3>4 DEF V1Kept, Untracked, Readable, Has
  <2>4. Surface!NothingSwallowed'
    BY <1>2, <1>4, <2>0, SwallowedStays DEF KeptInv
  <2> QED  BY <2>1, <2>2, <2>3, <2>4 DEF KeptInv
<1>9. ASSUME Once' PROVE OnceInv'
  <2>0. Once /\ OnceInv /\ OnceBy(m)
    BY <1>2, <1>3, <1>9 DEF SurfaceInv, Once
  <2>1. \A q \in Proxy : proc'[q].pc = "idle"
    BY <1>1, <1>2, <1>6, <2>0 DEF OnceInv, Active
  <2>2. \A s \in Section : ~ Underway(s)
    <3>1. \A q \in Proxy : proc[q].pc \in {"idle", "after"}
      BY <1>1, <1>2, <1>6, <2>1
    <3> QED  BY <3>1 DEF Underway, Compares
  <2>3. \A s \in Section : Has(v2.secs, s)' => v2'.secs[s].snap = hops'[s].cat
    BY <1>2, <2>0, <2>2 DEF OnceInv, Has
  <2>4. Surface!NothingRepeated'
    <3>1. ASSUME NEW s \in Section PROVE Reports(s)' <= hops'[s].n
      <4>1. hops[s].n \in Nat /\ Reports(s) <= hops[s].n
        <5>1. Surface!NothingRepeated
          BY <2>0 DEF OnceInv
        <5>2. Reports(s) <= hops[s].n
          BY <2>0, <5>1, RepeatedIs
        <5> QED  BY <5>2 DEF SurfaceInv, SurfaceShape
      <4>2. Tells(m) /\ s = m.sec => Reports(s) + 1 <= hops[s].n
        BY <2>0 DEF OnceBy
      <4> QED  BY <1>2, <1>5, <4>1, <4>2
    <3> QED  BY <3>1, RepeatedIs
  <2>5. v1' # None => ~ Readable' \/ Has(v2.secs, "tools")'
    BY <1>2, <2>0 DEF OnceInv, Readable, Has
  <2> QED  BY <2>1, <2>3, <2>4, <2>5 DEF OnceInv
<1>10. KeptInv' /\ OnceInv'
  BY <1>8, <1>9 DEF KeptInv, OnceInv
<1> QED  BY <1>7, <1>10 DEF SurfaceInv

LEMMA OldWriteStep ==
    ASSUME SurfaceInv, NEW p \in Proxy, Surface!OldWrite(p)
    PROVE  SurfaceInv'
<1>1. PICK m, o, now, was : m = proc[p] /\ o = Surface!Idle /\ now = m.cat /\ was = recorded["tools"]
  OBVIOUS
<1>2. /\ m.pc = "old" /\ Active(m) /\ ProcIs(p, Surface!Idle) /\ ProcIs(p, o) /\ lines' = lines \o m.lines
      /\ v1' = Surface!Manifest(now) /\ silent' = silent \cup Surface!Owes("tools", was, now)
      /\ recorded' = [recorded EXCEPT !["tools"] = now]
      /\ window \subseteq window' /\ (recorded # m.seen => "stale" \in window')
      /\ UNCHANGED <<served, v2, build, hops>>
  BY <1>1 DEF Surface!OldWrite, Surface!Go, ProcIs, Active
<1>3. /\ Observation(m) /\ (Unlost => KeptBy(m)) /\ m.sec = "tools" /\ now \in Catalog /\ "old build" \in window
  BY <1>1, <1>2, ProcFacts DEF Observation
<1>4. IsSeq(lines') /\ Surface!Lines \subseteq Surface!Lines'
  BY <1>1, <1>2, AppendedFacts
<1>5. Tells(m) => Surface!Reported("tools", Surface!Watched("tools", now))'
  <2>1. Tells(m) => Surface!Reported(m.sec, Surface!Watched(m.sec, m.cat))'
    BY <1>1, <1>2, AppendedFacts
  <2>2. m.cat = now
    BY <1>1
  <2> QED  BY <1>3, <2>1, <2>2
<1>6. proc'[p] = o /\ ~ Active(o) /\ \A q \in Proxy \ {p} : proc'[q] = proc[q]
  BY <1>1, <1>2, IdleIs DEF ProcIs, SurfaceInv, SurfaceShape
<1>7. /\ v1' # None /\ v1' \in {Surface!Manifest(cat) : cat \in Catalog \cup {<<>>}}
      /\ recorded' \in Records /\ recorded'["tools"] = now /\ \A s \in Section \ {"tools"} : recorded'[s] = recorded[s]
  BY <1>2, <1>3, FileFacts, Constants DEF Records
<1>8. SurfaceShape'
  <2>1. proc' = [q \in Proxy |-> proc'[q]] /\ \A q \in Proxy : proc'[q] = Surface!Idle \/ Observation(proc[q])'
    BY <1>1, <1>2, ProcShape DEF SurfaceInv
  <2> QED  BY <1>2, <1>4, <1>7, <2>1 DEF SurfaceInv, SurfaceShape, FileShape
<1>9. ASSUME Unlost' PROVE KeptInv'
  <2>0. Unlost /\ SurfaceShape /\ KeptInv /\ KeptBy(m)
    BY <1>2, <1>3, <1>9, WindowFacts DEF SurfaceInv
  <2>1. recorded = m.seen
    BY <1>2, <1>9 DEF Unlost, Surface!Losing
  <2>2. \A q \in Proxy : proc'[q].pc # "idle" => KeptBy(proc[q])'
    <3>1. Untracked' => Untracked
      BY <1>2 DEF Untracked, Readable, Has
    <3> QED  BY <1>2, <1>4, <1>6, <1>9, <2>0, <3>1, OthersKept
  <2>3. ASSUME Readable', NEW s \in Section PROVE Held(s)'
    <3>1. Held(s)
      BY <1>2, <2>0, <2>3 DEF KeptInv, Readable
    <3>2. CASE s = "tools"
      BY <1>2, <1>3, <3>2 DEF Held, Has
    <3>3. CASE s # "tools"
      BY <1>2, <1>7, <3>1, <3>3 DEF Held, Has
    <3> QED  BY <3>2, <3>3
  <2>4. V1Kept'
    <3>1. Settled(now, Surface!Manifest(now))'
      BY DEF Settled
    <3>2. Settled(recorded["tools"], v1)'
      <4>1. PICK r, w : r = now /\ w = Surface!Manifest(now)
        OBVIOUS
      <4>2. Settled(r, w)'
        BY <4>1 DEF Settled
      <4> QED  BY <1>2, <1>7, <4>1, <4>2
    <3> QED  BY <1>7, <3>2 DEF V1Kept
  <2>5. Surface!NothingSwallowed'
    <3> DEFINE Owed(x) == LET w == Surface!Watched(x.sec, x.to)
                          IN  Surface!Watched(x.sec, x.from) = w \/ Surface!Reported(x.sec, w)' \/ Surface!Emptied(x.sec, w)'
    <3>1. ASSUME NEW x \in silent PROVE Owed(x)
      <4>1. PICK w, from : w = Surface!Watched(x.sec, x.to) /\ from = Surface!Watched(x.sec, x.from)
        OBVIOUS
      <4>2. from = w \/ Surface!Reported(x.sec, w) \/ Surface!Emptied(x.sec, w)
        BY <2>0, <4>1 DEF KeptInv, Surface!NothingSwallowed, Unlost
      <4>3. from = w \/ Surface!Reported(x.sec, w)' \/ Surface!Emptied(x.sec, w)'
        BY <1>2, <1>4, <4>2, SettledStays
      <4> QED  BY <4>1, <4>3
    <3>2. ASSUME NEW x \in Surface!Owes("tools", was, now) PROVE Owed(x)
      <4>1. x.sec = "tools" /\ x.from = was /\ x.to = now /\ was # None
        BY <3>2 DEF Surface!Owes
      <4>2. Tells(m)
        BY <1>1, <1>2, <2>0, <2>1, <4>1 DEF KeptBy
      <4> QED  BY <1>5, <4>1, <4>2
    <3>3. \A x \in silent' : Owed(x)
      BY <1>2, <3>1, <3>2
    <3> QED  BY <3>3 DEF Surface!NothingSwallowed
  <2> QED  BY <2>2, <2>3, <2>4, <2>5 DEF KeptInv
<1>10. ~ Once'
  BY <1>2, <1>3 DEF Once, Surface!Repeating
<1>11. KeptInv'
  BY <1>9 DEF KeptInv
<1> QED  BY <1>8, <1>10, <1>11 DEF SurfaceInv, OnceInv


LEMMA ChangesFinite ==
    ASSUME SurfaceShape, NEW s \in Section
    PROVE  IsFiniteSet(Surface!Changes(s))
<1>1. PICK a : a = lines
  OBVIOUS
<1>2. Len(a) \in Nat /\ DOMAIN a = 1..Len(a)
  BY <1>1 DEF SurfaceShape, IsSeq
<1>3. IsFiniteSet(1..Len(a))
  <2>1. 1 \in Int /\ Len(a) \in Int
    BY <1>2
  <2> QED  BY <2>1, FS_Interval
<1>4. Surface!Changes(s) \subseteq 1..Len(a)
  BY <1>1, <1>2 DEF Surface!Changes
<1> QED  BY <1>3, <1>4, FS_Subset

LEMMA RespondStep ==
    ASSUME SurfaceInv, NEW p \in Proxy, NEW s \in Section, NEW kind \in Responses, Surface!Respond(p, s, kind)
    PROVE  SurfaceInv'
<1>1. PICK cat, x : cat = served[s] /\ x = [sec |-> s, kind |-> kind, cat |-> served[s]]
  OBVIOUS
<1>2. PICK o : o = Surface!At("base", x, None, None, <<>>, None)
  OBVIOUS
<1>3. /\ proc[p].pc = "idle" /\ ProcIs(p, o)
      /\ hops' = IF kind = "full"
                 THEN [hops EXCEPT ![s] = [cat |-> cat,
                                           n |-> IF hops[s].cat \in {None, cat} THEN hops[s].n ELSE hops[s].n + 1]]
                 ELSE hops
      /\ window \subseteq window' /\ ((\E q \in Proxy \ {p} : proc[q].pc # "idle") => "overlap" \in window')
      /\ UNCHANGED <<served, v1, v2, build, lines, recorded, silent>>
  BY <1>1, <1>2 DEF Surface!Respond, Surface!Go, Surface!Hop, Surface!Others, ProcIs
<1>4. /\ o.pc = "base" /\ o.sec = s /\ o.kind = kind /\ o.cat = cat /\ o.lines = <<>>
      /\ o = Surface!At(o.pc, o, o.read, o.next, o.lines, o.seen)
  BY <1>1, <1>2, AtIs
<1>5. ~ Tells(o) /\ LinesShape(o)
  <2>1. <<>> \in Seq({}) /\ DOMAIN <<>> = {}
    OBVIOUS
  <2>2. IsSeq(<<>>)
    BY <2>1, SeqFacts
  <2> QED  BY <1>4, <2>1, <2>2 DEF Tells, LinesShape
<1>6. cat \in Catalog /\ cat # None
  BY <1>1, Constants DEF SurfaceInv, SurfaceShape
<1>7. Observation(o)' /\ Active(o)
  BY <1>4, <1>5, <1>6, Constants DEF Observation, Active
<1>8. /\ hops \in [Section -> [cat : Catalog \cup {None}, n : Nat]]
      /\ hops' \in [Section -> [cat : Catalog \cup {None}, n : Nat]]
  <2>1. hops \in [Section -> [cat : Catalog \cup {None}, n : Nat]]
    BY DEF SurfaceInv, SurfaceShape
  <2>2. PICK h : h = [cat |-> cat, n |-> IF hops[s].cat \in {None, cat} THEN hops[s].n ELSE hops[s].n + 1]
    OBVIOUS
  <2>3. h \in [cat : Catalog \cup {None}, n : Nat]
    BY <1>6, <2>1, <2>2
  <2>4. hops' = IF kind = "full" THEN [hops EXCEPT ![s] = h] ELSE hops
    BY <1>3, <2>2
  <2> QED  BY <2>1, <2>3, <2>4
<1>9. /\ \A y \in Section : hops'[y].n >= hops[y].n /\ (y # s \/ kind # "full" => hops'[y] = hops[y])
      /\ kind = "full" => /\ hops'[s].cat = cat
                          /\ hops[s].cat \notin {None, cat} => hops'[s].n = hops[s].n + 1
  BY <1>3, <1>8
<1>10. proc'[p] = o /\ \A q \in Proxy \ {p} : proc'[q] = proc[q]
  BY <1>3 DEF ProcIs, SurfaceInv, SurfaceShape
<1>11. Surface!Lines \subseteq Surface!Lines'
  BY <1>3, <1>7, LinesStay DEF SurfaceInv, Active
<1>12. SurfaceShape'
  <2>1. proc' = [q \in Proxy |-> proc'[q]] /\ \A q \in Proxy : proc'[q] = Surface!Idle \/ Observation(proc[q])'
    BY <1>3, <1>7, ProcShape DEF SurfaceInv
  <2> QED  BY <1>3, <1>8, <2>1 DEF SurfaceInv, SurfaceShape, FileShape
<1>13. ASSUME Unlost' PROVE KeptInv'
  <2>0. Unlost /\ SurfaceShape /\ KeptInv
    BY <1>3, <1>13, WindowFacts DEF SurfaceInv
  <2>1. \A q \in Proxy : proc'[q].pc # "idle" => KeptBy(proc[q])'
    <3>1. Untracked' => Untracked
      BY <1>3 DEF Untracked, Readable, Has
    <3>2. KeptBy(o)'
      BY <1>4 DEF KeptBy
    <3> QED  BY <1>3, <1>11, <1>13, <2>0, <3>1, <3>2, OthersKept
  <2>2. Readable' => \A y \in Section : Held(y)'
    BY <1>3, <2>0 DEF KeptInv, Readable, Held, Has
  <2>3. V1Kept'
    <3>1. V1Kept
      BY <2>0 DEF KeptInv
    <3>2. v1 = None /\ recorded["tools"] # None => \E q \in Proxy : proc'[q].pc = "v1" /\ proc'[q].sec = "tools"
      BY <1>3, <1>10, <3>1 DEF V1Kept
    <3>3. PICK r, w : r = recorded["tools"] /\ w = v1
      OBVIOUS
    <3>4. Settled(r, w) => Settled(r, w)'
      BY <1>3, <1>11, SettledStays
    <3> QED  BY <1>3, <3>1, <3>2, <3>3, <3>4 DEF V1Kept, Untracked, Readable, Has
  <2>4. Surface!NothingSwallowed'
    BY <1>3, <1>11, <2>0, SwallowedStays DEF KeptInv
  <2> QED  BY <2>1, <2>2, <2>3, <2>4 DEF KeptInv
<1>14. ASSUME Once' PROVE OnceInv'
  <2>0. Once /\ OnceInv
    BY <1>3, <1>14, WindowFacts DEF SurfaceInv
  <2>1. \A q \in Proxy : proc[q].pc = "idle"
    BY <1>3, <1>14 DEF Once, Surface!Repeating
  <2>2. \A y \in Section : Has(v2.secs, y) => v2.secs[y].snap = hops[y].cat
    BY <2>0, <2>1 DEF OnceInv, Underway, Compares
  <2>3. \A y \in Section : Reports(y) <= hops[y].n
    <3>1. Surface!NothingRepeated
      BY <2>0 DEF OnceInv
    <3> QED  BY <2>0, <3>1, RepeatedIs
  <2>4. \A y \in Section : Reports(y)' = Reports(y) /\ Has(v2.secs, y)' = Has(v2.secs, y)
    BY <1>3 DEF Reports, Surface!Changes, Has
  <2>5. \A y \in Section : Reports(y) \in Nat /\ hops[y].n \in Nat /\ hops'[y].n \in Nat /\ Reports(y) <= hops'[y].n
    <3>1. TAKE y \in Section
    <3>2. Reports(y) = Cardinality(Surface!Changes(y)) /\ Reports(y) \in Nat
      <4>1. IsFiniteSet(Surface!Changes(y))
        BY ChangesFinite DEF SurfaceInv
      <4> QED  BY <4>1, FS_CardinalityType DEF Reports
    <3> QED  BY <1>8, <1>9, <2>3, <3>2
  <2>6. OnceBy(o)'
    <3>1. ASSUME kind = "full" PROVE o.cat = hops'[s].cat
      BY <1>4, <1>9, <3>1
    <3>2. ASSUME kind = "full", Has(v2.secs, s), v2.secs[s].snap # cat PROVE Reports(s) + 1 <= hops'[s].n
      <4>1. hops[s].cat = v2.secs[s].snap /\ hops[s].cat # cat
        BY <2>2, <3>2
      <4>2. hops[s].cat # None
        <5>1. v2.secs \in Sections
          BY FileFacts
        <5>2. v2.secs[s] \in State
          BY <3>2, <5>1 DEF Has, Sections
        <5>3. v2.secs[s].snap \in Catalog
          BY <5>2 DEF State
        <5> QED  BY <4>1, <5>3, Constants
      <4>3. hops'[s].n = hops[s].n + 1
        BY <1>9, <3>2, <4>1, <4>2
      <4> QED  BY <2>3, <2>5, <4>3
    <3> QED  BY <1>3, <1>4, <1>5, <2>4, <3>1, <3>2 DEF OnceBy, Tells
  <2>7. \A y \in Section : Has(v2.secs, y)' => v2'.secs[y].snap = hops'[y].cat \/ Underway(y)'
    <3>1. ASSUME NEW y \in Section, Has(v2.secs, y)' PROVE v2'.secs[y].snap = hops'[y].cat \/ Underway(y)'
      <4>1. CASE y = s /\ kind = "full"
        BY <1>4, <1>10, <4>1 DEF Underway, Compares
      <4>2. CASE ~ (y = s /\ kind = "full")
        BY <1>3, <1>9, <2>2, <2>4, <3>1, <4>2
      <4> QED  BY <4>1, <4>2
    <3> QED  BY <3>1
  <2>8. Surface!NothingRepeated'
    <3>1. \A y \in Section : Reports(y)' <= hops'[y].n
      BY <2>4, <2>5
    <3> QED  BY <3>1, RepeatedIs
  <2>9. v1' # None => ~ Readable' \/ Has(v2.secs, "tools")'
    BY <1>3, <2>0 DEF OnceInv, Readable, Has
  <2> QED  BY <1>10, <2>1, <2>6, <2>7, <2>8, <2>9 DEF OnceInv
<1>15. KeptInv' /\ OnceInv'
  BY <1>13, <1>14 DEF KeptInv, OnceInv
<1> QED  BY <1>12, <1>15 DEF SurfaceInv

LEMMA OldRespondStep ==
    ASSUME SurfaceInv, NEW p \in Proxy, Surface!OldRespond(p)
    PROVE  SurfaceInv'
<1>1. PICK cat, next, ver : cat = served["tools"] /\ next = Surface!Manifest(cat) /\ ver = build[p].ver
  OBVIOUS
<1>2. PICK x, change : /\ x = [sec |-> "tools", kind |-> "full", cat |-> cat]
                       /\ change = IF v1 = None THEN <<>> ELSE Surface!ReportChanges(ver, v1, next, cat)
  OBVIOUS
<1>3. PICK owed, o : owed = Surface!SeedLines(x, change, {}) /\ o = Surface!At("old", x, None, None, owed, recorded)
  OBVIOUS
<1>a. owed = Surface!Changed("tools", cat, change, FALSE)
  <2>1. CASE change = <<>>
    BY <1>2, <1>3, <2>1 DEF Surface!SeedLines, Surface!Changed, Surface!Reviewed
  <2>2. CASE change # <<>>
    BY <1>2, <1>3, <2>2 DEF Surface!SeedLines
  <2> QED  BY <2>1, <2>2
<1>4. /\ proc[p].pc = "idle"
      /\ hops' = [hops EXCEPT !["tools"] = [cat |-> cat,
                                            n |-> IF hops["tools"].cat \in {None, cat} THEN hops["tools"].n ELSE hops["tools"].n + 1]]
      /\ window \subseteq window' /\ "old build" \in window'
      /\ (v1 = None /\ (\E q \in Proxy : proc[q].pc = "v1" /\ proc[q].sec = "tools") => "v1 late" \in window')
      /\ UNCHANGED <<served, v1, v2, build, lines, recorded, silent>>
  BY <1>1 DEF Surface!OldRespond, Surface!Hop
<1>5. (v1 = next /\ ProcIs(p, Surface!Idle)) \/ (v1 # next /\ ProcIs(p, o))
  BY <1>1, <1>2, <1>3, <1>a DEF Surface!OldRespond, Surface!Go, ProcIs
<1>6. change = <<>> => v1 = None \/ v1 = next
  BY <1>1, <1>2, PlanFacts
<1>7. cat \in Catalog /\ cat # None /\ recorded \in Records
  BY <1>1, FileFacts, Constants DEF SurfaceInv, SurfaceShape
<1>8. /\ o.pc = "old" /\ o.sec = "tools" /\ o.kind = "full" /\ o.cat = cat /\ o.lines = owed /\ o.seen = recorded
      /\ o = Surface!At(o.pc, o, o.read, o.next, o.lines, o.seen)
  BY <1>2, <1>3, AtIs
<1>9. LinesShape(o) /\ (Tells(o) <=> change # <<>>)
  <2>1. o.lines = Surface!SeedLines(o, change, {})
    BY <1>2, <1>3, <1>8 DEF Surface!SeedLines
  <2> QED  BY <2>1, SeedLinesFacts
<1>10. Observation(o)' /\ Active(o)
  BY <1>4, <1>7, <1>8, <1>9, Constants DEF Observation, Active
<1>11. hops' \in [Section -> [cat : Catalog \cup {None}, n : Nat]]
  <2>1. hops \in [Section -> [cat : Catalog \cup {None}, n : Nat]]
    BY DEF SurfaceInv, SurfaceShape
  <2>2. PICK h : h = [cat |-> cat, n |-> IF hops["tools"].cat \in {None, cat} THEN hops["tools"].n ELSE hops["tools"].n + 1]
    OBVIOUS
  <2>3. h \in [cat : Catalog \cup {None}, n : Nat]
    BY <1>7, <2>1, <2>2, Constants
  <2>4. hops' = [hops EXCEPT !["tools"] = h]
    BY <1>4, <2>2
  <2> QED  BY <2>1, <2>3, <2>4
<1>12. PICK go : ProcIs(p, go) /\ (go = Surface!Idle \/ (go = o /\ v1 # next))
  <2>1. CASE v1 = next /\ ProcIs(p, Surface!Idle)
    <3> WITNESS Surface!Idle
    <3> QED  BY <2>1
  <2>2. CASE v1 # next /\ ProcIs(p, o)
    <3> WITNESS o
    <3> QED  BY <2>2
  <2> QED  BY <1>5, <2>1, <2>2
<1>13. (go = Surface!Idle \/ Observation(go)') /\ (Active(go) => go = o)
  BY <1>10, <1>12, IdleIs
<1>14. proc'[p] = go /\ \A q \in Proxy \ {p} : proc'[q] = proc[q]
  BY <1>12 DEF ProcIs, SurfaceInv, SurfaceShape
<1>15. Surface!Lines \subseteq Surface!Lines'
  <2>1. ASSUME NEW l, l \in Surface!Lines PROVE l \in Surface!Lines'
    <3>1. IsIn(l, lines) \/ \E q \in Proxy : proc[q].pc # "idle" /\ IsIn(l, proc[q].lines)
      BY <2>1, LinesAre
    <3>2. IsIn(l, lines') \/ \E q \in Proxy : proc'[q].pc # "idle" /\ IsIn(l, proc'[q].lines)
      BY <1>4, <1>14, <3>1
    <3> QED  BY <3>2, LinesAre
  <2> QED  BY <2>1
<1>16. SurfaceShape'
  <2>1. proc' = [q \in Proxy |-> proc'[q]] /\ \A q \in Proxy : proc'[q] = Surface!Idle \/ Observation(proc[q])'
    BY <1>4, <1>12, <1>13, ProcShape DEF SurfaceInv
  <2> QED  BY <1>4, <1>11, <2>1 DEF SurfaceInv, SurfaceShape, FileShape
<1>17. ASSUME Unlost' PROVE KeptInv'
  <2>0. Unlost /\ SurfaceShape /\ KeptInv
    BY <1>4, <1>17, WindowFacts DEF SurfaceInv
  <2>1. V1Kept
    BY <2>0 DEF KeptInv
  <2>2. \A q \in Proxy : proc'[q].pc # "idle" => KeptBy(proc[q])'
    <3>1. Untracked' => Untracked
      BY <1>4 DEF Untracked, Readable, Has
    <3>2. v1 = None => recorded["tools"] = None
      BY <1>4, <1>17, <2>1 DEF V1Kept, Unlost, Surface!Losing
    <3>3. v1 # next => o.seen["tools"] = None \/ Tells(o)
      BY <1>6, <1>8, <1>9, <3>2
    <3>4. Active(go) => KeptBy(go)'
      <4>1. v1 # next => KeptBy(o)'
        BY <1>8, <3>3 DEF KeptBy, Tells
      <4>2. Active(go) => go = o /\ v1 # next
        BY <1>12, <1>13, IdleIs
      <4> QED  BY <4>1, <4>2
    <3> QED  BY <1>4, <1>12, <1>15, <1>17, <2>0, <3>1, <3>4, OthersKept
  <2>3. Readable' => \A s \in Section : Held(s)'
    BY <1>4, <2>0 DEF KeptInv, Readable, Held, Has
  <2>4. V1Kept'
    <3>1. v1 = None /\ recorded["tools"] # None => \E q \in Proxy : proc'[q].pc = "v1" /\ proc'[q].sec = "tools"
      BY <1>4, <1>14, <2>1 DEF V1Kept
    <3>2. PICK r, w : r = recorded["tools"] /\ w = v1
      OBVIOUS
    <3>3. Settled(r, w) => Settled(r, w)'
      BY <1>4, <1>15, SettledStays
    <3> QED  BY <1>4, <2>1, <3>1, <3>2, <3>3 DEF V1Kept, Untracked, Readable, Has
  <2>5. Surface!NothingSwallowed'
    BY <1>4, <1>15, <2>0, SwallowedStays DEF KeptInv
  <2> QED  BY <2>2, <2>3, <2>4, <2>5 DEF KeptInv
<1>18. ~ Once'
  BY <1>4 DEF Once, Surface!Repeating
<1>19. KeptInv'
  BY <1>17 DEF KeptInv
<1> QED  BY <1>16, <1>18, <1>19 DEF SurfaceInv, OnceInv

LEMMA SurfaceInit == Surface!Init => SurfaceInv
<1> SUFFICES ASSUME Surface!Init PROVE SurfaceInv
  OBVIOUS
<1>1. proc = [p \in Proxy |-> Surface!Idle] /\ \A p \in Proxy : ~ Active(proc[p]) /\ proc[p] = Surface!Idle
  BY IdleIs DEF Surface!Init
<1>2. /\ v1 = None /\ v2 = Surface!NoFile /\ lines = <<>> /\ recorded = Surface!Nothing /\ silent = {} /\ window = {}
      /\ build \in [Proxy -> Build] /\ hops = [s \in Section |-> [cat |-> None, n |-> 0]]
      /\ \A s \in Section : served[s] \in Shows[s]
  BY DEF Surface!Init
<1>3. /\ v2 \in Baseline /\ v2.kind = "absent" /\ v2.secs = Surface!Nothing
      /\ \A s \in Section : ~ Has(v2.secs, s) /\ recorded[s] = None
      /\ recorded \in Records
  <2>1. PICK n : n = Surface!Nothing /\ n \in Sections /\ \A s \in Section : n[s] = None
    BY NothingFacts
  <2>2. v2 = [kind |-> "absent", secs |-> n] /\ recorded = n
    BY <1>2, <2>1 DEF Surface!NoFile
  <2>3. recorded \in Records
    BY <1>2 DEF Surface!Nothing, Records
  <2> QED  BY <2>1, <2>2, <2>3 DEF Baseline, Has
<1>4. IsSeq(lines) /\ \A s \in Section : Surface!Changes(s) = {}
  <2>1. lines \in Seq({}) /\ DOMAIN lines = {}
    BY <1>2
  <2> QED  BY <2>1, SeqFacts DEF Surface!Changes
<1>5. SurfaceShape
  <2>1. hops \in [Section -> [cat : Catalog \cup {None}, n : Nat]]
    BY <1>2
  <2>2. \A s \in Section : served[s] \in Catalog
    BY <1>2, Constants
  <2> QED  BY <1>1, <1>2, <1>3, <1>4, <2>1, <2>2 DEF SurfaceShape, FileShape
<1>6. KeptInv
  <2>1. \A p \in Proxy : proc[p].pc = "idle"
    BY <1>1 DEF Active
  <2>2. \A s \in Section : Held(s)
    BY <1>3 DEF Held
  <2>3. V1Kept
    BY <1>3, Constants DEF V1Kept
  <2>4. Surface!NothingSwallowed
    BY <1>2 DEF Surface!NothingSwallowed
  <2> QED  BY <2>1, <2>2, <2>3, <2>4 DEF KeptInv
<1>7. OnceInv
  <2>1. \A s \in Section : Reports(s) <= hops[s].n
    <3>1. \A s \in Section : Reports(s) = 0
      BY <1>4, FS_EmptySet DEF Reports
    <3> QED  BY <1>2, <3>1
  <2>2. Surface!NothingRepeated
    BY <2>1, RepeatedIs
  <2> QED  BY <1>1, <1>2, <1>3, <2>2 DEF OnceInv, Active
<1> QED  BY <1>5, <1>6, <1>7 DEF SurfaceInv

LEMMA SurfaceStep == SurfaceInv /\ [Surface!Next]_surfaceVars => SurfaceInv'
<1> SUFFICES ASSUME SurfaceInv, [Surface!Next]_surfaceVars PROVE SurfaceInv'
  OBVIOUS
<1>1. CASE UNCHANGED surfaceVars
  <2>1. \A s \in Section : served'[s] \in Catalog
    BY <1>1 DEF SurfaceInv, SurfaceShape, surfaceVars
  <2>2. build' \in [Proxy -> Build] /\ UNCHANGED <<v1, v2, proc, lines, recorded, silent, hops, window>>
    BY <1>1 DEF SurfaceInv, SurfaceShape, surfaceVars
  <2> QED  BY <2>1, <2>2, ElsewhereStep
<1>2. ASSUME NEW p \in Proxy, Surface!Observe(p) PROVE SurfaceInv'
  <2>1. ASSUME NEW s \in Section, NEW k \in Responses, Surface!Respond(p, s, k) PROVE SurfaceInv'
    BY <2>1, RespondStep
  <2>2. CASE Surface!SkipPage(p)          BY <2>2, SkipPageStep
  <2>3. CASE Surface!SkipResult(p)        BY <2>3, SkipResultStep
  <2>4. CASE Surface!SeedSection(p)       BY <2>4, SeedSectionStep
  <2>5. CASE Surface!ReadForMigration(p)  BY <2>5, ReadForMigrationStep
  <2>6. CASE Surface!Migrate(p)           BY <2>6, MigrateStep
  <2>7. CASE Surface!Compare(p)           BY <2>7, CompareStep
  <2>8. CASE Surface!Check(p)             BY <2>8, CheckStep
  <2>9. CASE Surface!Rename(p)            BY <2>9, RenameStep
  <2>10. CASE Surface!RenameFails(p)      BY <2>10, RenameFailsStep
  <2>11. CASE Surface!WriteV1(p)          BY <2>11, WriteV1Step
  <2>12. CASE Surface!WriteV1Fails(p)     BY <2>12, WriteV1FailsStep
  <2>13. CASE Surface!Emit(p)             BY <2>13, EmitStep
  <2> QED  BY <1>2, <2>1, <2>2, <2>3, <2>4, <2>5, <2>6, <2>7, <2>8, <2>9, <2>10, <2>11, <2>12, <2>13 DEF Surface!Observe
<1>3. ASSUME NEW p \in Proxy, Surface!CheckAndUpdate(p) PROVE SurfaceInv'
  BY <1>3, OldRespondStep, OldWriteStep DEF Surface!CheckAndUpdate
<1>4. ASSUME NEW p \in Proxy, Surface!Switch(p) \/ Surface!Crash(p) PROVE SurfaceInv'
  BY <1>4, SwitchStep, CrashStep
<1>5. CASE Surface!Environment
  BY <1>5, MovesStep, CorruptStep, NewerStep DEF Surface!Environment
<1>6. CASE Surface!Next
  BY <1>2, <1>3, <1>4, <1>5, <1>6 DEF Surface!Next
<1> QED  BY <1>1, <1>6

\* The inductive invariant: the shape of the state, what the two files hold
\* against what was recorded, and the count of the lines of one observation.
THEOREM SurfaceInvariant == Surface!Spec => []SurfaceInv
<1>1. SurfaceInv /\ [Surface!Next]_(Surface!vars) => SurfaceInv'
  BY SurfaceStep DEF Surface!vars, surfaceVars
<1> QED  BY <1>1, SurfaceInit, PTL DEF Surface!Spec

THEOREM ReportedOnceHolds == Surface!Spec => []ReportedOnce
<1>1. SurfaceInv => ReportedOnce
  <2>1. SurfaceInv => Surface!NothingSwallowed
    BY DEF SurfaceInv, KeptInv, Surface!NothingSwallowed, Unlost
  <2>2. SurfaceInv => Surface!NothingRepeated
    BY DEF SurfaceInv, OnceInv, Surface!NothingRepeated, Once
  <2> QED  BY <2>1, <2>2 DEF ReportedOnce, Surface!ReportedOnce
<1> QED  BY <1>1, SurfaceInvariant, PTL

-----------------------------------------------------------------------------
(* A marker the rules match has its finding.                               *)

Clean == window \cap {"crash", "corrupt", "stale", "v2 behind", "older rules"} = {}

\* The item has its finding, or was edited where v1 never looked.
Answered(n, cat) == Surface!Found("tools", n, cat) \/ Surface!Unwatched(n, cat)

\* What is about to be written is judged by the rules it will name, but for
\* what the edit left out of the manifest.
PlanAnswered(o, ver) ==
    o.next["tools"].rev <= ver =>
      \A n \in DOMAIN o.cat :
         Surface!Marked(o.next["tools"].rev, o.cat[n]) =>
           \/ Answered(n, o.cat)
           \/ Has(o.read.secs, "tools") /\ Surface!Hidden(n, o.read.secs["tools"].snap, o.cat)

\* What the v2 file holds of tools is what was recorded last, and answered for.
StoredAnswered ==
    Has(v2.secs, "tools") =>
      LET stored == v2.secs["tools"]
      IN  /\ stored.snap = recorded["tools"] \/ "old build" \in window
          /\ \A n \in DOMAIN stored.snap : Surface!Marked(stored.rev, stored.snap[n]) => Answered(n, stored.snap)

Plans(o) == o.pc \in {"check", "rename"} /\ o.sec = "tools"

PoisonInv ==
    Clean =>
      /\ StoredAnswered
      /\ \A p \in Proxy : Plans(proc[p]) => PlanAnswered(proc[p], build[p].ver)

LEMMA CleanFacts ==
    ASSUME window \subseteq window'
    PROVE  Clean' => Clean
  BY DEF Clean

LEMMA AnsweredStays ==
    ASSUME Surface!Lines \subseteq Surface!Lines', silent \subseteq silent', NEW n, NEW cat, Answered(n, cat)
    PROVE  Answered(n, cat)'
<1>1. Surface!Found("tools", n, cat) => Surface!Found("tools", n, cat)'
  BY DEF Surface!Found
<1>2. Surface!Unwatched(n, cat) => Surface!Unwatched(n, cat)'
  BY DEF Surface!Unwatched, Surface!Hidden
<1> QED  BY <1>1, <1>2 DEF Answered

LEMMA PlanStays ==
    ASSUME Surface!Lines \subseteq Surface!Lines', silent \subseteq silent', NEW o, NEW ver, PlanAnswered(o, ver)
    PROVE  PlanAnswered(o, ver)'
<1>1. \A n \in DOMAIN o.cat : Answered(n, o.cat) => Answered(n, o.cat)'
  BY AnsweredStays
<1> QED  BY <1>1 DEF PlanAnswered, Has, Surface!Hidden, Surface!Marked

\* What the file holds stays answered for while nothing is written to it.
LEMMA StoredStays ==
    ASSUME StoredAnswered, Surface!Lines \subseteq Surface!Lines', silent \subseteq silent', window \subseteq window',
           v2' = v2, recorded'["tools"] = recorded["tools"] \/ "old build" \in window'
    PROVE  StoredAnswered'
<1>1. SUFFICES ASSUME Has(v2.secs, "tools")
               PROVE  /\ v2.secs["tools"].snap = recorded'["tools"] \/ "old build" \in window'
                      /\ \A n \in DOMAIN v2.secs["tools"].snap :
                           Surface!Marked(v2.secs["tools"].rev, v2.secs["tools"].snap[n]) => Answered(n, v2.secs["tools"].snap)'
  BY DEF StoredAnswered, Has, Surface!Marked
<1>2. PICK st, snap : st = v2.secs["tools"] /\ snap = st.snap
  OBVIOUS
<1>3. /\ snap = recorded["tools"] \/ "old build" \in window
      /\ \A n \in DOMAIN snap : Surface!Marked(st.rev, snap[n]) => Answered(n, snap)
  BY <1>1, <1>2 DEF StoredAnswered
<1>4. \A n \in DOMAIN snap : Answered(n, snap) => Answered(n, snap)'
  BY AnsweredStays
<1>5. \A n \in DOMAIN snap : Surface!Marked(st.rev, snap[n]) => Answered(n, snap)'
  BY <1>3, <1>4
<1>6. PICK s2 : s2 = v2.secs["tools"].snap /\ s2 = snap
  BY <1>2
<1>7. \A n \in DOMAIN snap : Answered(n, v2.secs["tools"].snap)' <=> Answered(n, snap)'
  BY <1>2 DEF Answered, Surface!Found, Surface!Unwatched, Surface!Hidden
<1> QED  BY <1>2, <1>3, <1>5, <1>7

LEMMA OthersAnswered ==
    ASSUME SurfaceShape, PoisonInv, Clean, Surface!Lines \subseteq Surface!Lines', silent \subseteq silent',
           build' = build, NEW p \in Proxy, NEW o, ProcIs(p, o), Plans(o) => PlanAnswered(o, build[p].ver)'
    PROVE  \A q \in Proxy : Plans(proc[q])' => PlanAnswered(proc[q], build[q].ver)'
<1>1. proc'[p] = o /\ \A q \in Proxy \ {p} : proc'[q] = proc[q]
  BY DEF SurfaceShape, ProcIs
<1> SUFFICES ASSUME NEW q \in Proxy, Plans(proc[q])' PROVE PlanAnswered(proc[q], build[q].ver)'
  OBVIOUS
<1>2. PICK x, ver : x = proc'[q] /\ ver = build[q].ver
  OBVIOUS
<1>3. PlanAnswered(x, ver)'
  <2>1. CASE q = p
    <3>1. x = o /\ Plans(o)
      BY <1>1, <1>2, <2>1 DEF Plans
    <3>2. PlanAnswered(o, build[p].ver)'
      BY <3>1
    <3> QED  BY <1>2, <2>1, <3>1, <3>2 DEF PlanAnswered
  <2>2. CASE q # p
    <3>1. x = proc[q] /\ Plans(proc[q])
      BY <1>1, <1>2, <2>2 DEF Plans
    <3>2. PlanAnswered(x, ver)
      BY <1>2, <3>1 DEF PoisonInv
    <3> QED  BY <3>2, PlanStays
  <2> QED  BY <2>1, <2>2
<1>4. proc'[q] = x /\ build'[q].ver = ver
  BY <1>2
<1> QED  BY <1>3, <1>4 DEF PlanAnswered

\* A step that writes no v2 file and plans to write no tools.
LEMMA QuietStep ==
    ASSUME SurfaceShape, PoisonInv, window \subseteq window', Surface!Lines \subseteq Surface!Lines',
           silent \subseteq silent', UNCHANGED <<v2, build>>,
           recorded'["tools"] = recorded["tools"] \/ "old build" \in window',
           NEW p \in Proxy, NEW o, ProcIs(p, o), Plans(o) => (Clean' => PlanAnswered(o, build[p].ver)')
    PROVE  PoisonInv'
<1> SUFFICES ASSUME Clean' PROVE StoredAnswered' /\ \A q \in Proxy : Plans(proc[q])' => PlanAnswered(proc[q], build[q].ver)'
  BY DEF PoisonInv
<1>1. Clean
  BY CleanFacts
<1>2. StoredAnswered'
  BY <1>1, StoredStays DEF PoisonInv
<1>3. \A q \in Proxy : Plans(proc[q])' => PlanAnswered(proc[q], build[q].ver)'
  BY <1>1, OthersAnswered
<1> QED  BY <1>2, <1>3

LEMMA QuietObservation ==
    ASSUME SurfaceInv, PoisonInv, NEW p \in Proxy,
           \/ Surface!SkipPage(p) \/ Surface!SkipResult(p) \/ Surface!RenameFails(p)
           \/ Surface!WriteV1(p) \/ Surface!WriteV1Fails(p)
    PROVE  PoisonInv'
<1>1. PICK m, seen, o : /\ m = proc[p] /\ seen \in {None, recorded, m.seen}
                        /\ \/ o = Surface!At("after", m, None, None, m.lines, seen)
                           \/ o = Surface!At("v1", m, None, None, m.lines, seen)
                        /\ ProcIs(p, o)
  BY DEF Surface!SkipPage, Surface!SkipResult, Surface!RenameFails, Surface!WriteV1, Surface!WriteV1Fails,
         Surface!Done, Surface!ToV1, Surface!Go, ProcIs
<1>2. /\ window \subseteq window' /\ silent' = silent /\ lines' = lines
      /\ UNCHANGED <<v2, build, recorded>>
  BY DEF Surface!SkipPage, Surface!SkipResult, Surface!RenameFails, Surface!WriteV1, Surface!WriteV1Fails
<1>3. o.lines = m.lines /\ o.pc \in {"after", "v1"}
  BY <1>1, AtIs
<1>4. Surface!Lines \subseteq Surface!Lines' /\ ~ Plans(o)
  BY <1>1, <1>2, <1>3, LinesStay DEF SurfaceInv, Plans
<1> QED  BY <1>1, <1>2, <1>4, QuietStep DEF SurfaceInv

LEMMA QuietRead ==
    ASSUME SurfaceInv, PoisonInv, NEW p \in Proxy, Surface!SeedSection(p) \/ Surface!ReadForMigration(p)
    PROVE  PoisonInv'
<1>1. PICK m : m = proc[p]
  OBVIOUS
<1>2. m.pc = "base" /\ UNCHANGED <<v2, build, recorded, silent, lines, window>>
  BY <1>1 DEF Surface!SeedSection, Surface!ReadForMigration, Surface!Readable
<1>3. m.lines = <<>>
  BY <1>1, <1>2, ProcFacts DEF Observation
<1>4. PICK o : ProcIs(p, o) /\ o.pc # "idle" /\ ~ Plans(o)
  <2>1. CASE Surface!ReadForMigration(p)
    <3>1. PICK o : o = Surface!At("migrate", m, v2, Surface!Stored, <<>>, None)
      OBVIOUS
    <3>2. ProcIs(p, o) /\ o.pc = "migrate"
      BY <1>1, <2>1, <3>1, AtIs DEF Surface!ReadForMigration, Surface!Go, ProcIs
    <3> QED  BY <3>2 DEF Plans
  <2>2. CASE Surface!SeedSection(p)
    <3>1. PICK next, owed : ProcIs(p, Surface!At("check", m, v2, next, owed, recorded))
      BY <1>1, <2>2 DEF Surface!SeedSection, Surface!Seed, Surface!Go, ProcIs
    <3>2. PICK o : o = Surface!At("check", m, v2, next, owed, recorded)
      OBVIOUS
    <3>3. o.pc = "check" /\ o.sec = m.sec /\ m.sec # "tools"
      BY <1>1, <2>2, <3>2, AtIs DEF Surface!SeedSection
    <3> QED  BY <3>1, <3>2, <3>3 DEF Plans
  <2> QED  BY <2>1, <2>2
<1>5. Surface!Lines \subseteq Surface!Lines'
  BY <1>1, <1>2, <1>3, <1>4, LinesStay DEF SurfaceInv
<1> QED  BY <1>2, <1>4, <1>5, QuietStep DEF SurfaceInv

LEMMA QuietRespond ==
    ASSUME SurfaceInv, PoisonInv, NEW p \in Proxy,
           (\E s \in Section, k \in Responses : Surface!Respond(p, s, k)) \/ Surface!OldRespond(p)
    PROVE  PoisonInv'
<1>1. /\ proc[p].pc = "idle" /\ window \subseteq window'
      /\ UNCHANGED <<v2, build, recorded, silent, lines>>
  BY DEF Surface!Respond, Surface!OldRespond
<1>2. PICK o : ProcIs(p, o) /\ (o.pc # "idle" \/ o = Surface!Idle) /\ ~ Plans(o)
  <2>1. CASE \E s \in Section, k \in Responses : Surface!Respond(p, s, k)
    <3>1. PICK x, o : o = Surface!At("base", x, None, None, <<>>, None) /\ ProcIs(p, o)
      BY <2>1 DEF Surface!Respond, Surface!Go, ProcIs
    <3>2. o.pc = "base"
      BY <3>1, AtIs
    <3> QED  BY <3>1, <3>2 DEF Plans
  <2>2. CASE Surface!OldRespond(p)
    <3>1. PICK x, owed, o : (o = Surface!At("old", x, None, None, owed, recorded) \/ o = Surface!Idle) /\ ProcIs(p, o)
      BY <2>2 DEF Surface!OldRespond, Surface!Go, ProcIs
    <3>2. o = Surface!Idle \/ o.pc = "old"
      BY <3>1, AtIs
    <3> QED  BY <3>1, <3>2, IdleIs DEF Plans
  <2> QED  BY <2>1, <2>2
<1>3. Surface!Lines \subseteq Surface!Lines'
  <2>1. CASE o.pc # "idle"
    BY <1>1, <1>2, <2>1, LinesStay DEF SurfaceInv
  <2>2. CASE o = Surface!Idle
    <3>1. \A q \in Proxy : proc'[q].pc # "idle" <=> proc[q].pc # "idle"
      BY <1>1, <1>2, <2>2, IdleIs DEF ProcIs, SurfaceInv, SurfaceShape, Active
    <3>2. \A q \in Proxy \ {p} : proc'[q] = proc[q]
      BY <1>2 DEF ProcIs, SurfaceInv, SurfaceShape
    <3>3. ASSUME NEW l, l \in Surface!Lines PROVE l \in Surface!Lines'
      BY <1>1, <3>1, <3>2, <3>3, LinesAre
    <3> QED  BY <3>3
  <2> QED  BY <1>2, <2>1, <2>2
<1> QED  BY <1>1, <1>2, <1>3, QuietStep DEF SurfaceInv

LEMMA QuietEnd ==
    ASSUME SurfaceInv, PoisonInv, NEW p \in Proxy, Surface!Emit(p) \/ Surface!OldWrite(p)
    PROVE  PoisonInv'
<1>1. PICK m, o : m = proc[p] /\ o = Surface!Idle
  OBVIOUS
<1>2. /\ m.pc \in {"after", "old"} /\ Active(m) /\ ProcIs(p, Surface!Idle) /\ ProcIs(p, o) /\ lines' = lines \o m.lines
      /\ window \subseteq window' /\ silent \subseteq silent' /\ UNCHANGED <<v2, build>>
      /\ (m.pc = "after" => recorded' = recorded)
  BY <1>1 DEF Surface!Emit, Surface!OldWrite, Surface!Go, ProcIs, Active
<1>3. m.pc = "old" => "old build" \in window
  BY <1>1, <1>2, ProcFacts DEF Observation, Active
<1>4. Surface!Lines \subseteq Surface!Lines'
  BY <1>1, <1>2, AppendedFacts
<1>5. ~ Plans(o)
  BY <1>1, IdleIs DEF Plans, Active
<1> QED  BY <1>2, <1>3, <1>4, <1>5, QuietStep DEF SurfaceInv

LEMMA QuietElsewhere ==
    ASSUME SurfaceInv, PoisonInv, UNCHANGED <<proc, lines, silent, recorded, window>>,
           v2' = v2 \/ ~ Has(v2.secs, "tools")',
           \A q \in Proxy : proc[q].pc # "idle" => build'[q] = build[q]
    PROVE  PoisonInv'
<1> SUFFICES ASSUME Clean' PROVE StoredAnswered' /\ \A q \in Proxy : Plans(proc[q])' => PlanAnswered(proc[q], build[q].ver)'
  BY DEF PoisonInv
<1>1. Clean /\ Surface!Lines \subseteq Surface!Lines' /\ silent \subseteq silent'
  <2>1. \A l : l \in Surface!Lines => l \in Surface!Lines'
    BY LinesAre
  <2> QED  BY <2>1 DEF Clean
<1>2. StoredAnswered'
  <2>1. CASE v2' = v2
    BY <1>1, <2>1, StoredStays DEF PoisonInv
  <2>2. CASE ~ Has(v2.secs, "tools")'
    BY <2>2 DEF StoredAnswered
  <2> QED  BY <2>1, <2>2
<1>3. ASSUME NEW q \in Proxy, Plans(proc[q])' PROVE PlanAnswered(proc[q], build[q].ver)'
  <2>1. PICK x, ver : x = proc[q] /\ ver = build[q].ver
    OBVIOUS
  <2>2. proc'[q] = x /\ build'[q].ver = ver /\ Plans(proc[q])
    BY <1>3, <2>1 DEF Plans
  <2>3. PlanAnswered(x, ver)'
    BY <1>1, <2>1, <2>2, PlanStays DEF PoisonInv
  <2> QED  BY <2>2, <2>3 DEF PlanAnswered
<1> QED  BY <1>2, <1>3

\* A proxy that goes on with its plan, or drops it for a newer build's file.
LEMMA QuietCheck ==
    ASSUME SurfaceInv, PoisonInv, NEW p \in Proxy, Surface!Check(p)
    PROVE  PoisonInv'
<1>1. PICK m, ver : m = proc[p] /\ ver = build[p].ver
  OBVIOUS
<1>2. PICK o : /\ \/ o = Surface!At("v1", m, None, None, m.lines, m.seen)
                  \/ o = Surface!At("rename", m, m.read, m.next, m.lines, m.seen)
               /\ ProcIs(p, o)
  BY <1>1 DEF Surface!Check, Surface!ToV1, Surface!Go, ProcIs
<1>3. m.pc = "check" /\ UNCHANGED <<v2, build, recorded, silent, lines, window>>
  BY <1>1 DEF Surface!Check
<1>4. /\ o.lines = m.lines /\ o.pc \in {"v1", "rename"}
      /\ o.pc = "rename" => o.sec = m.sec /\ o.cat = m.cat /\ o.read = m.read /\ o.next = m.next
  BY <1>2, AtIs
<1>5. Surface!Lines \subseteq Surface!Lines'
  BY <1>1, <1>2, <1>3, <1>4, LinesStay DEF SurfaceInv
<1>6. ASSUME Plans(o), Clean' PROVE PlanAnswered(o, build[p].ver)'
  <2>1. Clean
    BY <1>3, <1>6 DEF Clean
  <2>2. Plans(m) /\ o.cat = m.cat /\ o.read = m.read /\ o.next = m.next
    BY <1>3, <1>4, <1>6 DEF Plans
  <2>3. PlanAnswered(m, ver)
    BY <1>1, <2>1, <2>2 DEF PoisonInv
  <2>4. PlanAnswered(o, ver)
    BY <2>2, <2>3 DEF PlanAnswered
  <2>5. PlanAnswered(o, ver)'
    BY <1>3, <1>5, <2>4, PlanStays
  <2> QED  BY <1>1, <1>3, <2>5 DEF PlanAnswered
<1> QED  BY <1>2, <1>3, <1>5, <1>6, QuietStep DEF SurfaceInv

LEMMA FoundBy ==
    ASSUME SurfaceShape, NEW p \in Proxy, NEW o, ProcIs(p, o), Active(o),
           NEW i \in DOMAIN o.lines, NEW n, NEW cat,
           o.lines[i].sec = "tools", <<"injection_marker", n>> \in o.lines[i].findings,
           n \in DOMAIN o.lines[i].to, o.lines[i].to[n] = cat[n]
    PROVE  Answered(n, cat)'
<1>1. proc'[p] = o
  BY DEF SurfaceShape, ProcIs
<1>2. PICK l : l = o.lines[i]
  OBVIOUS
<1>3. IsIn(l, proc'[p].lines) /\ proc'[p].pc # "idle"
  BY <1>1, <1>2 DEF IsIn, Active
<1>4. l \in Surface!Lines'
  BY <1>3, LinesAre
<1>5. Surface!Found("tools", n, cat)'
  BY <1>2, <1>4 DEF Surface!Found
<1> QED  BY <1>5 DEF Answered

\* The line of a review, and of a change.
LEMMA ReviewIs ==
    ASSUME NEW sec, NEW to, NEW found, found # {}
    PROVE  LET r == Surface!Reviewed(sec, to, found) IN
           1 \in DOMAIN r /\ r[1].sec = sec /\ r[1].to = to /\ r[1].findings = found
<1>1. PICK x : x = Surface!Line("review", sec, to, Surface!Report({}, found), FALSE)
  OBVIOUS
<1>2. x.sec = sec /\ x.to = to /\ x.findings = found
  BY <1>1 DEF Surface!Line, Surface!Report
<1>3. Surface!Reviewed(sec, to, found) = <<x>>
  BY <1>1 DEF Surface!Reviewed
<1> QED  BY <1>2, <1>3

LEMMA ChangeIs ==
    ASSUME NEW sec, NEW to, NEW reports, NEW attention, reports # <<>>
    PROVE  LET c == Surface!Changed(sec, to, reports, attention) IN
           1 \in DOMAIN c /\ c[1].sec = sec /\ c[1].to = to /\ c[1].findings = reports[1].findings
<1>1. PICK x : x = Surface!Line("change", sec, to, reports[1], attention)
  OBVIOUS
<1>2. x.sec = sec /\ x.to = to /\ x.findings = reports[1].findings
  BY <1>1 DEF Surface!Line
<1>3. Surface!Changed(sec, to, reports, attention) = <<x>>
  BY <1>1 DEF Surface!Changed
<1> QED  BY <1>2, <1>3

LEMMA ReviewFinds ==
    ASSUME NEW ver, NEW cat, NEW n \in DOMAIN cat, Surface!Marked(ver, cat[n])
    PROVE  <<"injection_marker", n>> \in Surface!ReviewToolSurfaces(ver, cat)
  BY DEF Surface!ReviewToolSurfaces

\* Version 0 is no rules.
LEMMA NoneMarked == ASSUME NEW def PROVE ~ Surface!Marked(0, def)
<1>1. \A t \in DOMAIN Since : ~ Since[t] <= 0
  BY SurfaceAssumption
<1> QED  BY <1>1 DEF Surface!Marked

LEMMA MigratePoison ==
    ASSUME SurfaceInv, PoisonInv, NEW p \in Proxy, Surface!Migrate(p)
    PROVE  PoisonInv'
<1>1. PICK m, ver, change : m = proc[p] /\ ver = build[p].ver /\ change = Surface!PlanMigration(ver, m.cat)
  OBVIOUS
<1>2. m.pc = "migrate" /\ UNCHANGED <<v2, build, recorded, silent, lines, window>>
  BY <1>1 DEF Surface!Migrate
<1>3. m.sec = "tools" /\ m.lines = <<>> /\ m.next \in Sections
  BY <1>1, <1>2, ProcFacts DEF Observation, Migration, Baseline
<1>4. PICK found, rev : /\ found = IF change = <<>> THEN Surface!ReviewToolSurfaces(ver, m.cat) ELSE {}
                        /\ rev = IF change = <<>> THEN ver ELSE 0
  OBVIOUS
<1>5. PICK next, owed : /\ next = [m.next EXCEPT !["tools"] = [snap |-> m.cat, rev |-> rev]]
                        /\ owed = Surface!SeedLines(m, change, found)
  OBVIOUS
<1>6. PICK o : o = Surface!At("check", m, m.read, next, owed, recorded)
  OBVIOUS
<1>7. ProcIs(p, o)
  <2>1. Surface!SeedReviews(m.sec, change) <=> change = <<>>
    BY <1>3 DEF Surface!SeedReviews
  <2>2. Surface!Seed(p, m.next, m.read, change)
    BY <1>1 DEF Surface!Migrate
  <2> QED  BY <1>1, <1>3, <1>4, <1>5, <1>6, <2>1, <2>2 DEF Surface!Seed, Surface!Go, ProcIs
<1>8. o.pc = "check" /\ o.cat = m.cat /\ o.next = next /\ o.lines = owed
  BY <1>6, AtIs
<1>9. next["tools"].rev = rev
  BY <1>3, <1>5, Constants DEF Sections
<1>10. Surface!Lines \subseteq Surface!Lines'
  BY <1>1, <1>2, <1>3, <1>7, <1>8, LinesStay DEF SurfaceInv
<1>11. ASSUME NEW n \in DOMAIN m.cat, Surface!Marked(rev, m.cat[n]) PROVE Answered(n, m.cat)'
  <2>1. change = <<>> /\ rev = ver
    BY <1>4, <1>11, NoneMarked
  <2>2. <<"injection_marker", n>> \in found
    BY <1>4, <1>11, <2>1, ReviewFinds
  <2>3. owed = Surface!Reviewed("tools", m.cat, found)
    BY <1>3, <1>5, <2>1 DEF Surface!SeedLines
  <2>4. 1 \in DOMAIN owed /\ owed[1].sec = "tools" /\ owed[1].to = m.cat /\ owed[1].findings = found
    BY <2>2, <2>3, ReviewIs
  <2> QED  BY <1>7, <1>8, <2>2, <2>4, FoundBy DEF SurfaceInv, Active
<1>12. PlanAnswered(o, build[p].ver)'
  <2>1. \A n \in DOMAIN o.cat : Surface!Marked(o.next["tools"].rev, o.cat[n]) => Answered(n, o.cat)'
    BY <1>8, <1>9, <1>11 DEF Answered, Surface!Found, Surface!Unwatched, Surface!Hidden
  <2> QED  BY <2>1 DEF PlanAnswered, Surface!Marked
<1> QED  BY <1>2, <1>7, <1>10, <1>12, QuietStep DEF SurfaceInv

\* What a comparison with the stored catalog finds in the new one.
LEMMA MovedFinds ==
    ASSUME NEW ver, NEW old, NEW cat, NEW n \in DOMAIN cat, Surface!Marked(ver, cat[n]),
           n \notin DOMAIN old \/ Surface!Manifest(old)[n] # Surface!Manifest(cat)[n]
    PROVE  LET change == Surface!ChangeBetween(ver, "tools", old, cat) IN
           change # <<>> /\ <<"injection_marker", n>> \in change[1].findings
<1>1. PICK a, b : a = Surface!Manifest(old) /\ b = Surface!Manifest(cat)
  OBVIOUS
<1>2. DOMAIN a = DOMAIN old /\ DOMAIN b = DOMAIN cat
  BY <1>1 DEF Surface!Manifest
<1>3. n \in DOMAIN b /\ (n \notin DOMAIN a \/ a[n] # b[n]) /\ a # b
  BY <1>1, <1>2
<1>4. <<"injection_marker", n>> \in Surface!ScanRules(ver, a, b, cat)
  BY <1>3 DEF Surface!ScanRules
<1>5. PICK x : x = Surface!Report(Surface!DescribeChanges(a, b), Surface!ScanRules(ver, a, b, cat))
  OBVIOUS
<1>6. x.findings = Surface!ScanRules(ver, a, b, cat)
  BY <1>5 DEF Surface!Report
<1>7. Surface!ChangeBetween(ver, "tools", old, cat) = <<x>>
  BY <1>1, <1>3, <1>5 DEF Surface!ChangeBetween, Surface!ReportChanges
<1>8. <<x>> # <<>> /\ <<x>>[1] = x
  OBVIOUS
<1> QED  BY <1>4, <1>6, <1>7, <1>8

LEMMA ComparePoison ==
    ASSUME SurfaceInv, PoisonInv, NEW p \in Proxy, Surface!Compare(p)
    PROVE  PoisonInv'
<1>1. PICK m, old, ver : m = proc[p] /\ old = v2.secs[m.sec] /\ ver = build[p].ver
  OBVIOUS
<1>2. PICK found, change, attention :
         /\ found = IF Surface!Stale(ver, m.sec, old) THEN Surface!ReviewToolSurfaces(ver, old.snap) ELSE {}
         /\ change = Surface!ChangeBetween(ver, m.sec, old.snap, m.cat)
         /\ attention = Surface!AttentionFor(old.snap, m.cat)
  OBVIOUS
<1>3. PICK r, c : r = Surface!Reviewed(m.sec, old.snap, found) /\ c = Surface!Changed(m.sec, m.cat, change, attention)
  OBVIOUS
<1>4. PICK rev, owed : rev = (IF Surface!Stale(ver, m.sec, old) THEN ver ELSE old.rev) /\ owed = r \o c
  OBVIOUS
<1>5. PICK next, idle, o : /\ next = [v2.secs EXCEPT ![m.sec] = [snap |-> m.cat, rev |-> rev]]
                           /\ idle = Surface!At("v1", m, None, None, m.lines, recorded)
                           /\ o = Surface!At("check", m, v2, next, owed, recorded)
  OBVIOUS
<1>6. /\ m.pc = "base" /\ old # None /\ UNCHANGED <<v2, build, lines, recorded, silent, window>>
      /\ ProcIs(p, idle) \/ ProcIs(p, o)
  BY <1>1, <1>2, <1>3, <1>4, <1>5, FileFacts DEF Surface!Compare, Surface!Readable, Surface!ToV1, Surface!Go, ProcIs
<1>7. m.lines = <<>> /\ m.sec \in Section /\ v2.secs \in Sections
  BY <1>1, <1>6, ProcFacts, FileFacts DEF Observation
<1>8. PICK x : x \in {idle, o} /\ ProcIs(p, x)
  BY <1>6
<1>9. x.pc \in {"v1", "check"} /\ (Plans(x) => x = o)
  BY <1>5, <1>8, AtIs DEF Plans
<1>10. Surface!Lines \subseteq Surface!Lines'
  BY <1>1, <1>6, <1>7, <1>8, <1>9, LinesStay DEF SurfaceInv
<1>11. ASSUME Plans(x), Clean' PROVE PlanAnswered(x, build[p].ver)'
  <2>1. /\ ProcIs(p, o) /\ o.pc = "check" /\ o.sec = m.sec /\ o.cat = m.cat /\ o.read = v2 /\ o.next = next /\ o.lines = owed
    BY <1>5, <1>8, <1>9, <1>11, AtIs
  <2>2. m.sec = "tools" /\ Clean
    BY <1>6, <1>9, <1>11, <2>1 DEF Plans, Clean
  <2>3. next["tools"].rev = rev /\ Has(v2.secs, "tools") /\ old = v2.secs["tools"]
    BY <1>1, <1>5, <1>6, <1>7, <2>2 DEF Sections, Has
  <2>4. ver \in Nat /\ old.rev \in Nat
    <3>1. old \in State /\ build[p] \in Build
      BY <1>7, <2>2, <2>3 DEF SurfaceInv, SurfaceShape, Sections, Has
    <3>2. old.rev \in {0} \cup {b.ver : b \in Build}
      BY <3>1 DEF State
    <3> QED  BY <1>1, <3>1, <3>2, SurfaceAssumption
  <2>5. /\ DOMAIN owed = 1..(Len(r) + Len(c)) /\ Len(r) \in Nat /\ Len(c) \in Nat
        /\ \A i \in DOMAIN r : i \in DOMAIN owed /\ owed[i] = r[i]
        /\ \A i \in DOMAIN c : Len(r) + i \in DOMAIN owed /\ owed[Len(r) + i] = c[i]
    <3>1. IsSeq(r) /\ IsSeq(c) /\ Len(r) \in Nat /\ Len(c) \in Nat
      BY <1>3, ReviewedFacts, ChangedFacts
    <3>2. /\ DOMAIN r = 1..Len(r) /\ DOMAIN c = 1..Len(c) /\ DOMAIN owed = 1..(Len(r) + Len(c))
          /\ \A i \in DOMAIN r : owed[i] = r[i]
          /\ \A i \in DOMAIN c : owed[Len(r) + i] = c[i]
      BY <1>4, <3>1, JoinedItems
    <3> QED  BY <3>1, <3>2
  <2>6. ASSUME NEW n \in DOMAIN m.cat, rev <= ver, Surface!Marked(rev, m.cat[n])
        PROVE  Answered(n, m.cat)' \/ Surface!Hidden(n, old.snap, m.cat)
    <3>0. rev = ver
      BY <1>4, <2>2, <2>4, <2>6 DEF Surface!Stale
    <3>1. CASE n \notin DOMAIN old.snap \/ Surface!Manifest(old.snap)[n] # Surface!Manifest(m.cat)[n]
      <4>1. change # <<>> /\ <<"injection_marker", n>> \in change[1].findings
        BY <1>2, <2>2, <2>6, <3>0, <3>1, MovedFinds
      <4>2. 1 \in DOMAIN c /\ c[1].sec = "tools" /\ c[1].to = m.cat /\ <<"injection_marker", n>> \in c[1].findings
        BY <1>3, <2>2, <4>1, ChangeIs
      <4>3. PICK i \in DOMAIN owed : owed[i] = c[1]
        BY <2>5, <4>2
      <4> QED  BY <2>1, <4>2, <4>3, FoundBy DEF SurfaceInv, Active
    <3>2. CASE n \in DOMAIN old.snap /\ old.snap[n] = m.cat[n] /\ Surface!Stale(ver, m.sec, old)
      <4>1. <<"injection_marker", n>> \in found
        BY <1>2, <2>6, <3>0, <3>2, ReviewFinds
      <4>2. 1 \in DOMAIN r /\ r[1].sec = "tools" /\ r[1].to = old.snap /\ r[1].findings = found
        BY <1>3, <2>2, <4>1, ReviewIs
      <4>3. PICK i \in DOMAIN owed : owed[i] = r[1]
        BY <2>5, <4>2
      <4> QED  BY <2>1, <3>2, <4>1, <4>2, <4>3, FoundBy DEF SurfaceInv, Active
    <3>3. CASE n \in DOMAIN old.snap /\ old.snap[n] = m.cat[n] /\ ~ Surface!Stale(ver, m.sec, old)
      <4>1. PICK snap, cat : snap = old.snap /\ cat = m.cat
        OBVIOUS
      <4>2. Answered(n, old.snap)
        BY <1>4, <2>2, <2>3, <2>6, <3>3 DEF PoisonInv, StoredAnswered
      <4>3. Answered(n, snap)
        BY <4>1, <4>2 DEF Answered
      <4>4. Answered(n, snap)'
        BY <1>6, <1>10, <4>3, AnsweredStays
      <4>5. snap[n] = cat[n]
        BY <3>3, <4>1
      <4>6. Answered(n, cat)'
        <5>1. Surface!Found("tools", n, snap)' => Surface!Found("tools", n, cat)'
          BY <4>5 DEF Surface!Found
        <5>2. Surface!Unwatched(n, snap)' => Surface!Unwatched(n, cat)'
          BY <4>5 DEF Surface!Unwatched
        <5> QED  BY <4>4, <5>1, <5>2 DEF Answered
      <4> QED  BY <4>1, <4>6
    <3>4. CASE n \in DOMAIN old.snap /\ old.snap[n] # m.cat[n]
                  /\ Surface!Manifest(old.snap)[n] = Surface!Manifest(m.cat)[n]
      BY <3>4 DEF Surface!Hidden
    <3> QED  BY <3>1, <3>2, <3>3, <3>4
  <2>7. PICK cat, snap, v : cat = m.cat /\ snap = old.snap /\ v = build[p].ver
    OBVIOUS
  <2>8. \A n \in DOMAIN cat : rev <= v /\ Surface!Marked(rev, cat[n]) => Answered(n, cat)' \/ Surface!Hidden(n, snap, cat)
    BY <1>1, <2>6, <2>7 DEF Answered, Surface!Found, Surface!Unwatched, Surface!Hidden
  <2>9. x.cat = cat /\ x.next["tools"].rev = rev /\ Has(x.read.secs, "tools") /\ x.read.secs["tools"].snap = snap
    BY <1>9, <1>11, <2>1, <2>3, <2>7
  <2>10. PlanAnswered(x, v)'
    BY <2>8, <2>9 DEF PlanAnswered, Surface!Marked, Surface!Hidden, Has
  <2> QED  BY <1>6, <2>7, <2>10 DEF PlanAnswered
<1> QED  BY <1>6, <1>8, <1>10, <1>11, QuietStep DEF SurfaceInv

\* The write: what was left out of the manifest is put over another snapshot.
LEMMA RenamePoison ==
    ASSUME SurfaceInv, PoisonInv, NEW p \in Proxy, Surface!Rename(p)
    PROVE  PoisonInv'
<1> SUFFICES ASSUME Clean' PROVE StoredAnswered' /\ \A q \in Proxy : Plans(proc[q])' => PlanAnswered(proc[q], build[q].ver)'
  BY DEF PoisonInv
<1>1. PICK m, s, cat, was, ver : m = proc[p] /\ s = m.sec /\ cat = m.cat /\ was = recorded[s] /\ ver = build[p].ver
  OBVIOUS
<1>2. PICK o : o = Surface!At("v1", m, None, None, m.lines, recorded')
  OBVIOUS
<1>3. m.pc = "rename"
  BY <1>1 DEF Surface!Rename
<1>4. /\ Plan(m) /\ s \in Section /\ m.next[s].snap = cat /\ Has(m.next, s)
      /\ \A x \in Section \ {s} : m.next[x] = m.read.secs[x]
  BY <1>1, <1>3, ProcFacts DEF Observation, Plan
<1>5. /\ ProcIs(p, o) /\ v2' = [kind |-> "ok", secs |-> m.next]
      /\ silent' = silent \cup Surface!Owes(s, was, cat) /\ recorded' = [recorded EXCEPT ![s] = cat]
      /\ window \subseteq window' /\ (v2 # m.read \/ recorded # m.seen => "stale" \in window')
      /\ ("old build" \in window /\ m.read.secs[s] # None /\ m.read.secs[s].snap # was => "v2 behind" \in window')
      /\ (m.next[s].rev > ver => "older rules" \in window')
      /\ UNCHANGED <<build, lines>>
  BY <1>1, <1>2, <1>3, <1>4 DEF Surface!Rename, Surface!NewFile, Surface!Behind, Surface!ToV1, Surface!Go, ProcIs
<1>6. o.lines = m.lines /\ o.pc = "v1"
  BY <1>2, AtIs
<1>7. /\ Surface!Lines \subseteq Surface!Lines' /\ silent \subseteq silent' /\ Clean
      /\ v2 = m.read /\ ~ m.next[s].rev > ver
      /\ ("old build" \in window /\ Has(v2.secs, s) => v2.secs[s].snap = was)
  <2>1. Clean /\ v2 = m.read
    BY <1>5, CleanFacts DEF Clean
  <2>2. Surface!Lines \subseteq Surface!Lines'
    BY <1>1, <1>5, <1>6, LinesStay DEF SurfaceInv
  <2> QED  BY <1>5, <2>1, <2>2 DEF Clean, Has
<1>8. \A q \in Proxy : Plans(proc[q])' => PlanAnswered(proc[q], build[q].ver)'
  <2>1. ~ Plans(o)
    BY <1>6 DEF Plans
  <2> QED  BY <1>5, <1>7, <2>1, OthersAnswered DEF SurfaceInv
<1>9. v2'.secs = m.next /\ recorded \in Records /\ v2.secs \in Sections /\ m.next \in Sections
  BY <1>4, <1>5, FileFacts DEF Plan
<1>10. CASE s # "tools"
  <2>1. v2'.secs["tools"] = v2.secs["tools"] /\ recorded'["tools"] = recorded["tools"]
    BY <1>4, <1>5, <1>7, <1>9, <1>10, Constants DEF Records
  <2>2. SUFFICES ASSUME Has(v2.secs, "tools") PROVE StoredAnswered'
    <3>1. ~ Has(v2.secs, "tools") => ~ Has(v2.secs, "tools")'
      BY <2>1 DEF Has
    <3>2. ~ Has(v2.secs, "tools")' => StoredAnswered'
      BY DEF StoredAnswered
    <3> QED  BY <1>8, <3>1, <3>2
  <2>3. PICK st, snap : st = v2.secs["tools"] /\ snap = st.snap
    OBVIOUS
  <2>4. /\ snap = recorded["tools"] \/ "old build" \in window
        /\ \A n \in DOMAIN snap : Surface!Marked(st.rev, snap[n]) => Answered(n, snap)
    BY <1>7, <2>2, <2>3 DEF PoisonInv, StoredAnswered
  <2>5. \A n \in DOMAIN snap : Surface!Marked(st.rev, snap[n]) => Answered(n, snap)'
    BY <1>7, <2>4, AnsweredStays
  <2>6. st = v2'.secs["tools"] /\ snap = v2'.secs["tools"].snap /\ (snap = recorded'["tools"] \/ "old build" \in window')
    BY <1>5, <2>1, <2>3, <2>4
  <2> QED  BY <2>5, <2>6, <1>8 DEF StoredAnswered, Answered, Surface!Found, Surface!Unwatched, Surface!Hidden, Surface!Marked
<1>11. CASE s = "tools"
  <2>1. PICK st : st = m.next["tools"]
    OBVIOUS
  <2>2. st = v2'.secs["tools"] /\ st.snap = cat /\ recorded'["tools"] = cat
    BY <1>4, <1>5, <1>9, <1>11, <2>1, Constants DEF Records
  <2>3. st.rev <= ver
    <3>1. build[p] \in Build /\ st \in State
      BY <1>4, <1>9, <1>11, <2>1 DEF SurfaceInv, SurfaceShape, Sections, Has
    <3>2. ver \in Nat /\ st.rev \in Nat
      BY <1>1, <3>1, SurfaceAssumption DEF State
    <3>3. m.next[s].rev = st.rev /\ ~ m.next[s].rev > ver
      BY <1>7, <1>11, <2>1
    <3> QED  BY <3>2, <3>3
  <2>4. PlanAnswered(m, ver)
    BY <1>1, <1>3, <1>7, <1>11 DEF PoisonInv, Plans
  <2>5. ASSUME NEW n \in DOMAIN cat, Surface!Marked(st.rev, cat[n]) PROVE Answered(n, cat)'
    <3>1. CASE Answered(n, cat)
      BY <1>7, <3>1, AnsweredStays
    <3>2. CASE Has(v2.secs, "tools") /\ Surface!Hidden(n, v2.secs["tools"].snap, cat)
      <4>1. v2.secs["tools"].snap = was
        BY <1>1, <1>7, <1>11, <3>2 DEF PoisonInv, StoredAnswered, Has
      <4>2. was # None /\ was # cat
        <5>1. v2.secs["tools"] \in State
          BY <1>9, <3>2, Constants DEF Sections, Has
        <5>2. was \in Catalog
          BY <4>1, <5>1 DEF State
        <5>3. was # cat
          BY <3>2, <4>1 DEF Surface!Hidden
        <5> QED  BY <5>2, <5>3, Constants
      <4>3. PICK e : e = [sec |-> "tools", from |-> was, to |-> cat]
        OBVIOUS
      <4>4. e \in silent' /\ e.sec = "tools" /\ e.from = was /\ e.to = cat
        BY <1>5, <1>11, <4>2, <4>3 DEF Surface!Owes
      <4>5. Surface!Unwatched(n, cat)'
        BY <2>5, <3>2, <4>1, <4>4 DEF Surface!Unwatched, Surface!Hidden
      <4> QED  BY <4>5 DEF Answered
    <3>3. Answered(n, cat) \/ (Has(v2.secs, "tools") /\ Surface!Hidden(n, v2.secs["tools"].snap, cat))
      <4>1. m.cat = cat /\ m.read = v2 /\ m.next["tools"] = st
        BY <1>1, <1>7, <2>1
      <4> QED  BY <2>3, <2>4, <2>5, <4>1 DEF PlanAnswered
    <3> QED  BY <3>1, <3>2, <3>3
  <2>6. cat = v2'.secs["tools"].snap /\ st = v2'.secs["tools"]
    BY <2>2
  <2>7. StoredAnswered'
    BY <2>2, <2>5, <2>6, ZenonT(60) DEF StoredAnswered, Answered, Surface!Found, Surface!Unwatched, Surface!Hidden, Surface!Marked
  <2> QED  BY <1>8, <2>7
<1> QED  BY <1>8, <1>10, <1>11

LEMMA PoisonInit == Surface!Init => PoisonInv
<1> SUFFICES ASSUME Surface!Init PROVE PoisonInv
  OBVIOUS
<1>1. ~ Has(v2.secs, "tools")
  <2>1. PICK n : n = Surface!Nothing /\ n["tools"] = None
    BY NothingFacts, Constants
  <2>2. v2 = [kind |-> "absent", secs |-> n]
    BY <2>1 DEF Surface!Init, Surface!NoFile
  <2> QED  BY <2>1, <2>2 DEF Has
<1>2. \A p \in Proxy : proc[p] = Surface!Idle
  BY DEF Surface!Init
<1>3. \A p \in Proxy : ~ Plans(proc[p])
  BY <1>2, IdleIs DEF Plans, Active
<1> QED  BY <1>1, <1>3 DEF PoisonInv, StoredAnswered

LEMMA PoisonStep == SurfaceInv /\ PoisonInv /\ [Surface!Next]_surfaceVars => PoisonInv'
<1> SUFFICES ASSUME SurfaceInv, PoisonInv, [Surface!Next]_surfaceVars PROVE PoisonInv'
  OBVIOUS
<1>1. CASE UNCHANGED surfaceVars
  BY <1>1, QuietElsewhere DEF surfaceVars
<1>2. ASSUME NEW p \in Proxy, Surface!Observe(p) PROVE PoisonInv'
  <2>1. CASE \E s \in Section, k \in Responses : Surface!Respond(p, s, k)
    BY <2>1, QuietRespond
  <2>2. CASE Surface!SkipPage(p) \/ Surface!SkipResult(p) \/ Surface!RenameFails(p)
             \/ Surface!WriteV1(p) \/ Surface!WriteV1Fails(p)
    BY <2>2, QuietObservation
  <2>3. CASE Surface!SeedSection(p) \/ Surface!ReadForMigration(p)
    BY <2>3, QuietRead
  <2>4. CASE Surface!Migrate(p)   BY <2>4, MigratePoison
  <2>5. CASE Surface!Compare(p)   BY <2>5, ComparePoison
  <2>6. CASE Surface!Check(p)     BY <2>6, QuietCheck
  <2>7. CASE Surface!Rename(p)    BY <2>7, RenamePoison
  <2>8. CASE Surface!Emit(p)      BY <2>8, QuietEnd
  <2> QED  BY <1>2, <2>1, <2>2, <2>3, <2>4, <2>5, <2>6, <2>7, <2>8 DEF Surface!Observe
<1>3. ASSUME NEW p \in Proxy, Surface!CheckAndUpdate(p) PROVE PoisonInv'
  BY <1>3, QuietRespond, QuietEnd DEF Surface!CheckAndUpdate
<1>4. ASSUME NEW p \in Proxy, Surface!Crash(p) PROVE PoisonInv'
  <2>1. ~ Clean'
    BY <1>4 DEF Surface!Crash, Clean
  <2> QED  BY <2>1 DEF PoisonInv
<1>5. CASE Surface!Corrupt
  <2>1. ~ Clean'
    BY <1>5 DEF Surface!Corrupt, Clean
  <2> QED  BY <2>1 DEF PoisonInv
<1>6. ASSUME NEW p \in Proxy, Surface!Switch(p) PROVE PoisonInv'
  <2>1. UNCHANGED <<v2, proc, lines, silent, recorded, window>> /\ proc[p].pc = "idle"
    BY <1>6 DEF Surface!Switch
  <2>2. \A q \in Proxy : proc[q].pc # "idle" => build'[q] = build[q]
    BY <1>6, <2>1 DEF Surface!Switch, SurfaceInv, SurfaceShape
  <2> QED  BY <2>1, <2>2, QuietElsewhere
<1>7. ASSUME NEW s \in Section, Surface!ServerMoves(s) PROVE PoisonInv'
  BY <1>7, QuietElsewhere DEF Surface!ServerMoves
<1>8. CASE Surface!Newer
  <2>1. UNCHANGED <<build, proc, lines, silent, recorded, window>>
    BY <1>8 DEF Surface!Newer
  <2>2. ~ Has(v2.secs, "tools")'
    <3>1. PICK n : n = Surface!Nothing /\ n["tools"] = None
      BY NothingFacts, Constants
    <3>2. v2' = [kind |-> "future", secs |-> n]
      BY <1>8, <3>1 DEF Surface!Newer
    <3> QED  BY <3>1, <3>2 DEF Has
  <2> QED  BY <2>1, <2>2, QuietElsewhere
<1>9. CASE Surface!Next
  BY <1>2, <1>3, <1>4, <1>5, <1>6, <1>7, <1>8, <1>9 DEF Surface!Next, Surface!Environment
<1> QED  BY <1>1, <1>9

\* Whatever the catalogs, rules and builds: once recorded, an item that the
\* rules of reviewed_with match has its finding, or was edited where v1 never
\* looked.
THEOREM PoisonFoundHolds == Surface!Spec => []PoisonFound
<1>1. SurfaceInv /\ PoisonInv /\ [Surface!Next]_(Surface!vars) => PoisonInv'
  BY PoisonStep DEF Surface!vars, surfaceVars
<1>2. PoisonInv => PoisonFound
  <2> SUFFICES ASSUME PoisonInv, Clean, Surface!Hash("tools") # None,
                      NEW n \in DOMAIN Surface!Hash("tools"), Surface!Marked(Surface!Judged, Surface!Hash("tools")[n])
               PROVE  Answered(n, Surface!Hash("tools"))
    BY DEF PoisonFound, Surface!PoisonFound, Clean, Answered
  <2>1. PICK st : st = v2.secs["tools"]
    OBVIOUS
  <2>2. Has(v2.secs, "tools") /\ Surface!Hash("tools") = st.snap /\ Surface!Judged = st.rev
    BY <2>1 DEF Surface!Hash, Surface!Judged, Has
  <2>3. n \in DOMAIN st.snap /\ Surface!Marked(st.rev, st.snap[n])
    BY <2>2 DEF Surface!Marked
  <2>4. Answered(n, v2.secs["tools"].snap)
    BY <2>1, <2>2, <2>3 DEF PoisonInv, StoredAnswered
  <2> QED  BY <2>1, <2>2, <2>4 DEF Answered, Surface!Found, Surface!Unwatched, Surface!Hidden
<1> QED  BY <1>1, <1>2, PoisonInit, SurfaceInvariant, PTL DEF Surface!Spec

=============================================================================
