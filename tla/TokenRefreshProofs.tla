------------------------- MODULE TokenRefreshProofs -------------------------
(* Proofs about TokenRefresh, for every value of its constants. *)
EXTENDS TokenRefresh, TLAPS

-----------------------------------------------------------------------------
(* Type correctness.                                                       *)

CallRecord ==
    [pc : {"idle", "tokens", "load", "lock", "reread", "post", "persist", "release",
           "answer", "retry", "invalidate", "check", "delete"},
     req : 0 .. MaxSet, grant : 0 .. MaxSet, res : 0 .. MaxSet,
     why : {"none", "grant", "error"}, locked : BOOLEAN, again : BOOLEAN]

\* What CallType says of one call, over the sets 1 .. k.
Sound(r, k) ==
    /\ r \in CallRecord
    /\ r.req <= k /\ r.grant <= k /\ r.res <= k
    /\ r.pc = "post" => r.grant \in Set
    /\ r.pc = "lock" \/ r.pc = "reread" => r.req \in Set

LEMMA CallTypeSound ==
    CallType <=> /\ call = [c \in Call |-> call[c]]
                 /\ \A c \in Call : Sound(call[c], minted)
BY DEF CallType, CallRecord, Sound, At

LEMMA SetFacts ==
    /\ Set \subseteq Nat \ {0} /\ MaxSet \in Set
    /\ \A n \in 0 .. MaxSet : n # 0 => n \in Set
    /\ 0 \in 0 .. MaxSet
    /\ \A n \in Set : n \in Nat /\ 1 <= n
    /\ \A n \in Nat : n \in Set <=> n # 0 /\ n <= MaxSet
BY BoundAssumption DEF Set

\* One call moves, no other one changes.
Moved(c) == call' = [call EXCEPT ![c] = call'[c]]

\* Its new record has to be sound.
LEMMA MoveType ==
    ASSUME CallType, NEW c \in Call, Moved(c), Sound(call'[c], minted'),
           minted \in Nat, minted' \in Nat, minted <= minted'
    PROVE  CallType'
<1>1. \A d \in Call : d # c => call'[d] = call[d]
  BY DEF CallType, Moved
<1>2. ASSUME NEW d \in Call PROVE Sound(call'[d], minted')
  BY <1>1, <1>2, SetFacts DEF CallType, Sound, CallRecord, At
<1>3. call' = [d \in Call |-> call'[d]]
  BY DEF CallType, Moved
<1> QED
  BY <1>2, <1>3 DEF CallType, Sound, CallRecord, At

\* The fresh records.
LEMMA IdleSound ==
    ASSUME NEW k \in Nat
    PROVE  /\ Sound(Idle, k)
           /\ Sound([Idle EXCEPT !.pc = "retry"], k)
           /\ Sound([Idle EXCEPT !.pc = "tokens", !.again = TRUE], k)
<1>1. /\ Idle \in CallRecord
      /\ [Idle EXCEPT !.pc = "retry"] \in CallRecord
      /\ [Idle EXCEPT !.pc = "tokens", !.again = TRUE] \in CallRecord
  BY SetFacts DEF CallRecord, Idle
<1> QED
  BY <1>1 DEF Sound, Idle

LEMMA AfterFact == ASSUME NEW c \in Call PROVE After(c) \in {"release", "answer"}
BY DEF After

LEMMA CallFacts ==
    ASSUME TypeOK, NEW c \in Call
    PROVE  /\ Sound(call[c], minted) /\ c \in DOMAIN call
           /\ minted \in Nat /\ minted <= MaxSet /\ kc \in 0 .. minted
           /\ ProcOf[c] \in Proc /\ cache[ProcOf[c]] \in 0 .. minted
BY CallTypeSound, SetFacts, ProcOfAssumption DEF TypeOK, ServerType, ProcType, CallType

LEMMA OpenType ==
    ASSUME window \in [Set -> SUBSET Window], NEW G, NEW w \in Window, Open(G, w)
    PROVE  window' \in [Set -> SUBSET Window]
BY DEF Open

LEMMA TypeInit == Init => TypeOK
BY SetFacts, BoundAssumption, NoCallAssumption
   DEF Init, TypeOK, ServerType, CallType, ProcType, Idle, At, Set

\* Whatever call c does, only its own record changes, and stays sound.
LEMMA CallStep ==
    ASSUME TypeOK, NEW c \in Call, Start(c) \/ Attempt(c)
    PROVE  /\ Moved(c) /\ Sound(call'[c], minted')
           /\ minted' \in Set /\ minted <= minted'
<1>0. Sound(call[c], minted) /\ c \in DOMAIN call
  BY CallFacts
<1>1. minted \in Set
  BY DEF TypeOK, ServerType
<1>2. CASE Start(c)
  <2> DEFINE r == [call[c] EXCEPT !.pc = "tokens"]
  <2>1. minted' \in Set /\ minted <= minted'
    BY <1>2, <1>1, CallFacts, SetFacts DEF Start, Goto, serverVars
  <2>2. Moved(c) /\ call'[c] = r
    BY <1>2, <1>0 DEF Start, Goto, Moved
  <2>3. Sound(r, minted')
    BY <1>2, <1>0, <2>1, CallFacts, IdleSound, SetFacts DEF Start, Goto, Sound, CallRecord
  <2> QED
    BY <2>1, <2>2, <2>3
<1>3. CASE LoadRead(c)
  <2> DEFINE r == [call[c] EXCEPT !.pc = "load", !.req = kc]
  <2>1. minted' \in Set /\ minted <= minted'
    BY <1>3, <1>1, CallFacts, SetFacts DEF LoadRead, serverVars
  <2>2. Moved(c) /\ call'[c] = r
    BY <1>3, <1>0 DEF LoadRead, Moved
  <2>3. Sound(r, minted')
    BY <1>3, <1>0, <2>1, CallFacts, IdleSound, SetFacts DEF LoadRead, Sound, CallRecord
  <2> QED
    BY <2>1, <2>2, <2>3
<1>4. CASE LoadFails(c)
  <2> DEFINE r == Idle
  <2>1. minted' \in Set /\ minted <= minted'
    BY <1>4, <1>1, CallFacts, SetFacts DEF LoadFails, serverVars
  <2>2. Moved(c) /\ call'[c] = r
    BY <1>4, <1>0 DEF LoadFails, Moved
  <2>3. Sound(r, minted')
    BY <1>4, <1>0, <2>1, CallFacts, IdleSound, SetFacts DEF LoadFails, Sound, CallRecord
  <2> QED
    BY <2>1, <2>2, <2>3
<1>5. CASE Load(c)
  <2> DEFINE r == [call[c] EXCEPT !.pc = "tokens", !.req = 0]
  <2>1. minted' \in Set /\ minted <= minted'
    BY <1>5, <1>1, CallFacts, SetFacts DEF Load, serverVars
  <2>2. Moved(c) /\ call'[c] = r
    BY <1>5, <1>0 DEF Load, Moved
  <2>3. Sound(r, minted')
    BY <1>5, <1>0, <2>1, CallFacts, IdleSound, SetFacts DEF Load, Sound, CallRecord
  <2> QED
    BY <2>1, <2>2, <2>3
<1>6. CASE Begin(c)
  <2>1. minted' \in Set /\ minted <= minted'
    BY <1>6, <1>1, CallFacts, SetFacts DEF Begin, GiveUp, serverVars
  <2>2. CASE cache[ProcOf[c]] = 0
    <3> DEFINE r == Idle
    <3>1. Moved(c) /\ call'[c] = r
      BY <1>6, <2>2, <1>0 DEF Begin, GiveUp, Moved
    <3>2. Sound(r, minted')
      BY <1>6, <2>2, <1>0, <2>1, CallFacts, IdleSound, SetFacts DEF Begin, GiveUp, Sound, CallRecord
    <3> QED
      BY <2>1, <3>1, <3>2
  <2>3. CASE ~(cache[ProcOf[c]] = 0)
    <3> DEFINE r == [call[c] EXCEPT !.pc = "lock", !.req = cache[ProcOf[c]]]
    <3>1. Moved(c) /\ call'[c] = r
      BY <1>6, <2>3, <1>0 DEF Begin, GiveUp, Moved
    <3>2. Sound(r, minted')
      BY <1>6, <2>3, <1>0, <2>1, CallFacts, IdleSound, SetFacts DEF Begin, GiveUp, Sound, CallRecord
    <3> QED
      BY <2>1, <3>1, <3>2
  <2> QED
    BY <2>2, <2>3
<1>7. CASE Acquire(c)
  <2> DEFINE r == [call[c] EXCEPT !.pc = "reread", !.locked = TRUE]
  <2>1. minted' \in Set /\ minted <= minted'
    BY <1>7, <1>1, CallFacts, SetFacts DEF Acquire, At, serverVars
  <2>2. Moved(c) /\ call'[c] = r
    BY <1>7, <1>0 DEF Acquire, At, Moved
  <2>3. Sound(r, minted')
    BY <1>7, <1>0, <2>1, CallFacts, IdleSound, SetFacts DEF Acquire, At, Sound, CallRecord
  <2> QED
    BY <2>1, <2>2, <2>3
<1>8. CASE TimeOut(c)
  <2> DEFINE r == [call[c] EXCEPT !.pc = "post", !.grant = call[c].req, !.req = 0]
  <2>1. minted' \in Set /\ minted <= minted'
    BY <1>8, <1>1, CallFacts, SetFacts DEF TimeOut, At, serverVars
  <2>2. Moved(c) /\ call'[c] = r
    BY <1>8, <1>0 DEF TimeOut, At, Moved
  <2>3. Sound(r, minted')
    BY <1>8, <1>0, <2>1, CallFacts, IdleSound, SetFacts DEF TimeOut, At, Sound, CallRecord
  <2> QED
    BY <2>1, <2>2, <2>3
<1>9. CASE Steal(c)
  <2> DEFINE r == [call[c] EXCEPT !.pc = "reread", !.locked = TRUE]
  <2>1. minted' \in Set /\ minted <= minted'
    BY <1>9, <1>1, CallFacts, SetFacts DEF Steal, At, serverVars
  <2>2. Moved(c) /\ call'[c] = r
    BY <1>9, <1>0 DEF Steal, At, Moved
  <2>3. Sound(r, minted')
    BY <1>9, <1>0, <2>1, CallFacts, IdleSound, SetFacts DEF Steal, At, Sound, CallRecord
  <2> QED
    BY <2>1, <2>2, <2>3
<1>10. CASE RereadFails(c)
  <2> DEFINE r == [call[c] EXCEPT !.pc = "release", !.req = 0, !.why = "error"]
  <2>1. minted' \in Set /\ minted <= minted'
    BY <1>10, <1>1, CallFacts, SetFacts DEF RereadFails, serverVars
  <2>2. Moved(c) /\ call'[c] = r
    BY <1>10, <1>0 DEF RereadFails, Moved
  <2>3. Sound(r, minted')
    BY <1>10, <1>0, <2>1, CallFacts, IdleSound, SetFacts DEF RereadFails, Sound, CallRecord
  <2> QED
    BY <2>1, <2>2, <2>3
<1>11. CASE PostOk(c)
  <2> DEFINE r == [call[c] EXCEPT !.res = minted', !.grant = 0,
                             !.pc = IF call[c].locked THEN "persist" ELSE "answer"]
  <2>1. minted' \in Set /\ minted <= minted'
    BY <1>11, <1>1, CallFacts, SetFacts DEF PostOk, Rotate, Room, serverVars
  <2>2. Moved(c) /\ call'[c] = r
    BY <1>11, <1>0 DEF PostOk, Rotate, Room, Moved
  <2>3. Sound(r, minted')
    BY <1>11, <1>0, <2>1, CallFacts, IdleSound, SetFacts DEF PostOk, Rotate, Room, Sound, CallRecord
  <2> QED
    BY <2>1, <2>2, <2>3
<1>12. CASE PostRejected(c)
  <2> DEFINE r == [call[c] EXCEPT !.pc = After(c), !.grant = 0, !.why = "grant"]
  <2>1. minted' \in Set /\ minted <= minted'
    BY <1>12, <1>1, CallFacts, SetFacts DEF PostRejected, serverVars
  <2>2. Moved(c) /\ call'[c] = r
    BY <1>12, <1>0 DEF PostRejected, Moved
  <2>3. Sound(r, minted')
    BY <1>12, <1>0, <2>1, AfterFact, CallFacts, IdleSound, SetFacts DEF PostRejected, Sound, CallRecord
  <2> QED
    BY <2>1, <2>2, <2>3
<1>13. CASE PostLost(c)
  <2> DEFINE r == [call[c] EXCEPT !.pc = After(c), !.grant = 0, !.why = "error"]
  <2>1. minted' \in Set /\ minted <= minted'
    BY <1>13, <1>1, CallFacts, SetFacts DEF PostLost, Rotate, Room, serverVars
  <2>2. Moved(c) /\ call'[c] = r
    BY <1>13, <1>0 DEF PostLost, Rotate, Room, Moved
  <2>3. Sound(r, minted')
    BY <1>13, <1>0, <2>1, AfterFact, CallFacts, IdleSound, SetFacts DEF PostLost, Rotate, Room, Sound, CallRecord
  <2> QED
    BY <2>1, <2>2, <2>3
<1>14. CASE Persist(c)
  <2> DEFINE r == [call[c] EXCEPT !.pc = "release"]
  <2>1. minted' \in Set /\ minted <= minted'
    BY <1>14, <1>1, CallFacts, SetFacts DEF Persist, Goto, serverVars
  <2>2. Moved(c) /\ call'[c] = r
    BY <1>14, <1>0 DEF Persist, Goto, Moved
  <2>3. Sound(r, minted')
    BY <1>14, <1>0, <2>1, CallFacts, IdleSound, SetFacts DEF Persist, Goto, Sound, CallRecord
  <2> QED
    BY <2>1, <2>2, <2>3
<1>15. CASE PersistFails(c)
  <2> DEFINE r == [call[c] EXCEPT !.pc = "release"]
  <2>1. minted' \in Set /\ minted <= minted'
    BY <1>15, <1>1, CallFacts, SetFacts DEF PersistFails, Goto, serverVars
  <2>2. Moved(c) /\ call'[c] = r
    BY <1>15, <1>0 DEF PersistFails, Goto, Moved
  <2>3. Sound(r, minted')
    BY <1>15, <1>0, <2>1, CallFacts, IdleSound, SetFacts DEF PersistFails, Goto, Sound, CallRecord
  <2> QED
    BY <2>1, <2>2, <2>3
<1>16. CASE Release(c)
  <2> DEFINE r == [call[c] EXCEPT !.pc = "answer"]
  <2>1. minted' \in Set /\ minted <= minted'
    BY <1>16, <1>1, CallFacts, SetFacts DEF Release, Goto, serverVars
  <2>2. Moved(c) /\ call'[c] = r
    BY <1>16, <1>0 DEF Release, Goto, Moved
  <2>3. Sound(r, minted')
    BY <1>16, <1>0, <2>1, CallFacts, IdleSound, SetFacts DEF Release, Goto, Sound, CallRecord
  <2> QED
    BY <2>1, <2>2, <2>3
<1>17. CASE Save(c)
  <2> DEFINE r == [Idle EXCEPT !.pc = "retry"]
  <2>1. minted' \in Set /\ minted <= minted'
    BY <1>17, <1>1, CallFacts, SetFacts DEF Save, serverVars
  <2>2. Moved(c) /\ call'[c] = r
    BY <1>17, <1>0 DEF Save, Moved
  <2>3. Sound(r, minted')
    BY <1>17, <1>0, <2>1, CallFacts, IdleSound, SetFacts DEF Save, Sound, CallRecord
  <2> QED
    BY <2>1, <2>2, <2>3
<1>18. CASE SaveFails(c)
  <2> DEFINE r == Idle
  <2>1. minted' \in Set /\ minted <= minted'
    BY <1>18, <1>1, CallFacts, SetFacts DEF SaveFails, GiveUp, serverVars
  <2>2. Moved(c) /\ call'[c] = r
    BY <1>18, <1>0 DEF SaveFails, GiveUp, Moved
  <2>3. Sound(r, minted')
    BY <1>18, <1>0, <2>1, CallFacts, IdleSound, SetFacts DEF SaveFails, GiveUp, Sound, CallRecord
  <2> QED
    BY <2>1, <2>2, <2>3
<1>19. CASE AnswerError(c)
  <2> DEFINE r == Idle
  <2>1. minted' \in Set /\ minted <= minted'
    BY <1>19, <1>1, CallFacts, SetFacts DEF AnswerError, GiveUp, serverVars
  <2>2. Moved(c) /\ call'[c] = r
    BY <1>19, <1>0 DEF AnswerError, GiveUp, Moved
  <2>3. Sound(r, minted')
    BY <1>19, <1>0, <2>1, CallFacts, IdleSound, SetFacts DEF AnswerError, GiveUp, Sound, CallRecord
  <2> QED
    BY <2>1, <2>2, <2>3
<1>20. CASE AnswerGrant(c)
  <2> DEFINE r == IF call[c].again THEN Idle ELSE [call[c] EXCEPT !.pc = "invalidate"]
  <2>1. minted' \in Set /\ minted <= minted'
    BY <1>20, <1>1, CallFacts, SetFacts DEF AnswerGrant, serverVars
  <2>2. Moved(c) /\ call'[c] = r
    BY <1>20, <1>0 DEF AnswerGrant, Moved
  <2>3. Sound(r, minted')
    BY <1>20, <1>0, <2>1, CallFacts, IdleSound, SetFacts DEF AnswerGrant, Sound, CallRecord
  <2> QED
    BY <2>1, <2>2, <2>3
<1>21. CASE Retry(c)
  <2> DEFINE r == Idle
  <2>1. minted' \in Set /\ minted <= minted'
    BY <1>21, <1>1, CallFacts, SetFacts DEF Retry, serverVars
  <2>2. Moved(c) /\ call'[c] = r
    BY <1>21, <1>0 DEF Retry, Moved
  <2>3. Sound(r, minted')
    BY <1>21, <1>0, <2>1, CallFacts, IdleSound, SetFacts DEF Retry, Sound, CallRecord
  <2> QED
    BY <2>1, <2>2, <2>3
<1>22. CASE RetryRejected(c)
  <2> DEFINE r == Idle
  <2>1. minted' \in Set /\ minted <= minted'
    BY <1>22, <1>1, CallFacts, SetFacts DEF RetryRejected, GiveUp, serverVars
  <2>2. Moved(c) /\ call'[c] = r
    BY <1>22, <1>0 DEF RetryRejected, GiveUp, Moved
  <2>3. Sound(r, minted')
    BY <1>22, <1>0, <2>1, CallFacts, IdleSound, SetFacts DEF RetryRejected, GiveUp, Sound, CallRecord
  <2> QED
    BY <2>1, <2>2, <2>3
<1>23. CASE InvalidateRecent(c)
  <2> DEFINE r == [Idle EXCEPT !.pc = "tokens", !.again = TRUE]
  <2>1. minted' \in Set /\ minted <= minted'
    BY <1>23, <1>1, CallFacts, SetFacts DEF InvalidateRecent, Again, serverVars
  <2>2. Moved(c) /\ call'[c] = r
    BY <1>23, <1>0 DEF InvalidateRecent, Again, Moved
  <2>3. Sound(r, minted')
    BY <1>23, <1>0, <2>1, CallFacts, IdleSound, SetFacts DEF InvalidateRecent, Again, Sound, CallRecord
  <2> QED
    BY <2>1, <2>2, <2>3
<1>24. CASE Check(c)
  <2>1. minted' \in Set /\ minted <= minted'
    BY <1>24, <1>1, CallFacts, SetFacts DEF Check, Again, serverVars
  <2>2. CASE Again(c)
    <3> DEFINE r == [Idle EXCEPT !.pc = "tokens", !.again = TRUE]
    <3>1. Moved(c) /\ call'[c] = r
      BY <1>24, <2>2, <1>0 DEF Check, Again, Moved
    <3>2. Sound(r, minted')
      BY <1>24, <2>2, <1>0, <2>1, CallFacts, IdleSound, SetFacts DEF Check, Again, Sound, CallRecord
    <3> QED
      BY <2>1, <3>1, <3>2
  <2>3. CASE call' = [call EXCEPT ![c].pc = "delete", ![c].req = 0]
    <3> DEFINE r == [call[c] EXCEPT !.pc = "delete", !.req = 0]
    <3>1. Moved(c) /\ call'[c] = r
      BY <1>24, <2>3, <1>0 DEF Check, Moved
    <3>2. Sound(r, minted')
      BY <1>24, <2>3, <1>0, <2>1, CallFacts, IdleSound, SetFacts DEF Check, Sound, CallRecord
    <3> QED
      BY <2>1, <3>1, <3>2
  <2> QED
    BY <1>24, <2>2, <2>3 DEF Check
<1>25. CASE Delete(c)
  <2> DEFINE r == [Idle EXCEPT !.pc = "tokens", !.again = TRUE]
  <2>1. minted' \in Set /\ minted <= minted'
    BY <1>25, <1>1, CallFacts, SetFacts DEF Delete, Again, serverVars
  <2>2. Moved(c) /\ call'[c] = r
    BY <1>25, <1>0 DEF Delete, Again, Moved
  <2>3. Sound(r, minted')
    BY <1>25, <1>0, <2>1, CallFacts, IdleSound, SetFacts DEF Delete, Again, Sound, CallRecord
  <2> QED
    BY <2>1, <2>2, <2>3
<1>26. CASE DeleteFails(c)
  <2> DEFINE r == Idle
  <2>1. minted' \in Set /\ minted <= minted'
    BY <1>26, <1>1, CallFacts, SetFacts DEF DeleteFails, serverVars
  <2>2. Moved(c) /\ call'[c] = r
    BY <1>26, <1>0 DEF DeleteFails, Moved
  <2>3. Sound(r, minted')
    BY <1>26, <1>0, <2>1, CallFacts, IdleSound, SetFacts DEF DeleteFails, Sound, CallRecord
  <2> QED
    BY <2>1, <2>2, <2>3
<1>27. CASE Reread(c)
  <2> DEFINE spend(g) == [call[c] EXCEPT !.pc = "post", !.grant = g, !.req = 0]
             wait == [call[c] EXCEPT !.pc = "release", !.res = kc, !.req = 0]
  <2>1. minted' \in Set /\ minted <= minted'
    BY <1>27, <1>1, SetFacts DEF Reread, serverVars
  <2>2. Moved(c)
    BY <1>27 DEF Reread, Moved
  <2>3. CASE call'[c] = spend(call[c].req)
    BY <1>27, <1>0, <2>1, <2>2, <2>3, CallFacts, SetFacts DEF Reread, At, Sound, CallRecord
  <2>4. CASE kc # 0 /\ call'[c] = spend(kc)
    BY <1>27, <1>0, <2>1, <2>2, <2>4, CallFacts, SetFacts DEF Reread, Sound, CallRecord
  <2>5. CASE call'[c] = wait
    BY <1>27, <1>0, <2>1, <2>2, <2>5, CallFacts, SetFacts DEF Reread, Sound, CallRecord
  <2> QED
    BY <1>27, <1>0, <2>3, <2>4, <2>5 DEF Reread
<1>28. CASE Invalidate(c)
  <2> DEFINE failed == IF ProcOf[c] \in cached THEN cache[ProcOf[c]] ELSE 0
             next == IF failed = 0 THEN "delete" ELSE "check"
             r == [call[c] EXCEPT !.req = failed, !.pc = next]
  <2>1. minted' \in Set /\ minted <= minted'
    BY <1>28, <1>1, SetFacts DEF Invalidate, serverVars
  <2>2. Moved(c) /\ call'[c] = r
    BY <1>28, <1>0 DEF Invalidate, Moved
  <2>3. failed \in 0 .. MaxSet /\ failed <= minted /\ next \in {"delete", "check"}
    BY CallFacts, SetFacts
  <2>4. Sound(r, minted')
    <3> HIDE DEF failed, next
    <3> QED
      BY <1>28, <1>0, <2>1, <2>3, CallFacts, SetFacts DEF Invalidate, serverVars, Sound, CallRecord
  <2> QED
    BY <2>1, <2>2, <2>4
<1> QED
  BY <1>2, <1>3, <1>4, <1>5, <1>6, <1>7, <1>8, <1>9, <1>10, <1>11, <1>12, <1>13, <1>14, <1>15, <1>16, <1>17, <1>18, <1>19, <1>20, <1>21, <1>22, <1>23, <1>24, <1>25, <1>26, <1>27, <1>28 DEF Attempt

LEMMA RotateType ==
    ASSUME TypeOK, NEW g \in live, Rotate(g)
    PROVE  ServerType'
<1>1. /\ minted \in Nat /\ minted' = minted + 1 /\ minted' \in Set
      /\ g \in Set /\ g <= minted /\ live \subseteq 1 .. minted
  BY SetFacts DEF TypeOK, ServerType, Rotate, Room
<1>2. root' = [n \in Set |-> IF n = minted' THEN root[g] ELSE root[n]]
  BY <1>1 DEF TypeOK, ServerType, Rotate
<1>3. root[g] \in 0 .. MaxSet /\ root[g] # 0
  BY <1>1 DEF TypeOK, ServerType
<1>4. root' \in [Set -> 0 .. MaxSet] /\ \A n \in Set : root'[n] # 0 <=> n <= minted'
  BY <1>1, <1>2, <1>3, SetFacts DEF TypeOK, ServerType
<1>5. live' \subseteq 1 .. minted' /\ revoked' \subseteq Set
  BY <1>1 DEF TypeOK, ServerType, Rotate
<1> QED
  BY <1>1, <1>4, <1>5 DEF ServerType

LEMMA TypeStep == TypeOK /\ [Next]_vars => TypeOK'
<1> SUFFICES ASSUME TypeOK, [Next]_vars PROVE TypeOK'
  OBVIOUS
<1>1. ASSUME NEW c \in Call, Start(c) \/ Attempt(c) PROVE TypeOK'
  <2>1. CallType' /\ Sound(call[c], minted) /\ minted' \in Set /\ minted <= minted'
    BY <1>1, CallStep, CallFacts, MoveType, SetFacts DEF TypeOK, ServerType
  <2>2. ServerType'
    <3>1. CASE UNCHANGED serverVars
      BY <3>1 DEF TypeOK, ServerType, serverVars
    <3>2. CASE PostOk(c)
      BY <3>2, RotateType DEF PostOk
    <3>3. CASE PostRejected(c)
      BY <3>3 DEF PostRejected, TypeOK, ServerType
    <3>4. CASE PostLost(c)
      BY <3>1, <3>4, RotateType DEF PostLost
    <3> QED
      BY <1>1, <3>1, <3>2, <3>3, <3>4 DEF Attempt, Start, LoadRead, LoadFails, Load, Begin, Acquire, TimeOut, Steal, RereadFails,
         Persist, PersistFails, Release, Save, SaveFails, AnswerError, AnswerGrant,
         Retry, RetryRejected, InvalidateRecent, Check, Delete, DeleteFails,
         Reread, Invalidate
  <2>3. started' \in Nat /\ faults' \in Nat
    BY <1>1, SMTT(30) DEF TypeOK, Fail, Attempt, Start, LoadRead, LoadFails, Load, Begin, Acquire, TimeOut, Steal, RereadFails,
         PostOk, PostRejected, PostLost, Persist, PersistFails, Release, Save,
         SaveFails, AnswerError, AnswerGrant, Retry, RetryRejected, InvalidateRecent,
         Check, Delete, DeleteFails, Reread, Invalidate
  <2>4. ProcType'
    <3> USE NoCallAssumption DEF TypeOK, ProcType
    <3>1. /\ ProcOf[c] \in Proc /\ call[c].req \in 0 .. minted' /\ call[c].res \in 0 .. minted'
          /\ kc \in 0 .. minted' /\ cache \in [Proc -> 0 .. minted'] /\ 0 \in 0 .. minted'
      BY <2>1, CallFacts, SetFacts DEF Sound, CallRecord
    <3>2. CASE UNCHANGED <<procVars, kc, lock>>
      BY <3>1, <3>2 DEF procVars
    <3>3. CASE Load(c)
      BY <3>1, <3>3 DEF Load, procVars, Uncache, GiveUp
    <3>4. CASE Begin(c)
      BY <3>1, <3>4 DEF Begin, procVars, Uncache, GiveUp
    <3>5. CASE Acquire(c)
      BY <3>1, <3>5 DEF Acquire, procVars, Uncache, GiveUp
    <3>6. CASE Steal(c)
      BY <3>1, <3>6 DEF Steal, procVars, Uncache, GiveUp
    <3>7. CASE Persist(c)
      BY <3>1, <3>7 DEF Persist, procVars, Uncache, GiveUp
    <3>8. CASE Release(c)
      BY <3>1, <3>8 DEF Release, procVars, Uncache, GiveUp
    <3>9. CASE Save(c)
      BY <3>1, <3>9 DEF Save, procVars, Uncache, GiveUp
    <3>10. CASE SaveFails(c)
      BY <3>1, <3>10 DEF SaveFails, procVars, Uncache, GiveUp
    <3>11. CASE AnswerError(c)
      BY <3>1, <3>11 DEF AnswerError, procVars, Uncache, GiveUp
    <3>12. CASE RetryRejected(c)
      BY <3>1, <3>12 DEF RetryRejected, procVars, Uncache, GiveUp
    <3>13. CASE InvalidateRecent(c)
      BY <3>1, <3>13 DEF InvalidateRecent, procVars, Uncache, GiveUp
    <3>14. CASE Check(c)
      BY <3>1, <3>14 DEF Check, procVars, Uncache, GiveUp
    <3>15. CASE Delete(c)
      BY <3>1, <3>15 DEF Delete, procVars, Uncache, GiveUp
    <3> QED
      BY <1>1, <3>2, <3>3, <3>4, <3>5, <3>6, <3>7, <3>8, <3>9, <3>10, <3>11, <3>12, <3>13,
         <3>14, <3>15 DEF Attempt, procVars, Start, LoadRead, LoadFails, TimeOut, RereadFails, PostOk, PostRejected,
         PostLost, PersistFails, AnswerGrant, Retry, DeleteFails, Reread, Invalidate
  <2>5. window' \in [Set -> SUBSET Window]
    BY <1>1, OpenType DEF TypeOK, Window, SpendUnlocked, Attempt, Start, LoadRead, LoadFails, Load, Begin, Acquire, TimeOut, Steal, RereadFails,
         PostOk, PostRejected, PostLost, Persist, PersistFails, Release, Save,
         SaveFails, AnswerError, AnswerGrant, Retry, RetryRejected, InvalidateRecent,
         Check, Delete, DeleteFails, Reread, Invalidate
  <2>6. reused' \subseteq Set
    <3>1. CASE PostRejected(c)
      BY <3>1, SetFacts DEF PostRejected, TypeOK, ServerType, Family
    <3> QED
      BY <1>1, <3>1 DEF TypeOK, Attempt, Start, LoadRead, LoadFails, Load, Begin, Acquire, TimeOut, Steal, RereadFails,
         PostOk, PostLost, Persist, PersistFails, Release, Save, SaveFails,
         AnswerError, AnswerGrant, Retry, RetryRejected, InvalidateRecent, Check,
         Delete, DeleteFails, Reread, Invalidate
  <2> QED
    BY <2>1, <2>2, <2>3, <2>4, <2>5, <2>6 DEF TypeOK
<1>2. ASSUME NEW p \in Proc, Exit(p) PROVE TypeOK'
  BY <1>2, SetFacts DEF Exit, Fail, Open, Uncache, Idle, CallType, At, TypeOK, ServerType, ProcType, serverVars, Window
<1>3. CASE Login
  BY <1>3, SetFacts DEF Login, Fail, Open, Idle, CallType, At, TypeOK, ServerType, ProcType, procVars, Window, Room
<1>4. ASSUME NEW n \in Set, Revoke(n) PROVE TypeOK'
  <2>1. minted' = minted /\ root' = root /\ live' \subseteq live /\ revoked' = revoked \cup {n}
    BY <1>4 DEF Revoke
  <2>2. ServerType'
    BY <2>1 DEF TypeOK, ServerType
  <2>3. faults' \in Nat
    BY <1>4 DEF Revoke, Fail, TypeOK
  <2> QED
    BY <1>4, <2>2, <2>3 DEF Revoke, CallType, At, TypeOK, ServerType, ProcType, procVars
<1>5. CASE UNCHANGED vars
  BY <1>5 DEF vars, serverVars, procVars, CallType, At, TypeOK, ServerType, ProcType
<1> QED
  BY <1>1, <1>2, <1>3, <1>4, <1>5 DEF Next

\* The state of the server, the calls, the Keychain and the caches keeps its
\* shape, and no call names a set the server has not issued.
THEOREM TypeCorrect == Spec => []TypeOK
<1> QED
  BY TypeInit, TypeStep, PTL DEF Spec

-----------------------------------------------------------------------------
(* The inductive invariant.  A grant is clean while it went through no     *)
(* window: its one live set is then in the Keychain, or in the hands of    *)
(* the call that holds the lock and is about to store it.                  *)

Under(c, l) == lock = c /\ At(c, l)

\* The holder of the lock is in the code the lock protects.
LockInv ==
    \A c \in Call : lock = c =>
        call[c].locked /\ call[c].pc \in {"reread", "post", "persist", "release"}

\* A set belongs to an earlier login, and no two live ones to the same.
SetInv ==
    /\ \A n \in 1 .. minted : root[n] \in 1 .. n
    /\ \A n, m \in live : root[n] = root[m] => n = m

\* The live set of a clean grant is stored, or about to be.
StoredInv ==
    \A n \in live : window[root[n]] = {} =>
        n = kc \/ \E c \in Call : Under(c, "persist") /\ call[c].res = n

\* The holder posts the live set of a clean grant, or none of that grant.
PostInv ==
    \A c \in Call : Under(c, "post") =>
        \A n \in live : root[n] = root[call[c].grant] /\ window[root[n]] = {} => n = call[c].grant

\* A call that is about to store has the live set of its grant; if it lost
\* the lock, its grant is not clean any more.
PersistInv ==
    \A c \in Call : At(c, "persist") =>
        \A n \in live : root[n] = root[call[c].res] /\ window[root[n]] = {} =>
            lock = c /\ n = call[c].res

\* The set it is about to store is in nobody else's hands.
OwnInv ==
    \A c \in Call : At(c, "persist") =>
        /\ call[c].res \in 1 .. minted /\ kc # call[c].res
        /\ \A d \in Call : d # c => call[d].res # call[c].res

\* A clean grant nobody revoked has a live set.
RevokedInv ==
    \A n \in 1 .. minted : window[root[n]] = {} /\ root[n] \notin revoked =>
        \E m \in live : root[m] = root[n]

GrantInv ==
    /\ LockInv /\ SetInv /\ StoredInv /\ PostInv /\ PersistInv /\ OwnInv /\ RevokedInv

LEMMA GrantInit == Init => GrantInv
<1> SUFFICES ASSUME Init PROVE GrantInv
  OBVIOUS
<1>1. /\ minted = 1 /\ root[1] = 1 /\ live = {1} /\ kc = 1 /\ lock = NoCall
      /\ \A c \in Call : call[c].pc = "idle"
  BY SetFacts, BoundAssumption DEF Init, Idle, Set
<1> QED
  BY <1>1, NoCallAssumption
     DEF GrantInv, LockInv, SetInv, StoredInv, PostInv, PersistInv, OwnInv, RevokedInv,
         Under, At

LEMMA MovedFact ==
    ASSUME TypeOK, NEW c \in Call, Moved(c)
    PROVE  \A d \in Call : d # c => call'[d] = call[d]
BY DEF TypeOK, CallType, Moved

\* A window that opens stays open.
LEMMA OpenFact ==
    ASSUME TypeOK, NEW G, NEW w, Open(G, w)
    PROVE  \A g \in Set : window'[g] = {} => window[g] = {} /\ g \notin G
BY DEF TypeOK, Open

\* What is issued is a set, and so is its grant.
LEMMA SetRange ==
    ASSUME TypeOK, SetInv
    PROVE  /\ minted \in Nat /\ minted <= MaxSet
           /\ live \subseteq 1 .. minted
           /\ \A n \in 1 .. minted : n \in Set /\ root[n] \in Set /\ root[n] <= n
BY SetFacts, BoundAssumption DEF TypeOK, ServerType, SetInv, Set

\* A call that moves without touching the server, the Keychain or the lock.
LEMMA LocalStep ==
    ASSUME TypeOK, GrantInv, NEW c \in Call, Moved(c),
           UNCHANGED <<minted, root, live, revoked, kc, lock>>,
           \A g \in Set : window'[g] = {} => window[g] = {},
           ~At(c, "persist"), ~At(c, "persist")',
           call'[c].res \in {0, kc, call[c].res},
           lock = c => call'[c].locked /\ call'[c].pc \in {"reread", "post", "release"},
           Under(c, "post")' =>
               \A n \in live : window[root[n]] = {} => n = call'[c].grant
    PROVE  GrantInv'
<1>1. /\ \A d \in Call : d # c => call'[d] = call[d]
      /\ minted' = minted /\ root' = root /\ live' = live /\ revoked' = revoked
      /\ kc' = kc /\ lock' = lock
  BY MovedFact
<1>2. \A n \in 1 .. minted : root[n] \in Set /\ (window'[root[n]] = {} => window[root[n]] = {})
  BY <1>1, SetRange DEF GrantInv
<1>3. live \subseteq 1 .. minted
  BY SetRange DEF GrantInv
<1>4. LockInv' /\ SetInv' /\ RevokedInv'
  BY <1>1, <1>2, SetRange DEF GrantInv, LockInv, SetInv, RevokedInv
<1>5. StoredInv'
  BY <1>1, <1>2, <1>3 DEF GrantInv, StoredInv, Under, At
<1>6. PostInv'
  BY <1>1, <1>2, <1>3 DEF GrantInv, PostInv, Under, At
<1>7. PersistInv'
  BY <1>1, <1>2, <1>3 DEF GrantInv, PersistInv, Under, At
<1>8. OwnInv'
  BY <1>1 DEF GrantInv, OwnInv, At
<1> QED
  BY <1>4, <1>5, <1>6, <1>7, <1>8 DEF GrantInv

\* The steps of a call that are of that kind.
LEMMA LocalSteps ==
    ASSUME TypeOK, GrantInv, NEW c \in Call,
           \/ Start(c) \/ LoadRead(c) \/ LoadFails(c) \/ Load(c) \/ Begin(c)
           \/ TimeOut(c) \/ Reread(c) \/ RereadFails(c)
           \/ SaveFails(c) \/ AnswerError(c) \/ AnswerGrant(c) \/ Retry(c) \/ RetryRejected(c)
           \/ InvalidateRecent(c) \/ Invalidate(c) \/ Check(c) \/ DeleteFails(c)
    PROVE  GrantInv'
<1>1. Moved(c)
  BY CallStep DEF Attempt
<1>2. c \in DOMAIN call /\ Sound(call[c], minted)
  BY CallFacts
<1>3. UNCHANGED <<minted, root, live, revoked, kc, lock>>
  BY DEF serverVars, Start, LoadRead, LoadFails, Load, Begin, TimeOut, Reread, RereadFails,
         SaveFails, AnswerError, AnswerGrant, Retry, RetryRejected, InvalidateRecent,
         Invalidate, Check, DeleteFails
<1>4. \A g \in Set : window'[g] = {} => window[g] = {}
  <2>1. CASE SaveFails(c)
    BY <2>1, OpenFact DEF SaveFails
  <2>2. CASE UNCHANGED window
    BY <2>2
  <2> QED
    BY <2>1, <2>2 DEF Start, LoadRead, LoadFails, Load, Begin, TimeOut, Reread, RereadFails,
         AnswerError, AnswerGrant, Retry, RetryRejected, InvalidateRecent,
         Invalidate, Check, DeleteFails
<1>5. lock = c => call[c].locked /\ call[c].pc \in {"reread", "post", "persist", "release"}
  BY DEF GrantInv, LockInv
<1>6. CASE Reread(c)
  <2>1. /\ call'[c].pc \in {"post", "release"} /\ call'[c].locked = call[c].locked
        /\ call'[c].res \in {kc, call[c].res}
        /\ call'[c].pc = "post" =>
              \/ call'[c].grant = kc
              \/ kc = 0
              \/ kc = call[c].req /\ call'[c].grant = call[c].req
    <3> DEFINE spend(g) == [call[c] EXCEPT !.pc = "post", !.grant = g, !.req = 0]
               wait == [call[c] EXCEPT !.pc = "release", !.res = kc, !.req = 0]
    <3>1. CASE (kc = 0 \/ kc = call[c].req) /\ call'[c] = spend(call[c].req)
      BY <1>2, <3>1 DEF Sound, CallRecord
    <3>2. CASE call'[c] = spend(kc)
      <4>1. call[c] \in CallRecord
        BY <1>2 DEF Sound
      <4> QED
        BY <3>2, <4>1 DEF CallRecord
    <3>3. CASE call'[c] = wait
      BY <1>2, <3>3 DEF Sound, CallRecord
    <3> QED
      BY <1>2, <1>6, <3>1, <3>2, <3>3 DEF Reread
  <2>2. At(c, "reread")
    BY <1>6 DEF Reread
  <2>3. ASSUME lock = c, NEW n \in live, window[root[n]] = {} PROVE n = kc /\ kc # 0
    <3>1. n = kc
      BY <2>2, <2>3 DEF GrantInv, StoredInv, Under, At
    <3> QED
      BY <3>1, SetRange DEF GrantInv
  <2> QED
    BY <1>1, <1>3, <1>4, <1>5, <2>1, <2>2, <2>3, LocalStep DEF Under, At
<1>7. CASE ~Reread(c)
  <2>1. (~At(c, "persist") /\ lock # c) \/ RereadFails(c)
    BY <1>5, <1>7
       DEF At, Start, LoadRead, LoadFails, Load, Begin, TimeOut, SaveFails, AnswerError,
           AnswerGrant, Retry, RetryRejected, InvalidateRecent, Invalidate, Check, DeleteFails
  <2>2. At(c, "reread") \/ ~RereadFails(c)
    BY DEF RereadFails
  <2>3. /\ call'[c].pc # "persist" /\ call'[c].res \in {0, call[c].res}
    <3>1. CASE LoadFails(c) \/ SaveFails(c) \/ AnswerError(c) \/ Retry(c) \/ RetryRejected(c) \/ DeleteFails(c)
      <4>1. call'[c] = Idle
        BY <1>2, <3>1 DEF LoadFails, SaveFails, AnswerError, Retry, RetryRejected, DeleteFails, GiveUp
      <4> QED
        BY <4>1 DEF Idle
    <3>2. CASE Start(c) \/ LoadRead(c) \/ Load(c)
      BY <1>2, <3>2 DEF Start, LoadRead, Load, Goto, Sound, CallRecord
    <3>3. CASE Begin(c) \/ TimeOut(c)
      BY <1>2, <3>3 DEF Begin, TimeOut, GiveUp, Idle, Sound, CallRecord
    <3>4. CASE RereadFails(c) \/ AnswerGrant(c)
      BY <1>2, <3>4 DEF RereadFails, AnswerGrant, Idle, Sound, CallRecord
    <3>5. CASE InvalidateRecent(c) \/ Check(c)
      <4>1. CASE call'[c] = [Idle EXCEPT !.pc = "tokens", !.again = TRUE]
        BY <4>1 DEF Idle
      <4>2. CASE call'[c] = [call[c] EXCEPT !.pc = "delete", !.req = 0]
        BY <1>2, <4>2 DEF Sound, CallRecord
      <4> QED
        BY <1>2, <3>5, <4>1, <4>2 DEF InvalidateRecent, Check, Again
    <3>6. CASE Invalidate(c)
      BY <1>2, <3>6 DEF Invalidate, Sound, CallRecord
    <3> QED
      BY <1>7, <3>1, <3>2, <3>3, <3>4, <3>5, <3>6
  <2>4. RereadFails(c) => call'[c].pc = "release" /\ call'[c].locked = call[c].locked
    BY <1>2 DEF RereadFails, Sound, CallRecord
  <2> QED
    BY <1>1, <1>3, <1>4, <1>5, <2>1, <2>2, <2>3, <2>4, LocalStep DEF Under, At
<1> QED
  BY <1>6, <1>7

LEMMA LockSteps ==
    ASSUME TypeOK, GrantInv, NEW c \in Call, Acquire(c) \/ Steal(c) \/ Release(c)
    PROVE  GrantInv'
<1>1. /\ \A d \in Call : d # c => call'[d] = call[d]
      /\ minted' = minted /\ root' = root /\ live' = live /\ revoked' = revoked /\ kc' = kc
  BY CallStep, MovedFact DEF Attempt, serverVars, Acquire, Steal, Release
<1>2. /\ ~At(c, "persist") /\ call'[c].res = call[c].res
      /\ call'[c].pc \in {"reread", "answer"}
      /\ call'[c].pc = "reread" => call'[c].locked
  BY CallFacts DEF Acquire, Steal, Release, Goto, At, Sound, CallRecord
<1>3. /\ \/ lock' = c /\ call'[c].pc = "reread"
         \/ lock' = NoCall
         \/ lock' = lock /\ lock # c
      /\ lock # lock' /\ lock # NoCall /\ lock # c => Open(Unsaved(lock), "stolen")
      /\ \A g \in Set : window'[g] = {} => window[g] = {}
  <2>1. CASE Acquire(c)
    <3>1. call'[c].pc = "reread"
      BY <2>1, CallFacts DEF Acquire, Sound, CallRecord
    <3> QED
      BY <2>1, <3>1 DEF Acquire
  <2>2. CASE Steal(c)
    <3>1. call'[c].pc = "reread"
      BY <2>2, CallFacts DEF Steal, Sound, CallRecord
    <3>2. lock' = c /\ Open(Unsaved(lock), "stolen")
      BY <2>2 DEF Steal
    <3>3. \A g \in Set : window'[g] = {} => window[g] = {}
      BY <3>2, OpenFact
    <3> QED
      BY <3>1, <3>2, <3>3
  <2>3. CASE Release(c)
    <3>1. CASE lock # NoCall /\ ProcOf[lock] = ProcOf[c]
      <4> DEFINE G == IF lock = c THEN {} ELSE Unsaved(lock)
      <4>1. lock' = NoCall /\ Open(G, "stolen")
        BY <2>3, <3>1 DEF Release
      <4>2. \A g \in Set : window'[g] = {} => window[g] = {}
        BY <4>1, OpenFact
      <4> QED
        BY <4>1, <4>2
    <3>2. CASE ~(lock # NoCall /\ ProcOf[lock] = ProcOf[c])
      <4>1. UNCHANGED <<lock, window>>
        BY <2>3, <3>2 DEF Release
      <4> QED
        BY <3>2, <4>1, NoCallAssumption
    <3> QED
      BY <3>1, <3>2
  <2> QED
    BY <2>1, <2>2, <2>3
<1>4. /\ live \subseteq 1 .. minted
      /\ \A n \in 1 .. minted : root[n] \in Set /\ (window'[root[n]] = {} => window[root[n]] = {})
  <2>1. /\ live \subseteq 1 .. minted
        /\ \A n \in 1 .. minted : root[n] \in Set
    BY SetRange DEF GrantInv
  <2> QED
    BY <1>3, <2>1
\* The grant of the one that loses the lock before it stored is not clean.
<1>5. ASSUME NEW d \in Call, Under(d, "persist"), lock' # lock, NEW n \in live,
             call[d].res = n, window'[root[n]] = {}
      PROVE  FALSE
  <2>1. d # c /\ lock = d /\ d # NoCall
    BY <1>2, <1>5, NoCallAssumption DEF Under
  <2>2. root[n] \in Unsaved(d)
    BY <1>5 DEF GrantInv, OwnInv, Under, Unsaved
  <2>3. root[n] \in Set
    BY <1>4
  <2>4. Open(Unsaved(d), "stolen")
    BY <1>3, <1>5, <2>1
  <2> QED
    BY <1>5, <2>2, <2>3, <2>4, OpenFact
<1>6. LockInv'
  BY <1>1, <1>2, <1>3, NoCallAssumption DEF GrantInv, LockInv
<1>7. SetInv' /\ RevokedInv'
  BY <1>1, <1>4, SetRange DEF GrantInv, SetInv, RevokedInv
<1>8. StoredInv'
  <2>1. ASSUME NEW n \in live, window'[root[n]] = {}
        PROVE  n = kc \/ \E d \in Call : Under(d, "persist")' /\ call'[d].res = n
    <3>1. n = kc \/ \E d \in Call : Under(d, "persist") /\ call[d].res = n
      BY <1>4, <2>1 DEF GrantInv, StoredInv
    <3>2. ASSUME NEW d \in Call, Under(d, "persist"), call[d].res = n
          PROVE  Under(d, "persist")' /\ call'[d].res = n
      <4>1. lock' = lock
        BY <1>5, <2>1, <3>2
      <4>2. d # c
        BY <1>2, <3>2 DEF Under
      <4> QED
        BY <1>1, <3>2, <4>1, <4>2 DEF Under, At
    <3> QED
      BY <3>1, <3>2
  <2> QED
    BY <1>1, <2>1 DEF StoredInv
<1>9. PostInv'
  BY <1>1, <1>2, <1>3, <1>4, NoCallAssumption DEF GrantInv, PostInv, Under, At
<1>10. PersistInv'
  BY <1>1, <1>2, <1>4, <1>5 DEF GrantInv, PersistInv, Under, At
<1>11. OwnInv'
  BY <1>1, <1>2 DEF GrantInv, OwnInv, At
<1> QED
  BY <1>6, <1>7, <1>8, <1>9, <1>10, <1>11 DEF GrantInv

LEMMA RotateFacts ==
    ASSUME TypeOK, SetInv, NEW g \in live, Rotate(g)
    PROVE  /\ minted' = minted + 1 /\ minted' \in Set /\ minted' \in Nat
           /\ live' = (live \ {g}) \cup {minted'} /\ revoked' = revoked
           /\ root'[minted'] = root[g]
           /\ \A n \in 1 .. minted : root'[n] = root[n]
           /\ g \in 1 .. minted /\ minted' \notin 1 .. minted
BY SetRange, SetFacts DEF Rotate, Room, TypeOK, ServerType

\* A rotation: by the holder, or the grant is not clean any more.
LEMMA RotateStep ==
    ASSUME TypeOK, GrantInv, NEW c \in Call, Moved(c), At(c, "post"), call[c].grant \in live,
           Rotate(call[c].grant), UNCHANGED <<kc, lock>>,
           \A h \in Set : window'[h] = {} => window[h] = {},
           \/ call'[c].pc = "persist" /\ (~Under(c, "post") => window'[root[call[c].grant]] # {})
           \/ call'[c].pc \in {"answer", "release"} /\ window'[root[call[c].grant]] # {},
           call'[c].locked = call[c].locked, 
           call'[c].pc # "persist" => call'[c].pc = "release" \/ ~call[c].locked,
           \/ call'[c].res = minted'
           \/ call'[c].res = call[c].res /\ call'[c].pc # "persist"
    PROVE  GrantInv'
<1> DEFINE g == call[c].grant
<1>1. /\ \A d \in Call : d # c => call'[d] = call[d]
      /\ kc' = kc /\ lock' = lock
  BY MovedFact
<1>2. /\ minted' = minted + 1 /\ minted' \in Set /\ minted' \in Nat
      /\ live' = (live \ {g}) \cup {minted'} /\ revoked' = revoked
      /\ root'[minted'] = root[g]
      /\ \A n \in 1 .. minted : root'[n] = root[n]
      /\ g \in 1 .. minted /\ minted' \notin 1 .. minted
  BY RotateFacts DEF GrantInv
<1>3. /\ minted \in Nat /\ live \subseteq 1 .. minted
      /\ \A n \in 1 .. minted : root[n] \in Set /\ root[n] \in 1 .. n
  BY SetRange DEF GrantInv, SetInv
<1>4. \A n \in 1 .. minted : window'[root[n]] = {} => window[root[n]] = {}
  BY <1>3
<1>5. LockInv'
  BY <1>1 DEF GrantInv, LockInv
<1>6. SetInv'
  <2>1. \A n \in 1 .. minted' : root'[n] \in 1 .. n
    BY <1>2, <1>3
  <2>2. \A n, m \in live' : root'[n] = root'[m] => n = m
    BY <1>2, <1>3 DEF GrantInv, SetInv
  <2> QED
    BY <2>1, <2>2 DEF SetInv
\* A set that stays live and clean is of another grant.
<1>7. ASSUME NEW n \in live', window'[root'[n]] = {}, Under(c, "post") => n # minted'
      PROVE  /\ n \in live /\ n \in 1 .. minted /\ n # g /\ n # minted'
             /\ root'[n] = root[n] /\ window[root[n]] = {}
  <2>1. n # minted'
    <3>1. CASE n = minted'
      BY <1>2, <1>7, <3>1
    <3> QED
      BY <3>1
  <2> QED
    BY <1>2, <1>3, <1>4, <1>7, <2>1
<1>8. RevokedInv'
  <2>1. ASSUME NEW n \in 1 .. minted', window'[root'[n]] = {}, root'[n] \notin revoked'
        PROVE  \E m \in live' : root'[m] = root'[n]
    <3>1. CASE n = minted'
      BY <1>2, <3>1
    <3>2. CASE n \in 1 .. minted
      <4>1. PICK m \in live : root[m] = root[n]
        BY <1>2, <1>4, <2>1, <3>2 DEF GrantInv, RevokedInv
      <4> QED
        BY <1>2, <1>3, <3>2, <4>1
    <3> QED
      BY <1>2, <1>3, <2>1, <3>1, <3>2
  <2> QED
    BY <2>1 DEF RevokedInv
<1>9. OwnInv'
  BY <1>1, <1>2, <1>3, CallFacts DEF GrantInv, OwnInv, At, Sound
<1>10. PostInv'
  <2>1. ASSUME NEW d \in Call, Under(d, "post")', NEW n \in live',
               root'[n] = root'[call'[d].grant], window'[root'[n]] = {}
        PROVE  n = call'[d].grant
    <3>1. d # c /\ lock = d /\ At(d, "post") /\ call'[d] = call[d]
      BY <1>1, <2>1 DEF Under, At
    <3>2. call[d].grant \in 1 .. minted
      <4>1. Sound(call[d], minted)
        BY CallFacts
      <4>2. call[d].grant \in Set /\ call[d].grant <= minted
        BY <3>1, <4>1 DEF At, Sound
      <4>3. call[d].grant \in Nat /\ 1 <= call[d].grant /\ minted \in Nat
        BY <1>3, <4>2, SetFacts
      <4> QED
        BY <4>2, <4>3
    <3>3. n \in live /\ window[root[n]] = {} /\ root[n] = root[call[d].grant]
      BY <1>2, <1>7, <2>1, <3>1, <3>2 DEF Under
    <3> QED
      BY <3>1, <3>3 DEF GrantInv, PostInv, Under
  <2> QED
    BY <2>1 DEF PostInv
<1>11. StoredInv'
  <2>1. ASSUME NEW n \in live', window'[root'[n]] = {}
        PROVE  n = kc' \/ \E e \in Call : Under(e, "persist")' /\ call'[e].res = n
    <3>1. CASE Under(c, "post") /\ n = minted'
      BY <1>1, <1>2, <2>1, <3>1 DEF Under, At
    <3>2. CASE ~(Under(c, "post") /\ n = minted')
      <4>1. n \in live /\ window[root[n]] = {}
        BY <1>7, <2>1, <3>2
      <4>2. n = kc \/ \E e \in Call : Under(e, "persist") /\ call[e].res = n
        BY <4>1 DEF GrantInv, StoredInv
      <4> QED
        BY <1>1, <4>2 DEF Under, At
    <3> QED
      BY <3>1, <3>2
  <2> QED
    BY <2>1 DEF StoredInv
<1>12. PersistInv'
  <2>1. ASSUME NEW d \in Call, At(d, "persist")', NEW n \in live',
               root'[n] = root'[call'[d].res], window'[root'[n]] = {}
        PROVE  lock' = d /\ n = call'[d].res
    <3>1. CASE d = c
      <4>1. call'[c].res = minted' /\ root'[n] = root[g]
        BY <1>2, <2>1, <3>1 DEF At
      <4>2. Under(c, "post")
        BY <2>1, <3>1, <4>1 DEF At
      <4>3. n = minted'
        BY <1>2, <1>3, <2>1, <4>1 DEF GrantInv, SetInv
      <4> QED
        BY <1>1, <3>1, <4>1, <4>2, <4>3 DEF Under
    <3>2. CASE d # c
      <4>1. At(d, "persist") /\ call'[d] = call[d] /\ call[d].res \in 1 .. minted
        BY <1>1, <2>1, <3>2 DEF At, GrantInv, OwnInv
      <4>2. root'[n] = root[call[d].res]
        BY <1>2, <2>1, <4>1
      <4>3. n # minted'
        <5>1. CASE n = minted'
          <6>1. root[g] = root[call[d].res] /\ window[root[g]] = {}
            BY <1>2, <1>4, <2>1, <4>2, <5>1
          <6>2. lock = d
            BY <4>1, <6>1 DEF GrantInv, PersistInv
          <6> QED
            BY <1>2, <2>1, <3>2, <5>1, <6>2 DEF Under
        <5> QED
          BY <5>1
      <4>4. n \in live /\ window[root[n]] = {} /\ root'[n] = root[n]
        BY <1>7, <2>1, <4>3
      <4>5. lock = d /\ n = call[d].res
        BY <4>1, <4>2, <4>4, ZenonT(60) DEF GrantInv, PersistInv
      <4> QED
        BY <1>1, <4>1, <4>5
    <3> QED
      BY <3>1, <3>2
  <2> QED
    BY <2>1 DEF PersistInv
<1> QED
  BY <1>5, <1>6, <1>8, <1>9, <1>10, <1>11, <1>12 DEF GrantInv

\* A step that stores n, takes the item away, or leaves it, without touching
\* the server's sets or the lock: what leaves the Keychain is not clean.
LEMMA StoreStep ==
    ASSUME TypeOK, GrantInv, NEW c \in Call, Moved(c),
           UNCHANGED <<minted, root, live, revoked, lock>>,
           \A h \in Set : window'[h] = {} => window[h] = {},
           ~At(c, "persist")', call'[c].pc # "post", call'[c].res \in {0, call[c].res},
           lock = c => call'[c].locked /\ call'[c].pc = "release",
           \A n \in live : window'[root[n]] = {} /\ (n = kc \/ (Under(c, "persist") /\ n = call[c].res))
                => n = kc',
           \A d \in Call : d # c /\ At(d, "persist") => call[d].res # kc'
    PROVE  GrantInv'
<1>1. /\ \A d \in Call : d # c => call'[d] = call[d]
      /\ minted' = minted /\ root' = root /\ live' = live /\ revoked' = revoked
      /\ lock' = lock
  BY MovedFact
<1>2. /\ live \subseteq 1 .. minted
      /\ \A n \in 1 .. minted : root[n] \in Set
  BY SetRange DEF GrantInv
<1>3. \A n \in 1 .. minted : window'[root[n]] = {} => window[root[n]] = {}
  BY <1>2
<1>4. LockInv' /\ SetInv' /\ RevokedInv'
  BY <1>1, <1>2, <1>3 DEF GrantInv, LockInv, SetInv, RevokedInv
<1>5. StoredInv'
  <2>1. ASSUME NEW n \in live, window'[root[n]] = {}
        PROVE  n = kc' \/ \E e \in Call : Under(e, "persist")' /\ call'[e].res = n
    <3>1. n = kc \/ \E e \in Call : Under(e, "persist") /\ call[e].res = n
      BY <1>2, <1>3, <2>1 DEF GrantInv, StoredInv
    <3>2. CASE n = kc \/ (Under(c, "persist") /\ n = call[c].res)
      BY <2>1, <3>2
    <3>3. CASE \E e \in Call \ {c} : Under(e, "persist") /\ call[e].res = n
      BY <1>1, <3>3 DEF Under, At
    <3> QED
      BY <3>1, <3>2, <3>3
  <2> QED
    BY <1>1, <2>1 DEF StoredInv
<1>6. PostInv'
  BY <1>1, <1>2, <1>3 DEF GrantInv, PostInv, Under, At
<1>7. PersistInv'
  BY <1>1, <1>2, <1>3 DEF GrantInv, PersistInv, Under, At
<1>8. OwnInv'
  BY <1>1, <1>2 DEF GrantInv, OwnInv, At
<1> QED
  BY <1>4, <1>5, <1>6, <1>7, <1>8 DEF GrantInv

LEMMA StoreSteps ==
    ASSUME TypeOK, GrantInv, NEW c \in Call,
           Persist(c) \/ PersistFails(c) \/ Save(c) \/ Delete(c)
    PROVE  GrantInv'
<1> DEFINE r == call[c].res
<1>1. Moved(c)
  BY CallStep DEF Attempt
<1>2. c \in DOMAIN call /\ Sound(call[c], minted)
  BY CallFacts
<1>3. UNCHANGED <<minted, root, live, revoked, lock>>
  BY DEF serverVars, Persist, PersistFails, Save, Delete
<1>4. /\ live \subseteq 1 .. minted /\ 1 .. minted \subseteq Set
      /\ \A n \in 1 .. minted : root[n] \in Set
  BY SetRange DEF GrantInv
<1>5. CASE Persist(c)
  <2>1. /\ At(c, "persist") /\ kc' = r /\ Open(OtherGrants(root[r]), "replaced")
        /\ call'[c].pc = "release" /\ call'[c].res = r /\ call'[c].locked = call[c].locked
    BY <1>2, <1>3, <1>5 DEF Persist, Goto, Sound, CallRecord
  <2>2. \A h \in Set : window'[h] = {} => window[h] = {} /\ h \notin OtherGrants(root[r])
    BY <2>1, OpenFact
  <2>3. ASSUME NEW n \in live, window'[root[n]] = {}, n = kc PROVE n = r
    <3>1. root[n] = root[r] /\ window[root[n]] = {}
      BY <1>4, <2>2, <2>3 DEF OtherGrants
    <3> QED
      BY <2>1, <3>1 DEF GrantInv, PersistInv
  <2> QED
    BY <1>1, <1>3, <2>1, <2>2, <2>3, StoreStep DEF GrantInv, LockInv, OwnInv, At
<1>6. CASE PersistFails(c)
  <2>1. /\ At(c, "persist") /\ kc' = kc /\ Open({root[r]}, "unsaved")
        /\ call'[c].pc = "release" /\ call'[c].res = r /\ call'[c].locked = call[c].locked
    BY <1>2, <1>3, <1>6 DEF PersistFails, Goto, Sound, CallRecord
  <2>2. \A h \in Set : window'[h] = {} => window[h] = {} /\ h # root[r]
    BY <2>1, OpenFact
  <2>3. \A n \in live : window'[root[n]] = {} => n # r
    BY <1>4, <2>2
  <2> QED
    BY <1>1, <1>3, <2>1, <2>2, <2>3, StoreStep DEF GrantInv, LockInv, OwnInv, At
<1>7. CASE Save(c)
  <2>1. /\ At(c, "answer") /\ r # 0 /\ kc' = r
        /\ call'[c].pc = "retry" /\ call'[c].res = 0
    BY <1>2, <1>7 DEF Save, Idle
  <2>2. \A h \in Set : window'[h] = {} =>
          window[h] = {} /\ h \notin OtherGrants(root[r]) /\ (r \in live \/ h # root[r])
    <3>1. CASE r \in live
      <4>1. Open(OtherGrants(root[r]), "replaced")
        BY <1>7, <3>1 DEF Save
      <4> QED
        BY <3>1, <4>1, OpenFact
    <3>2. CASE r \notin live
      <4>1. Open({root[r]} \cup OtherGrants(root[r]), "overwritten")
        BY <1>7, <3>2 DEF Save
      <4>2. \A h \in Set : window'[h] = {} =>
              window[h] = {} /\ h \notin {root[r]} \cup OtherGrants(root[r])
        BY <4>1, OpenFact
      <4> QED
        BY <4>2
    <3> QED
      BY <3>1, <3>2
  <2>3. ASSUME NEW n \in live, window'[root[n]] = {}, n = kc PROVE n = r
    <3>1. root[n] = root[r] /\ r \in live
      BY <1>4, <2>2, <2>3 DEF OtherGrants
    <3> QED
      BY <3>1 DEF GrantInv, SetInv
  <2>4. lock # c
    BY <2>1 DEF GrantInv, LockInv, At
  <2> QED
    BY <1>1, <1>3, <2>1, <2>2, <2>3, <2>4, StoreStep DEF GrantInv, OwnInv, At, Under
<1>8. CASE Delete(c)
  <2>1. /\ At(c, "delete") /\ kc' = 0 /\ Open({root[n] : n \in live \cap {kc}}, "wiped")
        /\ call'[c].pc = "tokens" /\ call'[c].res = 0
    BY <1>2, <1>8 DEF Delete, Again, Idle
  <2>2. \A h \in Set : window'[h] = {} => window[h] = {} /\ h \notin {root[n] : n \in live \cap {kc}}
    BY <2>1, OpenFact
  <2>3. \A n \in live : window'[root[n]] = {} => n # kc
    BY <1>4, <2>2
  <2>4. lock # c
    BY <2>1 DEF GrantInv, LockInv, At
  <2>5. \A d \in Call : At(d, "persist") => call[d].res # 0
    BY SetRange DEF GrantInv, OwnInv
  <2> QED
    BY <1>1, <1>3, <2>1, <2>2, <2>3, <2>4, <2>5, StoreStep DEF At, Under
<1> QED
  BY <1>5, <1>6, <1>7, <1>8

\* The server gives up the sets of one grant, or none, which is revoked or not
\* clean any more; calls leave the POST with an error.
LEMMA ShrinkStep ==
    ASSUME TypeOK, GrantInv, NEW h \in Set,
           UNCHANGED <<minted, root, kc, lock>>, revoked \subseteq revoked',
           \A k \in Set : window'[k] = {} => window[k] = {},
           \/ live' = live
           \/ live' = live \ Family(h) /\ (h \in revoked' \/ window'[h] # {}),
           \A d \in Call :
              \/ call'[d] = call[d]
              \/ /\ At(d, "post") /\ call'[d].pc \in {"release", "answer"}
                 /\ call'[d].res = call[d].res
                 /\ lock = d => call'[d].locked /\ call'[d].pc = "release"
    PROVE  GrantInv'
<1>1. minted' = minted /\ root' = root /\ kc' = kc /\ lock' = lock /\ live' \subseteq live
  OBVIOUS
<1>2. /\ live \subseteq 1 .. minted
      /\ \A n \in 1 .. minted : root[n] \in Set
  BY SetRange DEF GrantInv
<1>3. \A n \in 1 .. minted : window'[root[n]] = {} => window[root[n]] = {}
  BY <1>2
<1>4. LockInv' /\ SetInv'
  BY <1>1 DEF GrantInv, LockInv, SetInv
<1>5. RevokedInv'
  <2>1. ASSUME NEW n \in 1 .. minted, window'[root[n]] = {}, root[n] \notin revoked'
        PROVE  \E m \in live' : root[m] = root[n]
    <3>1. PICK m \in live : root[m] = root[n]
      BY <1>3, <2>1 DEF GrantInv, RevokedInv
    <3>2. m \in live'
      BY <2>1, <3>1 DEF Family
    <3> QED
      BY <3>1, <3>2
  <2> QED
    BY <1>1, <2>1 DEF RevokedInv
<1>6. \A d \in Call : /\ call'[d].res = call[d].res
                      /\ call'[d].pc \in {"post", "persist"} => call'[d] = call[d]
                      /\ call[d].pc = "persist" => call'[d] = call[d]
  BY DEF At
<1>7. StoredInv'
  BY <1>1, <1>2, <1>3, <1>6 DEF GrantInv, StoredInv, Under, At
<1>8. PostInv'
  BY <1>1, <1>2, <1>3, <1>6 DEF GrantInv, PostInv, Under, At
<1>9. PersistInv'
  BY <1>1, <1>2, <1>3, <1>6 DEF GrantInv, PersistInv, Under, At
<1>10. OwnInv'
  BY <1>1, <1>6 DEF GrantInv, OwnInv, At
<1> QED
  BY <1>4, <1>5, <1>7, <1>8, <1>9, <1>10 DEF GrantInv

\* invalid_grant for a grant that still lives: its windows tell why.
LEMMA RejectedFact ==
    ASSUME TypeOK, GrantInv, NEW c \in Call, PostRejected(c), Family(root[call[c].grant]) # {}
    PROVE  window'[root[call[c].grant]] # {}
<1> DEFINE g == call[c].grant
<1>1. At(c, "post") /\ g \notin live /\ SpendUnlocked(c)
  BY DEF PostRejected
<1>2. PICK n \in live : root[n] = root[g]
  BY DEF Family
<1>3. root[g] \in Set
  BY <1>2, SetRange DEF GrantInv
<1>4. CASE lock = c
  BY <1>1, <1>2, <1>4 DEF GrantInv, PostInv, Under, SpendUnlocked
<1>5. CASE lock # c
  <2>1. Open({root[g]}, "unlocked")
    BY <1>1, <1>5 DEF SpendUnlocked
  <2> QED
    BY <1>3, <2>1, OpenFact
<1> QED
  BY <1>4, <1>5

LEMMA PostSteps ==
    ASSUME TypeOK, GrantInv, NEW c \in Call, PostOk(c) \/ PostRejected(c) \/ PostLost(c)
    PROVE  GrantInv'
<1> DEFINE g == call[c].grant
<1>1. Moved(c)
  BY CallStep DEF Attempt
<1>2. /\ c \in DOMAIN call /\ Sound(call[c], minted) /\ At(c, "post") /\ kc' = kc /\ lock' = lock
  BY CallFacts DEF PostOk, PostRejected, PostLost
<1>3. g \in 1 .. minted /\ root[g] \in Set
  <2>1. g \in Set /\ g <= minted
    BY <1>2 DEF Sound, At
  <2>2. g \in Nat /\ 1 <= g /\ minted \in Nat
    BY <2>1, SetFacts, SetRange DEF GrantInv
  <2> QED
    BY <2>1, <2>2, SetRange DEF GrantInv
<1>4. /\ lock = c => call[c].locked
      /\ lock # c /\ SpendUnlocked(c) => window'[root[g]] # {}
      /\ SpendUnlocked(c) => \A h \in Set : window'[h] = {} => window[h] = {}
  <2>1. CASE lock = c
    BY <2>1 DEF GrantInv, LockInv, SpendUnlocked
  <2>2. CASE lock # c
    <3>1. SpendUnlocked(c) => \A h \in Set : window'[h] = {} => window[h] = {} /\ h # root[g]
      BY <2>2, OpenFact DEF SpendUnlocked
    <3> QED
      BY <1>3, <2>2, <3>1
  <2> QED
    BY <2>1, <2>2
<1>5. CASE PostOk(c)
  <2>1. /\ g \in live /\ Rotate(g) /\ SpendUnlocked(c)
        /\ call'[c].res = minted' /\ call'[c].locked = call[c].locked
        /\ call'[c].pc = IF call[c].locked THEN "persist" ELSE "answer"
    BY <1>2, <1>5 DEF PostOk, Sound, CallRecord
  <2> QED
    BY <1>1, <1>2, <1>4, <2>1, RotateStep DEF Under
<1>6. ASSUME PostRejected(c) \/ (PostLost(c) /\ UNCHANGED <<serverVars, window>>)
      PROVE  GrantInv'
  <2>1. /\ UNCHANGED <<minted, root, kc, lock>> /\ revoked' = revoked
        /\ call'[c].pc = After(c) /\ call'[c].locked = call[c].locked /\ call'[c].res = call[c].res
    <3>1. After(c) \in {"release", "answer"}
      BY AfterFact
    <3> QED
      BY <1>2, <1>6, <3>1 DEF PostRejected, PostLost, serverVars, Sound, CallRecord
  <2>2. \A d \in Call : d # c => call'[d] = call[d]
    BY <1>1, MovedFact
  <2>3. \A h \in Set : window'[h] = {} => window[h] = {}
    BY <1>4, <1>6 DEF PostRejected
  <2>4. live' = live \/ (live' = live \ Family(root[g]) /\ (Family(root[g]) = {} \/ window'[root[g]] # {}))
    BY <1>6, RejectedFact DEF PostRejected, serverVars
  <2>5. live' = live \/ (live' = live \ Family(root[g]) /\ window'[root[g]] # {})
    BY <2>4
  <2> QED
    BY <1>2, <1>3, <1>4, <2>1, <2>2, <2>3, <2>5, AfterFact, ShrinkStep DEF After
<1>7. CASE PostLost(c) /\ ~UNCHANGED <<serverVars, window>>
  <2>1. /\ g \in live /\ Rotate(g) /\ Open({root[g]}, "lost")
        /\ call'[c].res = call[c].res /\ call'[c].locked = call[c].locked
        /\ call'[c].pc = IF call[c].locked THEN "release" ELSE "answer"
    BY <1>2, <1>7 DEF PostLost, After, Sound, CallRecord
  <2>2. \A h \in Set : window'[h] = {} => window[h] = {} /\ h # root[g]
    BY <2>1, OpenFact
  <2> QED
    BY <1>1, <1>2, <1>3, <2>1, <2>2, RotateStep DEF Under
<1> QED
  BY <1>5, <1>6, <1>7

LEMMA ExitStep ==
    ASSUME TypeOK, GrantInv, NEW p \in Proc, Exit(p)
    PROVE  GrantInv'
<1> DEFINE mine == {c \in Call : ProcOf[c] = p}
           G == UNION {Unsaved(c) : c \in mine}
<1>1. /\ minted' = minted /\ root' = root /\ live' = live /\ revoked' = revoked /\ kc' = kc
      /\ call' = [c \in Call |-> IF c \in mine THEN Idle ELSE call[c]]
      /\ lock' = IF lock \in mine THEN NoCall ELSE lock
      /\ Open(G, "killed")
  BY DEF Exit, serverVars
<1>2. \A c \in Call : /\ c \in mine => call'[c].pc = "idle" /\ call'[c].res = 0
                      /\ c \notin mine => call'[c] = call[c]
  BY <1>1 DEF Idle
<1>3. \A h \in Set : window'[h] = {} => window[h] = {} /\ h \notin G
  BY <1>1, OpenFact
<1>4. /\ live \subseteq 1 .. minted
      /\ \A n \in 1 .. minted : root[n] \in Set
  BY SetRange DEF GrantInv
<1>5. \A n \in 1 .. minted : window'[root[n]] = {} => window[root[n]] = {}
  BY <1>3, <1>4
<1>6. ASSUME NEW c \in mine, Under(c, "persist"), NEW n \in live, call[c].res = n
      PROVE  window'[root[n]] # {}
  <2>1. root[n] \in Unsaved(c)
    BY <1>6 DEF GrantInv, OwnInv, Under, Unsaved
  <2> QED
    BY <1>3, <1>4, <2>1
<1>7. LockInv' /\ SetInv' /\ RevokedInv'
  BY <1>1, <1>2, <1>4, <1>5, NoCallAssumption DEF GrantInv, LockInv, SetInv, RevokedInv
<1>8. StoredInv'
  BY <1>1, <1>2, <1>4, <1>5, <1>6 DEF GrantInv, StoredInv, Under, At
<1>9. PostInv'
  BY <1>1, <1>2, <1>4, <1>5, NoCallAssumption DEF GrantInv, PostInv, Under, At
<1>10. PersistInv'
  BY <1>1, <1>2, <1>4, <1>5 DEF GrantInv, PersistInv, At
<1>11. OwnInv'
  BY <1>1, <1>2, <1>4, SetRange DEF GrantInv, OwnInv, At
<1> QED
  BY <1>7, <1>8, <1>9, <1>10, <1>11 DEF GrantInv

LEMMA LoginStep == ASSUME TypeOK, GrantInv, Login PROVE GrantInv'
<1>1. /\ minted' = minted + 1 /\ minted' \in Set /\ minted' \in Nat
      /\ live' = live \cup {minted'} /\ revoked' = revoked
      /\ kc' = minted' /\ lock' = lock /\ call' = call
      /\ Open(OtherGrants(minted'), "replaced")
  BY SetRange, SetFacts DEF GrantInv, Login, Room
<1>2. /\ minted \in Nat /\ live \subseteq 1 .. minted /\ minted' \notin 1 .. minted
      /\ \A n \in 1 .. minted : n \in Set /\ root[n] \in Set /\ root[n] \in 1 .. n
  BY <1>1, SetRange DEF GrantInv, SetInv
<1>3. root'[minted'] = minted' /\ \A n \in 1 .. minted : root'[n] = root[n] /\ root'[n] # minted'
  BY <1>1, <1>2 DEF Login, TypeOK, ServerType
<1>4. \A h \in Set : window'[h] = {} => window[h] = {} /\ h \notin OtherGrants(minted')
  BY <1>1, OpenFact
<1>5. \A n \in 1 .. minted : window'[root[n]] = {} => window[root[n]] = {} /\ n # kc
  BY <1>2, <1>3, <1>4 DEF OtherGrants
<1>6. \A c \in Call : call[c].res <= minted /\ (At(c, "post") => call[c].grant \in 1 .. minted)
  BY <1>2, CallFacts, SetFacts DEF Sound, CallRecord, At
<1>7. LockInv'
  BY <1>1 DEF GrantInv, LockInv
<1>8. SetInv'
  <2>1. \A n \in 1 .. minted' : root'[n] \in 1 .. n
    BY <1>1, <1>2, <1>3
  <2>2. \A n, m \in live' : root'[n] = root'[m] => n = m
    BY <1>1, <1>2, <1>3 DEF GrantInv, SetInv
  <2> QED
    BY <2>1, <2>2 DEF SetInv
<1>9. RevokedInv'
  <2>1. ASSUME NEW n \in 1 .. minted', window'[root'[n]] = {}, root'[n] \notin revoked'
        PROVE  \E m \in live' : root'[m] = root'[n]
    <3>1. CASE n = minted'
      BY <1>1, <3>1
    <3>2. CASE n \in 1 .. minted
      <4>1. PICK m \in live : root[m] = root[n]
        BY <1>1, <1>3, <1>5, <2>1, <3>2 DEF GrantInv, RevokedInv
      <4> QED
        BY <1>1, <1>2, <1>3, <3>2, <4>1
    <3> QED
      BY <1>1, <1>2, <2>1, <3>1, <3>2
  <2> QED
    BY <2>1 DEF RevokedInv
<1>10. StoredInv'
  BY <1>1, <1>2, <1>3, <1>5 DEF GrantInv, StoredInv, Under, At
<1>11. PostInv'
  BY <1>1, <1>2, <1>3, <1>5, <1>6 DEF GrantInv, PostInv, Under, At
<1>12. PersistInv'
  BY <1>1, <1>2, <1>3, <1>5 DEF GrantInv, PersistInv, OwnInv, Under, At
<1>13. OwnInv'
  BY <1>1, <1>2, <1>6 DEF GrantInv, OwnInv, At
<1> QED
  BY <1>7, <1>8, <1>9, <1>10, <1>11, <1>12, <1>13 DEF GrantInv

LEMMA GrantStep == TypeOK /\ GrantInv /\ [Next]_vars => GrantInv'
<1> SUFFICES ASSUME TypeOK, GrantInv, [Next]_vars PROVE GrantInv'
  OBVIOUS
<1>1. ASSUME NEW c \in Call, Start(c) \/ Attempt(c) PROVE GrantInv'
  BY <1>1, LocalSteps, LockSteps, PostSteps, StoreSteps DEF Attempt
<1>2. ASSUME NEW p \in Proc, Exit(p) PROVE GrantInv'
  BY <1>2, ExitStep
<1>3. CASE Login
  BY <1>3, LoginStep
<1>4. ASSUME NEW n \in Set, Revoke(n) PROVE GrantInv'
  BY <1>4, ShrinkStep DEF Revoke
<1>5. CASE UNCHANGED vars
  BY <1>5 DEF vars, serverVars, GrantInv, LockInv, SetInv, StoredInv, PostInv, PersistInv,
     OwnInv, RevokedInv, Under, At
<1> QED
  BY <1>1, <1>2, <1>3, <1>4, <1>5 DEF Next

-----------------------------------------------------------------------------
(* Consequences.                                                           *)

LEMMA WindowsStay ==
    ASSUME TypeOK, GrantInv, [Next]_vars
    PROVE  \A g \in Set : window'[g] = {} => window[g] = {}
<1>1. ASSUME NEW G, NEW w, Open(G, w) PROVE \A g \in Set : window'[g] = {} => window[g] = {}
  BY <1>1, OpenFact
<1>2. ASSUME NEW c \in Call, Start(c) \/ Attempt(c)
      PROVE  window' = window \/ \E G, w : Open(G, w)
  BY <1>2 DEF Attempt, Start, SpendUnlocked, LoadRead, LoadFails, Load, Begin, Acquire, TimeOut,
         Steal, RereadFails, PostOk, PostRejected, PostLost, Persist, PersistFails,
         Release, Save, SaveFails, AnswerError, AnswerGrant, Retry, RetryRejected,
         InvalidateRecent, Check, Delete, DeleteFails, Reread, Invalidate
<1>3. ASSUME NEW p \in Proc, Exit(p) PROVE \E G, w : Open(G, w)
  BY <1>3 DEF Exit
<1>4. Login => \E G, w : Open(G, w)
  BY DEF Login
<1>5. \A n \in Set : Revoke(n) => window' = window
  BY DEF Revoke
<1> QED
  BY <1>1, <1>2, <1>3, <1>4, <1>5 DEF Next, vars

LEMMA FaultsStay == TypeOK /\ [Next]_vars => faults' \in {faults, faults + 1}
<1> SUFFICES ASSUME TypeOK, [Next]_vars PROVE faults' \in {faults, faults + 1}
  OBVIOUS
<1>1. \A c \in Call : Start(c) \/ Attempt(c) => faults' \in {faults, faults + 1}
  BY ZenonT(60) DEF Fail, Attempt, Start, LoadRead, LoadFails, Load, Begin, Acquire, TimeOut, Steal, RereadFails,
         PostOk, PostRejected, PostLost, Persist, PersistFails, Release, Save,
         SaveFails, AnswerError, AnswerGrant, Retry, RetryRejected, InvalidateRecent,
         Check, Delete, DeleteFails, Reread, Invalidate
<1>2. \A p \in Proc : Exit(p) => faults' \in {faults, faults + 1}
  BY DEF Fail, Exit
<1>3. Login => faults' = faults + 1
  BY DEF Fail, Login
<1>4. \A n \in Set : Revoke(n) => faults' = faults + 1
  BY DEF Fail, Revoke
<1> QED
  BY <1>1, <1>2, <1>3, <1>4 DEF Next, vars

LEMMA SpentStep ==
    TypeOK /\ GrantInv /\ SpentOnlyInWindow /\ [Next]_vars => SpentOnlyInWindow'
<1> SUFFICES ASSUME TypeOK, GrantInv, SpentOnlyInWindow, [Next]_vars,
                    NEW g \in reused'
             PROVE  window'[g] # {}
  BY DEF SpentOnlyInWindow
<1>1. \A h \in reused : h \in Set /\ window'[h] # {}
  BY WindowsStay DEF TypeOK, SpentOnlyInWindow
<1>2. CASE reused' = reused
  BY <1>1, <1>2
<1>3. ASSUME NEW c \in Call, PostRejected(c) PROVE window'[g] # {}
  BY <1>1, <1>3, RejectedFact DEF PostRejected
<1>4. ASSUME NEW c \in Call, Start(c) \/ Attempt(c), ~PostRejected(c) PROVE reused' = reused
  BY <1>4 DEF Attempt, Start, LoadRead, LoadFails, Load, Begin, Acquire, TimeOut, Steal, RereadFails,
         PostOk, PostLost, Persist, PersistFails, Release, Save, SaveFails,
         AnswerError, AnswerGrant, Retry, RetryRejected, InvalidateRecent, Check,
         Delete, DeleteFails, Reread, Invalidate
<1>5. \A p \in Proc : Exit(p) => reused' = reused
  BY DEF Exit
<1>6. Login => reused' = reused
  BY DEF Login
<1>7. \A n \in Set : Revoke(n) => reused' = reused
  BY DEF Revoke
<1> QED
  BY <1>2, <1>3, <1>4, <1>5, <1>6, <1>7 DEF Next, vars

\* Nothing failed and no window opened.
Quiet == faults = 0 /\ \A g \in Set : window[g] = {}

Calm(r) ==
    /\ r.why = "none" /\ ~r.again
    /\ r.pc \notin {"invalidate", "check", "delete"}
    /\ r.pc = "load" => r.req # 0

\* Until then no wrapper finds the item empty, sees an error or gives up.
QuietInv ==
    Quiet =>
        /\ revoked = {} /\ kc # 0 /\ closing = {}
        /\ \A p \in cached : cache[p] # 0
        /\ \A c \in Call : Calm(call[c])

LEMMA QuietInit == Init => QuietInv
BY DEF Init, QuietInv, Calm, Idle

LEMMA QuietStep == TypeOK /\ GrantInv /\ QuietInv /\ [Next]_vars => QuietInv'
<1> SUFFICES ASSUME TypeOK, GrantInv, QuietInv, [Next]_vars, Quiet'
             PROVE  /\ revoked' = {} /\ kc' # 0 /\ closing' = {}
                    /\ \A p \in cached' : cache'[p] # 0
                    /\ \A c \in Call : Calm(call'[c])
  BY DEF QuietInv, Calm
<1>1. /\ \A g \in Set : window'[g] = {} /\ window[g] = {}
      /\ faults' = 0 /\ faults \in Nat
  BY WindowsStay DEF Quiet, TypeOK
<1>2. \A k : ~Fail(k)
  BY <1>1 DEF Fail
<1>3. faults = 0
  BY <1>1, FaultsStay
<1>4. /\ revoked = {} /\ kc # 0 /\ closing = {}
      /\ \A p \in cached : cache[p] # 0
      /\ \A c \in Call : Calm(call[c])
  BY <1>1, <1>3 DEF Quiet, QuietInv
<1>5. ASSUME NEW c \in Call, Start(c) \/ Attempt(c)
      PROVE  /\ revoked' = {} /\ kc' # 0 /\ closing' = {}
             /\ \A p \in cached' : cache'[p] # 0
             /\ Calm(call'[c]) /\ Moved(c)
  <2>1. /\ Moved(c) /\ c \in DOMAIN call /\ Sound(call[c], minted) /\ Calm(call[c])
    BY <1>4, <1>5, CallStep, CallFacts
  <2>2. ~PostRejected(c)
    <3>1. ASSUME PostRejected(c), Family(root[call[c].grant]) = {} PROVE FALSE
      <4> DEFINE g == call[c].grant
      <4>1. g \in 1 .. minted /\ root[g] \in Set
        <5>1. g \in Set /\ g <= minted /\ minted \in Nat
          BY <2>1, <3>1, SetRange DEF PostRejected, At, Sound, GrantInv
        <5>2. g \in Nat /\ 1 <= g
          BY <5>1, SetFacts
        <5> QED
          BY <5>1, <5>2, SetRange DEF GrantInv
      <4>2. \E m \in live : root[m] = root[g]
        BY <1>1, <1>4, <4>1 DEF GrantInv, RevokedInv
      <4> QED
        BY <3>1, <4>2 DEF Family
    <3>2. ASSUME PostRejected(c), Family(root[call[c].grant]) # {} PROVE FALSE
      <4>1. root[call[c].grant] \in Set
        BY <3>2, SetRange DEF Family, GrantInv
      <4> QED
        BY <1>1, <3>2, <4>1, RejectedFact
    <3> QED
      BY <3>1, <3>2
  <2>3. ~LoadFails(c) /\ ~TimeOut(c) /\ ~Steal(c) /\ ~RereadFails(c) /\ ~PostLost(c) /\ ~PersistFails(c)
        /\ ~SaveFails(c) /\ ~RetryRejected(c) /\ ~DeleteFails(c)
    BY <1>2 DEF LoadFails, TimeOut, Steal, RereadFails, PostLost, PersistFails, SaveFails,
       RetryRejected, DeleteFails
  <2>4. ~AnswerError(c) /\ ~AnswerGrant(c) /\ ~Invalidate(c) /\ ~InvalidateRecent(c) /\ ~Check(c)
        /\ ~Delete(c)
    BY <2>1 DEF Calm, At, AnswerError, AnswerGrant, Invalidate, InvalidateRecent, Check, Delete
  <2>5. CASE Start(c) \/ LoadRead(c) \/ Acquire(c) \/ Release(c)
    <3>1. Calm(call'[c])
      <4>1. CASE Start(c)
        BY <2>1, <4>1 DEF Start, Goto, Calm, Sound, CallRecord
      <4>2. CASE LoadRead(c)
        BY <1>4, <2>1, <4>2 DEF LoadRead, Calm, Sound, CallRecord
      <4>3. CASE Acquire(c)
        BY <2>1, <4>3 DEF Acquire, Calm, Sound, CallRecord
      <4>4. CASE Release(c)
        BY <2>1, <4>4 DEF Release, Goto, Calm, Sound, CallRecord
      <4> QED
        BY <2>5, <4>1, <4>2, <4>3, <4>4
    <3>2. UNCHANGED <<revoked, kc, closing, cached, cache>>
      BY <2>5 DEF Start, LoadRead, Acquire, Release, serverVars, procVars
    <3> QED
      BY <1>4, <2>1, <3>1, <3>2
  <2>6. CASE Load(c) \/ Begin(c)
    <3>1. /\ Calm(call'[c]) /\ revoked' = {} /\ kc' # 0
      BY <1>4, <2>1, <2>6 DEF Load, Begin, At, Calm, Sound, CallRecord, serverVars
    <3>2. closing' = {} /\ \A p \in cached' : cache'[p] # 0
      <4>1. cache \in [Proc -> 0 .. minted] /\ ProcOf[c] \in Proc
        BY CallFacts DEF TypeOK, ProcType
      <4>2. CASE Load(c)
        BY <1>4, <2>1, <4>1, <4>2 DEF Load, At, Calm
      <4>3. CASE Begin(c)
        BY <1>4, <4>3 DEF Begin, procVars
      <4> QED
        BY <2>6, <4>2, <4>3
    <3> QED
      BY <2>1, <3>1, <3>2
  <2>7. CASE Reread(c)
    BY <1>4, <2>1, <2>7 DEF Reread, Calm, Sound, CallRecord, serverVars, procVars
  <2>8. CASE PostOk(c)
    BY <1>4, <2>1, <2>8 DEF PostOk, Rotate, Calm, Sound, CallRecord, procVars
  <2>9. CASE Persist(c)
    <3>1. call[c].res # 0
      BY <2>9, SetRange DEF Persist, GrantInv, OwnInv
    <3> QED
      BY <1>4, <2>1, <2>9, <3>1 DEF Persist, Goto, Calm, Sound, CallRecord, serverVars, procVars
  <2>10. CASE Save(c)
    <3>1. Calm(call'[c]) /\ revoked' = {} /\ kc' # 0
      BY <1>4, <2>1, <2>10 DEF Save, Calm, Idle, serverVars
    <3>2. closing' = {} /\ \A p \in cached' : cache'[p] # 0
      <4>1. cache \in [Proc -> 0 .. minted] /\ ProcOf[c] \in Proc
        BY CallFacts DEF TypeOK, ProcType
      <4> QED
        BY <1>4, <2>10, <4>1 DEF Save
    <3> QED
      BY <2>1, <3>1, <3>2
  <2>11. CASE Retry(c)
    BY <1>4, <2>1, <2>11 DEF Retry, Calm, Idle, serverVars, procVars
  <2> QED
    BY <1>5, <2>2, <2>3, <2>4, <2>5, <2>6, <2>7, <2>8, <2>9, <2>10, <2>11 DEF Attempt
<1>6. \A p \in Proc : ~Exit(p)
  BY <1>2, <1>4 DEF Exit
<1>7. ~Login /\ \A n \in Set : ~Revoke(n)
  BY <1>2 DEF Login, Revoke
<1>8. CASE UNCHANGED vars
  BY <1>4, <1>8 DEF vars, serverVars, procVars
<1> QED
  BY <1>4, <1>5, <1>6, <1>7, <1>8, MovedFact DEF Next

\* Everything the proof of the properties needs, and carries along.
IInv == TypeOK /\ GrantInv /\ SpentOnlyInWindow /\ QuietInv

LEMMA GrantKeptFromInv == IInv => GrantKept
<1> SUFFICES ASSUME IInv PROVE GrantKept
  OBVIOUS
<1>1. StoredIsLive
  <2> SUFFICES ASSUME lock = NoCall, kc # 0, window[root[kc]] = {}, root[kc] \notin revoked
               PROVE  kc \in live
    BY DEF StoredIsLive
  <2>1. kc \in 1 .. minted
    BY SetRange DEF IInv, TypeOK, ProcType, GrantInv
  <2>2. PICK m \in live : root[m] = root[kc]
    BY <2>1 DEF IInv, GrantInv, RevokedInv
  <2> QED
    BY <2>2, NoCallAssumption DEF IInv, GrantInv, StoredInv, Under
<1>2. NoNeedlessLogin
  BY DEF IInv, TypeOK, QuietInv, Quiet, NoNeedlessLogin
<1> QED
  BY <1>1, <1>2 DEF GrantKept

LEMMA InvHolds == Spec => []IInv
<1>1. Init => IInv
  <2>1. Init => SpentOnlyInWindow
    BY DEF Init, SpentOnlyInWindow
  <2> QED
    BY <2>1, TypeInit, GrantInit, QuietInit DEF IInv
<1>2. IInv /\ [Next]_vars => IInv'
  BY TypeStep, GrantStep, SpentStep, QuietStep DEF IInv
<1> QED
  BY <1>1, <1>2, PTL DEF Spec

\* createRefreshFetch: a refresh token is presented a second time only for a
\* grant that met one of the windows (a POST without the lock, a lost answer, a
\* failed or late save, a kill, ...), for any processes, calls and token sets.
THEOREM SpentOnlyInWindowHolds == Spec => []SpentOnlyInWindow
<1>1. IInv => SpentOnlyInWindow
  BY DEF IInv
<1> QED
  BY <1>1, InvHolds, PTL

\* While nobody has the lock, the Keychain has a token the server takes, of every
\* grant that met no window and was not revoked; and no wrapper gives up without a
\* failure or a window (oauth-provider's invalidateCredentials).
THEOREM GrantKeptHolds == Spec => []GrantKept
<1> QED
  BY InvHolds, GrantKeptFromInv, PTL

=============================================================================
