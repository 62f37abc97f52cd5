------------------------------- MODULE MCLive -------------------------------
EXTENDS CcSpool

CONSTANTS Proc, NoProc, MaxCall, MaxPoll, MaxCrash, LockFaults, Example

\* There are finitely many processes, and an empty lock file names none.
ASSUME ProcAssumption == IsFiniteSet(Proc) /\ NoProc \notin Proc /\ MaxCall \in Nat /\ MaxPoll \in Nat

VARIABLES
    path, owner, old, created, alive, lockPc, mine, sawOld, polls, calls, judged,
    run, wrapper, noticed, signal, pipe, trail, found, late, outcome, onTime,
    scene

lockVars == <<path, owner, old, created, alive, lockPc, mine, sawOld, polls, calls, judged>>
testVars == <<run, wrapper, noticed, signal, pipe, trail, found, late, outcome, onTime>>

Lock == INSTANCE RefreshLock WITH pc <- lockPc, Faults <- LockFaults

Test == INSTANCE SelfTest WITH disk <- trail

(* The spool, the lock of the refresh and the self-test share nothing: one *)
(* of the three moves in a behaviour.                                      *)
MCInit == Init /\ Lock!Init /\ Test!Init /\ scene \in {"spool", "lock", "test"}

MCNext ==
    /\ UNCHANGED scene
    /\ \/ scene = "spool" /\ Next /\ UNCHANGED <<lockVars, testVars>>
       \/ scene = "lock" /\ Lock!Next /\ UNCHANGED <<vars, testVars>>
       \/ scene = "test" /\ Test!Next /\ UNCHANGED <<vars, lockVars>>

MCSpec == MCInit /\ [][MCNext]_<<vars, lockVars, testVars, scene>>

InTest(A) == scene = "test" /\ A

(* The fairness of each machine, in its scene.                             *)
FairMCSpec ==
    /\ MCSpec
    /\ WF_vars(scene = "spool" /\ Ingest)
    /\ \A p \in Proc : WF_lockVars(scene = "lock" /\ Lock!Attempt(p))
    /\ WF_testVars(InTest(Test!OnExit)) /\ WF_testVars(InTest(Test!DiscoveryTimeout))
    /\ WF_testVars(InTest(Test!Scan)) /\ WF_testVars(InTest(Test!Check))
    /\ WF_testVars(InTest(Test!LastLook)) /\ WF_testVars(InTest(Test!Deadline))
    /\ WF_testVars(InTest(Test!KillTimer)) /\ WF_testVars(InTest(Test!Killed))

(* RefreshLock: the exclusion the lock does give.                          *)
Exclusion == Lock!Exclusion

(* RefreshLock: every call of a live process returns.                      *)
AlwaysAnswers == Lock!AlwaysAnswers

(* SelfTest: a run ends with a true verdict and leaves no wrapper behind.       *)
SelfTestEnds == Test!SelfTestEnds
=============================================================================
