---------------------------- MODULE TokenRefresh ----------------------------
(***************************************************************************)
(* The refresh of a connector's OAuth tokens by the wrappers that share    *)
(* its Keychain item (packages/proxy/src/refresh-fetch.ts,                 *)
(* oauth-provider.ts, keychain.ts), over a server that rotates the refresh *)
(* token: a spent one is rejected, and may cost the whole grant.           *)
(*                                                                         *)
(* A token set (refresh token and access token) is the number of its       *)
(* minting.  A call is one MCP request that got a 401 and runs the SDK's   *)
(* auth(); the calls of one process share its provider, whose awaits let   *)
(* them interleave.  The lock is RefreshLock's, by what it gives: held by  *)
(* one call, taken over after 30 s or from a dead owner, given up after    *)
(* 15 s.  One authorization server.                                        *)
(***************************************************************************)
EXTENDS Naturals, FiniteSets

CONSTANTS
    Call,       \* requests in flight, over all processes
    Proc,       \* wrapper processes (a dead one is started again)
    ProcOf,     \* the process of each call
    NoCall,     \* nobody holds the lock
    MaxSet,     \* bound: token sets minted
    MaxCall,    \* bound: calls of auth()
    Faults,     \* what may go wrong, of FaultKind
    MaxFault    \* bound on the failures of one behaviour

\* "timeout": waiting for the lock gives up; "steal": a holder over 30 s;
\* "net": no answer to the POST; "keychain": /usr/bin/security fails;
\* "reject": a 401 with a fresh token; "crash"; "login": the user logs in
\* meanwhile; "revoke": the user revokes the grant at the server.
FaultKind == {"timeout", "steal", "net", "keychain", "reject", "crash", "login", "revoke"}

ASSUME ProcOfAssumption == ProcOf \in [Call -> Proc]
ASSUME NoCallAssumption == NoCall \notin Call
ASSUME CallAssumption == IsFiniteSet(Call)
ASSUME BoundAssumption == MaxSet \in Nat \ {0} /\ MaxCall \in Nat /\ MaxFault \in Nat
ASSUME FaultsAssumption == Faults \subseteq FaultKind

Set == 1 .. MaxSet

VARIABLES
    minted,     \* sets issued by the server, 1 .. minted
    root,       \* root[n]: the login set n descends from, its grant (0: not minted)
    live,       \* sets whose refresh token the server accepts
    revoked,    \* grants the user revoked
    kc,         \* the Keychain's set (0: no item)
    lock,       \* the call that holds the refresh lock
    cached,     \* processes whose tokensCache is not null
    cache,      \* cache[p]: tokensCache.v (0: absent)
    saved,      \* processes that have called saveTokens (lastTokensSaveAt)
    closing,    \* processes that gave up: proxy.shutdown reason auth_failed
    call,       \* call[c]: where c's auth() is
    started,    \* calls of auth() so far
    faults,     \* failures so far
    \* history, read by the properties only
    window,     \* window[g]: what grant g went through
    reused      \* grants of which a spent refresh token was presented

serverVars == <<minted, root, live, revoked>>
procVars == <<cached, cache, saved, closing>>
vars == <<serverVars, kc, lock, procVars, call, started, faults, window, reused>>

Window == {"unlocked", "stolen", "lost", "unsaved", "overwritten", "wiped", "killed",
           "replaced"}

\* req: the set whose refresh token the SDK posts; grant: the one that is
\* spent; res: the set the response carries; why: "grant" for invalid_grant,
\* "error" for anything else that failed; again: the SDK's second attempt.
Idle == [pc |-> "idle", req |-> 0, grant |-> 0, res |-> 0, why |-> "none",
         locked |-> FALSE, again |-> FALSE]

Init ==
    /\ minted = 1 /\ root = [n \in Set |-> IF n = 1 THEN 1 ELSE 0]
    /\ live = {1} /\ revoked = {}
    /\ kc = 1 /\ lock = NoCall
    /\ cached = {} /\ cache = [p \in Proc |-> 0]
    /\ saved = {} /\ closing = {}
    /\ call = [c \in Call |-> Idle]
    /\ started = 0 /\ faults = 0
    /\ window = [g \in Set |-> {}] /\ reused = {}

Fail(kind) == kind \in Faults /\ faults < MaxFault /\ faults' = faults + 1

At(c, l) == call[c].pc = l
Goto(c, l) == call' = [call EXCEPT ![c].pc = l]
Uncache(p) == cached' = cached \ {p} /\ cache' = [cache EXCEPT ![p] = 0]
Family(g) == {n \in live : root[n] = g}
Open(G, w) == window' = [g \in Set |-> IF g \in G THEN window[g] \cup {w} ELSE window[g]]

\* The grant of the set c has been issued and has not stored.
Unsaved(c) == {root[n] : n \in (live \cap {call[c].res}) \ {kc}}

\* The grant that leaves the Keychain when a set of grant g is stored.
OtherGrants(g) == {root[n] : n \in Set \cap {kc}} \ {g}

\* Bound: there is a set left to mint.
Room == minted < MaxSet

\* ReauthRequiredError, or a 401 after a refresh: the request is answered with
\* an error and the session shuts down.
GiveUp(c) ==
    /\ call' = [call EXCEPT ![c] = Idle]
    /\ closing' = closing \cup {ProcOf[c]}
    /\ UNCHANGED <<cached, cache, saved>>

-----------------------------------------------------------------------------
(* auth(), up to the POST.                                                 *)

Start(c) ==
    /\ At(c, "idle") /\ started < MaxCall /\ started' = started + 1
    /\ Goto(c, "tokens")
    /\ UNCHANGED <<serverVars, kc, lock, procVars, faults, window, reused>>

\* tokens(), its keychainGet.
LoadRead(c) ==
    /\ At(c, "tokens") /\ ProcOf[c] \notin cached
    /\ call' = [call EXCEPT ![c].pc = "load", ![c].req = kc]
    /\ UNCHANGED <<serverVars, started, kc, lock, procVars, faults, window, reused>>

\* The read throws: the request fails, the session goes on.
LoadFails(c) ==
    /\ At(c, "tokens") /\ ProcOf[c] \notin cached
    /\ Fail("keychain") /\ call' = [call EXCEPT ![c] = Idle]
    /\ UNCHANGED <<serverVars, started, kc, lock, procVars, window, reused>>

\* tokens(), after the await: whatever another call put there is replaced.
Load(c) ==
    /\ At(c, "load")
    /\ cached' = cached \cup {ProcOf[c]}
    /\ cache' = [cache EXCEPT ![ProcOf[c]] = call[c].req]
    /\ call' = [call EXCEPT ![c].pc = "tokens", ![c].req = 0]
    /\ UNCHANGED <<serverVars, started, kc, lock, saved, closing, faults, window, reused>>

\* discoveryState: nothing stored, nothing to try.
Begin(c) ==
    /\ At(c, "tokens") /\ ProcOf[c] \in cached
    /\ IF cache[ProcOf[c]] = 0 THEN GiveUp(c)
       ELSE /\ call' = [call EXCEPT ![c].pc = "lock", ![c].req = cache[ProcOf[c]]]
            /\ UNCHANGED procVars
    /\ UNCHANGED <<serverVars, started, kc, lock, faults, window, reused>>

Acquire(c) ==
    /\ At(c, "lock") /\ lock = NoCall
    /\ lock' = c
    /\ call' = [call EXCEPT ![c].pc = "reread", ![c].locked = TRUE]
    /\ UNCHANGED <<serverVars, started, kc, procVars, faults, window, reused>>

\* Fail-open: the request goes out as the SDK made it.
TimeOut(c) ==
    /\ At(c, "lock") /\ lock # NoCall /\ Fail("timeout")
    /\ call' = [call EXCEPT ![c].pc = "post", ![c].grant = call[c].req, ![c].req = 0]
    /\ UNCHANGED <<serverVars, started, kc, lock, procVars, window, reused>>

\* The holder has been at it for over 30 s.
Steal(c) ==
    /\ At(c, "lock") /\ lock # NoCall /\ Fail("steal")
    /\ lock' = c
    /\ call' = [call EXCEPT ![c].pc = "reread", ![c].locked = TRUE]
    /\ Open(Unsaved(lock), "stolen")
    /\ UNCHANGED <<serverVars, started, kc, procVars, reused>>

\* Mutant: the Keychain is not read again under the lock.
RereadNot(c) ==
    /\ At(c, "reread")
    /\ call' = [call EXCEPT ![c].pc = "post", ![c].grant = call[c].req, ![c].req = 0]
    /\ UNCHANGED <<serverVars, started, kc, lock, procVars, faults, window, reused>>

\* The Keychain is read past the cache.  A sibling's set is the answer while
\* its access token is usable; past that its refresh token is the one to spend.
\* Clocks are not modelled: a stored access token may be either.
Reread(c) ==
    /\ At(c, "reread")
    /\ LET other == kc # 0 /\ kc # call[c].req
           spend(g) == [call EXCEPT ![c].pc = "post", ![c].grant = g, ![c].req = 0]
       IN  \/ ~other /\ call' = spend(call[c].req)
           \/ other /\ call' = spend(kc)
           \/ other /\ call' = [call EXCEPT ![c].pc = "release", ![c].res = kc, ![c].req = 0]
    /\ UNCHANGED <<serverVars, started, kc, lock, procVars, faults, window, reused>>

RereadFails(c) ==
    /\ At(c, "reread") /\ Fail("keychain")
    /\ call' = [call EXCEPT ![c].pc = "release", ![c].req = 0, ![c].why = "error"]
    /\ UNCHANGED <<serverVars, started, kc, lock, procVars, window, reused>>

-----------------------------------------------------------------------------
(* The POST to the token endpoint, and what follows under the lock.        *)

After(c) == IF call[c].locked THEN "release" ELSE "answer"

\* The server rotates: g is spent, the next set is issued.
Rotate(g) ==
    /\ Room /\ minted' = minted + 1
    /\ root' = [root EXCEPT ![minted'] = root[g]]
    /\ live' = (live \ {g}) \cup {minted'}
    /\ UNCHANGED revoked

\* A POST of a call that has not, or no longer, the lock.
SpendUnlocked(c) ==
    IF lock = c THEN UNCHANGED window ELSE Open({root[call[c].grant]}, "unlocked")

PostOk(c) ==
    /\ At(c, "post") /\ call[c].grant \in live
    /\ Rotate(call[c].grant)
    /\ call' = [call EXCEPT ![c].res = minted', ![c].grant = 0,
                            ![c].pc = IF call[c].locked THEN "persist" ELSE "answer"]
    /\ SpendUnlocked(c)
    /\ UNCHANGED <<started, kc, lock, procVars, faults, reused>>

\* invalid_grant; presenting a spent token of a living grant may revoke it.
PostRejected(c) ==
    /\ At(c, "post") /\ call[c].grant \notin live
    /\ LET g == root[call[c].grant] IN
          /\ reused' = IF Family(g) # {} THEN reused \cup {g} ELSE reused
          /\ live' \in {live, live \ Family(g)}
    /\ call' = [call EXCEPT ![c].pc = After(c), ![c].grant = 0, ![c].why = "grant"]
    /\ SpendUnlocked(c)
    /\ UNCHANGED <<started, minted, root, revoked, kc, lock, procVars, faults>>

\* The fetch throws, before or after the server has rotated.
PostLost(c) ==
    /\ At(c, "post") /\ Fail("net")
    /\ \/ UNCHANGED <<serverVars, window>>
       \/ /\ call[c].grant \in live
          /\ Rotate(call[c].grant) /\ Open({root[call[c].grant]}, "lost")
    /\ call' = [call EXCEPT ![c].pc = After(c), ![c].grant = 0, ![c].why = "error"]
    /\ UNCHANGED <<started, kc, lock, procVars, reused>>

\* Mutant: the rotated set is left to the SDK's saveTokens.
PersistNot(c) ==
    /\ At(c, "persist") /\ Goto(c, "release")
    /\ UNCHANGED <<serverVars, started, kc, lock, procVars, faults, window, reused>>

\* Before the lock is released.
Persist(c) ==
    /\ At(c, "persist")
    /\ kc' = call[c].res /\ Goto(c, "release")
    /\ Open(OtherGrants(root[kc']), "replaced")
    /\ UNCHANGED <<serverVars, started, lock, procVars, faults, reused>>

\* Swallowed: the SDK gets the answer all the same.
PersistFails(c) ==
    /\ At(c, "persist") /\ Fail("keychain")
    /\ Goto(c, "release")
    /\ Open({root[call[c].res]}, "unsaved")
    /\ UNCHANGED <<serverVars, started, kc, lock, procVars, reused>>

\* releaseLock goes by the pid in the file: a sibling call's lock goes too.
Release(c) ==
    /\ At(c, "release")
    /\ IF lock # NoCall /\ ProcOf[lock] = ProcOf[c]
       THEN lock' = NoCall /\ Open(IF lock = c THEN {} ELSE Unsaved(lock), "stolen")
       ELSE UNCHANGED <<lock, window>>
    /\ Goto(c, "answer")
    /\ UNCHANGED <<serverVars, started, kc, procVars, faults, reused>>

-----------------------------------------------------------------------------
(* The SDK on the answer.                                                  *)

\* saveTokens, after the lock is gone: the same set again, unless another
\* process has rotated it meanwhile.
Save(c) ==
    /\ At(c, "answer") /\ call[c].res # 0
    /\ LET n == call[c].res  p == ProcOf[c] IN
          /\ kc' = n
          /\ cached' = cached \cup {p} /\ cache' = [cache EXCEPT ![p] = n]
          /\ saved' = saved \cup {p}
          /\ IF n \in live THEN Open(OtherGrants(root[n]), "replaced")
             ELSE Open({root[n]} \cup OtherGrants(root[n]), "overwritten")
    /\ call' = [call EXCEPT ![c] = [Idle EXCEPT !.pc = "retry"]]
    /\ UNCHANGED <<serverVars, started, lock, closing, faults, reused>>

\* Not an OAuth error: the SDK falls back to an authorization.
SaveFails(c) ==
    /\ At(c, "answer") /\ call[c].res # 0
    /\ Fail("keychain") /\ GiveUp(c)
    /\ Open(Unsaved(c), "unsaved")
    /\ UNCHANGED <<serverVars, started, kc, lock, reused>>

AnswerError(c) ==
    /\ At(c, "answer") /\ call[c].why = "error"
    /\ GiveUp(c)
    /\ UNCHANGED <<serverVars, started, kc, lock, faults, window, reused>>

\* invalid_grant: invalidate and try once more, then fail the request.
AnswerGrant(c) ==
    /\ At(c, "answer") /\ call[c].why = "grant"
    /\ call' = [call EXCEPT ![c] = IF @.again THEN Idle ELSE [@ EXCEPT !.pc = "invalidate"]]
    /\ UNCHANGED <<serverVars, started, kc, lock, procVars, faults, window, reused>>

Retry(c) ==
    /\ At(c, "retry") /\ call' = [call EXCEPT ![c] = Idle]
    /\ UNCHANGED <<serverVars, started, kc, lock, procVars, faults, window, reused>>

RetryRejected(c) ==
    /\ At(c, "retry") /\ Fail("reject") /\ GiveUp(c)
    /\ UNCHANGED <<serverVars, started, kc, lock, window, reused>>

-----------------------------------------------------------------------------
(* invalidateCredentials('tokens').                                        *)

Again(c) == call' = [call EXCEPT ![c] = [Idle EXCEPT !.pc = "tokens", !.again = TRUE]]

\* A saveTokens of this process in the last 10 s (there was one, and the time
\* may not be over): the item is kept.
InvalidateRecent(c) ==
    /\ At(c, "invalidate") /\ ProcOf[c] \in saved
    /\ Uncache(ProcOf[c]) /\ Again(c)
    /\ UNCHANGED <<serverVars, started, kc, lock, saved, closing, faults, window, reused>>

\* failedRt is what the cache holds by now; without one there is no check.
Invalidate(c) ==
    /\ At(c, "invalidate")
    /\ LET failed == IF ProcOf[c] \in cached THEN cache[ProcOf[c]] ELSE 0 IN
          call' = [call EXCEPT ![c].req = failed,
                               ![c].pc = IF failed = 0 THEN "delete" ELSE "check"]
    /\ UNCHANGED <<serverVars, started, kc, lock, procVars, faults, window, reused>>

\* Another process has rotated: the item is kept, the cache dropped.  A read that
\* fails is taken for an item that tells nothing.
Check(c) ==
    LET rotated == kc # 0 /\ kc # call[c].req
    IN  /\ At(c, "check")
        /\ \/ rotated /\ Uncache(ProcOf[c]) /\ Again(c) /\ UNCHANGED faults
           \/ /\ IF rotated THEN Fail("keychain") ELSE UNCHANGED faults
              /\ call' = [call EXCEPT ![c].pc = "delete", ![c].req = 0]
              /\ UNCHANGED <<cached, cache>>
        /\ UNCHANGED <<serverVars, started, kc, lock, saved, closing, window, reused>>

\* keychainDelete, of whatever is stored by now.
Delete(c) ==
    /\ At(c, "delete")
    /\ kc' = 0
    /\ cached' = cached \cup {ProcOf[c]} /\ cache' = [cache EXCEPT ![ProcOf[c]] = 0]
    /\ Again(c)
    /\ Open({root[n] : n \in live \cap {kc}}, "wiped")
    /\ UNCHANGED <<serverVars, started, lock, saved, closing, faults, reused>>

DeleteFails(c) ==
    /\ At(c, "delete") /\ Fail("keychain")
    /\ call' = [call EXCEPT ![c] = Idle]
    /\ UNCHANGED <<serverVars, started, kc, lock, procVars, window, reused>>

-----------------------------------------------------------------------------
(* Processes, the user, time.                                              *)

\* The process ends, after auth_failed or of a sudden, and is started again.
\* A set it has been issued and has not stored goes with it.
Exit(p) ==
    /\ \/ p \in closing /\ UNCHANGED faults
       \/ Fail("crash")
    /\ LET mine == {c \in Call : ProcOf[c] = p} IN
          /\ call' = [c \in Call |-> IF c \in mine THEN Idle ELSE call[c]]
          /\ lock' = IF lock \in mine THEN NoCall ELSE lock
          /\ Open(UNION {Unsaved(c) : c \in mine}, "killed")
    /\ Uncache(p)
    /\ saved' = saved \ {p} /\ closing' = closing \ {p}
    /\ UNCHANGED <<serverVars, started, kc, reused>>

\* persistAuthorization of an interactive login: a new grant, and no lock.
Login ==
    /\ Room /\ Fail("login")
    /\ minted' = minted + 1 /\ root' = [root EXCEPT ![minted'] = minted']
    /\ live' = live \cup {minted'} /\ kc' = minted'
    /\ Open(OtherGrants(minted'), "replaced")
    /\ UNCHANGED <<started, revoked, lock, procVars, call, reused>>

Revoke(g) ==
    /\ Family(g) # {} /\ Fail("revoke")
    /\ live' = live \ Family(g) /\ revoked' = revoked \cup {g}
    /\ UNCHANGED <<started, minted, root, kc, lock, procVars, call, window, reused>>

Attempt(c) ==
    \/ LoadRead(c) \/ LoadFails(c) \/ Load(c) \/ Begin(c)
    \/ Acquire(c) \/ TimeOut(c) \/ Steal(c) \/ Reread(c) \/ RereadFails(c)
    \/ PostOk(c) \/ PostRejected(c) \/ PostLost(c)
    \/ Persist(c) \/ PersistFails(c) \/ Release(c)
    \/ Save(c) \/ SaveFails(c) \/ AnswerError(c) \/ AnswerGrant(c)
    \/ Retry(c) \/ RetryRejected(c)
    \/ InvalidateRecent(c) \/ Invalidate(c) \/ Check(c) \/ Delete(c) \/ DeleteFails(c)

Next ==
    \/ \E c \in Call : Start(c) \/ Attempt(c)
    \/ \E p \in Proc : Exit(p)
    \/ Login
    \/ \E n \in Set : Revoke(n)

Spec == Init /\ [][Next]_vars

-----------------------------------------------------------------------------
(* Properties.                                                             *)

ServerType ==
    /\ minted \in Set /\ root \in [Set -> 0 .. MaxSet]
    /\ live \subseteq 1 .. minted /\ revoked \subseteq Set
    /\ \A n \in Set : root[n] # 0 <=> n <= minted

CallType ==
    /\ call \in [Call -> [pc : {"idle", "tokens", "load", "lock", "reread", "post",
                                "persist", "release", "answer", "retry",
                                "invalidate", "check", "delete"},
                          req : 0 .. MaxSet, grant : 0 .. MaxSet, res : 0 .. MaxSet,
                          why : {"none", "grant", "error"},
                          locked : BOOLEAN, again : BOOLEAN]]
    /\ \A c \in Call :
          /\ call[c].req <= minted /\ call[c].grant <= minted /\ call[c].res <= minted
          /\ At(c, "post") => call[c].grant \in Set
          /\ At(c, "lock") \/ At(c, "reread") => call[c].req \in Set

ProcType ==
    /\ kc \in 0 .. minted /\ lock \in Call \cup {NoCall}
    /\ cached \subseteq Proc /\ cache \in [Proc -> 0 .. minted]
    /\ saved \subseteq Proc /\ closing \subseteq Proc

\* Every variable keeps its shape, and no set is named before it is minted.
TypeOK ==
    /\ ServerType /\ CallType /\ ProcType
    /\ started \in Nat /\ faults \in Nat
    /\ window \in [Set -> SUBSET Window] /\ reused \subseteq Set

\* No process presents a refresh token another one has spent, so no server
\* takes the grant for stolen, except through one of the named windows.
SpentOnlyInWindow == \A g \in reused : window[g] # {}

\* Whenever the lock is free, the stored refresh token is one the server
\* accepts: what a rotation issues is stored before the lock is released.
StoredIsLive ==
    lock = NoCall /\ kc # 0 /\ window[root[kc]] = {} /\ root[kc] \notin revoked
        => kc \in live

\* The wrappers alone, however they interleave, never make the user log in
\* again: a process gives up only after a failure, a revocation or a window.
NoNeedlessLogin ==
    closing # {} => faults > 0 \/ \E g \in Set : window[g] # {}

\* The grant of the one login outlives every interleaving of the wrappers:
\* what is stored is live, and nobody is sent to log in for nothing.
GrantKept == StoredIsLive /\ NoNeedlessLogin

=============================================================================
