------------------------------- MODULE Login -------------------------------
(* Connecting a remote connector: the handler of the desktop app, the      *)
(* xcg-proxy login process it starts, the browser tab that process opens,  *)
(* the Keychain items of the connector and the record of what was          *)
(* authorized.  The login process reads and writes one thing at a time,    *)
(* while the user, wrappers, a removal and other logins act.  One          *)
(* connector, at one url, for which the server may change the              *)
(* authorization server it names.                                          *)
EXTENDS Integers, Sequences, FiniteSets

CONSTANTS
    Logins,      \* attempts to connect, each with its process
    AuthServer,  \* authorization servers
    SendsIss,    \* those that promise iss in their answers, and send it
    MaxFaults,   \* bound: failures, kills and timeouts
    MaxOthers    \* bound: acts of others

VARIABLES
    conn,      \* [Logins -> the handler: at, whether it reconnects, its answer]
    proc,      \* [Logins -> the login process]
    port,      \* who listens for the callback: a login, or Nobody
    tab,       \* [Logins -> the tab that login opened]
    entry,     \* what the config holds under the name: "absent", "bridge", "foreign"
    client,    \* the Keychain item of the client
    tokens,    \* the Keychain item of the tokens
    removal,   \* items a removal has yet to delete
    wrapper,   \* the tokens a wrapper's refresh started from, or NoTokens
    server,    \* the authorization server the connector names
    ref,       \* the reference of the last authorization
    trail,     \* the authorizations recorded
    happened,  \* history: logins done with their writes
    used       \* counters of the bounds

vars == <<conn, proc, port, tab, entry, client, tokens, removal, wrapper, server, ref, trail, happened, used>>

Nobody == 0

ASSUME LoginsAssumption == Logins \subseteq Nat \ {Nobody}

NoClient == [by |-> Nobody, as |-> "none"]
Seeded == [by |-> Nobody, as |-> "any"]
NoTokens == [by |-> Nobody, client |-> NoClient, rt |-> FALSE]

(* seen: the tokens this process has read, against which a rejection is    *)
(* judged; own: the client it has read or registered.                      *)
Fresh == [at |-> "listen", scoped |-> FALSE, as |-> "none", own |-> NoClient, read |-> FALSE, new |-> FALSE,
          seen |-> NoTokens, code |-> Nobody, held |-> NoTokens, told |-> FALSE, exit |-> "none"]

NoProc == [Fresh EXCEPT !.at = "unborn"]

(* The page of one tab: the login that answers it, while it matters.       *)
Page(at, by, as) == [at |-> at, by |-> by, as |-> as]

NoRef == [kind |-> "missing", as |-> "none", fits |-> FALSE]

Init ==
    /\ conn = [l \in Logins |-> [at |-> "idle", reconnecting |-> FALSE, answer |-> "none"]]
    /\ proc = [l \in Logins |-> NoProc]
    /\ port = Nobody
    /\ tab = [l \in Logins |-> Page("closed", Nobody, "none")]
    /\ \/ entry = "absent" /\ client \in {NoClient, Seeded} /\ tokens = NoTokens
       \/ entry = "bridge" /\ client \in {NoClient, Seeded} /\ tokens \in {NoTokens, [by |-> Nobody, client |-> client, rt |-> TRUE]}
    /\ removal = {} /\ wrapper = NoTokens
    /\ server \in AuthServer /\ ref = NoRef /\ trail = <<>>
    /\ happened = {}
    /\ used = [faults |-> 0, others |-> 0]

-----------------------------------------------------------------------------
(* Steps of a login process                                                *)

At(l, at) == proc[l].at = at

With(r, change) == [f \in DOMAIN r |-> IF f \in DOMAIN change THEN change[f] ELSE r[f]]

Set(l, change) == proc' = [proc EXCEPT ![l] = With(@, change)]

Go(l, at) == Set(l, [at |-> at])

(* Out of the try block, to the finally: what is left is the callback.     *)
Over(l, exit) ==
    proc' = [proc EXCEPT ![l] = With(Fresh, [at |-> "close", exit |-> exit, as |-> @.as, code |-> @.code, told |-> @.told])]

Exited(l, exit) == proc' = [proc EXCEPT ![l] = With(Fresh, [at |-> "exited", exit |-> exit])]

Fault == used.faults < MaxFaults /\ used' = [used EXCEPT !.faults = @ + 1]

Store == UNCHANGED <<client, tokens>>
World == UNCHANGED <<conn, entry, removal, wrapper, server>>
Record == UNCHANGED <<ref, trail>>
Browser == UNCHANGED <<port, tab>>
Quiet == Browser /\ World /\ Record /\ UNCHANGED happened

Throws(l) == Fault /\ Over(l, "failed") /\ Store /\ Quiet

(* The fixed port of the callback: a login already listening fails this.   *)
StartCallback(l) ==
    /\ At(l, "listen")
    /\ IF port = Nobody THEN port' = l /\ Set(l, [at |-> IF proc[l].scoped THEN "discover" ELSE "probe", scoped |-> FALSE])
       ELSE Exited(l, "failed") /\ UNCHANGED port
    /\ Store /\ World /\ Record /\ UNCHANGED <<tab, happened, used>>

(* The first initialize: refused, or accepted.                             *)
ProbeAuthorization(l) ==
    /\ At(l, "probe")
    /\ \/ \E at \in {"auth", "stored"} : Go(l, at) /\ UNCHANGED used /\ Store /\ Quiet
       \/ Throws(l)

HasStored(l) ==
    /\ At(l, "stored")
    /\ IF tokens # NoTokens THEN Over(l, "ok") ELSE Go(l, "discover")
    /\ UNCHANGED used /\ Store /\ Quiet

(* Metadata, none (nothing to authorize), or no answer.                    *)
Discover(l) ==
    /\ At(l, "discover")
    /\ \/ (Go(l, "auth") \/ Over(l, "ok")) /\ UNCHANGED used /\ Store /\ Quiet
       \/ Throws(l)

(* What was discovered; metadata that names another issuer end the login.  *)
SaveDiscoveryState(l) ==
    /\ At(l, "auth")
    /\ \/ Set(l, [at |-> "client", as |-> server]) /\ UNCHANGED used /\ Store /\ Quiet
       \/ Throws(l)

(* Kept in memory until the code has been exchanged.                       *)
SaveClientInformation(l, c) == Set(l, [at |-> "tokens", read |-> TRUE, own |-> c, new |-> TRUE]) /\ Store

Bound(c, as) == c # NoClient /\ c.as \in {"any", as}

(* The client held, or the stored one, or a new registration.              *)
ClientInformation(l) ==
    /\ At(l, "client")
    /\ LET c == IF proc[l].new \/ proc[l].read THEN proc[l].own ELSE client IN
       \/ /\ UNCHANGED used /\ Quiet
          /\ IF Bound(c, proc[l].as) THEN Set(l, [at |-> "tokens", read |-> TRUE, own |-> c]) /\ Store
             ELSE SaveClientInformation(l, [by |-> l, as |-> proc[l].as])
       \/ ~Bound(c, proc[l].as) /\ Throws(l)

(* Stored tokens of this client are refreshed first.                       *)
ReadTokens(l) ==
    /\ At(l, "tokens")
    /\ Set(l, [at |-> IF tokens.rt /\ tokens.client = proc[l].own THEN "refresh" ELSE "redirect", seen |-> tokens])
    /\ UNCHANGED used /\ Store /\ Quiet

(* invalidateCredentials("tokens"): tokens someone else stored meanwhile   *)
(* are kept.                                                               *)
Rejected(l) ==
    IF proc[l].seen.rt /\ tokens.rt /\ tokens # proc[l].seen THEN Store
    ELSE tokens' = NoTokens /\ UNCHANGED client

(* No redirect: what comes back is written as in a wrapper.  A rejection   *)
(* begins again; a rejected client is deleted with its tokens; any other   *)
(* failure goes on to the browser.                                         *)
Refresh(l) ==
    /\ At(l, "refresh") /\ Quiet
    /\ \/ tokens' = [by |-> l, client |-> proc[l].own, rt |-> TRUE] /\ UNCHANGED <<client, used>> /\ Over(l, "ok")
       \/ Fault /\ Rejected(l) /\ Go(l, "auth")
       \/ Fault /\ client' = NoClient /\ tokens' = NoTokens /\ Set(l, [at |-> "auth", read |-> FALSE, new |-> FALSE])
       \/ Fault /\ Store /\ Go(l, "redirect")

RedirectToAuthorization(l) ==
    /\ At(l, "redirect")
    /\ Go(l, "wait")
    /\ tab' = [tab EXCEPT ![l] = Page("asking", Nobody, proc[l].as)]
    /\ Store /\ World /\ Record /\ UNCHANGED <<port, happened, used>>

WaitForCode(l) ==
    /\ At(l, "wait")
    /\ IF proc[l].code # Nobody THEN Go(l, "exchange") /\ UNCHANGED used /\ Store /\ Quiet ELSE Throws(l)

(* finishAuth: the verifier is this login's, so another login's code is    *)
(* refused by the token endpoint.  What it yields is held.                 *)
FinishAuth(l) ==
    /\ At(l, "exchange") /\ Quiet
    /\ \/ /\ proc[l].code = l /\ UNCHANGED used /\ Store
          /\ Set(l, [at |-> "keepClient", held |-> [by |-> l, client |-> [proc[l].own EXCEPT !.as = proc[l].as], rt |-> TRUE],
                     own |-> [proc[l].own EXCEPT !.as = proc[l].as], new |-> proc[l].new \/ proc[l].own.as = "any"])
       \/ proc[l].code # l /\ UNCHANGED used /\ Rejected(l) /\ Over(l, "failed")
       \/ Fault /\ Store /\ Over(l, "failed")
       \/ Fault /\ client' = NoClient /\ tokens' = NoTokens /\ Over(l, "failed")

(* persistAuthorization: the client, then the tokens.                      *)
PersistClient(l) ==
    /\ At(l, "keepClient")
    /\ \/ /\ Set(l, [at |-> "keepTokens", own |-> NoClient, new |-> FALSE, seen |-> NoTokens]) /\ client' = (IF proc[l].new THEN proc[l].own ELSE client)
          /\ UNCHANGED <<tokens, used>> /\ Quiet
       \/ proc[l].new /\ Throws(l)

PersistTokens(l) ==
    /\ At(l, "keepTokens")
    /\ \/ /\ Set(l, [at |-> "finish", held |-> NoTokens]) /\ tokens' = proc[l].held /\ UNCHANGED <<client, used>>
          /\ happened' = happened \union {l} /\ Browser /\ World /\ Record
       \/ Throws(l)

Tabs(l, at) ==
    [t \in Logins |-> IF tab[t].at # "waiting" \/ tab[t].by # l THEN tab[t]
                      ELSE Page(at, IF at = "complete" THEN l ELSE Nobody, "none")]

Finish(l) ==
    /\ At(l, "finish")
    /\ Set(l, [at |-> "record", told |-> TRUE]) /\ tab' = Tabs(l, "complete")
    /\ Store /\ World /\ Record /\ UNCHANGED <<port, happened, used>>

(* The finding is the difference from the reference; ok: the reference is  *)
(* that of the authorization recorded last.  A record that fails is no     *)
(* failure of the login.                                                   *)
RecordAuthorization(l) ==
    /\ At(l, "record")
    /\ \/ /\ trail' = Append(trail, [as |-> proc[l].as, fits |-> ref.fits,
                                      changed |-> ref.kind = "ok" /\ ref.as # proc[l].as])
          /\ ref' = [ref EXCEPT !.fits = FALSE]
          /\ IF ref.kind = "newer" THEN Over(l, "ok") ELSE Go(l, "reference")
          /\ UNCHANGED used
       \/ Fault /\ Over(l, "ok") /\ Record
    /\ Store /\ World /\ Browser /\ UNCHANGED happened

(* Always rewritten after the event; a failed write is recorded.           *)
WriteReference(l) ==
    /\ At(l, "reference")
    /\ Over(l, "ok")
    /\ \/ ref' = [kind |-> "ok", as |-> proc[l].as, fits |-> TRUE] /\ UNCHANGED used
       \/ Fault /\ UNCHANGED ref
    /\ Store /\ World /\ Browser /\ UNCHANGED <<trail, happened>>

(* Mutant: close answers a browser that waits as finish does.              *)
CloseComplete(l) ==
    /\ At(l, "close")
    /\ Exited(l, proc[l].exit) /\ tab' = Tabs(l, "complete") /\ port' = Nobody
    /\ Store /\ World /\ Record /\ UNCHANGED <<happened, used>>

(* The finally: whoever waits reads "failed", and the port is free.        *)
Close(l) ==
    /\ At(l, "close")
    /\ Exited(l, proc[l].exit) /\ tab' = Tabs(l, "failed") /\ port' = Nobody
    /\ Store /\ World /\ Record /\ UNCHANGED <<happened, used>>

Gone(l, exit) ==
    /\ Exited(l, exit)
    /\ tab' = Tabs(l, "unanswered") /\ port' = IF port = l THEN Nobody ELSE port

(* The time limit of the handler, or a crash.                              *)
Killed(l) ==
    /\ proc[l].at \notin {"unborn", "exited"} /\ Fault /\ Gone(l, "failed")
    /\ Store /\ World /\ Record /\ UNCHANGED happened

-----------------------------------------------------------------------------
(* The browser                                                             *)

Iss(as) == IF as \in SendsIss THEN as ELSE "absent"

CheckResponseIss(l, iss) ==
    IF iss # "absent" THEN proc[l].as = iss /\ iss \in SendsIss ELSE proc[l].as \notin SendsIss

Answered(t, at, by) == tab' = [tab EXCEPT ![t] = Page(at, by, "none")]

(* A code that passes is kept and its page waits; another answer fails the *)
(* login, at once if nobody waits for the code yet.                        *)
Callback(t) ==
    /\ tab[t].at = "asking"
    /\ \E grants \in BOOLEAN :
        IF port = Nobody THEN Answered(t, "refused", Nobody) /\ UNCHANGED <<proc, port>>
        ELSE LET h == port IN
             IF grants /\ CheckResponseIss(h, Iss(tab[t].as))
             THEN /\ Answered(t, IF proc[h].told THEN "complete" ELSE "waiting", h)
                  /\ Set(h, [code |-> IF proc[h].code = Nobody THEN t ELSE proc[h].code])
                  /\ UNCHANGED port
             ELSE IF proc[h].code # Nobody \/ At(h, "close") THEN Answered(t, "failed", Nobody) /\ UNCHANGED <<proc, port>>
             ELSE IF At(h, "wait") THEN Answered(t, "failed", Nobody) /\ Over(h, "failed") /\ UNCHANGED port
             ELSE Answered(t, "failed", Nobody) /\ Exited(h, "failed") /\ port' = Nobody
    /\ Store /\ World /\ Record /\ UNCHANGED <<happened, used>>

-----------------------------------------------------------------------------
(* The handlers of the desktop app                                         *)

Reply(l, answer) == conn' = [conn EXCEPT ![l] = [at |-> "done", reconnecting |-> FALSE, answer |-> answer]]

Rest == UNCHANGED <<port, tab, wrapper, server>> /\ Record

(* No browser is opened for a name that is taken.                          *)
Connect(l) ==
    /\ conn[l].at = "idle"
    /\ IF entry = "foreign" THEN Reply(l, "name-exists") /\ UNCHANGED proc
       ELSE /\ conn' = [conn EXCEPT ![l].at = "login", ![l].reconnecting = entry = "bridge"]
            /\ \E scoped \in BOOLEAN : proc' = [proc EXCEPT ![l] = [Fresh EXCEPT !.scoped = scoped]]
    /\ Store /\ Rest /\ UNCHANGED <<entry, removal, happened, used>>

(* A reconnect overwrites, a first connect does not.                       *)
Connected(l) ==
    /\ conn[l].at = "login" /\ At(l, "exited")
    /\ IF proc[l].exit # "ok" THEN Reply(l, "login-failed") /\ UNCHANGED <<entry, used>>
       ELSE IF ~conn[l].reconnecting /\ entry # "absent" THEN Reply(l, "name-exists") /\ UNCHANGED <<entry, used>>
       ELSE \/ Reply(l, "wrote") /\ entry' = "bridge" /\ UNCHANGED used
            \/ Fault /\ Reply(l, "unreadable") /\ UNCHANGED entry
    /\ proc' = [proc EXCEPT ![l] = NoProc]
    /\ Store /\ Rest /\ UNCHANGED <<removal, happened>>

(* The entry goes at once, the Keychain items one by one.                  *)
RemoveRemote ==
    /\ entry = "bridge" /\ removal = {} /\ used.others < MaxOthers
    /\ used' = [used EXCEPT !.others = @ + 1]
    /\ entry' = "absent" /\ removal' = {"tokens", "client"}
    /\ Store /\ Rest /\ UNCHANGED <<conn, proc, happened>>

DeleteCredentials ==
    /\ removal # {}
    /\ IF "tokens" \in removal THEN tokens' = NoTokens /\ removal' = removal \ {"tokens"} /\ UNCHANGED client
       ELSE client' = NoClient /\ removal' = {} /\ UNCHANGED tokens
    /\ Rest /\ UNCHANGED <<conn, proc, entry, happened, used>>

-----------------------------------------------------------------------------
(* Others                                                                  *)

Other == used.others < MaxOthers /\ used' = [used EXCEPT !.others = @ + 1] /\ UNCHANGED <<conn, proc, port, tab, removal, trail, happened>>

SeedClient == Other /\ client' = Seeded /\ UNCHANGED <<entry, tokens, wrapper, server, ref>>

UserEdits == Other /\ entry' \in {"absent", "foreign"} \ {entry} /\ UNCHANGED <<client, tokens, wrapper, server, ref>>

ServerMoves == Other /\ server' \in AuthServer \ {server} /\ UNCHANGED <<client, tokens, entry, wrapper, ref>>

RefBroken == Other /\ ref' \in [kind : {"corrupt", "newer"}, as : {"none"}, fits : {FALSE}] /\ UNCHANGED <<client, tokens, entry, wrapper, server>>

WrapperRefreshes ==
    /\ Other /\ wrapper = NoTokens /\ entry = "bridge" /\ tokens.rt /\ tokens.client = client
    /\ wrapper' = tokens /\ UNCHANGED <<client, tokens, entry, server, ref>>

(* The set the wrapper obtains is saved whatever is stored by then.  A     *)
(* rejection deletes what it was about, a rejected client both items.      *)
WrapperEnds ==
    /\ wrapper # NoTokens /\ wrapper' = NoTokens
    /\ \/ tokens' = [wrapper EXCEPT !.by = Nobody] /\ UNCHANGED client
       \/ tokens' = (IF tokens = wrapper THEN NoTokens ELSE tokens) /\ UNCHANGED client
       \/ tokens' = NoTokens /\ client' = NoClient
    /\ UNCHANGED <<conn, proc, port, tab, entry, removal, server, happened, used>> /\ Record

LoginStep(l) ==
    \/ StartCallback(l) \/ ProbeAuthorization(l) \/ HasStored(l) \/ Discover(l)
    \/ SaveDiscoveryState(l) \/ ClientInformation(l) \/ ReadTokens(l) \/ Refresh(l)
    \/ RedirectToAuthorization(l) \/ WaitForCode(l) \/ FinishAuth(l)
    \/ PersistClient(l) \/ PersistTokens(l) \/ Finish(l)
    \/ RecordAuthorization(l) \/ WriteReference(l) \/ Close(l)

Next ==
    \/ \E l \in Logins : Connect(l) \/ LoginStep(l) \/ Killed(l) \/ Callback(l) \/ Connected(l)
    \/ RemoveRemote \/ DeleteCredentials
    \/ SeedClient \/ UserEdits \/ ServerMoves \/ RefBroken \/ WrapperRefreshes \/ WrapperEnds

Spec == Init /\ [][Next]_vars

-----------------------------------------------------------------------------
(* Properties                                                              *)

(* A browser told "login complete" was told so by a login that had by then *)
(* written its tokens, even when the code it brought came from another     *)
(* login's tab.                                                            *)
CompleteIsStored == \A t \in Logins : tab[t].at = "complete" => tab[t].by \in happened

(* When the reference of the last recorded authorization is in place, the  *)
(* next record says "changed" exactly when the authorization server is not *)
(* the one of the last record: no change is missed and none is reported    *)
(* twice, whatever logins failed or were killed between the two.           *)
ChangeReportedOnce ==
    \A k \in 2..Len(trail) : trail[k].fits => (trail[k].changed <=> trail[k].as # trail[k - 1].as)

(* What the app says of a login, in the browser and on the trail, is what  *)
(* happened.                                                               *)
LoginTruthful == CompleteIsStored /\ ChangeReportedOnce
=============================================================================
