----------------------------- MODULE HttpWrapper -----------------------------
(* The wrapper of a remote server (packages/proxy/src/main.ts, runHttp):   *)
(* it passes what the client writes to the server, what the server writes  *)
(* to the client, and records both; it answers the requests it could not   *)
(* forward, and ends when a peer leaves, a signal comes or the server      *)
(* wants a new login.                                                      *)
(*                                                                         *)
(* A step is one callback of the event loop with the microtasks it leaves  *)
(* behind.  While the wrapper waits for the detector and the disk to end   *)
(* its session, callbacks still come and are still recorded.               *)
EXTENDS SequencesExt

CONSTANTS
    Request, Notice,   \* what the client writes: with an id, without one,
    Reply              \* and its responses to what the server asks it

Message == Request \cup Notice \cup Reply

VARIABLES
    phase,   \* "starting", "open", "closing", "exited", "killed"
    at,      \* "unasked" (a reply), "unsent", "sending", "accepted", "answered", "refused"
    told,    \* requests answered to the client, each time
    trail,   \* the lines of the session
    \* history, read by the properties only
    first,   \* what began the end
    signIn   \* "fine", "refused", and since: "alive" the server answered,
             \* "covered" the client did

httpVars == <<phase, at, told, trail, first, signIn>>

Line(type, about) == [type |-> type, about |-> about]

Init ==
    /\ phase = "starting" /\ first = "none" /\ signIn = "fine"
    /\ at = [m \in Message |-> IF m \in Reply THEN "unasked" ELSE "unsent"]
    /\ told = <<>>
    /\ trail = <<Line("proxy.http_started", "none")>>

Running == phase \in {"open", "closing"}

-----------------------------------------------------------------------------
(* The end of the session                                                  *)

(* The first cause ends the session, whichever comes later.                *)
RunHttpShutdown(reason, lines) ==
    IF phase = "open"
    THEN /\ phase' = "closing" /\ first' = reason
         /\ trail' = trail \o lines \o <<Line("proxy.shutdown", reason)>>
    ELSE trail' = trail \o lines /\ UNCHANGED <<phase, first>>

Start == phase = "starting" /\ phase' = "open" /\ UNCHANGED <<at, told, trail, first, signIn>>

(* The session did not open: no shutdown is recorded.                      *)
StartFails ==
    /\ phase = "starting" /\ phase' = "closing" /\ first' = "start"
    /\ \E kind \in {"oauth_failed", "http_connect_failed", "unexpected"} :
           /\ trail' = Append(trail, Line("proxy.error", kind))
           /\ signIn' = IF kind = "oauth_failed" THEN "refused" ELSE signIn
    /\ UNCHANGED <<at, told>>

PeerLeaves(side, reason) ==
    /\ phase = "open"
    /\ RunHttpShutdown(reason, <<Line("proxy.http_closed", side)>>)
    /\ UNCHANGED <<at, told, signIn>>

StdinEnds == PeerLeaves("client", "parent_closed_stdin")

RemoteCloses == PeerLeaves("remote", "remote_closed")

Signal ==
    /\ Running /\ RunHttpShutdown("signal_received", <<>>)
    /\ UNCHANGED <<at, told, signIn>>

(* The detector and the disk have ended, or their time is up.              *)
TearDownTail == phase = "closing" /\ phase' = "exited" /\ UNCHANGED <<at, told, trail, first, signIn>>

(* A kill, or a line that could not be written.                            *)
Dies ==
    /\ phase \in {"starting", "open", "closing"} /\ phase' = "killed"
    /\ UNCHANGED <<at, told, trail, first, signIn>>

-----------------------------------------------------------------------------
(* Messages                                                                *)

(* The line of what the client writes says nothing of who wrote it that    *)
(* the reader of alerts would ask.                                         *)
RecordedAs(m) ==
    IF m \in Request THEN {"mcp.request"}
    ELSE IF m \in Notice THEN {"mcp.notification"} ELSE {"mcp.response", "mcp.response error"}

(* A message is recorded before it is sent.                                *)
ClientSends(m) ==
    /\ Running /\ first \notin {"start", "parent_closed_stdin"} /\ at[m] = "unsent"
    /\ at' = [at EXCEPT ![m] = "sending"]
    /\ \E type \in RecordedAs(m) :
           /\ trail' = Append(trail, Line(type, m))
           /\ signIn' = IF type = "mcp.response" /\ signIn = "refused" THEN "covered" ELSE signIn
    /\ UNCHANGED <<phase, told, first>>

Accepted(m) ==
    /\ Running /\ at[m] = "sending"
    /\ at' = [at EXCEPT ![m] = "accepted"]
    /\ UNCHANGED <<phase, told, trail, first, signIn>>

(* A question to the client (a ping, its roots, a form), in a stream that  *)
(* an earlier message opened.                                              *)
RemoteAsks(m) ==
    /\ Running /\ m \in Reply /\ at[m] = "unasked"
    /\ \E k \in Message : at[k] \in {"accepted", "answered"}
    /\ at' = [at EXCEPT ![m] = "unsent"]
    /\ trail' = Append(trail, Line("mcp.request", m))
    /\ UNCHANGED <<phase, told, first, signIn>>

(* With the request's own response, or in the stream it opened.            *)
RemoteAnswers(m) ==
    /\ Running /\ m \in Request /\ at[m] \in {"sending", "accepted"}
    /\ at' = [at EXCEPT ![m] = "answered"]
    /\ told' = Append(told, m)
    /\ \E ok \in BOOLEAN :
           /\ trail' = Append(trail, Line(IF ok THEN "mcp.response" ELSE "mcp.response error", m))
           /\ signIn' = IF ok /\ signIn \in {"refused", "covered"} THEN "alive" ELSE signIn
    /\ UNCHANGED <<phase, first>>

\* Mutant: the answer the wrapper makes is recorded without its error.
AnswerForwardFailureBare(m) == IF m \in Request THEN <<Line("mcp.response", m)>> ELSE <<>>

(* The wrapper's own answer: a notice and a reply get none.                *)
AnswerForwardFailure(m) == IF m \in Request THEN <<Line("mcp.response error", m)>> ELSE <<>>

(* The SDK reports every failure by itself first, under the kind its error *)
(* has.  A want of login ends the session, after the answer.               *)
SendFails(m) ==
    /\ Running /\ at[m] = "sending"
    /\ at' = [at EXCEPT ![m] = "refused"]
    /\ told' = IF m \in Request THEN Append(told, m) ELSE told
    /\ \E kind \in {"http_status_error", "http_connect_failed"} :
        \/ /\ trail' = Append(trail, Line("proxy.error", kind)) \o AnswerForwardFailure(m)
           /\ UNCHANGED <<phase, first, signIn>>
        \/ /\ RunHttpShutdown("auth_failed",
                   <<Line("proxy.error", kind), Line("proxy.error", "oauth_failed")>>
                   \o AnswerForwardFailure(m))
           /\ signIn' = "refused"

(* The stream of an accepted request breaks, or the client writes garbage. *)
Reports(kind) ==
    /\ Running /\ Line("proxy.error", kind) \notin ToSet(trail)
    /\ kind = "http_connect_failed" => \E m \in Request : at[m] = "accepted"
    /\ trail' = Append(trail, Line("proxy.error", kind))
    /\ UNCHANGED <<phase, at, told, first, signIn>>

Next ==
    \/ Start \/ StartFails \/ StdinEnds \/ RemoteCloses \/ Signal \/ TearDownTail \/ Dies
    \/ \E m \in Message :
           ClientSends(m) \/ Accepted(m) \/ RemoteAsks(m) \/ RemoteAnswers(m) \/ SendFails(m)
    \/ \E kind \in {"http_connect_failed", "unexpected"} : Reports(kind)

Spec == Init /\ [][Next]_httpVars /\ WF_httpVars(TearDownTail)

-----------------------------------------------------------------------------
(* Properties                                                              *)

Positions(types) == {i \in DOMAIN trail : trail[i].type \in types}

(* One true line of the end, after the line of the peer that left.         *)
OneEnd ==
    LET ends == Positions({"proxy.shutdown"})
        closed == Positions({"proxy.http_closed"})
        by == [parent_closed_stdin |-> "client", remote_closed |-> "remote"]
    IN  /\ first \in {"none", "start"} => ends \cup closed = {}
        /\ first \notin {"none", "start"} =>
               /\ \E i \in ends : ends = {i} /\ trail[i].about = first
               /\ IF first \in DOMAIN by
                  THEN \E i \in closed : closed = {i} /\ trail[i].about = by[first] /\ \A j \in ends : i < j
                  ELSE closed = {}

(* A request is answered at most once and its answer recorded; the one the *)
(* wrapper could not forward is always answered, and, where that ended the *)
(* session, before the end.                                                *)
Answered ==
    LET answer == [r \in Request |-> {i \in Positions({"mcp.response", "mcp.response error"}) : trail[i].about = r}]
        ends == Positions({"proxy.shutdown"})
    IN  /\ \A r \in Request :
              LET n == Cardinality({i \in DOMAIN told : told[i] = r})
              IN  n <= 1 /\ Cardinality(answer[r]) = n /\ (at[r] = "refused" => n = 1)
        /\ first = "auth_failed" =>
               \E m \in Message : at[m] = "refused" /\ (m \in Request => \A i \in answer[m], j \in ends : i < j)

(* The reader's alert (detection-reader.ts, deriveAuthAlerts): a want of   *)
(* login with no successful response after it, whoever wrote that.  Lines  *)
(* have different times here, and the want is less than a day old.         *)
Alert ==
    \E i \in DOMAIN trail :
        /\ trail[i] = Line("proxy.error", "oauth_failed")
        /\ \A j \in i .. Len(trail) : trail[j].type # "mcp.response"

(* However failures, answers, questions, signals and departures fall       *)
(* together, and whatever is still recorded while the session closes, its  *)
(* end is told once and truly, no request that could not be forwarded      *)
(* dangles, and the alert to log in stands exactly until a successful      *)
(* response is recorded after it.  docs/remote-connectors.md speaks of the *)
(* server's ("alive"); an answer of the client's own to a question of the  *)
(* server ("covered") clears it too, and nothing else does.                *)
EndTold == OneEnd /\ Answered /\ (Alert <=> signIn = "refused")
=============================================================================
