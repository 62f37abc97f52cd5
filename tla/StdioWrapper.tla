---------------------------- MODULE StdioWrapper ----------------------------
(***************************************************************************)
(* A stdio wrapper (packages/proxy/src/main.ts runStdio, shutdown.ts,      *)
(* frame-processor.ts, latency.ts): it passes frames between the client    *)
(* and the child it has spawned, records them, pairs responses with        *)
(* requests, gives every request to the NER detector, and ends in one      *)
(* graceful shutdown whatever the cause.                                   *)
(*                                                                         *)
(* A step is one callback of the event loop with the microtasks it leaves  *)
(* behind.  What the client writes is read at once: nobody can tell.  What *)
(* the child writes stays in its pipe, which outlives the child.           *)
(***************************************************************************)
EXTENDS NerQueue

CONSTANTS
    CReq, SReq,     \* requests of the client, of the server
    IdOf            \* the JSON-RPC id of each

Req == Job

ASSUME ReqAssumption == CReq \cup SReq = Job /\ CReq \cap SReq = {}

VARIABLES
    st,         \* a request: "new", "sent" (in the child's pipe), "seen",
                \* "stray" (never delivered), "answered" (likewise), "done"
    pend,       \* requestMethods and the tracker: the request each key names
    pairedWith, \* the request a recorded response was matched with
    child,      \* "starting", "up", "dead"
    childAlive, \* childAlive: no 'exit' event yet
    ended,      \* child.stdin.end() was called
    out,        \* the child's stdout
    eof,        \* the client closed stdin
    sd,         \* "none", "grace", "term", "kill", "terminating", "exited"
    cause,      \* the reason of the one shutdown ("none": not begun)
    killed,     \* SIGKILL was sent to the child
    shut,       \* lines proxy.shutdown
    \* history, read by the properties only
    clash       \* requests whose id was used twice at once, in one direction

frameVars == <<st, pend, pairedWith, clash>>
childVars == <<child, childAlive, ended, out>>
endVars == <<eof, sd, cause, killed, shut>>
vars == <<nerVars, frameVars, childVars, endVars>>

Dir(r) == IF r \in CReq THEN "client_to_server" ELSE "server_to_client"

\* Mutant: ids of the two directions are not told apart.
KeyById(r) == <<"client_to_server", IdOf[r]>>

\* The key of the two maps: the direction of the request and its id.
Key(r) == <<Dir(r), IdOf[r]>>

Keys == {"client_to_server", "server_to_client"} \X {IdOf[r] : r \in Req}

Reason == {"parent_closed_stdin", "signal_received", "child_exited"}

\* A line proxy.shutdown: its reason, its exit code ("child": the child's own),
\* and the child as it is by then.
ShutLine == [reason : Reason, code : {"child", "zero", "one"},
             child : {"starting", "up", "dead"}]

Init ==
    /\ NerInit
    /\ st = [r \in Req |-> "new"] /\ pend = [k \in Keys |-> NoJob]
    /\ pairedWith = [r \in Req |-> NoJob] /\ clash = {}
    /\ child = "starting" /\ childAlive = TRUE /\ ended = FALSE /\ out = <<>>
    /\ eof = FALSE /\ sd = "none" /\ cause = "none" /\ killed = FALSE /\ shut = <<>>

Running == child # "starting" /\ sd # "exited"

-----------------------------------------------------------------------------
(* Frames.                                                                 *)

Awaited(r) == st[r] \in {"seen", "answered"}

\* trackRequest, requestMethods.set: a duplicate replaces the entry.
Track(r) ==
    /\ pend' = [pend EXCEPT ![Key(r)] = r]
    /\ LET same == {q \in Req \ {r} : Awaited(q) /\ Dir(q) = Dir(r) /\ IdOf[q] = IdOf[r]}
       IN  clash' = IF same = {} THEN clash ELSE clash \cup same \cup {r}
    /\ UNCHANGED pairedWith

\* matchResponse, requestMethods.get and delete: the response names an id only.
Match(r) ==
    /\ pairedWith' = [pairedWith EXCEPT ![r] = pend[Key(r)]]
    /\ pend' = [pend EXCEPT ![Key(r)] = NoJob]
    /\ st' = [st EXCEPT ![r] = "done"]
    /\ UNCHANGED clash

\* Forwarded first; recorded even when the child can no longer read it.
ClientRequest(r) ==
    /\ Running /\ ~eof /\ r \in CReq /\ st[r] = "new"
    /\ st' = [st EXCEPT ![r] = IF child = "up" /\ ~ended THEN "seen" ELSE "stray"]
    /\ Track(r) /\ Enqueue(r)
    /\ UNCHANGED <<childVars, endVars>>

ClientAnswers(r) ==
    /\ Running /\ ~eof /\ r \in SReq /\ st[r] = "seen"
    /\ Match(r)
    /\ UNCHANGED <<nerVars, childVars, endVars>>

Written(kind, r) == out' = Append(out, [kind |-> kind, req |-> r])

ServerRequest(r) ==
    /\ Running /\ child = "up" /\ r \in SReq /\ st[r] = "new"
    /\ st' = [st EXCEPT ![r] = "sent"] /\ Written("request", r)
    /\ UNCHANGED <<nerVars, pend, pairedWith, clash, child, childAlive, ended, endVars>>

ServerAnswers(r) ==
    /\ Running /\ child = "up" /\ r \in CReq /\ st[r] = "seen"
    /\ st' = [st EXCEPT ![r] = "answered"] /\ Written("response", r)
    /\ UNCHANGED <<nerVars, pend, pairedWith, clash, child, childAlive, ended, endVars>>

ReadRequest ==
    /\ Running /\ out # <<>> /\ Head(out).kind = "request"
    /\ out' = Tail(out)
    /\ LET r == Head(out).req IN
          st' = [st EXCEPT ![r] = "seen"] /\ Track(r) /\ Enqueue(r)
    /\ UNCHANGED <<child, childAlive, ended, endVars>>

ReadResponse ==
    /\ Running /\ out # <<>> /\ Head(out).kind = "response"
    /\ out' = Tail(out)
    /\ Match(Head(out).req)
    /\ UNCHANGED <<nerVars, child, childAlive, ended, endVars>>

-----------------------------------------------------------------------------
(* The child, and the shutdown.                                            *)

Spawn ==
    /\ child = "starting" /\ sd = "none" /\ child' = "up"
    /\ UNCHANGED <<nerVars, frameVars, childAlive, ended, out, endVars>>

\* proxy.error spawn_failed and exit code 127: no shutdown, no terminal event.
SpawnFails ==
    /\ child = "starting" /\ sd = "none" /\ sd' = "exited"
    /\ UNCHANGED <<nerVars, frameVars, childVars, eof, cause, killed, shut>>

\* Of itself, because its stdin ended, or of a signal.
ChildDies ==
    /\ Running /\ child = "up" /\ child' = "dead"
    /\ UNCHANGED <<nerVars, frameVars, childAlive, ended, out, endVars>>

ExitCode(reason) ==
    IF reason = "child_exited" THEN "child" ELSE IF sd = "kill" THEN "one" ELSE "zero"

\* Steps 4 to 6b: the exit code, proxy.shutdown, then the NER worker.
Conclude(reason) ==
    /\ shut' = Append(shut, [reason |-> reason, code |-> ExitCode(reason), child |-> child])
    /\ sd' = "terminating"
    /\ Terminate

\* gracefulShutdown while the child lives: it is given 2 s.  A second call
\* finds the promise of the first.
GracefulShutdown(reason) ==
    /\ IF cause = "none"
       THEN cause' = reason /\ sd' = "grace" /\ ended' = TRUE
       ELSE UNCHANGED <<cause, sd, ended>>
    /\ UNCHANGED <<nerVars, frameVars, child, childAlive, out, killed, shut>>

ClientEof ==
    /\ Running /\ ~eof /\ eof' = TRUE
    /\ GracefulShutdown("parent_closed_stdin")

Signal ==
    /\ Running /\ GracefulShutdown("signal_received") /\ UNCHANGED eof

\* 'exit': proxy.child_exited, then whatever waits for it goes on.
ChildExitEvent ==
    /\ Running /\ child = "dead" /\ childAlive
    /\ childAlive' = FALSE
    /\ cause' = IF cause = "none" THEN "child_exited" ELSE cause
    /\ Conclude(cause')
    /\ UNCHANGED <<frameVars, child, ended, out, eof, killed>>

GraceTimeout ==
    /\ sd = "grace" /\ sd' = "term"
    /\ UNCHANGED <<nerVars, frameVars, childVars, eof, cause, killed, shut>>

\* Mutant: SIGTERM again, never SIGKILL.
TermTimeoutAgain ==
    /\ sd = "term"
    /\ UNCHANGED vars

\* Mutant: SIGKILL is not waited for.
TermTimeoutNoWait ==
    /\ sd = "term" /\ killed' = TRUE
    /\ Conclude(cause)
    /\ UNCHANGED <<frameVars, childVars, eof, cause>>

TermTimeout ==
    /\ sd = "term" /\ sd' = "kill" /\ killed' = TRUE
    /\ UNCHANGED <<nerVars, frameVars, childVars, eof, cause, shut>>

\* Steps 8 to 10: fsync or 500 ms, close, exit.
Exit ==
    /\ sd = "terminating" /\ term = "done" /\ sd' = "exited"
    /\ UNCHANGED <<nerVars, frameVars, childVars, eof, cause, killed, shut>>

Frame ==
    \/ \E r \in Req : ClientRequest(r) \/ ClientAnswers(r)
                      \/ ServerRequest(r) \/ ServerAnswers(r)
    \/ ReadRequest \/ ReadResponse

Ner == /\ Running
       /\ Detector \/ Worker
       /\ UNCHANGED <<frameVars, childVars, endVars>>

Shutdown == ChildExitEvent \/ GraceTimeout \/ TermTimeout \/ Exit

Next ==
    \/ Spawn \/ SpawnFails \/ ChildDies
    \/ Frame \/ Ner
    \/ ClientEof \/ Signal \/ Shutdown

Spec == Init /\ [][Next]_vars

\* The event loop runs its callbacks and its timers, and SIGKILL kills.
FairSpec ==
    /\ Spec
    /\ WF_vars(Shutdown)
    /\ WF_vars(Running /\ (ExitEvent \/ TerminateTimeout) /\ UNCHANGED <<frameVars, childVars, endVars>>)
    /\ WF_vars(killed /\ ChildDies)

-----------------------------------------------------------------------------
(* Properties.                                                             *)

FrameType ==
    /\ st \in [Req -> {"new", "sent", "seen", "stray", "answered", "done"}]
    /\ pend \in [Keys -> Req \cup {NoJob}] /\ pairedWith \in [Req -> Req \cup {NoJob}]
    /\ clash \subseteq Req
    /\ out \in Seq([kind : {"request", "response"}, req : Req])

EndType ==
    /\ child \in {"starting", "up", "dead"} /\ childAlive \in BOOLEAN /\ ended \in BOOLEAN
    /\ eof \in BOOLEAN /\ killed \in BOOLEAN
    /\ sd \in {"none", "grace", "term", "kill", "terminating", "exited"}
    /\ cause \in Reason \cup {"none"} /\ shut \in Seq(ShutLine)

\* Every variable keeps its shape; the queue never exceeds its bound.
TypeOK == NerTypeOK /\ FrameType /\ EndType

\* A recorded response is taken for the answer to its own request, whatever the
\* other direction does, unless one side used an id twice at once.  The masking
\* of what a user typed into an elicitation hangs on it.
Paired == \A r \in Req : st[r] = "done" => pairedWith[r] = r \/ r \in clash

\* A request the detector ignores has its explanation in the trail: the worker's
\* death, or the shutdown.
RefusedExplained == refused # {} => died = 1 \/ shut # <<>>

\* A wrapper whose child was spawned ends with one proxy.shutdown, written when
\* the child is dead and reported dead, with code 1 if and only if it was killed.
ShutdownTruthful ==
    /\ Len(shut) <= 1
    /\ sd = "exited" /\ child # "starting" => shut # <<>>
    /\ \A i \in DOMAIN shut :
          /\ shut[i].child = "dead" /\ ~childAlive
          /\ shut[i].code = "one" <=> killed
          /\ shut[i].reason = cause

\* A shutdown once begun ends, whatever the child and the worker do.
ShutdownEnds == (cause # "none") ~> (sd = "exited")

=============================================================================
