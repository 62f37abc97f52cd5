----------------------------- MODULE FrameTrail -----------------------------
(***************************************************************************)
(* What the wrapper records of a frame that passes through it              *)
(* (packages/proxy/src/frame-processor.ts, parser.ts, and the masking in   *)
(* EventSink.emit, events.ts).  The peers speak JSON-RPC: an id of theirs  *)
(* is not used again while its request waits, and a request is answered    *)
(* at most once, by an answer that names its id.                           *)
(*                                                                         *)
(* The trail only grows: `lines` holds what the last frame appended.       *)
(***************************************************************************)
EXTENDS LaunchArgs, TLC

CONSTANTS
    Id,         \* ids of the peers, a number and a string being two of them
    Printed,    \* Printed[i]: the text of id i inside a template string
    Method,     \* methods asked
    Asked,      \* Asked[m]: what a request of method m can carry
    Answered,   \* Answered[m]: what an answer to one can carry
    Launch,     \* command lines of the wrapped server
    Logged,     \* lines the wrapped server writes to stderr
    MaxFrame    \* bound: frames of a session

Dir == {"client_to_server", "server_to_client"}

Invert(dir) == CHOOSE d \in Dir : d # dir

Elicitation == "elicitation/create"

NoId == "no id"

NullId == "null"

VARIABLES
    route,      \* how the wrapper reaches the server: "stdio" or "http"
    methods,    \* requestMethods: <<direction, printed id>> to the method
    tripped,    \* seenUnknownMethods
    open,       \* the requests a peer still expects an answer to
    lines,      \* what the last frame appended to the trail
    frames,     \* frames so far
    alike       \* history: two open requests of one peer had ids that print alike

vars == <<route, methods, tripped, open, lines, frames, alike>>

Key(dir, id) == <<dir, IF id \in {NoId, NullId} THEN "null" ELSE Printed[id]>>

Init ==
    /\ route \in {"stdio", "http"}
    /\ methods = << >> /\ tripped = {} /\ open = {} /\ lines = {}
    /\ frames = 0 /\ alike = FALSE

-----------------------------------------------------------------------------
(* parser.ts.  A line that is JSON has an id or none, a method or none and *)
(* a result, an error or neither.                                          *)
Frame(kind, f) == [kind |-> kind, id |-> f.id, method |-> f.method, has |-> f.has, body |-> f.body]

Classify(f) ==
    CASE ~ f.json                                    -> Frame("parse_error", f)
      [] f.json /\ f.method # "none" /\ f.id # NoId  -> Frame("request", f)
      [] f.json /\ f.method # "none" /\ f.id = NoId  -> Frame("notification", f)
      [] f.json /\ f.method = "none" /\ f.id # NoId /\ f.has # "neither" -> Frame("response", f)
      [] OTHER                                       -> Frame("parse_error", f)

(* The SDK has parsed the message; an error may lack its id.               *)
ClassifyFromMessage(f) ==
    IF f.method # "none"
        THEN Frame(IF f.id # NoId THEN "request" ELSE "notification", f)
        ELSE [Frame("response", f) EXCEPT !.id = IF f.id = NoId THEN NullId ELSE f.id]

Classified(f) == IF route = "stdio" THEN Classify(f) ELSE ClassifyFromMessage(f)

-----------------------------------------------------------------------------
(* What is kept.  A body is [scan, rest, answers, elicit, resultType]:     *)
(* scan is the text a content detector reads in a result (all of it in a   *)
(* request), answers the inputResponses, elicit the parameters of an       *)
(* elicitation.  Each is a leaf, "long" in one of over MAX_LEAF_BYTES.     *)
ElicitText(e) == e.message \cup e.url \cup e.other

ParamsText(b) == b.scan \cup b.rest \cup b.answers \cup ElicitText(b.elicit)

OmitInputResponses(b) == {b.scan, b.rest}

RecordedParams(method, b) ==
    IF method = Elicitation THEN {ReadElicitation(b.elicit).text} ELSE OmitInputResponses(b)

ElicitationResultWhitelist(b) == {{"words"}}

ElicitationErrorWhitelist(b) == {}

RecordedAnswer(method, f) ==
    CASE method # Elicitation -> {f.body.scan, f.body.rest}
      [] f.has = "result"     -> ElicitationResultWhitelist(f.body)
      [] OTHER                -> ElicitationErrorWhitelist(f.body)

(* EventSink.emit: a leaf that is too long is left out whole, and the line *)
(* is masked after that, with the matches found in the frame before it.    *)
Truncate(leaf) == IF "long" \in leaf THEN {"words"} ELSE leaf

ApplyTruncation(type, leaves) ==
    IF type \in {"mcp.request", "mcp.notification", "mcp.response", "mcp.stderr"}
        THEN {Truncate(l) : l \in leaves}
        ELSE leaves

Line(type, leaves, detection, masks) ==
    [ type      |-> type,
      text      |-> MaskCredentials(UNION ApplyTruncation(type, leaves), masks, "salt"),
      detection |-> detection ]

-----------------------------------------------------------------------------
(* detectors/protocol-tripwire.ts, over the shape of a request.            *)
Expected == {"ping", "roots/list"}

SpecMethods == [client_to_server |-> {"tools/call", "resources/read"},
                server_to_client |-> {"ping", "roots/list", "sampling/createMessage", Elicitation}]

ServerRequest(dir, m) == dir = "server_to_client" /\ m \notin Expected

UnknownMethod(dir, m) == m \notin SpecMethods[dir] /\ <<dir, m>> \notin tripped

ProtocolTripwire(dir, m) ==
    IF ServerRequest(dir, m) \/ UnknownMethod(dir, m) THEN {"protocol_tripwire"} ELSE {}

RequestDetections(dir, f) ==
    EmitDetections(ContentDetectors(ParamsText(f.body)) \cup ProtocolTripwire(dir, f.method))

InputRequired(dir, f) ==
    IF dir = "server_to_client" /\ f.has = "result" /\ f.body.resultType = "input_required"
        THEN {"protocol_tripwire"} ELSE {}

-----------------------------------------------------------------------------
(* createFrameProcessor, one kind of frame after another.                  *)
RequestMasks(f, found) ==
    (IF "credential_detected" \in found THEN CredentialMatches(ParamsText(f.body)) ELSE {})
    \cup (IF f.method = Elicitation THEN ReadElicitation(f.body.elicit).maskSecrets ELSE {})

OnRequest(dir, f) ==
    LET found == RequestDetections(dir, f)
    IN  /\ methods' = (Key(dir, f.id) :> f.method) @@ methods
        /\ tripped' = tripped \cup {x \in {<<dir, f.method>>} : UnknownMethod(dir, f.method)}
        /\ lines' = {Line("mcp.request", RecordedParams(f.method, f.body), d, RequestMasks(f, found)) : d \in found}

MethodOf(key) == IF key \in DOMAIN methods THEN methods[key] ELSE "unknown"

Enrichments(method, dir, f) ==
    (IF method = "tools/call" /\ f.has = "result" THEN ContentDetectors(f.body.scan) ELSE {})
    \cup InputRequired(dir, f)

AnswerMasks(method, f) ==
    IF method = "tools/call" /\ f.has = "result" THEN CredentialMatches(f.body.scan) ELSE {}

OnResponse(dir, f) ==
    LET key == Key(Invert(dir), f.id)
        method == MethodOf(key)
    IN  /\ methods' = [k \in DOMAIN methods \ {key} |-> methods[k]]
        /\ lines' = {Line("mcp.response", RecordedAnswer(method, f), "none", AnswerMasks(method, f))}
                    \cup {Line("mcp.detection_enrichment", {}, d, {}) : d \in Enrichments(method, dir, f)}
        /\ UNCHANGED tripped

OnNotification(f) ==
    /\ lines' = {Line("mcp.notification", {f.body.scan, f.body.rest}, "none", {})}
    /\ UNCHANGED <<methods, tripped>>

OnParseError ==
    /\ lines' = {Line("proxy.error", {}, "none", {})}
    /\ UNCHANGED <<methods, tripped>>

Process(dir, raw) ==
    LET f == Classified(raw)
    IN  CASE f.kind = "request"      -> OnRequest(dir, f)
          [] f.kind = "response"     -> OnResponse(dir, f)
          [] f.kind = "notification" -> OnNotification(f)
          [] OTHER                   -> OnParseError

-----------------------------------------------------------------------------
(* The peers.                                                              *)
Raw(json, id, method, has, body) == [json |-> json, id |-> id, method |-> method, has |-> has, body |-> body]

Alike(dir, id) == \E r \in open : r.dir = dir /\ r.id # id /\ Printed[r.id] = Printed[id]

Budget == frames < MaxFrame /\ frames' = frames + 1 /\ UNCHANGED route

Start ==
    /\ frames = 0 /\ Budget
    /\ \E args \in Launch :
          lines' = {Line("proxy.started", {RedactArgs(args)[i] : i \in DOMAIN args}, "none", {})}
    /\ UNCHANGED <<methods, tripped, open, alike>>

Ask ==
    \E dir \in Dir, id \in Id, m \in Method : \E b \in Asked[m] :
        /\ frames > 0 /\ Budget
        /\ \A r \in open : r.dir = dir => r.id # id
        /\ m \notin SpecMethods[Invert(dir)]
        /\ Process(dir, Raw(TRUE, id, m, "neither", b))
        /\ open' = open \cup {[dir |-> dir, id |-> id, method |-> m]}
        /\ alike' = (alike \/ Alike(dir, id))

Answer ==
    \E r \in open, has \in {"result", "error"} : \E b \in Answered[r.method] :
        /\ Budget
        /\ Process(Invert(r.dir), Raw(TRUE, r.id, "none", has, b))
        /\ open' = open \ {r} /\ UNCHANGED alike

(* An answer that is no JSON-RPC: it reaches the peer, who ignores it.     *)
Malformed ==
    \E r \in open, f \in BOOLEAN : \E b \in Answered[r.method] :
        /\ route = "stdio" /\ Budget
        /\ Process(Invert(r.dir), Raw(f, IF f THEN NoId ELSE r.id, "none", "result", b))
        /\ UNCHANGED <<open, alike>>

Notify ==
    \E dir \in Dir, m \in Method : \E b \in Asked[m] :
        /\ m # Elicitation /\ b.answers = {} /\ frames > 0 /\ Budget
        /\ Process(dir, Raw(TRUE, NoId, m, "neither", b))
        /\ UNCHANGED <<open, alike>>

(* The child logs a line: it has no frame, and is recorded and masked.     *)
StderrEvent(line) == Line("mcp.stderr", {line}, "none", CredentialMatches(line))

Log ==
    \E line \in Logged :
        /\ route = "stdio" /\ frames > 0 /\ Budget
        /\ lines' = {StderrEvent(line)}
        /\ UNCHANGED <<methods, tripped, open, alike>>

Next == Start \/ Ask \/ Answer \/ Malformed \/ Notify \/ Log

Spec == Init /\ [][Next]_vars

-----------------------------------------------------------------------------
(* AnswerNeverKept (frame-processor.ts, elicitationResultWhitelist): what  *)
(* the user typed is never persisted.                                      *)
AnswerNeverKept == \A l \in lines : "typed" \notin l.text

(* AnswerKeptOnlyAlike: it is, at most, where two requests of one peer     *)
(* were open at once whose ids print alike.                                *)
AnswerKeptOnlyAlike == AnswerNeverKept \/ alike

(* FlaggedIsMasked: a credential one line of a frame reports is in clear   *)
(* in no line of that frame, and none of a known format is in the command  *)
(* line or in what the server logs, whether or not anything reported it.   *)
FlaggedIsMasked ==
    /\ (\E l \in lines : l.detection = "credential_detected") => \A l \in lines : "secret" \notin l.text
    /\ \A l \in lines : l.type = "proxy.started" => l.text \cap {"secret", "userinfo", "queryvalue"} = {}
    /\ \A l \in lines : l.type = "mcp.stderr" => "secret" \notin l.text
=============================================================================
