------------------------------ MODULE MCTrail -------------------------------
EXTENDS HookTrail

CONSTANTS Id, MaxFrame, Request, Notice, Reply, MaxSent, MaxLines

None == [mode |-> "form", message |-> {}, names |-> "none", url |-> {}, other |-> {}]

Form(message, names) == [None EXCEPT !.message = message, !.names = names, !.other = {"typed", "secret"}]

Url(url) == [None EXCEPT !.mode = "url", !.url = url]

Elicited == {Form({"words", "secret"}, "secret"), Form({"words"}, "plain"),
             Url({"secret", "userinfo", "queryvalue"})}

-----------------------------------------------------------------------------
(* HookTrail                                                               *)

P(event, tool, args, text) ==
    [event |-> event, tool |-> tool, shaped |-> TRUE, args |-> args, text |-> text, other |-> {},
     content |-> {}, elicit |-> None, command |-> << >>, cwd |-> "out"]

Some == {{}, {"secret"}, {"mask"}, {"secret", "mask"}, {"old", "inject"}}

Calls1 == {P("PostToolUse", "mcp", a, t) : a \in Some, t \in Some}

Shaped == {[p EXCEPT !.other = o, !.shaped = s] : p \in Calls1, o \in {{}, {"secret"}, {"mask"}}, s \in BOOLEAN}

Failures == {[p EXCEPT !.event = "PostToolUseFailure"] : p \in Calls1}

Asks == {[P("Elicitation", "mcp", {}, {}) EXCEPT !.elicit = e] : e \in Elicited}

Results == {[P("ElicitationResult", "mcp", {}, {}) EXCEPT !.content = c] : c \in {{"typed"}, {"typed", "secret"}}}

Others == {P("SessionStart", "mcp", {}, {"secret"})}

Seg(pre, form, p, q, into, sep) == [pre |-> pre, form |-> form, p |-> p, q |-> q, into |-> into, sep |-> sep]

Moves == {Seg("none", "cd", p, "out", "none", s) : p \in {"data", "folder", "parent", "up", "var"}, s \in {"&&", ";", ")"}}
         \cup {Seg("none", "cdHome", "out", "out", "none", "&&"), Seg("none", "cdBack", "out", "out", "none", "&&")}

Acts == {Seg("none", f, p, "out", "none", "end") : f \in DOMAIN Calls("in", "out"), p \in {"in", "name", "up"}}
        \cup {Seg("none", f, "out", p, "none", "end") : f \in {"cp", "mv", "install", "ln", "dd"}, p \in {"in", "name"}}
        \cup {Seg(x, f, p, "out", "glob", "end") : x \in {"lookup", "sudo"}, f \in {"rm", "cat"}, p \in {"in", "."}}

Commands == {<<a>> : a \in Acts} \cup {<<m, a>> : m \in Moves, a \in Acts}

Shells == {[P("PostToolUse", "Bash", {}, {}) EXCEPT !.command = c, !.cwd = d] : c \in Commands, d \in {"out", "data"}}

ThePayloads == Shaped \cup Failures \cup Asks \cup Results \cup Others \cup Shells

-----------------------------------------------------------------------------
(* FrameTrail                                                              *)

ThePrinted == [i \in Id |-> IF i \in {"n1", "s1"} THEN "1" ELSE "2"]

B(scan, rest) == [scan |-> scan, rest |-> rest, answers |-> {}, elicit |-> None, resultType |-> "none"]

TheMethods == {"tools/call", "elicitation/create", "vendor/new"}

TheAsked ==
    [ m \in TheMethods |->
        CASE m = "tools/call" -> {B({"secret", "inject"}, {}), [B({}, {}) EXCEPT !.answers = {"typed", "secret"}]}
          [] m = "elicitation/create" -> {[B({}, {}) EXCEPT !.elicit = e] : e \in Elicited}
          [] OTHER -> {B({"words"}, {"secret"})} ]

TheAnswered ==
    [ m \in TheMethods |->
        CASE m = "tools/call" -> {B({"secret"}, {"secret"}), B({"secret", "long"}, {"secret"}), B({"inject"}, {"secret", "long"}), [B({}, {}) EXCEPT !.resultType = "input_required"]}
          [] m = "elicitation/create" -> {B({"typed"}, {"typed"})}
          [] OTHER -> {B({"secret"}, {})} ]

A(flag, form, body) == [flag |-> flag, form |-> form, body |-> body, dash |-> FALSE]

TheArgs == {A(f, x, b) : f \in {"no flag", "header", "env", "secret", "plain"},
                         x \in {"secret header", "auth scheme", "secret variable", "text"},
                         b \in {{}, {"secret"}, {"opaque"}, {"userinfo", "words"}, {"queryvalue", "secret"}}}

TheLaunch == {<<a, b>> : a \in {c \in TheArgs : c.body = {} \/ c.form = "text"}, b \in TheArgs}

TheLogged == {{"words"}, {"secret", "words"}, {"secret", "long"}}

VARIABLES route, methods, tripped, open, frameLines, frames, alike, scene

frameVars == <<route, methods, tripped, open, frameLines, frames, alike>>

Frames == INSTANCE FrameTrail
              WITH lines <- frameLines, Printed <- ThePrinted, Method <- TheMethods,
                   Asked <- TheAsked, Answered <- TheAnswered, Launch <- TheLaunch,
                   Logged <- TheLogged

VARIABLES phase, sent, told, session, first, signIn

httpVars == <<phase, sent, told, session, first, signIn>>

Http == INSTANCE HttpWrapper WITH trail <- session, at <- sent

-----------------------------------------------------------------------------
(* The frames of a wrapper, the session of a remote one, and the hook: one *)
(* of the three moves in a behaviour.                                      *)
MCInit ==
    /\ Init /\ Frames!Init /\ Http!Init /\ scene \in {"frames", "http", "hook"}
    /\ scene # "frames" => route = "stdio"

(* Some of the messages are sent, in any order; the requests differ by     *)
(* nothing but their names.                                                *)
HttpNext ==
    /\ Http!Next
    /\ Cardinality({m \in Request \cup Notice : sent'[m] # "unsent"}) <= MaxSent
    /\ Len(session') <= MaxLines

RequestSymmetry == Permutations(Request)

MCNext ==
    /\ UNCHANGED scene
    /\ \/ scene = "frames" /\ Frames!Next /\ UNCHANGED <<vars, httpVars>>
       \/ scene = "http" /\ HttpNext /\ UNCHANGED <<vars, frameVars>>
       \/ scene = "hook" /\ Next /\ UNCHANGED <<frameVars, httpVars>>

MCSpec == MCInit /\ [][MCNext]_<<vars, frameVars, httpVars, scene>>

(* What a user typed into a form is on no route kept, except where ids of  *)
(* one peer print alike; a leaked credential is reported, and what is      *)
(* reported is masked.                                                     *)
TrailClean ==
    /\ TypedNeverKept /\ Frames!AnswerKeptOnlyAlike
    /\ LeaksReported /\ Frames!FlaggedIsMasked

(* The answer of an elicitation is never kept as it was typed.             *)
AnswerNeverKept == Frames!AnswerNeverKept

(* HttpWrapper: its end is told once and truly, and nothing dangles.       *)
EndTold == Http!EndTold
=============================================================================
