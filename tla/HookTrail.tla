----------------------------- MODULE HookTrail ------------------------------
(***************************************************************************)
(* What one call of Claude Code leaves on disk: the payload of its hook,   *)
(* stripped and masked by xcg-cchook into a spool file (packages/proxy/src/*)
(* cchook.ts, cchook-spool.ts), read, translated and classified by the app *)
(* (cchook-ingest.ts) and appended to the trail (apps/desktop/src/main/    *)
(* cchook-ingester.ts, serializeEnvelopes).  Both mask with the salt of    *)
(* the install, which the first of them to run creates                     *)
(* (detection/masking.ts).                                                 *)
(*                                                                         *)
(* A payload is [event, tool, shaped, args, text, other, content, elicit,  *)
(* command, cwd]: text is what a result shows, other the rest of it,       *)
(* shaped whether the response is of a shape whose text is told apart;     *)
(* content is what the user typed into a form.                             *)
(***************************************************************************)
EXTENDS TrailText, ShellCommand

CONSTANTS
    Payload,    \* what the hook can be given
    HookBuild,  \* builds of the hook: "raw", "v1" or "v2" (a newer format)
    SaltMayFail,\* the salt file may be out of reach
    NoPayload   \* no payload: nothing read yet, or an omitted record

RedactionVersion == 1

Unversioned == 0

Proc == {"hook", "app"}

VARIABLES
    salt,       \* audit-salt: "absent", "blank" (created, nothing in it) or "salt"
    key,        \* cachedKey of each process ("none": not resolved yet)
    creating,   \* the processes between the two calls that create the salt
    at,         \* where the capture is
    given,      \* what the hook was given
    entry,      \* the hook entry named its event (--event)
    hook,       \* the build of the hook
    cut,        \* stdin was cut: "no", "early" or "late"; early: the event's name is not in it
    file,       \* the spool file
    lines,      \* the lines of the trail
    tampering   \* findings of audit_trail_modification

vars == <<salt, key, creating, at, given, entry, hook, cut, file, lines, tampering>>

saltVars == <<salt, key, creating>>

NoFile == [version |-> Unversioned, parses |-> FALSE, masked |-> {}, payload |-> NoPayload]

Init ==
    /\ salt = "absent" /\ key = [p \in Proc |-> "none"] /\ creating = {}
    /\ at = "idle" /\ given = NoPayload /\ file = NoFile /\ lines = {} /\ tampering = {}
    /\ entry = TRUE /\ hook = "v1" /\ cut = "no"

-----------------------------------------------------------------------------
(* loadOrCreateAuditSalt and resolveAuditKey, call by call.                *)
Resolving(p) ==
    /\ key[p] = "none"
    /\ p = "hook" => at = "read" /\ hook # "raw"

CreateSalt(p) ==
    /\ Resolving(p) /\ p \notin creating /\ salt = "absent"
    /\ salt' = "blank" /\ creating' = creating \cup {p}
    /\ UNCHANGED key

WriteSalt(p) ==
    /\ p \in creating
    /\ salt' = "salt" /\ creating' = creating \ {p} /\ key' = [key EXCEPT ![p] = "salt"]

ReadSalt(p) ==
    /\ Resolving(p) /\ p \notin creating /\ salt # "absent"
    /\ key' = [key EXCEPT ![p] = salt]
    /\ UNCHANGED <<salt, creating>>

SaltFails(p) ==
    /\ SaltMayFail /\ Resolving(p) /\ p \notin creating
    /\ key' = [key EXCEPT ![p] = "ephemeral"]
    /\ UNCHANGED <<salt, creating>>

(* Another process of the install does the same, or is killed halfway.     *)
OthersCreate ==
    /\ salt \in {"absent", "blank"} /\ creating = {}
    /\ salt' = (IF salt = "absent" THEN "blank" ELSE "salt") /\ UNCHANGED <<key, creating>>

ResolveAuditKey ==
    /\ \/ \E p \in Proc : CreateSalt(p) \/ WriteSalt(p) \/ ReadSalt(p) \/ SaltFails(p)
       \/ at = "idle" /\ OthersCreate
    /\ UNCHANGED <<at, given, entry, hook, cut, file, lines, tampering>>

-----------------------------------------------------------------------------
(* xcg-cchook.                                                             *)
Invoke ==
    /\ at = "idle"
    /\ given' \in Payload /\ hook' \in HookBuild
    /\ entry' \in (IF given'.event = "ElicitationResult" THEN BOOLEAN ELSE {FALSE})
    /\ cut' \in {"no", "early", "late"}
    /\ at' = "read"
    /\ UNCHANGED <<saltVars, file, lines, tampering>>

Omitted == [version |-> RedactionVersion, parses |-> FALSE, masked |-> {}, payload |-> NoPayload]

(* stripUserValues: what is left of the payload, or Omitted where it       *)
(* throws (over the limit, or it does not parse).                          *)
Forced == entry

Shape == given.event = "ElicitationResult" /\ cut # "early"

Stripped == [given EXCEPT !.content = {}]

StripUserValuesFailsOpen ==
    IF (~ Forced /\ ~ Shape) \/ cut # "no" THEN {given} ELSE {Stripped}

StripUserValues ==
    IF ~ Forced /\ ~ Shape THEN {given}
    ELSE IF cut # "no" THEN {}
    ELSE {Stripped}

(* The whole payload is scanned as text.                                   *)
PayloadText(p) ==
    p.args \cup p.text \cup p.other \cup p.content \cup p.elicit.message \cup p.elicit.url \cup p.elicit.other

MaskPayload(p, k) ==
    LET m(text) == MaskCredentials(text, CredentialMatches(PayloadText(p)), k)
    IN  [p EXCEPT !.args = m(@), !.text = m(@), !.other = m(@), !.content = m(@),
                  !.elicit = [@ EXCEPT !.message = m(@), !.url = m(@), !.other = m(@)]]

RedactForSpool(p, k) ==
    [ version |-> IF hook = "v1" THEN RedactionVersion ELSE RedactionVersion + 1,
      parses  |-> cut = "no",
      masked  |-> {Fingerprinted[k] : m \in CredentialMatches(PayloadText(p))},
      payload |-> MaskPayload(p, k) ]

Spool ==
    /\ at = "read"
    /\ IF hook = "raw"
         THEN file' = [version |-> Unversioned, parses |-> cut = "no", masked |-> {}, payload |-> given]
         ELSE /\ key["hook"] # "none"
              /\ file' = IF StripUserValues = {} THEN Omitted
                         ELSE RedactForSpool(CHOOSE p \in StripUserValues : TRUE, key["hook"])
    /\ at' = "spooled"
    /\ UNCHANGED <<saltVars, given, entry, hook, cut, lines, tampering>>

-----------------------------------------------------------------------------
(* readSpool.                                                              *)
Known(f) == f.version <= RedactionVersion

Parsed(f) == f.payload # NoPayload /\ f.parses /\ Known(f)

HookMasks(f) == IF Parsed(f) THEN f.masked ELSE {}

HookMaskedCredentialQuoted(text, masks) ==
    {c \in {"credential_detected"} : text \cap (MaskToken \cup {"old"}) # {}}

(* hookMaskedCredential: the masks the hook applied, in a text.            *)
HookMaskedCredential(text, masks) == {c \in {"credential_detected"} : text \cap masks # {}}

(* requestScanText and responseScanText.                                   *)
RequestScanText(p) == p.args

ResponseScanText(p) ==
    IF p.event = "PostToolUseFailure" \/ p.shaped THEN p.text ELSE p.text \cup p.other

IsPair(p) == p.event \in {"PostToolUse", "PostToolUseFailure"}

-----------------------------------------------------------------------------
(* synthesize and classify: the lines of the payload and the secrets to    *)
(* mask in each.                                                           *)
Line(type, place, text, detection, masks) ==
    [type |-> type, place |-> place, text |-> MaskCredentials(text, masks, key["app"]), detection |-> detection]

AuditTrailModification(p) ==
    IF p.tool = "Bash" THEN BashOps(p.command, p.cwd) ELSE {}

RequestDetections(p, masks) ==
    LET found == ContentDetectors(RequestScanText(p))
                 \cup {c \in {"audit_trail_modification"} : AuditTrailModification(p) # {}}
                 \cup HookMaskedCredential(RequestScanText(p), masks)
    IN  EmitDetections(found)

RequestLines(p, masks) ==
    LET found == RequestDetections(p, masks)
        secrets == IF "credential_detected" \in found THEN CredentialMatches(RequestScanText(p)) ELSE {}
    IN  {Line("mcp.request", "params", p.args, d, secrets) : d \in found}

ResponseLines(p, masks) ==
    LET text == ResponseScanText(p)
        found == ContentDetectors(text) \cup HookMaskedCredential(text, masks)
        secrets == IF "credential_detected" \in found THEN CredentialMatches(text) ELSE {}
    IN  {Line("mcp.response", "result", p.text \cup p.other, "none", secrets)}
        \cup {Line("mcp.detection_enrichment", "result", {}, d, {}) : d \in found}

ElicitationDetection(p) == IF ReadElicitation(p.elicit).asksForSecret THEN "high" ELSE "medium"

ElicitationLines(p) ==
    LET reading == ReadElicitation(p.elicit)
    IN  {Line("mcp.request", "elicitation", reading.text, ElicitationDetection(p), reading.maskSecrets)}

(* ElicitationResult: server, mode, id and action; SessionStart: its       *)
(* source, model and cwd; another event: the names of its keys.            *)
CcEvent == {Line("cc.event", "none", {}, "none", {})}

Lines(p, masks) ==
    CASE p.event = "Elicitation" -> ElicitationLines(p)
      [] IsPair(p)               -> RequestLines(p, masks) \cup ResponseLines(p, masks)
      [] OTHER                   -> CcEvent

Ingest ==
    /\ at = "spooled" /\ key["app"] # "none"
    /\ lines' = IF Parsed(file) THEN Lines(file.payload, HookMasks(file)) ELSE CcEvent
    /\ tampering' = IF Parsed(file) /\ IsPair(file.payload) THEN AuditTrailModification(file.payload) ELSE {}
    /\ at' = "ingested"
    /\ UNCHANGED <<saltVars, given, entry, hook, cut, file>>

Next == Invoke \/ ResolveAuditKey \/ Spool \/ Ingest

Spec == Init /\ [][Next]_vars

-----------------------------------------------------------------------------
(* TypedNeverKept: what a user typed into a form is in no line of the      *)
(* trail, and in the spool only where the hook is a build from before the  *)
(* stripping, or its entry does not name the event and the payload was cut *)
(* before it says so.                                                      *)
TypedNeverKept ==
    /\ \A l \in lines : "typed" \notin l.text
    /\ file.payload # NoPayload /\ "typed" \in PayloadText(file.payload) =>
         hook = "raw" \/ given.event # "ElicitationResult" \/ (~ entry /\ cut = "early")

(* Whole: the app read everything the hook was given.                      *)
Whole == at = "ingested" /\ Parsed(file) /\ IsPair(given)

Reported(place) == \E l \in lines : l.place = place /\ l.detection = "credential_detected"

(* A mask already in the text, of a credential that is also in clear       *)
(* elsewhere in this payload.                                              *)
Quoted(text) == file.masked \cap text # {}

Leaked(text) == "secret" \in text \/ Quoted(text)

(* LeaksReported: a credential in the arguments or the text of a result is *)
(* reported there and only there, whether the hook or the app masked it,   *)
(* and a mask the text quotes is not, unless this payload holds the same   *)
(* credential; nothing a line reports is in clear in it, and only what no  *)
(* detector reads of an unmasked file is kept in clear.                    *)
LeaksReported ==
    /\ Whole => /\ Reported("params") <=> Leaked(RequestScanText(given))
                /\ Reported("result") <=> Leaked(ResponseScanText(given))
    /\ \A l \in lines : "secret" \in l.text =>
          /\ hook = "raw" /\ ~ Reported(l.place)
          /\ l.type = "mcp.response" /\ "secret" \in given.other

(* TamperingReported: the writes and deletes of a Bash command on the data *)
(* folder are reported, no other, for the commands the detector reads.     *)
TamperingReported ==
    Whole /\ given.tool = "Bash" /\ Literal(given.command) /\ CwdFollowed(given.command) =>
        tampering = RealOps(given.command, given.cwd)
=============================================================================
