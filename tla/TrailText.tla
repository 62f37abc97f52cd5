------------------------------ MODULE TrailText ------------------------------
(***************************************************************************)
(* What the two routes into the trail (the wrapper's frames, FrameTrail,   *)
(* and Claude Code's hook, HookTrail) share: detection over a text         *)
(* (packages/proxy/src/detection/engine.ts, detectors/), the masking of    *)
(* credentials (detection/masking.ts) and the whitelist of an elicitation  *)
(* (cchook-elicitation.ts).                                                *)
(*                                                                         *)
(* A text is the set of what it holds:                                     *)
(*   "secret"     a credential of a known format                           *)
(*   "mask"       its mask under the salt of this install                  *)
(*   "ephemeral"  its mask under a key of one process                      *)
(*   "blank"      its mask under the empty key (a salt file of 0 bytes)    *)
(*   "old"        the mask of another credential, quoted                   *)
(*   "inject"     words the prompt_injection rules match                   *)
(*   "typed"      what a user typed, or a default that is the user's       *)
(*   "userinfo", "fragment", "queryvalue"   parts of a URL                 *)
(*   "words"      the rest                                                 *)
(***************************************************************************)
EXTENDS Naturals, Sequences, FiniteSets

MaskToken == {"mask", "ephemeral", "blank"}

Fingerprinted == [salt |-> "mask", ephemeral |-> "ephemeral", blank |-> "blank"]

CredentialMatches(text) == text \cap {"secret"}

MaskCredentials(text, matches, key) ==
    (text \ matches) \cup {Fingerprinted[key] : m \in text \cap matches}

-----------------------------------------------------------------------------
(* Detection.  The chains hold more detectors of the form of               *)
(* prompt_injection (words that match, a category); one stands for them.   *)
CredentialDetected(text) == {c \in {"credential_detected"} : CredentialMatches(text) # {}}

PromptInjection(text) == {c \in {"prompt_injection"} : "inject" \in text}

ContentDetectors(text) == CredentialDetected(text) \cup PromptInjection(text)

EmitDetections(found) == IF found = {} THEN {"tool_call_allowed"} ELSE found

-----------------------------------------------------------------------------
(* An elicitation: mode, message, schema (the names of its fields ask for  *)
(* a secret or not; everything else it says of them) and URL.              *)
NamesASecret(e) == e.names = "secret"

ReadUrl(url) == (url \ {"userinfo", "fragment", "queryvalue"})

ReadElicitation(e) ==
    [ text          |-> e.message
                        \cup (IF e.mode # "url" /\ e.names # "none" THEN {"words"} ELSE {})
                        \cup ReadUrl(e.url),
      asksForSecret |-> e.mode # "url" /\ NamesASecret(e),
      maskSecrets   |-> CredentialMatches(e.message) \cup CredentialMatches(e.url) ]
=============================================================================
