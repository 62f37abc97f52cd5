----------------------------- MODULE LaunchArgs -----------------------------
(***************************************************************************)
(* What proxy.started records of the command line of the wrapped server    *)
(* (packages/proxy/src/detection/launch-redaction.ts).                     *)
(*                                                                         *)
(* An argument is [flag, form, body, dash]: flag says what a leading       *)
(* "-..." is (NoFlag: it has none); body is the text after "flag=", or of  *)
(* an argument without "=" (Nothing: a naming flag without "="); form is   *)
(* how it reads as a header or as an assignment; dash: it is "-" or "--".  *)
(* A text also holds "opaque": a secret that only its place tells.         *)
(***************************************************************************)
EXTENDS TrailText

NoFlag == "no flag"

FlagKind == {"header", "env", "secret", "plain"}

Form == {"secret header", "auth scheme", "secret variable", "text"}

Nothing == {}

(* mask: the whole value is replaced; a value that is one known credential *)
(* is fingerprinted as one.                                                *)
Mask(body) == IF body = {} THEN {} ELSE {"mask"}

MaskFormats(body) == MaskCredentials(body, CredentialMatches(body), "salt")

UrlSecret == {"userinfo", "queryvalue"}

RedactUrlSecrets(body) == (body \ UrlSecret) \cup {"mask" : u \in body \cap UrlSecret}

RedactText(body) == MaskFormats(RedactUrlSecrets(body))

RedactHeader(form, body) ==
    CASE form = "secret header" -> Mask(body)
      [] form = "auth scheme"   -> {"words"} \cup Mask(body)
      [] OTHER                  -> RedactText(body)

RedactAssignment(form, body) ==
    IF form = "secret variable" THEN Mask(body) ELSE RedactText(body)

RedactAs(flag, form, body) ==
    CASE flag = "header" -> RedactHeader(form, body)
      [] flag = "env"    -> RedactAssignment(form, body)
      [] flag = "secret" -> Mask(body)
      [] OTHER           -> RedactText(body)

(* The next argument is this flag's value only if it is not a flag itself. *)
TakesNext(args, i) ==
    /\ i + 1 \in DOMAIN args
    /\ args[i].flag \in {"header", "env", "secret"} /\ args[i].body = Nothing
    /\ args[i + 1].flag = NoFlag /\ ~ args[i + 1].dash

(* Taken as a value by the argument before it: that one is a flag, so it   *)
(* was not taken itself.                                                   *)
RedactArg(args, i) ==
    IF i > 1 /\ TakesNext(args, i - 1)
        THEN RedactAs(args[i - 1].flag, args[i].form, args[i].body)
    ELSE IF args[i].flag # NoFlag
        THEN RedactAs(args[i].flag, args[i].form, args[i].body)
    ELSE RedactAssignment(args[i].form, args[i].body)

RedactArgs(args) == [i \in DOMAIN args |-> RedactArg(args, i)]
=============================================================================
