----------------------------- MODULE ConfigFile -----------------------------
(* The values of a file that lists MCP servers (claude_desktop_config.json *)
(* and, for Claude Code, .mcp.json) and what the shared functions do to    *)
(* them: recognise an entry of ours, wrap and unwrap it, write, replace    *)
(* and remove a remote bridge, and read what a launch command pins.        *)
(*                                                                         *)
(* An entry is its command and its argument list, token by token, its      *)
(* declared type and whatever else it carries; a token is a name.          *)
EXTENDS Integers, Sequences, FiniteSets

CONSTANTS
    Proxies,     \* commands whose basename is xcg-proxy
    Pinned,      \* package specs that name an exact version
    SafeNames    \* names isSafeRemoteName accepts

NoCmd == "no command"
EmptyCmd == ""
Nobody == "none"

Entry(type, cmd, args, rest) == [type |-> type, cmd |-> cmd, args |-> args, rest |-> rest]

(* An entry whose arguments are a list.                                    *)
IsServer(e) == e = Entry(e.type, e.cmd, e.args, e.rest) /\ e.args \in Seq({e.args[i] : i \in DOMAIN e.args})

(* A config: its servers by name, and its other keys.                      *)
Config(mcp, rest) == [err |-> Nobody, mcp |-> mcp, rest |-> rest]

(* What a reader may find instead of a config.                             *)
Failure(kind) == [err |-> kind]
Failures == {Failure(k) : k \in {"not-found", "unreadable", "invalid-json", "unexpected-shape"}}

Readable(f) == f.err = Nobody

-----------------------------------------------------------------------------
(* Entries of ours                                                         *)

Inner(args) == IF args # <<>> /\ args[1] = "stdio" THEN Tail(args) ELSE args

Contract(args) == Len(args) >= 5 /\ args[1] = "--wrap" /\ args[3] = "--name" /\ args[5] = "--"

IsHttp(e) == e.args # <<>> /\ e.args[1] = "http"

IsAlreadyWrapped(e) ==
    /\ e.cmd \in Proxies
    /\ IF IsHttp(e) THEN Len(e.args) >= 5 /\ e.args[2] = "--url" /\ e.args[4] = "--name"
                    ELSE Contract(Inner(e.args))

IsHttpWrapped(e) == e.cmd \in Proxies /\ IsHttp(e)

(* The token of a command that is not there is an empty one.               *)
CmdToken(e) == IF e.cmd = NoCmd THEN EmptyCmd ELSE e.cmd

WrapEntry(n, e, xcg) ==
    Entry(e.type, xcg, <<"stdio", "--wrap", CmdToken(e), "--name", n, "--">> \o e.args, e.rest)

(* The offsets are those of a local wrap.                                  *)
UnwrapEntry(e) == LET a == Inner(e.args) IN Entry(e.type, a[2], SubSeq(a, 6, Len(a)), e.rest)

RemoteEntry(n, url, xcg) == Entry(Nobody, xcg, <<"http", "--url", url, "--name", n>>, Nobody)

-----------------------------------------------------------------------------
(* What a launch command pins                                              *)

NpxFlags == {"-p", "--package", "-c", "--call"}
UvxFlags == {"--from", "--with", "--python", "-p"}
DockerFlags == {"-e", "-v", "--name", "-c", "--config"}

ValueFlags(launcher) ==
    CASE launcher = "npx" -> NpxFlags [] launcher = "uvx" -> UvxFlags [] OTHER -> DockerFlags

(* The flags whose value names the package itself.                         *)
NamingFlags(launcher) ==
    CASE launcher = "npx" -> {"-p", "--package"} [] launcher = "uvx" -> {"--from"} [] OTHER -> {}

Switches == {"-y", "-q", "-it", "--rm"}

(* Flags and their values up to the first word, which comes after "--"     *)
(* too: how many of the arguments they are.                                *)
Flags(launcher, args) ==
    LET f[i \in 1..Len(args) + 2] ==
            IF i > Len(args) THEN Len(args)
            ELSE IF args[i] = "--" THEN i
            ELSE IF args[i] \in ValueFlags(launcher) THEN f[i + 2]
            ELSE IF args[i] \in Switches THEN f[i + 1]
            ELSE i - 1
    IN  f[1]

Word(launcher, args) ==
    LET n == Flags(launcher, args) + 1 IN IF n \in DOMAIN args THEN args[n] ELSE Nobody

NamedPackages(launcher, args) ==
    {i \in 1..Len(args) - 1 : args[i] \in NamingFlags(launcher) /\ i < Flags(launcher, args)}

(* docker: past the global options, "run" or "container run".              *)
AfterRun(args) ==
    LET rest == SubSeq(args, Flags("docker", args) + 1, Len(args))
        verb == IF rest # <<>> /\ rest[1] = "container" THEN Tail(rest) ELSE rest
    IN  IF verb # <<>> /\ verb[1] = "run" THEN Tail(verb) ELSE <<>>

NoLaunch == [launcher |-> Nobody]

LaunchReference(cmd, given) ==
    LET args  == IF cmd = "docker" THEN AfterRun(given) ELSE given
        named == NamedPackages(cmd, args)
        spec  == IF named # {} THEN args[(CHOOSE i \in named : \A j \in named : i <= j) + 1] ELSE Word(cmd, args)
    IN  IF cmd \notin {"npx", "uvx", "docker"} \/ spec = Nobody THEN NoLaunch
        ELSE [launcher |-> cmd, spec |-> spec, mutable |-> spec \notin Pinned]

-----------------------------------------------------------------------------
(* How an entry reads                                                      *)

Kind(e) == IF e.cmd = NoCmd THEN "no-command" ELSE IF IsAlreadyWrapped(e) THEN "already-wrapped" ELSE "wrappable"

Transport(e) ==
    CASE Kind(e) = "no-command" -> Nobody
      [] Kind(e) = "already-wrapped" /\ IsHttp(e) -> "http"
      [] OTHER -> "stdio"

(* The url of a bridge, the wrapped command of a wrap, the command itself. *)
Endpoint(e) ==
    CASE Kind(e) = "no-command" -> Nobody
      [] Transport(e) = "http" -> e.args[3]
      [] Kind(e) = "already-wrapped" -> Inner(e.args)[2]
      [] OTHER -> e.cmd

Launch(e) ==
    CASE Kind(e) = "no-command" \/ Transport(e) = "http" -> NoLaunch
      [] Kind(e) = "already-wrapped" -> LaunchReference(Endpoint(e), SubSeq(Inner(e.args), 6, Len(Inner(e.args))))
      [] OTHER -> LaunchReference(e.cmd, e.args)

Connector(n, e) ==
    [name   |-> n,
     type   |-> CASE Transport(e) = "http" -> "remote" [] Transport(e) = "stdio" -> "local" [] OTHER -> "unknown",
     status |-> CASE Kind(e) = "already-wrapped" -> "audited" [] Kind(e) = "wrappable" -> "not-audited" [] OTHER -> "unsupported",
     endpoint |-> Endpoint(e), launch |-> Launch(e)]

Of(c, kind) == {n \in DOMAIN c.mcp : Kind(c.mcp[n]) = kind}

-----------------------------------------------------------------------------
(* The new content of a file                                               *)

All == "every entry"

(* Mutant: a wrap with another command is wrapped like any other entry.    *)
ApplyWrapStale(c, xcg, only) ==
    [c EXCEPT !.mcp = [n \in DOMAIN c.mcp |->
        LET e == c.mcp[n] IN
        IF only \in {All, n} /\ e.cmd \notin {NoCmd, xcg} THEN WrapEntry(n, e, xcg) ELSE e]]

(* Wraps what can be wrapped and re-homes what is wrapped with another     *)
(* command; "only" keeps both to one entry.                                *)
ApplyWrap(c, xcg, only) ==
    [c EXCEPT !.mcp = [n \in DOMAIN c.mcp |->
        LET e == c.mcp[n] IN
        IF only \notin {All, n} THEN e
        ELSE IF Kind(e) = "wrappable" THEN WrapEntry(n, e, xcg)
        ELSE IF Kind(e) = "already-wrapped" THEN [e EXCEPT !.cmd = xcg]
        ELSE e]]

Unwrap(c) == [c EXCEPT !.mcp = [n \in DOMAIN c.mcp |-> IF IsAlreadyWrapped(c.mcp[n]) THEN UnwrapEntry(c.mcp[n]) ELSE c.mcp[n]]]

ReplaceRemote(c, n, url, xcg) ==
    [c EXCEPT !.mcp = [m \in DOMAIN c.mcp \union {n} |-> IF m = n THEN RemoteEntry(n, url, xcg) ELSE c.mcp[m]]]

Taken(c, n) == n \in DOMAIN c.mcp

(* Only an entry of ours is removed.                                       *)
Removable(c, n) == Taken(c, n) /\ IsAlreadyWrapped(c.mcp[n])

RemoveRemote(c, n) == [c EXCEPT !.mcp = [m \in DOMAIN c.mcp \ {n} |-> c.mcp[m]]]
=============================================================================
