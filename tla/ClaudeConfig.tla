---------------------------- MODULE ClaudeConfig ----------------------------
(* claude_desktop_config.json and the stable launcher link.  Two of our    *)
(* processes write the file, the desktop app (the handlers of the Setup    *)
(* screen and the repair) and the xcg-config command; Claude Desktop and   *)
(* the user write it as well, and the app bundle moves.  Each handler is   *)
(* synchronous in its own process: it reads, computes, and writes through  *)
(* writeAtomic; the other writers act between its system calls.            *)
EXTENDS ConfigFile

CONSTANTS
    Name,          \* server names
    Url,           \* remote urls
    Xcg,           \* [Proc -> path]: the command each process writes
    Link,          \* the stable link's path
    Target,        \* the launcher inside the app bundle
    Binaries,      \* paths that may hold a launcher
    Given,         \* entries the user or Claude Desktop may write
    InitialFiles,  \* [file, own]: the file before the first run, and what was written in it
    OptionLike,    \* tokens that look like an option
    MaxOps, MaxEdits, MaxFaults

Cli == INSTANCE ProxyCli WITH WebUrls <- Url

Proc == {"app", "cli"}

ASSUME ConfigAssumption ==
    /\ Link \in Proxies /\ Target \in Binaries /\ Link \notin Binaries
    /\ Xcg \in [Proc -> Proxies] /\ "-s" \notin SafeNames

\* What a reader makes of a config that is one.
IsEntry(e) == e = Entry(e.type, e.cmd, e.args, e.rest)

IsConfig(c) ==
    /\ c = Config(c.mcp, c.rest) /\ DOMAIN c.mcp \subseteq Name
    /\ \A n \in DOMAIN c.mcp : IsEntry(c.mcp[n])

\* The others write no entry of ours.
ASSUME OthersAssumption ==
    /\ \A i \in InitialFiles : i.file \in Failures \/ IsConfig(i.file)
    /\ \A e \in Given : IsEntry(e) /\ ~ IsAlreadyWrapped(e)

\* A server of someone else, and what a version of xCLAUDE made of it, the
\* first without its subcommand.
IsOthers(u) == IsServer(u) /\ u.cmd \notin Proxies \union {Cli!Unset}

IsWrapOf(n, e, u) ==
    LET bare == <<"--wrap", u.cmd, "--name", n, "--">> \o u.args IN
    /\ e \in {Entry(u.type, e.cmd, args, u.rest) : args \in {bare, <<"stdio">> \o bare}}
    /\ e.cmd \in Proxies /\ u.cmd # NoCmd

\* Our commands, the names of bridges and urls do not look like options; the
\* names and the commands of others may.
ASSUME ServersAssumption ==
    /\ {"--", "--wrap", "--url", "--name"} \subseteq OptionLike
    /\ (Proxies \union SafeNames \union Url) \intersect OptionLike = {} /\ Cli!Unset \notin Name \union Url
    /\ NoCmd \notin Proxies
    /\ \A e \in Given : IsOthers(e)
    /\ \A i \in InitialFiles :
           /\ i.own = [n \in Name |-> i.own[n]]
           /\ Readable(i.file) => \A n \in DOMAIN i.file.mcp :
                  \E u \in i.own[n] : IsOthers(u) /\ (i.file.mcp[n] = u \/ IsWrapOf(n, i.file.mcp[n], u))

VARIABLES
    file,    \* the config, or why it cannot be read
    bak,     \* its .bak, or the lack of it
    link,    \* what the stable link is: "absent", "plain" or a path
    bins,    \* the launchers on disk
    op,      \* [Proc -> the handler under way, or Idle]
    said,    \* the last answer
    own,     \* [Name -> entries written for it by others]
    asked,   \* [Name -> urls of the bridges written for it]
    used     \* counters of the bounds

vars == <<file, bak, link, bins, op, said, own, asked, used>>

NoBackup == Failure("no backup")

Idle == [k |-> "idle"]
NoAnswer == [k |-> "none"]

Original(e) == IF IsAlreadyWrapped(e) /\ ~IsHttp(e) THEN UnwrapEntry(e) ELSE e

Init ==
    /\ bak = NoBackup /\ link \in {"absent", Target, "old"} /\ bins = Binaries
    /\ op = [p \in Proc |-> Idle] /\ said = NoAnswer
    /\ \E i \in InitialFiles : file = i.file /\ own = i.own
    /\ asked = [n \in Name |-> {}]
    /\ used = [ops |-> 0, edits |-> 0, faults |-> 0, alone |-> TRUE]

Exists(path) == IF path = Link THEN link = "plain" \/ link \in bins ELSE path \in bins

Busy(p) == op[p].k # "idle"

\* The counters, and whether nobody was under way.
Counted(ops, edits, faults, alone) ==
    used' = [ops |-> used.ops + ops, edits |-> used.edits + edits, faults |-> used.faults + faults,
             alone |-> used.alone /\ alone]

(* An answer, and the handler is over.                                     *)
Answer(p, a) == said' = a /\ op' = [op EXCEPT ![p] = Idle]

Reply(k, out) == [k |-> k, out |-> out]

-----------------------------------------------------------------------------
(* The handlers: what each makes of the config it has read                 *)

Result(out, want) == [out |-> out, want |-> want]

InstallOf(p, c, only) ==
    IF (IF only = All THEN Of(c, "wrappable") = {} ELSE only \notin Of(c, "wrappable"))
    THEN Result("noop", c) ELSE Result("wrote", ApplyWrap(c, Xcg[p], only))

UninstallOf(c) == IF Of(c, "already-wrapped") = {} THEN Result("noop", c) ELSE Result("wrote", Unwrap(c))

AddRemoteOf(p, c, n, url) ==
    CASE n \notin SafeNames -> Result("invalid-name", c)
      [] url \notin Url     -> Result("invalid-url", c)
      [] Taken(c, n)        -> Result("name-exists", c)
      [] OTHER              -> Result("wrote", ReplaceRemote(c, n, url, Xcg[p]))

RemoveRemoteOf(c, n) == IF Removable(c, n) THEN Result("wrote", RemoveRemote(c, n)) ELSE Result("noop", c)

Broken(c) == {n \in DOMAIN c.mcp : IsAlreadyWrapped(c.mcp[n]) /\ ~Exists(c.mcp[n].cmd)}

RepairOf(c) ==
    IF Broken(c) = {} THEN Result("noop", c)
    ELSE Result("wrote", [c EXCEPT !.mcp = [n \in DOMAIN c.mcp |-> IF n \in Broken(c) THEN [c.mcp[n] EXCEPT !.cmd = Link] ELSE c.mcp[n]]])

ResultOf(p, k, c, n, url, only) ==
    CASE k = "install"   -> InstallOf(p, c, only)
      [] k = "uninstall" -> UninstallOf(c)
      [] k = "add"       -> AddRemoteOf(p, c, n, url)
      [] k = "remove"    -> RemoveRemoteOf(c, n)
      [] OTHER           -> RepairOf(c)

Missing == file = Failure("not-found")

(* A missing file has an answer of its own.                                *)
ParseError(p, k) ==
    CASE k \in {"status", "connected"} /\ Missing -> "empty"
      [] k \in {"install", "uninstall"} /\ p = "app" /\ Missing -> "unreadable"
      [] OTHER -> file.err

(* Whether nobody else has acted since the handler began.                  *)
Calm(p) == Busy(p) => op[p].calm

(* Reads the file; a dry run and a handler with nothing to write answer    *)
(* at once, the others go on to writeAtomic.                               *)
Parse(p, k, n, url, only, mode) ==
    IF ~Readable(file) THEN Answer(p, Reply(k, ParseError(p, k)))
    ELSE LET r == ResultOf(p, k, file, n, url, only) IN
         IF mode = "dry-run" THEN Answer(p, Reply(k, IF r.out = "noop" THEN "noop" ELSE "would_write"))
         ELSE IF r.out = "wrote"
         THEN /\ op' = [op EXCEPT ![p] = [k |-> k, at |-> "backup", want |-> r.want, name |-> n, url |-> url, calm |-> Calm(p)]]
              /\ said' = NoAnswer
         ELSE IF k = "repair" THEN op' = [op EXCEPT ![p] = [k |-> k, at |-> "validate", calm |-> Calm(p)]] /\ UNCHANGED said
         ELSE Answer(p, Reply(k, r.out))

(* From now on something the handler read may have changed under it.       *)
Disturbed(o, p) == [q \in Proc |-> IF q # p /\ "calm" \in DOMAIN o[q] THEN [o[q] EXCEPT !.calm = FALSE] ELSE o[q]]

Start(p) ==
    /\ ~Busy(p) /\ used.ops < MaxOps
    /\ Counted(1, 0, 0, \A q \in Proc : ~Busy(q))
    /\ UNCHANGED <<file, bak, link, bins, own, asked>>

Install(p) == Start(p) /\ \E only \in {All} \union (IF p = "app" THEN Name ELSE {}), mode \in {"yes", "dry-run"} :
                  Parse(p, "install", Nobody, Nobody, only, mode)
Uninstall(p) == Start(p) /\ \E mode \in {"yes", "dry-run"} : Parse(p, "uninstall", Nobody, Nobody, All, mode)
AddRemote == Start("app") /\ \E n \in Name \union {"-s"}, url \in Url \union {"file:"} : Parse("app", "add", n, url, All, "yes")
RemoveRemoteEntry == Start("app") /\ \E n \in Name : Parse("app", "remove", n, Nobody, All, "yes")

(* The list of connectors, and whether a name has a bridge.                *)
Status(p) ==
    /\ Start(p)
    /\ IF ~Readable(file) THEN Answer(p, Reply("status", ParseError(p, "status")))
       ELSE Answer(p, [k |-> "status", out |-> {Connector(n, file.mcp[n]) : n \in DOMAIN file.mcp}])

IsConnected(n) ==
    /\ Start("app")
    /\ IF ~Readable(file) THEN Answer("app", Reply("connected", ParseError("app", "connected")))
       ELSE Answer("app", Reply("connected", Taken(file, n) /\ IsAlreadyWrapped(file.mcp[n]) /\ IsHttp(file.mcp[n])))

-----------------------------------------------------------------------------
(* writeAtomic: a copy kept from the first write on, then a rename         *)

Stage(p, at) == op' = [op EXCEPT ![p].at = at]

WriteError(p) == Answer(p, Reply(op[p].k, "unreadable"))

At(p, at) == Busy(p) /\ op[p].at = at

(* Mutant: a backup before every write.                                    *)
LookForBackupAgain(p) ==
    /\ At(p, "backup") /\ Stage(p, "copy")
    /\ UNCHANGED <<file, bak, link, bins, said, own, asked, used>>

LookForBackup(p) ==
    /\ At(p, "backup") /\ Stage(p, IF bak = NoBackup THEN "copy" ELSE "rename")
    /\ UNCHANGED <<file, bak, link, bins, said, own, asked, used>>

(* The file as it is now, which need not be what was parsed.               *)
CopyBackup(p) ==
    /\ At(p, "copy")
    /\ IF file.err \in {"not-found", "unreadable"} THEN bak' = bak /\ WriteError(p)
       ELSE bak' = file /\ Stage(p, "rename") /\ UNCHANGED said
    /\ UNCHANGED <<file, link, bins, own, asked, used>>

Rename(p) ==
    /\ At(p, "rename")
    /\ \/ /\ ~Missing /\ file' = op[p].want
          /\ asked' = IF op[p].k = "add" THEN [asked EXCEPT ![op[p].name] = @ \union {op[p].url}] ELSE asked
          /\ IF op[p].k = "repair"
             THEN op' = [Disturbed(op, p) EXCEPT ![p] = [k |-> "repair", at |-> "validate", calm |-> op[p].calm]] /\ UNCHANGED said
             ELSE op' = [Disturbed(op, p) EXCEPT ![p] = Idle] /\ said' = Reply(op[p].k, "wrote")
          /\ UNCHANGED used
       \/ /\ Missing \/ used.faults < MaxFaults
          /\ WriteError(p) /\ Counted(0, 0, IF Missing THEN 0 ELSE 1, TRUE)
          /\ UNCHANGED <<file, asked>>
    /\ UNCHANGED <<bak, link, bins, own>>

-----------------------------------------------------------------------------
(* The link, the health check and the repair                               *)

(* Mutant: a link that is there is taken to be right.                      *)
EnsureSymlinkExists ==
    IF link = "plain" THEN {[ok |-> FALSE, link |-> link, fault |-> 0]}
    ELSE {[ok |-> TRUE, link |-> IF link = "absent" THEN Target ELSE link, fault |-> 0]}

(* ensureSymlink: a regular file is never replaced; re-pointing removes    *)
(* the old link first, and may stop there.                                 *)
EnsureSymlink ==
    IF link = "plain" THEN {[ok |-> FALSE, link |-> link, fault |-> 0]}
    ELSE {[ok |-> TRUE, link |-> Target, fault |-> 0]}
         \union (IF link # Target /\ used.faults < MaxFaults THEN {[ok |-> FALSE, link |-> "absent", fault |-> 1]} ELSE {})

(* At the start of the app.                                                *)
BootstrapStableSymlink ==
    /\ ~Busy("app") /\ used.edits < MaxEdits /\ link # Target
    /\ \E r \in EnsureSymlink : link' = r.link /\ Counted(0, 1, r.fault, TRUE)
    /\ op' = Disturbed(op, "app")
    /\ UNCHANGED <<file, bak, bins, said, own, asked>>

SymlinkOk == link \in bins

Healthy == SymlinkOk /\ Readable(file) /\ Broken(file) = {}

ValidateHealth ==
    /\ Start("app") /\ Answer("app", [k |-> "health", out |-> Healthy])

Repair ==
    /\ ~Busy("app") /\ used.ops < MaxOps
    /\ \E r \in EnsureSymlink :
        /\ link' = r.link
        /\ Counted(1, 0, r.fault, ~Busy("cli"))
        /\ IF r.ok THEN op' = [op EXCEPT !["app"] = [k |-> "repair", at |-> "parse", calm |-> TRUE]] /\ UNCHANGED said
                   ELSE Answer("app", Reply("repair", "symlink"))
    /\ UNCHANGED <<file, bak, bins, own, asked>>

RepairParse ==
    /\ At("app", "parse")
    /\ Parse("app", "repair", Nobody, Nobody, All, "yes")
    /\ UNCHANGED <<file, bak, link, bins, own, asked, used>>

RepairValidate ==
    /\ At("app", "validate")
    /\ Answer("app", [k |-> "repair", out |-> "ok", health |-> Healthy, calm |-> op["app"].calm /\ Target \in bins])
    /\ UNCHANGED <<file, bak, link, bins, own, asked, used>>

-----------------------------------------------------------------------------
(* The others                                                              *)

Edit == used.edits < MaxEdits /\ Counted(0, 1, 0, TRUE) /\ op' = Disturbed(op, Nobody) /\ UNCHANGED <<bak, said>>

UserWrites(n, e) ==
    /\ Edit /\ Readable(file)
    /\ file' = [file EXCEPT !.mcp = [m \in DOMAIN file.mcp \union {n} |-> IF m = n THEN e ELSE file.mcp[m]]]
    /\ own' = [own EXCEPT ![n] = @ \union {e}]
    /\ UNCHANGED <<link, bins, asked>>

(* Claude Desktop drops the entries it does not understand.                *)
ClaudeDrops ==
    /\ Edit /\ Readable(file) /\ Of(file, "no-command") # {}
    /\ file' = [file EXCEPT !.mcp = [n \in DOMAIN file.mcp \ Of(file, "no-command") |-> file.mcp[n]]]
    /\ UNCHANGED <<link, bins, own, asked>>

FileBreaks == Edit /\ file' \in Failures \ {file} /\ UNCHANGED <<link, bins, own, asked>>

UserRestores == Edit /\ bak # NoBackup /\ file' = bak /\ UNCHANGED <<link, bins, own, asked>>

AppMoves(b) ==
    /\ Edit /\ bins' = (IF b \in bins THEN bins \ {b} ELSE bins \union {b})
    /\ UNCHANGED <<file, link, own, asked>>

LinkReplaced == Edit /\ link' \in {"absent", "plain"} \ {link} /\ UNCHANGED <<file, bins, own, asked>>

(* A process is killed.                                                    *)
Dies(p) ==
    /\ Busy(p) /\ used.faults < MaxFaults
    /\ op' = [op EXCEPT ![p] = Idle] /\ Counted(0, 0, 1, TRUE)
    /\ UNCHANGED <<file, bak, link, bins, said, own, asked>>

WriteAtomic(p) == LookForBackup(p) \/ CopyBackup(p) \/ Rename(p)

Others ==
    \/ \E n \in Name, e \in Given : UserWrites(n, e)
    \/ ClaudeDrops \/ FileBreaks \/ UserRestores \/ LinkReplaced
    \/ \E b \in Binaries : AppMoves(b)

Next ==
    \/ \E p \in Proc : Install(p) \/ Uninstall(p) \/ Status(p) \/ WriteAtomic(p) \/ Dies(p)
    \/ AddRemote \/ RemoveRemoteEntry \/ (\E n \in Name : IsConnected(n))
    \/ BootstrapStableSymlink \/ ValidateHealth \/ Repair \/ RepairParse \/ RepairValidate
    \/ Others

Spec == Init /\ [][Next]_vars

-----------------------------------------------------------------------------
(* Properties                                                              *)

(* What Unwrap makes of a bridge: it has no command to give back.          *)
Mangled(e) == Original(e).cmd = "--url"

(* What Claude Desktop starts with an entry.                               *)
Starts(n, e) ==
    IF e.cmd \in Proxies THEN Cli!Main(e.args) ELSE [does |-> "stdio", name |-> n, cmd |-> e.cmd, args |-> e.args]

EntryKept(n, e) ==
    \/ \E u \in own[n] :
           /\ u = Original(e) /\ Endpoint(e) = Endpoint(u) /\ Launch(e) = Launch(u)
           /\ Starts(n, e) = Starts(n, u) \/ {n, u.cmd} \intersect OptionLike # {}
    \/ \E url \in asked[n] :
           IsHttpWrapped(e) /\ e.args[3] = url /\ Starts(n, e) = [does |-> "http", name |-> n, url |-> url]
    \/ Mangled(e) /\ asked[n] # {}

(* However installs, uninstalls, additions, removals and repairs of both   *)
(* processes fall between the edits of others, every entry of the file and *)
(* of its backup gives back, unwrapped once, exactly what was written for  *)
(* that name, is listed with that entry's endpoint and launch command and  *)
(* makes Claude Desktop start that very server under that name, or is and  *)
(* starts the bridge that was asked for.  Two exceptions are the code's: a *)
(* name or a command that looks like an option is wrapped too, and the     *)
(* wrap is refused when it starts; an uninstall mangles a bridge.          *)
UserEntriesKept ==
    \A c \in {f \in {file, bak} : Readable(f)} : \A n \in DOMAIN c.mcp : EntryKept(n, c.mcp[n])

Ours(c) == Of(c, "already-wrapped")

(* The backup, once taken, is the file from before xCLAUDE for good: a     *)
(* reinstall, a repair or the other process never replaces it by a file    *)
(* with entries of ours.  Two handlers under way at once may.              *)
BackupFromBefore ==
    used.alone /\ Readable(bak) => Ours(bak) \subseteq {n \in Name : \E i \in InitialFiles : Readable(i.file) /\ n \in Ours(i.file)}

(* A repair that answers ok, with nobody else acting from its link to its  *)
(* last check and the launcher in the bundle, leaves a healthy system.     *)
RepairHeals ==
    "calm" \in DOMAIN said /\ said.calm => said.health

(* An uninstall restores entries: it never writes a command nobody wrote.  *)
NoEntryMangled ==
    Readable(file) => \A n \in DOMAIN file.mcp : ~Mangled(file.mcp[n])
=============================================================================
