------------------------------ MODULE MCConfig ------------------------------
EXTENDS ClaudeConfig, McpJson

TheXcg == [p \in Proc |-> IF p = "app" THEN "stable" ELSE "devbin"]

Npx == Entry("stdio", "npx", <<"-y", "pkg@1">>, "env")
Docker == Entry("stdio", "docker", <<"run", "-e", "k", "img">>, "none")
Uvx == Entry("stdio", "uvx", <<"--from", "pkg", "tool">>, "none")
Bare == Entry("http", NoCmd, <<>>, "url")

TheGiven == {Uvx, Bare}

Legacy == Entry("stdio", "devbin", <<"--wrap", "npx", "--name", "n1", "--", "-y", "pkg@1">>, "env")

(* One local server, of a name that looks like an option; two, one of them *)
(* wrapped by an old version; no file.                                     *)
TheFiles ==
    {[file |-> Config([n \in {"-s"} |-> Npx], "keys"),
      own  |-> [n \in Name |-> IF n = "-s" THEN {Npx} ELSE {}]],
     [file |-> Config([n \in {"n1", "-s"} |-> IF n = "n1" THEN Legacy ELSE Docker], "keys"),
      own  |-> [n \in Name |-> IF n = "n1" THEN {Npx} ELSE {Docker}]],
     [file |-> Failure("not-found"), own |-> [n \in Name |-> {}]]}

Bridge == Entry("stdio", "stable", <<"http", "--url", "https:u", "--name", "n1">>, "none")

TheForeign == {Bare, [Bridge EXCEPT !.cmd = "devbin"], WrapEntry("n1", Npx, "devbin")}
TheServers == [n \in {"n1"} |-> Npx]

VARIABLE scene

(* One scene at a time moves, and the other rests in one state.            *)
MCInit ==
    /\ Init /\ McpInit
    /\ \/ scene = "desktop" /\ gating = [enabled |-> {}, disabled |-> {}]
       \/ scene = "project" /\ link = "absent" /\ Missing

MCNext ==
    /\ UNCHANGED scene
    /\ IF scene = "desktop" THEN Next /\ UNCHANGED mvars ELSE McpNext /\ UNCHANGED vars

MCSpec == MCInit /\ [][MCNext]_<<vars, mvars, scene>>

(* What a user has of servers in either file stays there, whatever the app *)
(* and the CLI do: ClaudeConfig of the file of Claude Desktop, McpJson of  *)
(* that of Claude Code.                                                    *)
UserServersKept == UserEntriesKept /\ ServersKept
=============================================================================
