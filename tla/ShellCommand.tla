---------------------------- MODULE ShellCommand ----------------------------
(***************************************************************************)
(* Which writes and deletes a Bash command performs on the data folder, as *)
(* audit_trail_modification reads it (packages/proxy/src/detection/        *)
(* detectors/audit-trail-modification.ts) and as the shell performs them.  *)
(*                                                                         *)
(* A command is a sequence of segments [pre, form, p, q, into, sep], as    *)
(* splitSegments cuts it: a form is one way to call a utility on the paths *)
(* p and q, into the target of its redirection ("none": it has none), sep  *)
(* what ends it; ")" closes a subshell that began with the command.        *)
(* A path is a place (absolute, or ~), relative to the current directory   *)
(* ("name", "folder": the name of the data folder, "up", "."), or held in  *)
(* a variable ("var").  The places are the data folder, a folder in it,    *)
(* the one it is in, elsewhere, and a glob that matches it.                *)
(***************************************************************************)
EXTENDS Naturals, Sequences, SequencesExt

Place == {"in", "data", "parent", "out", "glob"}

InsideDataDir(place) == place \in {"in", "data", "glob"}

Under == [in     |-> [name |-> "in",  folder |-> "in",   up |-> "data"],
          data   |-> [name |-> "in",  folder |-> "in",   up |-> "parent"],
          parent |-> [name |-> "out", folder |-> "data", up |-> "out"],
          out    |-> [name |-> "out", folder |-> "out",  up |-> "out"]]

(* A literal path, or "unknown".                                           *)
ResolvePath(path, cwd) ==
    CASE path \in Place                 -> path
      [] path = "var"                   -> "unknown"
      [] cwd \in {"unknown", "glob"}    -> "unknown"
      [] path = "."                     -> cwd
      [] OTHER                          -> Under[cwd][path]

BaseName(path) == CASE path = "data" -> "folder" [] path \in {".", "up"} -> path [] OTHER -> "name"

-----------------------------------------------------------------------------
(* The words of each form: options, paths and other words (a mode, a       *)
(* script, a suffix), which a reader takes for relative paths.             *)
Opt(o) == [k |-> "option", w |-> o]
Path(p) == [k |-> "path", w |-> p]
Other == [k |-> "other", w |-> "name"]
Of(p) == [k |-> "of", w |-> p]

Call(cmd, words, op, acts) == [cmd |-> cmd, words |-> words, op |-> op, acts |-> acts]

(* acts: the paths the utility itself writes or removes.                   *)
Calls(p, q) ==
    [ rm       |-> Call("rm", <<Opt("-r"), Path(p)>>, "delete", {p}),
      rmDash   |-> Call("rm", <<Opt("--"), Path(p), Path(q)>>, "delete", {p, q}),
      truncate |-> Call("truncate", <<Opt("-s"), Other, Path(p)>>, "delete", {p}),
      find     |-> Call("find", <<Path(p), Opt("-name"), Other, Opt("-delete")>>, "delete", {p}),
      findHere |-> Call("find", <<Opt("-delete")>>, "delete", {"."}),
      findRead |-> Call("find", <<Path(p)>>, "delete", {}),
      cp       |-> Call("cp", <<Path(q), Path(p)>>, "write", {p}),
      cpTo     |-> Call("cp", <<Opt("-t"), Path(p), Path(q)>>, "write", {p}),
      cpSuffix |-> Call("cp", <<Opt("-S"), Other, Path(q), Path(p)>>, "write", {p}),
      install  |-> Call("install", <<Opt("-d"), Path(p), Path(q)>>, "write", {p, q}),
      ln       |-> Call("ln", <<Opt("-s"), Path(q), Path(p)>>, "write", {p}),
      lnHere   |-> Call("ln", <<Opt("-s"), Path(p)>>, "write", {BaseName(p)}),
      dd       |-> Call("dd", <<Path(q), Of(p)>>, "write", {p}),
      mv       |-> Call("mv", <<Path(p), Path(q)>>, "write", {p, q}),
      chmod    |-> Call("chmod", <<Other, Path(p)>>, "write", {p}),
      chmodW   |-> Call("chmod", <<Opt("-w"), Path(p)>>, "write", {p}),
      touch    |-> Call("touch", <<Opt("-t"), Other, Path(p)>>, "write", {p}),
      sed      |-> Call("sed", <<Opt("-i"), Other, Path(p)>>, "write", {p}),
      sedE     |-> Call("sed", <<Opt("-i"), Opt("-e"), Other, Path(p)>>, "write", {p}),
      sedRead  |-> Call("sed", <<Other, Path(p)>>, "write", {}),
      perl     |-> Call("perl", <<Opt("-i"), Opt("-e"), Other, Path(p)>>, "write", {p}),
      cat      |-> Call("cat", <<Path(p)>>, "write", {}),
      cd       |-> Call("cd", <<Path(p)>>, "write", {}),
      cdHome   |-> Call("cd", << >>, "write", {}),
      cdBack   |-> Call("cd", <<Opt("-")>>, "write", {}) ]

CallOf(seg) == Calls(seg.p, seg.q)[seg.form]

-----------------------------------------------------------------------------
(* parseArgs: options, those that take a value with it, and operands.      *)
ValueOpts ==
    [ cmd \in {"truncate", "cp", "install", "ln", "mv", "touch", "sed", "perl"} |->
        CASE cmd = "truncate"           -> {"-s", "-r"}
          [] cmd \in {"cp", "ln", "mv"} -> {"-t", "-S"}
          [] cmd = "install"            -> {"-m", "-o", "-g", "-t"}
          [] cmd = "touch"              -> {"-t", "-d", "-r", "-A"}
          [] cmd = "sed"                -> {"-e", "-f", "-l"}
          [] cmd = "perl"               -> {"-e", "-E", "-I"} ]

TakesValue(cmd, w) == w.k = "option" /\ cmd \in DOMAIN ValueOpts /\ w.w \in ValueOpts[cmd]

IsValue(cmd, words, i) == i > 1 /\ TakesValue(cmd, words[i - 1])

OperandsWithValues(cmd, words) == SelectSeq(words, LAMBDA w : w.k # "option")

Operands(cmd, words) ==
    LET at == SetToSortSeq({i \in DOMAIN words : words[i].k # "option" /\ ~ IsValue(cmd, words, i)}, <)
    IN  [n \in DOMAIN at |-> words[at[n]]]

HasOption(words, o) == Opt(o) \in {words[i] : i \in DOMAIN words}

ValuesOf(cmd, words, o) ==
    {words[i] : i \in {j \in DOMAIN words : IsValue(cmd, words, j) /\ words[j - 1] = Opt(o)}}

(* segmentOps: the words a command writes or removes, command by command.  *)
Targets(cmd, words) ==
    LET operands == Operands(cmd, words)
        target == ValuesOf(cmd, words, "-t")
        rest == ToSet(IF operands = << >> THEN << >> ELSE Tail(operands))
    IN  CASE cmd \in {"rm", "truncate", "mv"} -> ToSet(operands) \cup (IF cmd = "mv" THEN target ELSE {})
          [] cmd = "find" ->
                IF ~ HasOption(words, "-delete") THEN {}
                ELSE IF words[1].k = "path" THEN {words[1]} ELSE {Path(".")}
          [] cmd \in {"cp", "install"} ->
                IF target # {} THEN target
                ELSE IF cmd = "install" /\ HasOption(words, "-d") THEN ToSet(operands)
                ELSE IF Len(operands) >= 2 THEN {Last(operands)} ELSE {}
          [] cmd = "ln" ->
                IF target # {} THEN target
                ELSE IF Len(operands) >= 2 THEN {Last(operands)} ELSE {Path(BaseName(operands[1].w))}
          [] cmd = "dd" -> {w \in ToSet(words) : w.k = "of"}
          [] cmd = "chmod" -> IF HasOption(words, "-w") THEN ToSet(operands) ELSE rest
          [] cmd \in {"touch", "tee"} -> ToSet(operands)
          [] cmd \in {"sed", "perl"} ->
                IF ~ HasOption(words, "-i") THEN {}
                ELSE IF ValuesOf(cmd, words, "-e") # {} THEN ToSet(operands) ELSE rest
          [] OTHER -> {}

OpOf(cmd) == IF cmd \in {"rm", "truncate", "find"} THEN "delete" ELSE "write"

Hit(word, cwd) == InsideDataDir(ResolvePath(word.w, cwd))

(* executable: assignments and the wrappers env and sudo are dropped; a    *)
(* lookup (command -v) runs nothing.                                       *)
Executable(seg) == IF seg.pre = "lookup" THEN {} ELSE {CallOf(seg)}

Redirection(seg) == {Path(r) : r \in {seg.into} \ {"none"}}

SegmentOps(seg, cwd) ==
    {<<"write", ">">> : r \in {w \in Redirection(seg) : Hit(w, cwd)}}
    \cup UNION { {<<OpOf(exe.cmd), exe.cmd>> : w \in {x \in Targets(exe.cmd, exe.words) : Hit(x, cwd)}}
                 : exe \in Executable(seg) }

(* cd <literal path> && moves the directory for what follows.              *)
MovedTo(seg, cwd) ==
    CASE seg.form = "cdHome" -> "out"
      [] seg.form = "cdBack" -> "unknown"
      [] OTHER               -> ResolvePath(seg.p, cwd)

IsCd(seg) == seg.pre # "lookup" /\ CallOf(seg).cmd = "cd"

CwdOf(command, start) ==
    LET cwd[i \in 1 .. Len(command)] ==
            IF i = 1 THEN start
            ELSE IF IsCd(command[i - 1]) /\ command[i - 1].sep = "&&" THEN MovedTo(command[i - 1], cwd[i - 1])
            ELSE cwd[i - 1]
    IN  cwd

BashOps(command, start) ==
    UNION {SegmentOps(command[i], CwdOf(command, start)[i]) : i \in DOMAIN command}

-----------------------------------------------------------------------------
(* The reference: the operations the command performs if every segment of  *)
(* it runs.  A utility acts on its own paths; a cd moves the shell it runs *)
(* in, whatever follows it, and a subshell takes its directory with it.    *)
Piped(command, i) == command[i].sep = "|" \/ (i > 1 /\ command[i - 1].sep = "|")

RealCwd(command, start) ==
    LET cwd[i \in 1 .. Len(command)] ==
            IF i = 1 \/ command[i - 1].sep = ")" THEN start
            ELSE IF IsCd(command[i - 1]) /\ ~ Piped(command, i - 1) THEN MovedTo(command[i - 1], cwd[i - 1])
            ELSE cwd[i - 1]
    IN  cwd

RealOps(command, start) ==
    LET ops(seg, cwd) ==
            {<<"write", ">">> : r \in {x \in {seg.into} : x # "none" /\ InsideDataDir(ResolvePath(x, cwd))}}
            \cup (IF seg.pre = "lookup" THEN {}
                  ELSE {<<CallOf(seg).op, CallOf(seg).cmd>> :
                            x \in {y \in CallOf(seg).acts : InsideDataDir(ResolvePath(y, cwd))}})
    IN  UNION {ops(command[i], RealCwd(command, start)[i]) : i \in DOMAIN command}

(* What the reading leaves out: a path in a variable, "cd -", a cd that is *)
(* not chained with && or that a subshell or a pipe contains.              *)
Literal(command) ==
    \A i \in DOMAIN command :
        /\ command[i].form # "cdBack"
        /\ "var" \notin {command[i].p, command[i].q, command[i].into}

CwdFollowed(command) ==
    \A i \in DOMAIN command : IsCd(command[i]) =>
        i = Len(command)
        \/ (command[i].sep = "&&" /\ ~ Piped(command, i) /\ \A j \in i .. Len(command) - 1 : command[j].sep # ")")
=============================================================================
