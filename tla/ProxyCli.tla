------------------------------ MODULE ProxyCli ------------------------------
(* What a command line of xcg-proxy starts (packages/proxy/src/main.ts,    *)
(* main and the runners of its subcommands).  A token is a name.           *)
EXTENDS Integers, Sequences, FiniteSets

CONSTANTS
    OptionLike,   \* tokens longer than one character that begin with "-"
    WebUrls       \* tokens that parse as a URL

Usage == [does |-> "usage"]

Unset == "no value"

-----------------------------------------------------------------------------
(* Node's parseArgs, strict, with options that each take one value         *)

Wrong == [ok |-> FALSE]

(* Where the options end: at "--", after which all is positional.          *)
End(args) ==
    LET dashes == {i \in DOMAIN args : args[i] = "--"}
    IN  IF dashes = {} THEN Len(args) + 1 ELSE CHOOSE i \in dashes : \A j \in dashes : i <= j

PlacesOf(o, args) == {i \in 1..End(args) - 1 : args[i] = o}

(* Neither an option nor the value of one.                                 *)
Words(options, args) ==
    {i \in 1..End(args) - 1 : args[i] \notin OptionLike /\ \A o \in options : i - 1 \notin PlacesOf(o, args)}

(* An option takes the next token, which must not look like an option.     *)
Accepted(options, args) ==
    \A i \in 1..End(args) - 1 :
        args[i] \in OptionLike => args[i] \in options /\ i < Len(args) /\ args[i + 1] \notin OptionLike

(* The last of two equal options counts.                                   *)
ValueOf(o, args) ==
    IF PlacesOf(o, args) = {} THEN Unset
    ELSE args[(CHOOSE i \in PlacesOf(o, args) : \A j \in PlacesOf(o, args) : j <= i) + 1]

(* The tokens at these places, as they come.                               *)
TokensAt(places, args) ==
    IF places = {} THEN <<>>
    ELSE [k \in 1..Cardinality(places) |-> args[CHOOSE i \in places : Cardinality({j \in places : j <= i}) = k]]

Positionals(options, args) == TokensAt(Words(options, args), args) \o SubSeq(args, End(args) + 1, Len(args))

ParsedArgs(options, args) ==
    IF ~ Accepted(options, args) THEN Wrong
    ELSE [ok |-> TRUE, values |-> [o \in options |-> ValueOf(o, args)], positionals |-> Positionals(options, args)]

-----------------------------------------------------------------------------
RunStdioMain(rest) ==
    LET p == ParsedArgs({"--wrap", "--name"}, rest)
    IN  IF ~ p.ok \/ p.values["--wrap"] = Unset \/ p.values["--name"] = Unset THEN Usage
        ELSE [does |-> "stdio", name |-> p.values["--name"],
              cmd |-> p.values["--wrap"], args |-> p.positionals]

Remote(does, options, rest) ==
    LET p == ParsedArgs(options, rest)
    IN  IF \/ ~ p.ok \/ p.positionals # <<>>
           \/ p.values["--url"] \notin WebUrls \/ p.values["--name"] = Unset
        THEN Usage
        ELSE [does |-> does, name |-> p.values["--name"], url |-> p.values["--url"]]

RunHttpMain(rest) == Remote("http", {"--url", "--name"}, rest)

RunLoginMain(rest) == Remote("login", {"--url", "--name", "--scope"}, rest)

(* Entries of builds without subcommands begin with "--wrap".              *)
Main(argv) ==
    LET normalized == IF argv # <<>> /\ argv[1] = "--wrap" THEN <<"stdio">> \o argv ELSE argv
    IN  IF normalized = <<>> THEN Usage
        ELSE CASE normalized[1] = "stdio" -> RunStdioMain(Tail(normalized))
               [] normalized[1] = "http"  -> RunHttpMain(Tail(normalized))
               [] normalized[1] = "login" -> RunLoginMain(Tail(normalized))
               [] OTHER -> Usage
=============================================================================
