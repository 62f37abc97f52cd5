--------------------------- MODULE MCStdioWrapper ---------------------------
(* StdioWrapper with small constants: see the .cfg files. *)
EXTENDS StdioWrapper

CONSTANTS a, b, s

\* Two requests of the client and one of the server, all with the same id.
MCIdOf == [r \in {a, b, s} |-> 1]
=============================================================================
