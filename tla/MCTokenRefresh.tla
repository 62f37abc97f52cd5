--------------------------- MODULE MCTokenRefresh ---------------------------
(* TokenRefresh with small constants: see the .cfg files. *)
EXTENDS TokenRefresh, TLC

CONSTANTS c1, c2, c3, p1, p2

\* Two requests of one process and one of another.
MCProcOf == [c \in Call |-> IF c = c3 THEN p2 ELSE p1]

\* The two requests of p1 are interchangeable (safety runs only).
CallSymmetry == Permutations({c1, c2})
=============================================================================
