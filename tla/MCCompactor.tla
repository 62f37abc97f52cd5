---------------------------- MODULE MCCompactor ----------------------------
(* Compactor with small constants: see the .cfg files. *)
EXTENDS Compactor

CONSTANTS a, b

\* A wrapper's session and one of Claude Code, of the same day, with a line each.
MCDayOf == [s \in Source |-> 10]
MCOwner == [l \in Line |-> IF l = a THEN 1 ELSE 2]
=============================================================================
