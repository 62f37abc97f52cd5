----------------------------- MODULE MCCapture -----------------------------
EXTENDS CcSpool, TLC

CONSTANTS MaxFile, MaxOpen, DropFaults, MaxDropFault

VARIABLES
    size, counter, taking, created, fd, opened, up, dropPc, list, unstat, count,
    unseen, dropSeeded, dropFaults, bytes, recorded, dismissed, stated, straddled,
    scene

dropVars == <<size, counter, taking, created, fd, opened, up, dropPc, list, unstat, count,
              unseen, dropSeeded, dropFaults, bytes, recorded, dismissed, stated, straddled>>

Counter == INSTANCE SpoolDropped
            WITH pc <- dropPc, seeded <- dropSeeded, faults <- dropFaults,
                 Faults <- DropFaults, MaxFault <- MaxDropFault

(* The hook slots are interchangeable.                                     *)
HookSymmetry == Permutations(Hook)

(* The spool and the counter of what it refused share nothing but their    *)
(* hooks: one of the two moves in a behaviour.                             *)
MCInit == Init /\ Counter!Init /\ scene \in {"spool", "dropped"}

MCNext ==
    /\ UNCHANGED scene
    /\ IF scene = "spool" THEN Next /\ UNCHANGED dropVars ELSE Counter!Next /\ UNCHANGED vars

MCSpec == MCInit /\ [][MCNext]_<<vars, dropVars, scene>>

(* SpoolDropped: what the hooks counted is recorded, once, waits in a      *)
(* file, or was written to a file already measured.                        *)
CountKept == Counter!CountKept

=============================================================================
