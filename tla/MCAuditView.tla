---------------------------- MODULE MCAuditView ----------------------------
(* Three instances in one run, one per behaviour.  "store": the store and  *)
(* the tray pass while a wrapper's file is compacted into its day file.    *)
(* "parse": the store alone, on a file whose answers come in later reads   *)
(* and whose ids are used twice.  "page": the list's hook on a result that *)
(* grows.                                                                  *)
EXTENDS AuditStore, DetectionPage

VARIABLE scene

L(id, kind, key, cut) == [id |-> id, kind |-> kind, key |-> key, cut |-> cut]

Moving ==
    [w |-> << L(1, "req", "a", "char"), L(2, "fail", "", None), L(3, "ok", "a", None) >>,
     d |-> << >>, x |-> << >>]

Answering ==
    [w |-> << >>, d |-> << >>,
     x |-> << L(1, "ask", "s", None), L(2, "req", "a", "clean"), L(3, "ok", "a", None),
              L(4, "enr", "b", None), L(5, "ans", "s", "char"), L(6, "req", "a", None),
              L(7, "ask", "s", None), L(8, "req", "b", None), L(9, "ans", "s", None), L(10, "err", "a", None) >>]

TheScripts == {Moving, Answering}

E(id, cat, sev) == [id |-> id, cat |-> cat, sev |-> sev]

TheTrail == << E(1, "pii", "high"), E(2, "tool_call_allowed", "low"), E(3, "pii", "low"), E(4, "pii", "high"), E(5, "pii", "low") >>

TheSeverities == {"low", "high"}

TheFilters == {[cats |-> {"pii", "tool_call_allowed"}, sevs |-> TheSeverities],
               [cats |-> {"pii", "tool_call_allowed"}, sevs |-> {"low"}]}

MCInit ==
    /\ Init /\ PInit
    /\ scene \in {"store", "parse", "page"}
    /\ rest = IF scene = "parse" THEN Answering ELSE Moving
    /\ scene # "page" => filter = CHOOSE f \in Filters : TRUE

MCNext ==
    \/ scene = "store" /\ Next /\ UNCHANGED <<scene, pvars>>
    \/ scene = "parse" /\ (Writers \/ Store) /\ UNCHANGED <<scene, pvars>>
    \/ scene = "page" /\ PNext /\ UNCHANGED <<scene, vars>>

MCSpec == MCInit /\ [][MCNext]_<<scene, vars, pvars>>

=============================================================================
