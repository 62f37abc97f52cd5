---------------------------- MODULE MCConnectors ----------------------------
EXTENDS ConnectorChanges

(* ConnectorChanges                                                        *)

V(id, ts, section, review, key, sev) ==
    [id |-> id, ts |-> ts, mcp |-> "m", section |-> section, review |-> review, key |-> key, sev |-> sev,
     attention |-> FALSE, recent |-> TRUE, note |-> None]

C(id, session, ts, review, key, sev) ==
    [k |-> "change", id |-> id, session |-> session, view |-> V(id, ts, "tools", review, key, sev)]

L(id, session, ts, worth, sev) ==
    [k |-> "login", id |-> id, session |-> session, ts |-> ts, mcp |-> "m", worth |-> worth, sev |-> sev, recent |-> TRUE]

N(session, note) == [k |-> "note", session |-> session, note |-> note]

(* Two proxies that write the same review, and a login that its note makes *)
(* a row.                                                                  *)
TheFeed == [s1 |-> <<C("r1", "s1", 1, TRUE, "k", "high")>>,
            s2 |-> <<C("r2", "s2", 2, TRUE, "k", "high")>>,
            l1 |-> <<L("a1", "l1", 4, TRUE, "medium"), N("l1", "write_failed")>>]

(* A mark whose change is gone.                                            *)
TheBefore == <<[k |-> "mark", target |-> "purged", from |-> "unreviewed", to |-> "reviewed", session |-> "desktop"]>>

TheFiles == <<"l1", "s1", "s2", "app">>

-----------------------------------------------------------------------------
(* SurfaceBaseline                                                         *)

CONSTANTS Proxy, Section, Shows, Params, Sensitive, Since, Long, Build, Responses,
          MaxObs, MaxMoves, MaxSwitch, SurfaceFaults, MaxSurfaceFault

I(d, s, x) == [d |-> d, s |-> s, x |-> x]

(* A tool that starts clean; one edit of its text, one of its schema, one  *)
(* of a field v1 never watched; a second tool; texts that a review rule    *)
(* matches, at once or from version 2 on.                                  *)
TheShows == [tools |-> { [a |-> I("plain", "q", "-")], [a |-> I("plain", "q", "marked"), b |-> I("later", "q+to", "-")],
                         [a |-> I("marked", "q", "-")], [a |-> I("plain", "q", "marked")] },
             prompts |-> { <<>>, [c |-> I("plain", "q", "-")], [c |-> I("long", "q", "-")] }]

TheParams == [x \in {"q", "q+to"} |-> IF x = "q" THEN {"q"} ELSE {"q", "to"}]

TheSince == [marked |-> 1, later |-> 2]

B(fmt, ver) == [fmt |-> fmt, ver |-> ver]

TheBuilds == {B(1, 1), B(2, 1), B(2, 2)}

VARIABLES
    served, v1, v2, build, proc, lines, recorded, silent, hops, window, spent,
    scene

surfaceVars == <<served, v1, v2, build, proc, lines, recorded, silent, hops, window, spent>>

Surface == INSTANCE SurfaceBaseline
               WITH shown <- served, trail <- lines, cause <- window, used <- spent,
                    Faults <- SurfaceFaults, MaxFault <- MaxSurfaceFault

Catalog == UNION {Shows[s] : s \in Section}

\* No catalog is None, nor what either file keeps of one; versions of the rules
\* are counted from 1, and reviewed_with is 0 before the first.
ASSUME SurfaceAssumption ==
    /\ "tools" \in Section
    /\ None \notin Catalog
    /\ None \notin [snap : Catalog, rev : {0} \cup {b.ver : b \in Build}]
    /\ \A cat \in Catalog \cup {<<>>} : Surface!Manifest(cat) # None
    /\ Responses \subseteq {"full", "page", "bad"}
    /\ \A t \in DOMAIN Since : Since[t] \in Nat \ {0}
    /\ \A b \in Build : b.ver \in Nat

-----------------------------------------------------------------------------
(* The proxies that write the lines and the app that shows them: one of    *)
(* the two moves in a behaviour.                                           *)
MCInit ==
    /\ Init /\ Surface!Init
    /\ scene \in {"review", "login", "race", "upgrade"}
    /\ served = [tools |-> [a |-> I("plain", "q", "-")], prompts |-> [c |-> I("plain", "q", "-")]]
    /\ build = [p \in Proxy |-> IF scene = "race" THEN B(2, 1) ELSE B(1, 1)]

InFlight == {c \in Call : call'[c] # Idle}

(* "review": the user marks while proxies write, or leaves the tab and     *)
(* comes back.  "login": passes that overlap, and a restart, over one      *)
(* login.                                                                  *)
ChangesNext ==
    /\ Next /\ UNCHANGED surfaceVars
    /\ Cardinality(InFlight) <= 2
    /\ scene = "review" => /\ fed'["l1"] = 0 /\ used'.passes = 0 /\ (used'.mounts = 2 => used'.faults = 0) /\ used'.faults <= 1
                           /\ cause' \cap {"told lost"} = {} /\ (ui' = Closed => ui = Closed)
    /\ scene = "login"  => fed'["s1"] = 0 /\ fed'["s2"] = 0 /\ "purge" \notin cause' /\ used'.clicks <= 1 /\ used'.mounts <= 1

(* "race": two proxies of the current build at once.  "upgrade": one       *)
(* client whose app is upgraded, downgraded and upgraded again.            *)
SurfaceNext ==
    /\ Surface!Next /\ UNCHANGED vars
    /\ scene = "race" => /\ build' = build /\ spent'.moves <= 1 /\ spent'.faults = 0
                         /\ \A p \in Proxy : proc'[p].pc = "idle" \/ proc'[p].kind = "full"
                         /\ spent.obs = 0 => proc'["q"] = proc["q"]
    /\ scene = "upgrade" => proc'["q"] = proc["q"] /\ build'["q"] = build["q"] /\ served'["prompts"] = served["prompts"]
                            /\ (spent'.switches = MaxSwitch => spent'.faults = 0)

MCNext ==
    /\ UNCHANGED scene
    /\ IF scene \in {"review", "login"} THEN ChangesNext ELSE SurfaceNext

MCSpec == MCInit /\ [][MCNext]_<<vars, surfaceVars, scene>>

(* SurfaceBaseline: a change is recorded in the trail, and once.           *)
ReportedOnce == Surface!ReportedOnce

(* SurfaceBaseline: a marker the rules match has its finding.              *)
PoisonFound == Surface!PoisonFound

=============================================================================
