--------------------------- MODULE AccessInsights ---------------------------
(***************************************************************************)
(* What is told of a graph beside the access itself: the overview with its *)
(* hotspots and scenarios and the reach of a what-if answer                *)
(* (backend/app/engine.py), and the risk findings                          *)
(* (backend/app/risk_service.py).                                          *)
(***************************************************************************)
EXTENDS AccessPaths

CONSTANTS
    Criticality, \* of each entity
    NameRank,    \* the order of names, and of labels of edges
    ShownSpots, ShownScenarios, ShownImpacts, \* how many are shown (5, 6, 6)
    Floor        \* the thresholds of list_findings

ASSUME InsightAssumption ==
    /\ {ShownSpots, ShownScenarios, ShownImpacts} \subseteq Nat \ {0}
    /\ Floor \in [{"hot", "risk", "grave", "complexity", "opaque", "members", "crowd", "nesting"} -> Nat]
    /\ \A e \in Entity : Criticality[e] \in Nat /\ NameRank[e] \in Nat

\* The n first of a set, in descending order of their keys.
Tops(S, n, Key(_)) == {x \in S : Cardinality({y \in S : Precedes(Key(x), Key(y))}) < n}

------------------------------------------------------------------------------
(* get_overview.                                                           *)

\* _build_hotspots: the resources with privileged or delegated access.
Hotspots(G, map) ==
    LET Spot(r) ==
          [resource   |-> r,
           privileged |-> Cardinality({e \in map : e.resource = r /\ IsPrivileged(e)}),
           delegated  |-> Cardinality({e \in map : e.resource = r /\ "Delegated" \in e.modes})]
    IN  {spot \in {Spot(r) : r \in ResourceIds(G)} : spot.privileged + spot.delegated > 0}

Exposure(G, spot) == G.entities[spot.resource].label + spot.privileged * 12 + spot.delegated * 9

TopHotspots(G, map) ==
    Tops(Hotspots(G, map), ShownSpots, LAMBDA s : <<Exposure(G, s), - NameRank[s.resource]>>)

\* An edge with the principals that may feel its removal, and the resource that
\* is shown first.
Scenario(G, e) ==
    LET rs == ImpactedResources(G, e)
        Key(r) == <<Criticality[r], G.entities[r].label>>
    IN  [edge |-> e, principals |-> ImpactedPrincipals(G, e), resources |-> rs,
         focus |-> {r \in rs : \A other \in rs : ~ Precedes(Key(r), Key(other))}]

\* Mutant: only the edges of principals are offered, not those of roles.
ScenariosOfPrincipals(G) ==
    {Scenario(G, e) : e \in {x \in G.relationships : x.removable /\ x.source \in PrincipalIds(G)
                                                     /\ ImpactedPrincipals(G, x) # {}}}

\* _build_scenarios
Scenarios(G) ==
    {Scenario(G, e) : e \in {x \in G.relationships : x.removable /\ ImpactedPrincipals(G, x) # {}}}

TopScenarios(G) ==
    Tops(Scenarios(G), ShownScenarios, LAMBDA s : <<Cardinality(s.principals), - s.edge.id>>)

\* _default_selection: the riskiest pair, or nothing in particular.
Selection(map) ==
    LET Key(e) == <<e.risk, e.count, Criticality[e.resource]>>
    IN  {<<e.principal, e.resource>> : e \in {x \in map : \A y \in map : ~ Precedes(Key(x), Key(y))}}

\* The paths that are kept and pass a test.
PathCount(map, Test(_)) ==
    FSets!MapThenSumSet(LAMBDA e : Cardinality({n \in DOMAIN e.paths : Test(e.paths[n])}), map)

Overview(G) ==
    LET map == FullMap(G, {})
    IN  [entitlements |-> Cardinality(map),
         privileged   |-> PathCount(map, LAMBDA path : IsPrivileged(path)),
         delegated    |-> PathCount(map, LAMBDA path : path.mode = "Delegated"),
         hotspots |-> TopHotspots(G, map), scenarios |-> TopScenarios(G), selection |-> Selection(map)]

------------------------------------------------------------------------------
(* simulate_edge_removal: the resources it tells of.                       *)

\* blast_radius, with how much is lost on each resource.
BlastRadius(diff) ==
    LET Impact(r) ==
          [resource    |-> r,
           principals  |-> Cardinality({d \in diff : d.resource = r}),
           permissions |-> FSets!MapThenSumSet(LAMBDA d : Cardinality(d.removed), {x \in diff : x.resource = r})]
    IN  {Impact(r) : r \in {d.resource : d \in diff}}

TopBlast(diff, n) ==
    Tops(BlastRadius(diff), n, LAMBDA i : <<Criticality[i.resource], i.permissions, NameRank[i.resource]>>)

\* The resource whose access is shown before and after, unless one is asked for.
Focus(diff) == {impact.resource : impact \in TopBlast(diff, 1)}

\* get_resource_access and _resource_access_for_map.
FocusAccess(G, ignored, rs) == AccessMap(G, ignored, PrincipalIds(G), rs)

------------------------------------------------------------------------------
(* list_findings.  A finding is critical or a warning.                     *)

Finding(category, subject, critical) == [category |-> category, subject |-> subject, critical |-> critical]

HotFindings(G) ==
    {Finding("overexposed", <<s.resource>>, Exposure(G, s) >= Floor.hot) : s \in TopHotspots(G, FullMap(G, {}))}

Risky(row) == IsPrivileged(row) \/ row.risk >= Floor.risk

\* The rows of the access index; a path is opaque only where its pair is risky.
AccessFindings(rows) ==
    LET risky == {row \in rows : Risky(row)}
    IN  {Finding(IF row.count > 1 THEN "indirect" ELSE "direct", <<row.principal, row.resource>>,
                 row.risk >= Floor.grave) : row \in risky}
          \cup {Finding("opaque", <<row.principal, row.resource>>, row.complexity >= Floor.opaque) :
                  row \in {x \in risky : x.complexity >= Floor.complexity}}

GroupFindings(G) ==
    LET Members(g) == {rel.source : rel \in {x \in G.relationships : x.kind \in GROUP_KINDS /\ x.target = g}}
        broad == {g \in PrincipalIds(G) :
                    /\ KindOf(G, g) = "group" /\ Cardinality(Members(g)) >= Floor.members
                    /\ \E x \in Grants(G) : x.source = g /\ IsPrivileged(x)}
    IN  {Finding("broad", <<g>>, Cardinality(Members(g)) >= Floor.crowd) : g \in broad}

\* The first kept path of a pair that nests deep enough.
NestingFindings(map) ==
    LET Depth(path) == OfKinds(path.edges, GROUP_KINDS)
        Deep(e) == {n \in DOMAIN e.paths : Depth(e.paths[n]) >= Floor.nesting}
    IN  {Finding("nesting", <<e.principal, e.resource>>, Depth(e.paths[FSets!Min(Deep(e))]) > Floor.nesting) :
            e \in {x \in map : Deep(x) # {}}}

\* The categories in the order in which they fill the list.
Categories(G, rows) == <<HotFindings(G), AccessFindings(rows), GroupFindings(G), NestingFindings(FullMap(G, {}))>>

\* What is beyond the limit is cut before the worst are put first.
Findings(G, rows, limit) ==
    LET categories == Categories(G, rows)
        UpTo(n) == UNION {categories[m] : m \in 1 .. n}
        cut == {n \in DOMAIN categories : Cardinality(UpTo(n)) > limit}
    IN  IF cut = {} THEN {UpTo(Len(categories))}
        ELSE LET n == FSets!Min(cut)
             IN  {UpTo(n - 1) \cup S : S \in FSets!kSubset(limit - Cardinality(UpTo(n - 1)), categories[n])}
=============================================================================
