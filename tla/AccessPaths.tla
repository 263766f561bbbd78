---------------------------- MODULE AccessPaths ----------------------------
(***************************************************************************)
(* The paths behind effective access, and what is told of them             *)
(* (backend/app/engine.py): _materialize_effective_access_map with its     *)
(* paths, explain, the access of a principal or a resource, and            *)
(* simulate_edge_removal, which works out only the pairs an edge can       *)
(* touch.  AccessGraph has the same access without paths: it is the        *)
(* definition the paths are compared with.                                 *)
(*                                                                         *)
(* The label of an entity is its risk score.  A relationship has two more  *)
(* fields here, temporary and removable.  Permissions are case folded.     *)
(***************************************************************************)
EXTENDS AccessGraph, Sequences

FSets == INSTANCE FiniteSetsExt

CONSTANT Kept   \* how many paths of a pair are kept (6)

ASSUME PathAssumption ==
    /\ Kept \in Nat \ {0}
    /\ Label \subseteq Nat
    /\ \A rel \in Relationship : rel.temporary \in BOOLEAN /\ rel.removable \in BOOLEAN

Steps(path) == {path[n] : n \in DOMAIN path}
OfKinds(path, kinds) == Cardinality({n \in DOMAIN path : path[n].kind \in kinds})

------------------------------------------------------------------------------
(* The paths of a pair.  ignored: the edges a simulation leaves out.       *)

End(p, path) == IF path = <<>> THEN p ELSE path[Len(path)].target

Leaving(G, ignored, a) ==
    {rel \in G.relationships : rel.source = a /\ rel.kind \in TRAVERSABLE /\ rel \notin ignored}

\* The paths that are one edge longer, to an actor they have not met.
Longer(G, ignored, p, paths) ==
    UNION {{Append(path, rel) :
              rel \in {x \in Leaving(G, ignored, End(p, path)) :
                         x.target \notin {p} \cup {y.target : y \in Steps(path)}}} :
            path \in paths}

\* The paths of no edge, of one and so on to eight that meet no actor twice.
Levels(G, ignored, p) ==
    LET More(levels) == Append(levels, Longer(G, ignored, p, levels[Len(levels)]))
    IN  More(More(More(More(More(More(More(More(<<{<<>>}>>))))))))

\* _actor_reachability
ActorPaths(G, ignored, p) ==
    LET levels == Levels(G, ignored, p) IN UNION {levels[n] : n \in 1 .. ReachDepth + 1}

\* _resource_chain: the edges of the hierarchy from an ancestor down to r, each
\* to an ancestor of r that has one ancestor more.
Chain(G, a, r) ==
    LET above == Cardinality(Ancestors(G, a))
    IN  [n \in 1 .. Cardinality(Ancestors(G, r)) - above |->
           CHOOSE c \in Contains(G) : /\ c.target \in Ancestors(G, r)
                                      /\ Cardinality(Ancestors(G, c.target)) = above + n]

AccessMode(via, grant) ==
    IF \E rel \in Steps(via) : rel.kind = "delegated_access" THEN "Delegated"
    ELSE IF grant.kind = "direct_acl" THEN IF via = <<>> THEN "Direct" ELSE "Inherited"
    ELSE IF via = <<>> THEN "Direct role" ELSE "Role-derived"

\* _score_path; no principal is tagged "external".
Score(G, p, r, permissions, via, grant) ==
    LET score == 18 + G.entities[r].label \div 2 + G.entities[p].label \div 4
                 + (IF permissions \cap Privileged # {} THEN 18 ELSE 0)
                 + (IF AccessMode(via, grant) = "Delegated" THEN 12 ELSE 0)
                 + (IF grant.temporary THEN 6 ELSE 0)
    IN  IF score > 99 THEN 99 ELSE score

\* What a deny takes from a pair, by whatever path the principal acts as its source.
Denied(G, ignored, p, r) ==
    UNION {d.permissions : d \in {x \in Denies(G) \ ignored :
             x.target = r /\ \E via \in ActorPaths(G, ignored, p) : End(p, via) = x.source}}

\* The path of an actor, a grant and the way down to the resource.
PathBy(G, p, r, denied, via, g) ==
    [edges |-> via \o <<g>> \o Chain(G, g.target, r), permissions |-> g.permissions \ denied,
     mode |-> AccessMode(via, g), risk |-> Score(G, p, r, g.permissions \ denied, via, g)]

\* The paths of _materialize_effective_access_map; the hierarchy is that of the
\* constructor of the engine, whatever is ignored.
PairPaths(G, ignored, p, r) ==
    LET denied == Denied(G, ignored, p, r)
        vias == ActorPaths(G, ignored, p)
        grants == {g \in Grants(G) \ ignored : r \in GrantTargets(G, g) /\ g.permissions \ denied # {}}
    IN  UNION {{PathBy(G, p, r, denied, via, g) : via \in {x \in vias : End(p, x) = g.source}} : g \in grants}

------------------------------------------------------------------------------
(* The order of the paths, and how many are kept.                          *)

ModeRank(mode) ==
    CASE mode = "Direct" -> 0 [] mode = "Inherited" -> 1 [] mode = "Direct role" -> 2
      [] mode = "Role-derived" -> 3 [] mode = "Delegated" -> 4

Inheriting(path) == Cardinality({n \in DOMAIN path : path[n].inherits})

\* The steps from actor to actor, each with every edge it might have taken.
Fanout(G, path) ==
    Cardinality(UNION {{n} \X Leaving(G, {}, path[n].source) :
                        n \in {m \in DOMAIN path : path[m].kind \in TRAVERSABLE}})

\* _path_rank_key; what is equal up to here is ordered by its wording.
RankKey(G, path) ==
    <<ModeRank(path.mode), Len(path.edges), OfKinds(path.edges, {"delegated_access"}),
      OfKinds(path.edges, GROUP_KINDS), OfKinds(path.edges, {"assigned_role", "role_grant"}),
      Inheriting(path.edges), Fanout(G, path.edges), - path.risk>>

Precedes(k1, k2) ==
    \E n \in DOMAIN k1 : k1[n] < k2[n] /\ \A m \in 1 .. n - 1 : k1[m] = k2[m]

\* The n first paths: what comes later precedes none of them.
InOrder(G, paths, n) ==
    {kept \in [1 .. n -> paths] :
        \A m \in 1 .. n :
           /\ \A l \in 1 .. m - 1 : kept[l] # kept[m]
           /\ \A path \in paths \ {kept[l] : l \in 1 .. m} :
                 ~ Precedes(RankKey(G, path), RankKey(G, kept[m]))}

\* paths.sort and paths[:6]
Trimmed(G, paths) ==
    CHOOSE kept \in InOrder(G, paths, IF Cardinality(paths) < Kept THEN Cardinality(paths) ELSE Kept) : TRUE

\* _path_complexity_score
Complexity(path) ==
    Len(path.edges) * 10 + OfKinds(path.edges, GROUP_KINDS) * 4
      + OfKinds(path.edges, {"delegated_access"}) * 8
      + OfKinds(path.edges, {"assigned_role", "role_grant"}) * 6 + Inheriting(path.edges) * 5

\* An entry of the access map: what is told of a pair is told of the paths that
\* are kept; only the count is of all.
Entry(G, p, r, paths) ==
    LET kept == Steps(Trimmed(G, paths))
    IN  [principal |-> p, resource |-> r, paths |-> Trimmed(G, paths), count |-> Cardinality(paths),
         permissions |-> UNION {x.permissions : x \in kept},
         risk |-> FSets!Max({x.risk : x \in kept}), modes |-> {x.mode : x \in kept}]

\* _effective_access_subset, for all pairs _effective_access_map.
AccessMap(G, ignored, ps, rs) ==
    UNION {LET paths == PairPaths(G, ignored, pair[1], pair[2])
           IN  IF paths = {} THEN {} ELSE {Entry(G, pair[1], pair[2], paths)} :
               pair \in ps \X rs}

FullMap(G, ignored) == AccessMap(G, ignored, PrincipalIds(G), ResourceIds(G))

------------------------------------------------------------------------------
(* What is asked of the engine.                                            *)

\* _combine_access_modes
CombinedMode(modes) == IF Cardinality(modes) = 1 THEN CHOOSE m \in modes : TRUE ELSE "Multi-path"

\* The row of a pair in materialized_access_index, get_resource_access and
\* get_principal_access: it counts the paths that are kept.
Row(entry) ==
    [principal |-> entry.principal, resource |-> entry.resource, permissions |-> entry.permissions,
     count |-> Len(entry.paths), complexity |-> Complexity(entry.paths[1]),
     mode |-> CombinedMode(entry.modes), risk |-> entry.risk]

PathRows(G) == {Row(e) : e \in FullMap(G, {})}
ResourceAccess(G, r) == {row \in PathRows(G) : row.resource = r}
PrincipalAccess(G, p) == {row \in PathRows(G) : row.principal = p}

\* explain: the entries of a pair, none standing for the KeyError.
Explain(G, p, r) == AccessMap(G, {}, {p} \cap PrincipalIds(G), {r} \cap ResourceIds(G))

\* The graph of an explanation (_build_graph).
ExplainedEdges(entry) == UNION {Steps(path.edges) : path \in Steps(entry.paths)}
ExplainedNodes(entry) == UNION {{e.source, e.target} : e \in ExplainedEdges(entry)}

EntryFor(map, pair) == {e \in map : e.principal = pair[1] /\ e.resource = pair[2]}
PermissionsIn(map, pair) == UNION {e.permissions : e \in EntryFor(map, pair)}
CountIn(map, pair) == IF EntryFor(map, pair) = {} THEN 0 ELSE (CHOOSE e \in EntryFor(map, pair) : TRUE).count
PairsOf(map) == {<<e.principal, e.resource>> : e \in map}

\* _diff_effective_access
Diff(before, after) ==
    {d \in {[principal |-> pair[1], resource |-> pair[2],
             removed |-> PermissionsIn(before, pair) \ PermissionsIn(after, pair)] :
                pair \in PairsOf(before)} : d.removed # {}}

\* _removed_path_count
RemovedPaths(before, after) ==
    Cardinality(UNION {{pair} \X (CountIn(after, pair) + 1 .. CountIn(before, pair)) : pair \in PairsOf(before)})

WhatIfOf(before, after) ==
    LET diff == Diff(before, after)
    IN  [diff |-> diff, removed |-> RemovedPaths(before, after),
         principals |-> Cardinality({d.principal : d \in diff}),
         resources |-> Cardinality({d.resource : d \in diff}),
         privileged |-> Cardinality({d \in diff : d.removed \cap Privileged # {}})]

\* Mutant: only who is a member by that very edge is worked out again.
SimulateSource(G, edge) ==
    LET ps == {edge.source} \cap PrincipalIds(G)
        rs == ImpactedResources(G, edge)
    IN  WhatIfOf(AccessMap(G, {}, ps, rs), AccessMap(G, {edge}, ps, rs))

\* simulate_edge_removal, for an edge that is removable.
Simulate(G, edge) ==
    LET ps == ImpactedPrincipals(G, edge)
        rs == ImpactedResources(G, edge)
    IN  WhatIfOf(AccessMap(G, {}, ps, rs), AccessMap(G, {edge}, ps, rs))
=============================================================================
