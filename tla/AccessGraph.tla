---------------------------- MODULE AccessGraph ----------------------------
(***************************************************************************)
(* The access graph of one snapshot and what AccessGraphEngine computes    *)
(* from it (backend/app/engine.py).                                        *)
(*                                                                         *)
(* A graph G is a record: G.entities maps the ids present in the snapshot  *)
(* to [kind, label], G.relationships is a set of Relationship records.     *)
(* label stands for the attributes of an entity that rows quote (its name, *)
(* risk and tags).  Permission names are compared without case in the      *)
(* code; here they are already folded.  A pair has at most six paths: the  *)
(* code keeps the best six, which then is all of them.                     *)
(*                                                                         *)
(* Breadth-first searches are written as unrolled widenings and not as     *)
(* recursion, so that the prover can expand them.                          *)
(***************************************************************************)
EXTENDS Integers, FiniteSets

CONSTANTS
    Entity,        \* entity ids
    Label,         \* what a row can quote of an entity
    Permission,    \* permission names, case folded
    Privileged,    \* those that PRIVILEGED_KEYWORDS recognises
    Relationship,  \* every relationship record a collector can report
    ReachDepth,    \* max_depth of _actor_reachability (6)
    ClosureDepth   \* max_depth of principal_group_closure (8)

PRINCIPAL_KINDS == {"user", "service_account", "group"}
ACTOR_KINDS == PRINCIPAL_KINDS \cup {"role"}
EntityKinds == ACTOR_KINDS \cup {"resource"}

GROUP_KINDS == {"member_of", "nested_group"}
TRAVERSABLE == GROUP_KINDS \cup {"delegated_access", "assigned_role"}
GRANT_KINDS == {"direct_acl", "role_grant"}
RelationshipKinds == TRAVERSABLE \cup GRANT_KINDS \cup {"contains", "deny_acl"}

ASSUME DepthAssumption ==
    ReachDepth \in 0..8 /\ ClosureDepth \in 0..8

ASSUME RelationshipAssumption ==
    \A rel \in Relationship :
        /\ rel.kind \in RelationshipKinds
        /\ rel.source \in Entity /\ rel.target \in Entity
        /\ rel.permissions \subseteq Permission
        /\ rel.inherits \in BOOLEAN

\* A snapshot is a file.
ASSUME FiniteAssumption ==
    IsFiniteSet(Entity) /\ IsFiniteSet(Label) /\ IsFiniteSet(Permission)

(* The rows of the tables that are calculated from a graph. *)
AccessRows == [principal : Entity, resource : Entity, permissions : SUBSET Permission,
               why : SUBSET (Entity \X Label)]
ClosureRows == [principal : Entity, group : Entity, depth : 1..ClosureDepth]
HierarchyTableRows == [resource : Entity, ancestor : Entity, depth : Int]
ExposureRows == [resource : Entity, principals : Int, privileged : Int]
SummaryRows == [principal : Entity, resources : Int, privileged : Int]

------------------------------------------------------------------------------
(* The indexes the constructor of the engine builds.                       *)

Ids(G) == DOMAIN G.entities
KindOf(G, e) == G.entities[e].kind
PrincipalIds(G) == {e \in Ids(G) : KindOf(G, e) \in PRINCIPAL_KINDS}
ResourceIds(G) == {e \in Ids(G) : KindOf(G, e) = "resource"}

Grants(G) == {rel \in G.relationships : rel.kind \in GRANT_KINDS}
Denies(G) == {rel \in G.relationships : rel.kind = "deny_acl"}
Contains(G) == {rel \in G.relationships : rel.kind = "contains"}

\* What the collectors and the normalisation deliver: ids are unique, both
\* ends of an edge exist and are of the kind the edge joins, and the resources
\* form a forest (a cycle of "contains" would keep the constructor in its loop).
WellFormed(G) ==
    /\ Ids(G) \subseteq Entity
    /\ \A e \in Ids(G) : G.entities[e] \in [kind : EntityKinds, label : Label]
    /\ G.relationships \subseteq Relationship
    /\ \A r1, r2 \in G.relationships : r1.id = r2.id => r1 = r2
    /\ \A rel \in G.relationships :
          /\ rel.source \in Ids(G) /\ rel.target \in Ids(G)
          /\ rel.kind \in GRANT_KINDS \cup {"contains", "deny_acl"}
                => rel.target \in ResourceIds(G)
          /\ rel.kind \in GRANT_KINDS => rel.source \notin ResourceIds(G)
          /\ rel.kind = "contains" => rel.source \in ResourceIds(G)
    /\ \A c1, c2 \in Contains(G) : c1.target = c2.target => c1 = c2
    /\ ~ \E T \in SUBSET {c.target : c \in Contains(G)} :
            T # {} /\ \A r \in T : \E c \in Contains(G) : c.target = r /\ c.source \in T

------------------------------------------------------------------------------
(* Who an actor acts as.                                                   *)

Successors(G, a) ==
    {rel.target : rel \in {x \in G.relationships : x.kind \in TRAVERSABLE /\ x.source = a}}

Widen(G, S) == UNION {{a} \cup Successors(G, a) : a \in S}

\* The actors one to eight hops away, as the sequence of the sets seen so far.
Layers(G, a) ==
    LET l1 == Widen(G, {a})
        l2 == Widen(G, l1)
        l3 == Widen(G, l2)
        l4 == Widen(G, l3)
        l5 == Widen(G, l4)
        l6 == Widen(G, l5)
        l7 == Widen(G, l6)
        l8 == Widen(G, l7)
    IN  <<{a}, l1, l2, l3, l4, l5, l6, l7, l8>>

\* _actor_reachability: the simple paths of at most max_depth edges reach the
\* same actors as the walks of at most max_depth edges do.
Reach(G, a) == Layers(G, a)[ReachDepth + 1]

\* The search of _impact_surface_from_actor has no depth limit; sixteen hops
\* are as good as none in a graph of at most seventeen actors.
Widen4(G, S) == Widen(G, Widen(G, Widen(G, Widen(G, S))))
ActorClosure(G, a) == Widen4(G, Widen4(G, Widen4(G, Widen4(G, {a}))))

------------------------------------------------------------------------------
(* The resource forest.                                                    *)

\* _resource_ancestors: the least set that holds r and the parent of each of
\* its members.
Ancestors(G, r) ==
    {a \in ResourceIds(G) \cup {r} :
        \A T \in SUBSET (ResourceIds(G) \cup {r}) :
            (r \in T /\ \A c \in Contains(G) : c.target \in T => c.source \in T) => a \in T}

Descendants(G, r) == {x \in ResourceIds(G) : r \in Ancestors(G, x)}

\* affected_resource_ids_for_resource
AffectedResources(G, r) == Descendants(G, r) \cup {r}

\* The resources a grant gives access to.
GrantTargets(G, grant) ==
    IF grant.inherits THEN Descendants(G, grant.target) ELSE {grant.target}

------------------------------------------------------------------------------
(* Effective access: _materialize_effective_access_map.                    *)

\* acts is who the principal acts as.  A deny bites on exactly the resource it
\* names, for whoever acts as its source.
DeniedPermissions(G, acts, r) ==
    UNION {d.permissions : d \in {x \in Denies(G) : x.target = r /\ x.source \in acts}}

\* The resources no deny names, of which the properties of the indexes speak.
Undenied(G) == {r \in ResourceIds(G) : \A d \in Denies(G) : d.target # r}

\* The grants that leave some permission on r.
EffectiveGrants(G, acts, r) ==
    {g \in Grants(G) :
        /\ g.source \in acts
        /\ r \in GrantTargets(G, g)
        /\ g.permissions \ DeniedPermissions(G, acts, r) # {}}

Quote(G, e) == <<e, G.entities[e].label>>

AccessRow(G, p, acts, r) ==
    LET gs == EffectiveGrants(G, acts, r)
    IN  [principal   |-> p,
         resource    |-> r,
         permissions |-> (UNION {g.permissions : g \in gs}) \ DeniedPermissions(G, acts, r),
         why         |-> {Quote(G, e) : e \in {p, r} \cup {g.source : g \in gs}
                                                     \cup {g.target : g \in gs}}]

RowsOfPrincipal(G, p, acts, rs) ==
    {AccessRow(G, p, acts, r) : r \in {x \in rs : EffectiveGrants(G, acts, x) # {}}}

\* materialized_access_index_for_scope
AccessIndexForScope(G, ps, rs) == UNION {RowsOfPrincipal(G, p, Reach(G, p), rs) : p \in ps}

\* materialized_access_index
AccessIndex(G) == AccessIndexForScope(G, PrincipalIds(G), ResourceIds(G))

------------------------------------------------------------------------------
(* The closures, and the two summaries of a set of access rows.            *)

GroupSuccessors(G, a) ==
    {rel.target : rel \in {x \in G.relationships :
        /\ x.kind \in GROUP_KINDS /\ x.source = a
        /\ x.target \in Ids(G) /\ KindOf(G, x.target) = "group"}}

GroupWiden(G, S) == UNION {{a} \cup GroupSuccessors(G, a) : a \in S}

GroupLayers(G, a) ==
    LET l1 == GroupWiden(G, {a})
        l2 == GroupWiden(G, l1)
        l3 == GroupWiden(G, l2)
        l4 == GroupWiden(G, l3)
        l5 == GroupWiden(G, l4)
        l6 == GroupWiden(G, l5)
        l7 == GroupWiden(G, l6)
        l8 == GroupWiden(G, l7)
    IN  <<{a}, l1, l2, l3, l4, l5, l6, l7, l8>>

\* Mutant: the depth counts the groups in between.
GroupClosureRowsInBetween(G, p) ==
    LET l == GroupLayers(G, p)
    IN  UNION {{[principal |-> p, group |-> g, depth |-> k - 1] : g \in l[k + 1] \ l[k]} :
                  k \in 1..ClosureDepth}

\* principal_group_closure: each group with the length of the shortest chain.
GroupClosureRows(G, p) ==
    LET l == GroupLayers(G, p)
    IN  UNION {{[principal |-> p, group |-> g, depth |-> k] : g \in l[k + 1] \ l[k]} :
                  k \in 1..ClosureDepth}

\* _build_group_closure_rows
GroupClosure(G, ps) == UNION {GroupClosureRows(G, p) : p \in ps \cap PrincipalIds(G)}

\* The rows the impact analysis can keep right: it sees one edge beyond ReachDepth.
Shallow(rows) == {row \in rows : row.depth <= ReachDepth + 1}

\* resource_hierarchy_closure: in a forest the distance to an ancestor is the
\* difference of the numbers of ancestors.
HierarchyRows(G, r) ==
    {[resource |-> r, ancestor |-> a,
      depth |-> Cardinality(Ancestors(G, r)) - Cardinality(Ancestors(G, a))] : a \in Ancestors(G, r)}

ResourceHierarchy(G) == UNION {HierarchyRows(G, r) : r \in ResourceIds(G)}

IsPrivileged(row) == row.permissions \cap Privileged # {}

\* resource_exposure_index_from_rows
ExposureIndex(rows) ==
    {[resource   |-> r,
      principals |-> Cardinality({x \in rows : x.resource = r}),
      privileged |-> Cardinality({x \in rows : x.resource = r /\ IsPrivileged(x)})] :
        r \in {x.resource : x \in rows}}

\* principal_access_summary_index_from_rows
PrincipalSummary(rows) ==
    {[principal  |-> p,
      resources  |-> Cardinality({x \in rows : x.principal = p}),
      privileged |-> Cardinality({x \in rows : x.principal = p /\ IsPrivileged(x)})] :
        p \in {x.principal : x \in rows}}

------------------------------------------------------------------------------
(* Impact: what a change of an edge or of an actor can touch.              *)

\* impacted_principal_ids_for_actor
PrincipalsActingAs(G, a) == {p \in PrincipalIds(G) : a \in Reach(G, p)}

\* _impacted_principal_ids_for_relationship
ImpactedPrincipals(G, rel) == PrincipalsActingAs(G, rel.source)

\* _impact_surface_from_actor: it follows grants only.
ImpactSurface(G, a) ==
    UNION {GrantTargets(G, g) : g \in {x \in Grants(G) : x.source \in ActorClosure(G, a)}}

\* Mutant: what a grant passes down is forgotten.
ImpactedResourcesNamed(G, rel) ==
    IF rel.kind \in GRANT_KINDS THEN {rel.target} ELSE ImpactSurface(G, rel.target)

\* _impact_surface_for_relationship
ImpactedResources(G, rel) ==
    IF rel.kind \in GRANT_KINDS THEN GrantTargets(G, rel) ELSE ImpactSurface(G, rel.target)
=============================================================================
