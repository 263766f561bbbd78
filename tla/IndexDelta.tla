----------------------------- MODULE IndexDelta -----------------------------
(***************************************************************************)
(* How IndexRefreshService derives the indexes of a snapshot from those of *)
(* the snapshot before it (backend/app/index_refresh_service.py).          *)
(*                                                                         *)
(* old and new are graphs.  Diffing by id and then by signature adds the   *)
(* new version of a changed item to what is read in the new engine and the *)
(* old version to what is read in the old one, which is what the two       *)
(* differences of the sets of items give.                                  *)
(***************************************************************************)
EXTENDS AccessGraph

FULL_REBUILD_KINDS == {"contains", "deny_acl"}

------------------------------------------------------------------------------
(* _diff_snapshots *)

NewRelationships(old, new) == new.relationships \ old.relationships
OldRelationships(old, new) == old.relationships \ new.relationships
ChangedRelationships(old, new) == NewRelationships(old, new) \cup OldRelationships(old, new)

\* The entities of G that H lacks or has with another signature.
DifferingEntities(G, H) ==
    {e \in Ids(G) : e \in Ids(H) => G.entities[e] # H.entities[e]}

Unchanged(old, new) ==
    /\ ChangedRelationships(old, new) = {}
    /\ DifferingEntities(old, new) = {} /\ DifferingEntities(new, old) = {}

\* _full_rebuild_reasons
NeedsFullRebuild(old, new) ==
    \/ \E rel \in ChangedRelationships(old, new) : rel.kind \in FULL_REBUILD_KINDS
    \/ \E e \in Ids(old) \cap Ids(new) : KindOf(old, e) # KindOf(new, e)

------------------------------------------------------------------------------
(* _delta_access_scope and _expand_entity_delta_scope *)

EntityPrincipals(G, e, rows) ==
    IF KindOf(G, e) = "resource"
    THEN {row.principal : row \in {x \in rows : x.resource \in AffectedResources(G, e)}}
    ELSE PrincipalsActingAs(G, e)

EntityResources(G, e) ==
    IF KindOf(G, e) = "resource" THEN AffectedResources(G, e) ELSE ImpactSurface(G, e)

\* What one engine contributes: its version of the differing edges and entities.
SidePrincipals(G, rels, ents, rows) ==
    (UNION {ImpactedPrincipals(G, rel) : rel \in rels})
        \cup (UNION {EntityPrincipals(G, e, rows) : e \in ents})

SideResources(G, rels, ents) ==
    (UNION {ImpactedResources(G, rel) : rel \in rels}) \cup (UNION {EntityResources(G, e) : e \in ents})

ScopePrincipals(old, new, rows) ==
    SidePrincipals(new, NewRelationships(old, new), DifferingEntities(new, old), rows)
        \cup SidePrincipals(old, OldRelationships(old, new), DifferingEntities(old, new), rows)

ScopeResources(old, new) ==
    SideResources(new, NewRelationships(old, new), DifferingEntities(new, old))
        \cup SideResources(old, OldRelationships(old, new), DifferingEntities(old, new))

\* len(part) > max(1, len(whole)) * 0.7
TooMuchOf(part, whole) ==
    10 * Cardinality(part) > 7 * (IF whole = {} THEN 1 ELSE Cardinality(whole))

ScopeTooWide(old, new, rows) ==
    \/ TooMuchOf(ScopePrincipals(old, new, rows), PrincipalIds(new))
    \/ TooMuchOf(ScopeResources(old, new), ResourceIds(new))

------------------------------------------------------------------------------
(* The access rows of a refresh that reuses those of old. *)

StillThere(new, rows) == {row \in rows : row.principal \in Ids(new) /\ row.resource \in Ids(new)}

\* Mutant: the rows in scope are added and the old ones stay.
DeltaAccessRowsAppended(old, new, rows) ==
    StillThere(new, rows)
        \cup AccessIndexForScope(new, ScopePrincipals(old, new, rows) \cap PrincipalIds(new),
                                 ScopeResources(old, new) \cap ResourceIds(new))

DeltaAccessRows(old, new, rows) ==
    LET ps == ScopePrincipals(old, new, rows)
        rs == ScopeResources(old, new)
        kept == StillThere(new, rows)
        freshPs == ps \cap PrincipalIds(new)
        freshRs == rs \cap ResourceIds(new)
    IN  IF freshPs # {} /\ freshRs # {}
        THEN {row \in kept : ~ (row.principal \in ps /\ row.resource \in rs)}
                \cup AccessIndexForScope(new, freshPs, freshRs)
        ELSE kept

------------------------------------------------------------------------------
(* _refresh_group_closure *)

GroupTopologyChanged(old, new) ==
    \E rel \in ChangedRelationships(old, new) : rel.kind \in GROUP_KINDS

\* _delta_group_closure_scope
GroupScope(old, new) ==
    PrincipalIds(new) \cap
        ((UNION {ImpactedPrincipals(new, rel) :
                    rel \in {x \in NewRelationships(old, new) : x.kind \in GROUP_KINDS}})
            \cup (UNION {ImpactedPrincipals(old, rel) :
                    rel \in {x \in OldRelationships(old, new) : x.kind \in GROUP_KINDS}}))

CarriedClosure(new, rows) == {row \in rows : row.principal \in Ids(new) /\ row.group \in Ids(new)}

RefreshedClosure(old, new, rows) ==
    IF rows = {} THEN GroupClosure(new, PrincipalIds(new))
    ELSE IF ~ GroupTopologyChanged(old, new) THEN CarriedClosure(new, rows)
    ELSE IF TooMuchOf(GroupScope(old, new), PrincipalIds(new))
         THEN GroupClosure(new, PrincipalIds(new))
    ELSE {row \in CarriedClosure(new, rows) : row.principal \notin GroupScope(old, new)}
            \cup GroupClosure(new, GroupScope(old, new))

(* _refresh_resource_hierarchy *)

\* Mutant: resources that come or go without an edge are not noticed.
HierarchyChangedByEdges(old, new) ==
    \E rel \in ChangedRelationships(old, new) : rel.kind = "contains"

HierarchyChanged(old, new) ==
    \/ \E rel \in ChangedRelationships(old, new) : rel.kind = "contains"
    \/ ResourceIds(old) # ResourceIds(new)

CarriedHierarchy(new, rows) == {row \in rows : row.resource \in Ids(new) /\ row.ancestor \in Ids(new)}

RefreshedHierarchy(old, new, rows) ==
    IF rows = {} \/ HierarchyChanged(old, new)
    THEN ResourceHierarchy(new)
    ELSE CarriedHierarchy(new, rows)

------------------------------------------------------------------------------
(* ensure_indexes: the way a refresh goes, and the rows it ends with.       *)

\* "full" without a snapshot or rows to reuse, "carry_forward" of an unchanged
\* graph, "delta" otherwise unless the change is unsupported or too wide.
RefreshMode(hasPrevious, old, new, rows) ==
    IF ~ hasPrevious \/ rows = {} THEN "full"
    ELSE IF Unchanged(old, new) THEN "carry_forward"
    ELSE IF NeedsFullRebuild(old, new) \/ ScopeTooWide(old, new, rows) THEN "full"
    ELSE "delta"

AccessRowsOf(mode, old, new, rows) ==
    CASE mode = "full"          -> AccessIndex(new)
      [] mode = "carry_forward" -> StillThere(new, rows)
      [] mode = "delta"         -> DeltaAccessRows(old, new, rows)

ClosureRowsOf(mode, old, new, rows) ==
    IF mode = "full" THEN GroupClosure(new, PrincipalIds(new)) ELSE RefreshedClosure(old, new, rows)

HierarchyRowsOf(mode, old, new, rows) ==
    IF mode = "full" THEN ResourceHierarchy(new) ELSE RefreshedHierarchy(old, new, rows)
=============================================================================
