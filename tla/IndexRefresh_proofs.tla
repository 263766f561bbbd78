------------------------- MODULE IndexRefresh_proofs -------------------------
(***************************************************************************)
(* The index refresh, for every world of entities and graphs, every depth, *)
(* retention and number of scans, faults, reviews and readers.             *)
(* First the delta: what the calculations of the engine return - rows of   *)
(* the right table for every well-formed graph - and why the rows a        *)
(* refresh derives are right: the access row of a pair, on a resource      *)
(* without denies, can differ between two snapshots only if the pair is in *)
(* the scope _delta_access_scope and _expand_entity_delta_scope work out.  *)
(* Then the refreshes: what the tables tell.  At the end the readers: what *)
(* a request of several reads is told when the engine, or the snapshots,   *)
(* have moved on.                                                          *)
(***************************************************************************)
EXTENDS IndexReaders, FiniteSetTheorems, WellFoundedInduction, NaturalsInduction, TLAPS

------------------------------------------------------------------------------
(* Finiteness, for the counts.                                             *)

\* The product of four finite sets is finite.
LEMMA FourProduct ==
    ASSUME NEW A, NEW B, NEW C, NEW D,
           IsFiniteSet(A), IsFiniteSet(B), IsFiniteSet(C), IsFiniteSet(D)
    PROVE  IsFiniteSet((A \X B) \X (C \X D))
<1>1. IsFiniteSet(A \X B)  BY FS_Product
<1>2. IsFiniteSet(C \X D)  BY FS_Product
<1>. QED
  BY <1>1, <1>2, FS_Product

\* Records of four fields are as many as the tuples of their fields.
LEMMA FourFields ==
    ASSUME NEW A, NEW B, NEW C, NEW D,
           IsFiniteSet(A), IsFiniteSet(B), IsFiniteSet(C), IsFiniteSet(D)
    PROVE  IsFiniteSet([principal : A, resource : B, permissions : C, why : D])
<1> DEFINE S == [principal : A, resource : B, permissions : C, why : D]
           T == (A \X B) \X (C \X D)
           f == [row \in S |-> <<<<row.principal, row.resource>>, <<row.permissions, row.why>>>>]
<1>1. f \in [S -> T]
  OBVIOUS
<1>2. ASSUME NEW x \in S, NEW y \in S, f[x] = f[y]
      PROVE  x = y
  <2>1. /\ x.principal = y.principal /\ x.resource = y.resource
        /\ x.permissions = y.permissions /\ x.why = y.why
    BY <1>2
  <2>. QED
    BY <2>1
<1>3. f \in Injection(S, T)
  BY <1>1, <1>2 DEF Injection, IsInjective
<1>4. IsFiniteSet(T)
  BY FourProduct
<1>. QED
  BY <1>3, <1>4, FS_Injection

\* There are finitely many access rows, whatever the snapshot.
LEMMA AccessRowsFinite == IsFiniteSet(AccessRows)
<1>1. IsFiniteSet(Entity \X Label)
  BY FiniteAssumption, FS_Product
<1>2. IsFiniteSet(SUBSET Permission) /\ IsFiniteSet(SUBSET (Entity \X Label))
  BY <1>1, FiniteAssumption, FS_SUBSET
<1>. QED
  BY <1>2, FiniteAssumption, FourFields DEF AccessRows

\* A filtered set of access rows can be counted.
LEMMA RowCount ==
    ASSUME NEW rows \in SUBSET AccessRows, NEW S \in SUBSET rows
    PROVE  Cardinality(S) \in Int
<1>1. IsFiniteSet(S)
  BY AccessRowsFinite, FS_Subset
<1>. QED
  BY <1>1, FS_CardinalityType

------------------------------------------------------------------------------
(* The access index.                                                       *)

\* A row the engine calculates for a principal and a resource of the graph.
LEMMA AccessRowType ==
    ASSUME NEW G, WellFormed(G), NEW p \in Ids(G), NEW r \in Ids(G), NEW acts
    PROVE  AccessRow(G, p, acts, r) \in AccessRows
<1> DEFINE gs == EffectiveGrants(G, acts, r)
           why == {Quote(G, e) : e \in {p, r} \cup {g.source : g \in gs} \cup {g.target : g \in gs}}
<1>1. ASSUME NEW g \in gs
      PROVE  g.source \in Ids(G) /\ g.target \in Ids(G) /\ g.permissions \subseteq Permission
  BY RelationshipAssumption DEF EffectiveGrants, Grants, WellFormed
<1>2. ASSUME NEW e \in Ids(G) PROVE Quote(G, e) \in Entity \X Label
  BY DEF Quote, WellFormed
<1>3. why \subseteq Entity \X Label
  <2>1. ASSUME NEW e \in {p, r} \cup {g.source : g \in gs} \cup {g.target : g \in gs}
        PROVE  e \in Ids(G)
    BY <1>1
  <2>. QED
    BY <1>2, <2>1
<1>4. (UNION {g.permissions : g \in gs}) \ DeniedPermissions(G, acts, r) \subseteq Permission
  BY <1>1
<1>5. p \in Entity /\ r \in Entity
  BY DEF WellFormed
<1>. QED
  BY <1>3, <1>4, <1>5 DEF AccessRow, AccessRows

\* The rows calculated for a scope of principals and resources of the graph.
LEMMA AccessIndexType ==
    ASSUME NEW G, WellFormed(G), NEW ps \in SUBSET Ids(G), NEW rs \in SUBSET Ids(G)
    PROVE  AccessIndexForScope(G, ps, rs) \subseteq AccessRows
<1>1. ASSUME NEW p \in ps PROVE RowsOfPrincipal(G, p, Reach(G, p), rs) \subseteq AccessRows
  BY AccessRowType DEF RowsOfPrincipal
<1>. QED
  BY <1>1 DEF AccessIndexForScope

------------------------------------------------------------------------------
(* The closures.                                                           *)

\* Widening stays among the entities.
LEMMA GroupWidenType ==
    ASSUME NEW G, WellFormed(G), NEW S \in SUBSET Entity
    PROVE  GroupWiden(G, S) \in SUBSET Entity
  BY DEF GroupWiden, GroupSuccessors, WellFormed

\* So does every layer around an entity.
LEMMA GroupLayersType ==
    ASSUME NEW G, WellFormed(G), NEW p \in Entity, NEW k \in 1..9
    PROVE  GroupLayers(G, p)[k] \in SUBSET Entity
<1> DEFINE l1 == GroupWiden(G, {p})
           l2 == GroupWiden(G, l1)
           l3 == GroupWiden(G, l2)
           l4 == GroupWiden(G, l3)
           l5 == GroupWiden(G, l4)
           l6 == GroupWiden(G, l5)
           l7 == GroupWiden(G, l6)
           l8 == GroupWiden(G, l7)
<1>1. l1 \in SUBSET Entity  BY GroupWidenType
<1>2. l2 \in SUBSET Entity  BY <1>1, GroupWidenType
<1>3. l3 \in SUBSET Entity  BY <1>2, GroupWidenType
<1>4. l4 \in SUBSET Entity  BY <1>3, GroupWidenType
<1>5. l5 \in SUBSET Entity  BY <1>4, GroupWidenType
<1>6. l6 \in SUBSET Entity  BY <1>5, GroupWidenType
<1>7. l7 \in SUBSET Entity  BY <1>6, GroupWidenType
<1>8. l8 \in SUBSET Entity  BY <1>7, GroupWidenType
<1> HIDE DEF l1, l2, l3, l4, l5, l6, l7, l8
<1>9. GroupLayers(G, p) = <<{p}, l1, l2, l3, l4, l5, l6, l7, l8>>
  BY DEF GroupLayers, l1, l2, l3, l4, l5, l6, l7, l8
<1>. QED
  BY <1>1, <1>2, <1>3, <1>4, <1>5, <1>6, <1>7, <1>8, <1>9

\* The closure rows of principals of the graph.
LEMMA GroupClosureType ==
    ASSUME NEW G, WellFormed(G), NEW ps
    PROVE  GroupClosure(G, ps) \subseteq ClosureRows
<1>1. ASSUME NEW p \in ps \cap PrincipalIds(G) PROVE GroupClosureRows(G, p) \subseteq ClosureRows
  <2>1. p \in Entity
    BY DEF PrincipalIds, WellFormed
  <2>2. ASSUME NEW k \in 1..ClosureDepth
        PROVE  k + 1 \in 1..9 /\ GroupLayers(G, p)[k + 1] \in SUBSET Entity
    BY <2>1, GroupLayersType, DepthAssumption
  <2>. QED
    BY <2>1, <2>2 DEF GroupClosureRows, ClosureRows
<1>. QED
  BY <1>1 DEF GroupClosure

\* The hierarchy rows of the graph.
LEMMA HierarchyType ==
    ASSUME NEW G, WellFormed(G)
    PROVE  ResourceHierarchy(G) \subseteq HierarchyTableRows
<1>1. ResourceIds(G) \subseteq Entity
  BY DEF ResourceIds, WellFormed
<1>2. ASSUME NEW r \in ResourceIds(G)
      PROVE  Ancestors(G, r) \subseteq ResourceIds(G) /\ Cardinality(Ancestors(G, r)) \in Int
  <2>1. Ancestors(G, r) \subseteq ResourceIds(G)
    BY DEF Ancestors
  <2>2. IsFiniteSet(Ancestors(G, r))
    BY <1>1, <2>1, FiniteAssumption, FS_Subset
  <2>. QED
    BY <2>1, <2>2, FS_CardinalityType
<1>3. ASSUME NEW r \in ResourceIds(G) PROVE HierarchyRows(G, r) \subseteq HierarchyTableRows
  BY <1>1, <1>2 DEF HierarchyRows, HierarchyTableRows
<1>. QED
  BY <1>3 DEF ResourceHierarchy

------------------------------------------------------------------------------
(* The summaries.                                                          *)

\* The exposure rows of a set of access rows.
LEMMA ExposureType ==
    ASSUME NEW rows \in SUBSET AccessRows
    PROVE  ExposureIndex(rows) \subseteq ExposureRows
<1>1. ASSUME NEW r
      PROVE  /\ Cardinality({x \in rows : x.resource = r}) \in Int
             /\ Cardinality({x \in rows : x.resource = r /\ IsPrivileged(x)}) \in Int
  BY RowCount
<1>2. \A x \in rows : x.resource \in Entity
  BY DEF AccessRows
<1>3. ASSUME NEW r \in {x.resource : x \in rows}
      PROVE  [resource   |-> r,
              principals |-> Cardinality({x \in rows : x.resource = r}),
              privileged |-> Cardinality({x \in rows : x.resource = r /\ IsPrivileged(x)})]
                \in ExposureRows
  BY <1>1, <1>2 DEF ExposureRows
<1>. QED
  BY <1>3 DEF ExposureIndex

\* The principal summaries of a set of access rows.
LEMMA SummaryType ==
    ASSUME NEW rows \in SUBSET AccessRows
    PROVE  PrincipalSummary(rows) \subseteq SummaryRows
<1>1. ASSUME NEW p
      PROVE  /\ Cardinality({x \in rows : x.principal = p}) \in Int
             /\ Cardinality({x \in rows : x.principal = p /\ IsPrivileged(x)}) \in Int
  BY RowCount
<1>2. \A x \in rows : x.principal \in Entity
  BY DEF AccessRows
<1>3. ASSUME NEW p \in {x.principal : x \in rows}
      PROVE  [principal  |-> p,
              resources  |-> Cardinality({x \in rows : x.principal = p}),
              privileged |-> Cardinality({x \in rows : x.principal = p /\ IsPrivileged(x)})]
                \in SummaryRows
  BY <1>1, <1>2 DEF SummaryRows
<1>. QED
  BY <1>3 DEF PrincipalSummary

------------------------------------------------------------------------------
(* Layers of actors.                                                       *)

\* Widening keeps what it widens, and more gives more.
LEMMA WidenGrows ==
    ASSUME NEW G, NEW S, NEW T, S \subseteq T
    PROVE  S \subseteq Widen(G, S) /\ Widen(G, S) \subseteq Widen(G, T)
  BY DEF Widen

\* Each layer is the one before, widened.
LEMMA LayerStep ==
    ASSUME NEW G, NEW a, NEW k \in 1..8
    PROVE  /\ Layers(G, a)[1] = {a}
           /\ k + 1 \in 1..9
           /\ Layers(G, a)[k + 1] = Widen(G, Layers(G, a)[k])
<1> DEFINE l1 == Widen(G, {a})
           l2 == Widen(G, l1)
           l3 == Widen(G, l2)
           l4 == Widen(G, l3)
           l5 == Widen(G, l4)
           l6 == Widen(G, l5)
           l7 == Widen(G, l6)
           l8 == Widen(G, l7)
<1>1. /\ l1 = Widen(G, {a}) /\ l2 = Widen(G, l1) /\ l3 = Widen(G, l2) /\ l4 = Widen(G, l3)
      /\ l5 = Widen(G, l4) /\ l6 = Widen(G, l5) /\ l7 = Widen(G, l6) /\ l8 = Widen(G, l7)
  OBVIOUS
<1> HIDE DEF l1, l2, l3, l4, l5, l6, l7, l8
<1>2. Layers(G, a) = <<{a}, l1, l2, l3, l4, l5, l6, l7, l8>>
  BY DEF Layers, l1, l2, l3, l4, l5, l6, l7, l8
<1>3. k \in {1, 2, 3, 4, 5, 6, 7, 8}
  OBVIOUS
<1>. QED
  BY <1>1, <1>2, <1>3

\* The eight layers are within the search without a limit.
LEMMA LayersInClosure ==
    ASSUME NEW G, NEW a, NEW k \in 1..9
    PROVE  Layers(G, a)[k] \subseteq ActorClosure(G, a)
<1> DEFINE L == Layers(G, a)
<1>1. /\ L[1] = {a}
      /\ L[2] = Widen(G, L[1]) /\ L[3] = Widen(G, L[2]) /\ L[4] = Widen(G, L[3])
      /\ L[5] = Widen(G, L[4]) /\ L[6] = Widen(G, L[5]) /\ L[7] = Widen(G, L[6])
      /\ L[8] = Widen(G, L[7]) /\ L[9] = Widen(G, L[8])
  <2> HIDE DEF L
  <2>1. ASSUME NEW n \in 1..8 PROVE L[1] = {a} /\ L[n + 1] = Widen(G, L[n])
    BY LayerStep DEF L
  <2>. QED
    BY <2>1, 1 + 1 = 2, 2 + 1 = 3, 3 + 1 = 4, 4 + 1 = 5, 5 + 1 = 6, 6 + 1 = 7, 7 + 1 = 8, 8 + 1 = 9
<1> HIDE DEF L
<1>2. ASSUME NEW S PROVE S \subseteq Widen(G, S)
  BY WidenGrows
<1>3. /\ L[1] \subseteq L[2] /\ L[2] \subseteq L[3] /\ L[3] \subseteq L[4] /\ L[4] \subseteq L[5]
      /\ L[5] \subseteq L[6] /\ L[6] \subseteq L[7] /\ L[7] \subseteq L[8] /\ L[8] \subseteq L[9]
  BY <1>1, <1>2
<1>4. L[k] \subseteq L[9]
  <2>1. k \in {1, 2, 3, 4, 5, 6, 7, 8, 9}
    OBVIOUS
  <2>. QED
    BY <1>3, <2>1
<1>5. L[9] = Widen4(G, Widen4(G, {a}))
  BY <1>1 DEF Widen4
<1>6. ASSUME NEW S PROVE S \subseteq Widen4(G, S)
  BY <1>2 DEF Widen4
<1>7. L[9] \subseteq ActorClosure(G, a)
  <2>1. L[9] \subseteq Widen4(G, L[9])
    BY <1>6
  <2>2. Widen4(G, L[9]) \subseteq Widen4(G, Widen4(G, L[9]))
    BY <1>6
  <2>. QED
    BY <1>5, <2>1, <2>2 DEF ActorClosure
<1>. QED
  BY <1>4, <1>7 DEF L

\* Whoever a principal acts as is found by the search without a limit, the
\* principal included.
LEMMA ReachInClosure ==
    ASSUME NEW G, NEW a
    PROVE  a \in Reach(G, a) /\ Reach(G, a) \subseteq ActorClosure(G, a)
<1>1. ReachDepth + 1 \in 1..9
  BY DepthAssumption
<1>2. \A k \in 1..9 : a \in Layers(G, a)[k]
  <2> DEFINE L == Layers(G, a)
  <2>1. a \in L[1] /\ \A n \in 1..8 : a \in L[n] => a \in L[n + 1]
    <3>1. a \in L[1]
      BY LayerStep
    <3>2. ASSUME NEW n \in 1..8, a \in L[n] PROVE a \in L[n + 1]
      BY <3>2, LayerStep, WidenGrows
    <3>. QED
      BY <3>1, <3>2
  <2> HIDE DEF L
  <2>. QED
    BY <2>1 DEF L
<1>. QED
  BY <1>1, <1>2, LayersInClosure DEF Reach

------------------------------------------------------------------------------
(* Why somebody acts as an actor in one graph and not in the other.        *)

\* An edge that only G has, that starts at one of S and leads on to b.
Blamed(G, H, S, F, b) ==
    \E rel \in G.relationships \ H.relationships :
        rel.kind \in TRAVERSABLE /\ rel.source \in S /\ b \in F[rel.target]

\* One more hop: what is seen in G only, is so because of an edge of G only.
LEMMA BlameStep ==
    ASSUME NEW G, NEW H, WellFormed(G), NEW S, NEW T, NEW F, NEW E,
           \A t \in Entity : t \in F[t] /\ E[t] = Widen(G, F[t]),
           \A b \in S : b \in T \/ Blamed(G, H, S, F, b)
    PROVE  \A b \in Widen(G, S) : b \in Widen(H, T) \/ Blamed(G, H, Widen(G, S), E, b)
<1> SUFFICES ASSUME NEW b \in Widen(G, S)
             PROVE  b \in Widen(H, T) \/ Blamed(G, H, Widen(G, S), E, b)
  OBVIOUS
<1>1. S \subseteq Widen(G, S) /\ T \subseteq Widen(H, T)
  BY WidenGrows
<1>2. PICK a \in S : b \in {a} \cup Successors(G, a)
  BY DEF Widen
<1>3. \A rel \in G.relationships : rel.target \in Entity
  BY RelationshipAssumption DEF WellFormed
<1>4. ASSUME NEW rel \in G.relationships, NEW c \in F[rel.target],
             b \in {c} \cup Successors(G, c)
      PROVE  b \in E[rel.target]
  <2>1. E[rel.target] = Widen(G, F[rel.target])
    BY <1>3
  <2>. QED
    BY <1>4, <2>1 DEF Widen
<1>5. CASE Blamed(G, H, S, F, a)
  <2>1. PICK rel \in G.relationships \ H.relationships :
            rel.kind \in TRAVERSABLE /\ rel.source \in S /\ a \in F[rel.target]
    BY <1>5 DEF Blamed
  <2>2. b \in E[rel.target]
    BY <1>2, <1>4, <2>1
  <2>. QED
    BY <1>1, <2>1, <2>2 DEF Blamed
<1>6. CASE a \in T
  <2>1. CASE b = a
    BY <1>1, <1>6, <2>1
  <2>2. CASE b # a
    <3>1. PICK rel \in G.relationships :
              rel.kind \in TRAVERSABLE /\ rel.source = a /\ b = rel.target
      BY <1>2, <2>2 DEF Successors
    <3>2. CASE rel \in H.relationships
      <4>1. b \in Successors(H, a)
        BY <3>1, <3>2 DEF Successors
      <4>. QED
        BY <1>6, <4>1 DEF Widen
    <3>3. CASE rel \notin H.relationships
      <4>1. b \in E[rel.target]
        BY <1>3, <1>4, <3>1
      <4>. QED
        BY <1>1, <3>1, <3>3, <4>1 DEF Blamed
    <3>. QED
      BY <3>2, <3>3
  <2>. QED
    BY <2>1, <2>2
<1>. QED
  BY <1>2, <1>5, <1>6

\* Whom p acts as in G only, p does by an edge that G alone has, from somebody
\* p acts as: _impacted_principal_ids_for_relationship finds p.
LEMMA ReachDiffers ==
    ASSUME NEW G, NEW H, WellFormed(G), NEW p, NEW a \in Reach(G, p), a \notin Reach(H, p)
    PROVE  \E rel \in G.relationships \ H.relationships :
              /\ rel.kind \in TRAVERSABLE
              /\ rel.source \in Reach(G, p)
              /\ a \in ActorClosure(G, rel.target)
<1> DEFINE F(k) == [t \in Entity |-> Layers(G, t)[k]]
           Told(k) == \A b \in Layers(G, p)[k] :
                         b \in Layers(H, p)[k] \/ Blamed(G, H, Layers(G, p)[k], F(k), b)
<1>1. \A t : \A k \in 1..9 : t \in Layers(G, t)[k]
  <2> SUFFICES ASSUME NEW t PROVE \A k \in 1..9 : t \in Layers(G, t)[k]
    OBVIOUS
  <2> DEFINE In(k) == t \in Layers(G, t)[k]
  <2>1. In(1)
    BY LayerStep
  <2>2. ASSUME NEW k \in 1..8, In(k) PROVE In(k + 1)
    BY <2>2, LayerStep, WidenGrows
  <2> HIDE DEF In
  <2>3. In(2) /\ In(3) /\ In(4) /\ In(5) /\ In(6) /\ In(7) /\ In(8) /\ In(9)
    BY <2>1, <2>2, 1 + 1 = 2, 2 + 1 = 3, 3 + 1 = 4, 4 + 1 = 5, 5 + 1 = 6, 6 + 1 = 7, 7 + 1 = 8, 8 + 1 = 9
  <2>4. \A k \in 1..9 : k \in {1, 2, 3, 4, 5, 6, 7, 8, 9}
    OBVIOUS
  <2>. QED
    BY <2>1, <2>3, <2>4 DEF In
<1>2. Told(1)
  BY LayerStep
<1>3. ASSUME NEW k \in 1..8, Told(k) PROVE Told(k + 1)
  <2>1. \A t \in Entity : t \in F(k)[t] /\ F(k + 1)[t] = Widen(G, F(k)[t])
    BY <1>1, LayerStep
  <2>2. /\ Layers(G, p)[k + 1] = Widen(G, Layers(G, p)[k])
        /\ Layers(H, p)[k + 1] = Widen(H, Layers(H, p)[k])
    BY LayerStep
  <2> DEFINE S == Layers(G, p)[k]
             T == Layers(H, p)[k]
             Fk == F(k)
             Fn == F(k + 1)
  <2> HIDE DEF Fk, Fn, S, T
  <2>3. \A b \in S : b \in T \/ Blamed(G, H, S, Fk, b)
    BY <1>3 DEF Fk, S, T
  <2>4. \A t \in Entity : t \in Fk[t] /\ Fn[t] = Widen(G, Fk[t])
    BY <2>1 DEF Fk, Fn
  <2>5. \A b \in Widen(G, S) : b \in Widen(H, T) \/ Blamed(G, H, Widen(G, S), Fn, b)
    BY <2>3, <2>4, BlameStep
  <2>. QED
    BY <2>2, <2>5 DEF S, T, Fn
<1>4. \A k \in 1..9 : Told(k)
  <2> HIDE DEF Told
  <2>1. Told(2) /\ Told(3) /\ Told(4) /\ Told(5) /\ Told(6) /\ Told(7) /\ Told(8) /\ Told(9)
    BY <1>2, <1>3, 1 + 1 = 2, 2 + 1 = 3, 3 + 1 = 4, 4 + 1 = 5, 5 + 1 = 6, 6 + 1 = 7, 7 + 1 = 8, 8 + 1 = 9
  <2>2. \A k \in 1..9 : k \in {1, 2, 3, 4, 5, 6, 7, 8, 9}
    OBVIOUS
  <2>. QED
    BY <1>2, <2>1, <2>2
<1>5. ReachDepth + 1 \in 1..9
  BY DepthAssumption
<1>6. PICK rel \in G.relationships \ H.relationships :
          /\ rel.kind \in TRAVERSABLE
          /\ rel.source \in Reach(G, p)
          /\ a \in F(ReachDepth + 1)[rel.target]
  BY <1>4, <1>5 DEF Blamed, Reach
<1>7. rel.target \in Entity
  BY RelationshipAssumption DEF WellFormed
<1>. QED
  BY <1>5, <1>6, <1>7, LayersInClosure

------------------------------------------------------------------------------
(* The forest of two snapshots whose containment edges are the same.       *)

\* An ancestor in one is an ancestor in the other.
LEMMA AncestorsIncluded ==
    ASSUME NEW G, NEW H, WellFormed(G), WellFormed(H), Contains(G) = Contains(H), NEW r
    PROVE  Ancestors(G, r) \subseteq Ancestors(H, r)
<1> SUFFICES ASSUME NEW a \in Ancestors(G, r) PROVE a \in Ancestors(H, r)
  OBVIOUS
<1>1. \A c \in Contains(G) : c.source \in ResourceIds(G) /\ c.source \in ResourceIds(H)
  BY DEF WellFormed, Contains
<1>2. a \in ResourceIds(H) \cup {r}
  <2> DEFINE B == {c.source : c \in Contains(G)} \cup {r}
  <2>1. B \in SUBSET (ResourceIds(G) \cup {r}) /\ B \subseteq ResourceIds(H) \cup {r}
    BY <1>1
  <2>2. a \in B
    BY <2>1 DEF Ancestors
  <2>. QED
    BY <2>1, <2>2
<1>3. ASSUME NEW T \in SUBSET (ResourceIds(H) \cup {r}),
             r \in T, \A c \in Contains(H) : c.target \in T => c.source \in T
      PROVE  a \in T
  <2> DEFINE U == T \cap (ResourceIds(G) \cup {r})
  <2>1. r \in U /\ \A c \in Contains(G) : c.target \in U => c.source \in U
    BY <1>1, <1>3
  <2>2. a \in U
    BY <2>1 DEF Ancestors
  <2>. QED
    BY <2>2
<1>. QED
  BY <1>2, <1>3 DEF Ancestors

\* What a grant of both gives access to in one, it gives access to in the other.
LEMMA GrantTargetsAgree ==
    ASSUME NEW G, NEW H, WellFormed(G), WellFormed(H), Contains(G) = Contains(H),
           \A e \in Ids(G) \cap Ids(H) : KindOf(G, e) = KindOf(H, e),
           NEW g \in Grants(G) \cap Grants(H), NEW r \in ResourceIds(G) \cap GrantTargets(G, g)
    PROVE  r \in ResourceIds(H) /\ r \in GrantTargets(H, g)
<1>1. g.target \in ResourceIds(G) /\ g.target \in ResourceIds(H)
  BY DEF WellFormed, Grants
<1>2. CASE ~ g.inherits
  BY <1>1, <1>2 DEF GrantTargets
<1>3. CASE g.inherits
  <2>1. g.target \in Ancestors(G, r)
    BY <1>3 DEF GrantTargets, Descendants
  <2>2. g.target \in Ancestors(H, r)
    BY <2>1, AncestorsIncluded
  <2>3. r \in ResourceIds(H)
    <3>1. CASE r \in Ids(H)
      BY <3>1 DEF ResourceIds
    <3>2. CASE r \notin Ids(H)
      <4>1. \A c \in Contains(G) : c.target \in Ids(H)
        BY DEF WellFormed, Contains
      <4>2. g.target \in {r}
        BY <2>1, <3>2, <4>1 DEF Ancestors
      <4>. QED
        BY <1>1, <4>2
    <3>. QED
      BY <3>1, <3>2
  <2>. QED
    BY <1>3, <2>2, <2>3 DEF GrantTargets, Descendants
<1>. QED
  BY <1>2, <1>3

------------------------------------------------------------------------------
(* The scope of a delta.                                                   *)

\* The principal and the resource are both in what G contributes to the scope.
InSide(G, H, p, r, rows) ==
    /\ p \in SidePrincipals(G, G.relationships \ H.relationships, DifferingEntities(G, H), rows)
    /\ r \in SideResources(G, G.relationships \ H.relationships, DifferingEntities(G, H))

\* p acts as somebody with a grant on r.
Gives(G, p, r, g) == g \in Grants(G) /\ g.source \in Reach(G, p) /\ r \in GrantTargets(G, g)

\* Whom an actor acts as has its resources in the surface of the actor.
LEMMA GivenIsOnSurface ==
    ASSUME NEW G, NEW p, NEW r, NEW g, Gives(G, p, r, g), NEW a, g.source \in ActorClosure(G, a)
    PROVE  r \in ImpactSurface(G, a)
  BY DEF Gives, ImpactSurface

\* A pair that a grant joins in one graph and not in the other is in scope.
LEMMA GrantDiffers ==
    ASSUME NEW G, NEW H, WellFormed(G), WellFormed(H), Contains(G) = Contains(H),
           \A e \in Ids(G) \cap Ids(H) : KindOf(G, e) = KindOf(H, e),
           NEW p \in PrincipalIds(G), NEW r \in ResourceIds(G), NEW g, NEW rows,
           Gives(G, p, r, g), ~ Gives(H, p, r, g)
    PROVE  InSide(G, H, p, r, rows)
<1> DEFINE changed == G.relationships \ H.relationships
<1>1. ASSUME NEW rel \in changed, rel.source \in Reach(G, p), r \in ImpactedResources(G, rel)
      PROVE  InSide(G, H, p, r, rows)
  <2>1. p \in ImpactedPrincipals(G, rel)
    BY <1>1 DEF ImpactedPrincipals, PrincipalsActingAs
  <2>. QED
    BY <1>1, <2>1 DEF InSide, SidePrincipals, SideResources
<1>2. CASE g \in changed
  BY <1>1, <1>2 DEF Gives, Grants, ImpactedResources
<1>3. CASE g \notin changed
  <2>1. g \in Grants(G) \cap Grants(H)
    BY <1>3 DEF Gives, Grants
  <2>2. r \in GrantTargets(H, g)
    BY <2>1, GrantTargetsAgree DEF Gives
  <2>3. g.source \in Reach(G, p) /\ g.source \notin Reach(H, p)
    BY <2>1, <2>2 DEF Gives
  <2>4. PICK rel \in changed :
            rel.kind \in TRAVERSABLE /\ rel.source \in Reach(G, p) /\ g.source \in ActorClosure(G, rel.target)
    BY <2>3, ReachDiffers
  <2>5. r \in ImpactedResources(G, rel)
    BY <2>4, GivenIsOnSurface
    DEF ImpactedResources, TRAVERSABLE, GROUP_KINDS, GRANT_KINDS
  <2>. QED
    BY <1>1, <2>4, <2>5
<1>. QED
  BY <1>2, <1>3

\* So is one whose row quotes something else: the principal, the resource or an
\* end of a grant between them has come or changed.
LEMMA QuoteDiffers ==
    ASSUME NEW G, NEW H, WellFormed(G),
           NEW p \in PrincipalIds(G), NEW r \in ResourceIds(G), NEW g, NEW rows,
           Gives(G, p, r, g),
           NEW e \in {p, r, g.source, g.target}, e \in DifferingEntities(G, H),
           e \in {p, g.source} \/ \E row \in rows : row.principal = p /\ row.resource = r
    PROVE  InSide(G, H, p, r, rows)
<1>1. p \in EntityPrincipals(G, e, rows) /\ r \in EntityResources(G, e)
      => InSide(G, H, p, r, rows)
  <2> SUFFICES ASSUME p \in EntityPrincipals(G, e, rows), r \in EntityResources(G, e)
               PROVE  InSide(G, H, p, r, rows)
    OBVIOUS
  <2> DEFINE differing == DifferingEntities(G, H)
  <2>1. p \in UNION {EntityPrincipals(G, x, rows) : x \in differing}
    OBVIOUS
  <2>2. r \in UNION {EntityResources(G, x) : x \in differing}
    OBVIOUS
  <2>3. p \in SidePrincipals(G, G.relationships \ H.relationships, differing, rows)
    BY <2>1 DEF SidePrincipals
  <2>4. r \in SideResources(G, G.relationships \ H.relationships, differing)
    BY <2>2 DEF SideResources
  <2>. QED
    BY <2>3, <2>4 DEF InSide
<1>2. p \in Reach(G, p) /\ g.source \in ActorClosure(G, p) /\ g.source \in ActorClosure(G, g.source)
  BY ReachInClosure DEF Gives
<1>3. CASE e \in {p, g.source}
  <2>1. KindOf(G, e) # "resource"
    BY <1>3 DEF WellFormed, PrincipalIds, ResourceIds, PRINCIPAL_KINDS, Gives, Grants
  <2>2. p \in PrincipalsActingAs(G, e)
    BY <1>2, <1>3 DEF PrincipalsActingAs, Gives
  <2>3. r \in ImpactSurface(G, e)
    BY <1>2, <1>3, GivenIsOnSurface
  <2>. QED
    BY <1>1, <2>1, <2>2, <2>3 DEF EntityPrincipals, EntityResources
<1>4. CASE e \notin {p, g.source}
  <2>1. KindOf(G, e) = "resource"
    BY <1>4 DEF WellFormed, Gives, Grants, ResourceIds
  <2>2. r \in AffectedResources(G, e)
    BY <1>4 DEF AffectedResources, Gives, GrantTargets
  <2>3. p \in EntityPrincipals(G, e, rows)
    BY <1>4, <2>1, <2>2 DEF EntityPrincipals
  <2>. QED
    BY <1>1, <2>1, <2>2, <2>3 DEF EntityResources
<1>. QED
  BY <1>3, <1>4

------------------------------------------------------------------------------
(* What a delta writes.                                                    *)

OnPair(rows, p, r) == {row \in rows : row.principal = p /\ row.resource = r}
RowOf(G, p, r) == RowsOfPrincipal(G, p, Reach(G, p), {r})
Effective(G, p, r) == EffectiveGrants(G, Reach(G, p), r)

\* Rows of principals and resources of the graph, and on every resource without
\* a deny those the engine calculates.
Exact(G, rows) ==
    /\ \A row \in rows : row.principal \in PrincipalIds(G) /\ row.resource \in ResourceIds(G)
    /\ \A p \in PrincipalIds(G), r \in Undenied(G) : OnPair(rows, p, r) = RowOf(G, p, r)

\* The row of a pair is there if a grant is effective.
LEMMA RowOfPair ==
    ASSUME NEW G, NEW p, NEW r
    PROVE  RowOf(G, p, r) =
             IF Effective(G, p, r) = {} THEN {} ELSE {AccessRow(G, p, Reach(G, p), r)}
  BY DEF RowOf, RowsOfPrincipal, Effective

\* Without denies a grant is effective if it gives any permission.
LEMMA EffectiveGives ==
    ASSUME NEW G, NEW p, NEW r \in Undenied(G)
    PROVE  /\ DeniedPermissions(G, Reach(G, p), r) = {}
           /\ \A g : g \in Effective(G, p, r) <=> Gives(G, p, r, g) /\ g.permissions # {}
<1>1. DeniedPermissions(G, Reach(G, p), r) = {}
  BY DEF Undenied, DeniedPermissions
<1>. QED
  BY <1>1 DEF Effective, EffectiveGrants, Gives

\* What _full_rebuild_reasons rules out.
LEMMA WithoutRebuild ==
    ASSUME NEW old, NEW new, ~ NeedsFullRebuild(old, new)
    PROVE  /\ Contains(old) = Contains(new) /\ Denies(old) = Denies(new)
           /\ \A e \in Ids(old) \cap Ids(new) : KindOf(old, e) = KindOf(new, e)
<1>1. \A rel : rel.kind \in {"contains", "deny_acl"}
          => (rel \in old.relationships <=> rel \in new.relationships)
  BY DEF NeedsFullRebuild, ChangedRelationships, NewRelationships, OldRelationships,
         FULL_REBUILD_KINDS
<1>. QED
  BY <1>1 DEF NeedsFullRebuild, Contains, Denies

\* The scope of a delta is what the two graphs contribute.
LEMMA SidesAreScope ==
    ASSUME NEW old, NEW new, NEW p, NEW r, NEW rows,
           InSide(old, new, p, r, rows) \/ InSide(new, old, p, r, rows)
    PROVE  p \in ScopePrincipals(old, new, rows) /\ r \in ScopeResources(old, new)
  BY DEF InSide, ScopePrincipals, ScopeResources, OldRelationships, NewRelationships

\* A pair out of scope keeps its row: the grants are the same, and so is what
\* the row quotes.
LEMMA RowStays ==
    ASSUME NEW old, NEW new, WellFormed(old), WellFormed(new),
           ~ NeedsFullRebuild(old, new), NEW rows,
           NEW p \in PrincipalIds(old) \cap PrincipalIds(new),
           NEW r \in Undenied(old) \cap Undenied(new),
           OnPair(rows, p, r) = RowOf(old, p, r),
           ~ InSide(old, new, p, r, rows), ~ InSide(new, old, p, r, rows)
    PROVE  RowOf(old, p, r) = RowOf(new, p, r)
<1>1. /\ Contains(old) = Contains(new)
      /\ \A e \in Ids(old) \cap Ids(new) : KindOf(old, e) = KindOf(new, e)
      /\ r \in ResourceIds(old) /\ r \in ResourceIds(new)
  BY WithoutRebuild DEF Undenied
<1>2. ASSUME NEW g PROVE Gives(old, p, r, g) <=> Gives(new, p, r, g)
  <2>1. Gives(old, p, r, g) => Gives(new, p, r, g)
    BY <1>1, GrantDiffers
  <2>2. Gives(new, p, r, g) => Gives(old, p, r, g)
    BY <1>1, GrantDiffers
  <2>. QED
    BY <2>1, <2>2
<1>3. Effective(old, p, r) = Effective(new, p, r)
  BY <1>2, EffectiveGives DEF Effective, EffectiveGrants
<1>4. CASE Effective(new, p, r) = {}
  BY <1>3, <1>4, RowOfPair
<1>5. CASE Effective(new, p, r) # {}
  <2> DEFINE gs == Effective(new, p, r)
             quoted == {p, r} \cup {g.source : g \in gs} \cup {g.target : g \in gs}
  <2>1. \E row \in rows : row.principal = p /\ row.resource = r
    <3>1. OnPair(rows, p, r) # {}
      BY <1>3, <1>5, RowOfPair
    <3>. QED
      BY <3>1 DEF OnPair
  <2>2. ASSUME NEW e \in quoted PROVE old.entities[e] = new.entities[e]
    <3>1. PICK g \in gs : e \in {p, r, g.source, g.target}
      BY <1>5
    <3>2. Gives(new, p, r, g)
      BY EffectiveGives
    <3>3. e \in Ids(new)
      BY <1>1, <3>1, <3>2 DEF WellFormed, Gives, Grants, PrincipalIds, ResourceIds
    <3>4. e \notin DifferingEntities(new, old)
      BY <1>1, <2>1, <3>1, <3>2, QuoteDiffers
    <3>. QED
      BY <3>3, <3>4 DEF DifferingEntities
  <2>3. {Quote(old, e) : e \in quoted} = {Quote(new, e) : e \in quoted}
    BY <2>2 DEF Quote
  <2>4. DeniedPermissions(old, Reach(old, p), r) = {} /\ DeniedPermissions(new, Reach(new, p), r) = {}
    BY EffectiveGives
  <2>5. AccessRow(old, p, Reach(old, p), r) = AccessRow(new, p, Reach(new, p), r)
    <3> HIDE DEF gs
    <3>1. EffectiveGrants(old, Reach(old, p), r) = gs /\ EffectiveGrants(new, Reach(new, p), r) = gs
      BY <1>3 DEF gs, Effective
    <3>. QED
      BY <2>3, <2>4, <3>1 DEF AccessRow
  <2>. QED
    BY <1>3, <2>5, RowOfPair
<1>. QED
  BY <1>4, <1>5

\* So what is kept is right out of scope, for what has come and gone as well.
LEMMA KeptIsRight ==
    ASSUME NEW old, NEW new, WellFormed(old), WellFormed(new),
           ~ NeedsFullRebuild(old, new), NEW rows, Exact(old, rows),
           NEW p \in PrincipalIds(new), NEW r \in Undenied(new),
           ~ InSide(old, new, p, r, rows), ~ InSide(new, old, p, r, rows)
    PROVE  OnPair(StillThere(new, rows), p, r) = RowOf(new, p, r)
<1>1. /\ Contains(old) = Contains(new) /\ Denies(old) = Denies(new)
      /\ \A e \in Ids(old) \cap Ids(new) : KindOf(old, e) = KindOf(new, e)
  BY WithoutRebuild
<1>2. p \in Ids(new) /\ r \in Ids(new) /\ r \in ResourceIds(new)
  BY DEF PrincipalIds, ResourceIds, Undenied
<1>3. OnPair(StillThere(new, rows), p, r) = OnPair(rows, p, r)
  BY <1>2 DEF OnPair, StillThere
<1>4. CASE p \in Ids(old) /\ r \in Ids(old)
  <2>1. p \in PrincipalIds(old) /\ r \in Undenied(old)
    BY <1>1, <1>2, <1>4 DEF PrincipalIds, ResourceIds, Undenied
  <2>2. OnPair(rows, p, r) = RowOf(old, p, r)
    BY <2>1 DEF Exact
  <2>3. RowOf(old, p, r) = RowOf(new, p, r)
    BY <2>1, <2>2, RowStays
  <2>. QED
    BY <1>3, <2>2, <2>3
<1>5. CASE ~ (p \in Ids(old) /\ r \in Ids(old))
  <2>1. OnPair(rows, p, r) = {}
    BY <1>5 DEF OnPair, Exact, PrincipalIds, ResourceIds
  <2>2. ASSUME NEW g, Gives(new, p, r, g) PROVE FALSE
    <3>1. CASE p \notin Ids(old)
      <4>1. p \in DifferingEntities(new, old)
        BY <1>2, <3>1 DEF DifferingEntities
      <4>. QED
        BY <1>2, <2>2, <4>1, QuoteDiffers
    <3>2. CASE r \notin Ids(old)
      <4>1. ~ Gives(old, p, r, g)
        BY <3>2 DEF Gives, Grants, GrantTargets, Descendants, ResourceIds, WellFormed
      <4>. QED
        BY <1>1, <1>2, <2>2, <4>1, GrantDiffers
    <3>. QED
      BY <1>5, <3>1, <3>2
  <2>3. Effective(new, p, r) = {}
    BY <2>2, EffectiveGives
  <2>. QED
    BY <1>3, <2>1, <2>3, RowOfPair
<1>. QED
  BY <1>4, <1>5

\* What is kept is of principals and resources that are there.
LEMMA KeptIsThere ==
    ASSUME NEW old, NEW new, ~ NeedsFullRebuild(old, new), NEW rows, Exact(old, rows),
           NEW row \in StillThere(new, rows)
    PROVE  row.principal \in PrincipalIds(new) /\ row.resource \in ResourceIds(new)
  BY WithoutRebuild DEF StillThere, Exact, PrincipalIds, ResourceIds

\* What is calculated for a scope is exact for its pairs.
LEMMA ScopeIsExact ==
    ASSUME NEW G, NEW ps \in SUBSET PrincipalIds(G), NEW rs \in SUBSET ResourceIds(G)
    PROVE  /\ \A row \in AccessIndexForScope(G, ps, rs) : row.principal \in ps /\ row.resource \in rs
           /\ \A p \in ps, r \in rs : OnPair(AccessIndexForScope(G, ps, rs), p, r) = RowOf(G, p, r)
<1>1. ASSUME NEW row
      PROVE  row \in AccessIndexForScope(G, ps, rs) <=>
                \E p \in ps, r \in rs :
                    Effective(G, p, r) # {} /\ row = AccessRow(G, p, Reach(G, p), r)
  BY DEF AccessIndexForScope, RowsOfPrincipal, Effective
<1>2. ASSUME NEW p, NEW r, NEW acts
      PROVE  AccessRow(G, p, acts, r).principal = p /\ AccessRow(G, p, acts, r).resource = r
  BY DEF AccessRow
<1>3. ASSUME NEW p \in ps, NEW r \in rs
      PROVE  OnPair(AccessIndexForScope(G, ps, rs), p, r) = RowOf(G, p, r)
  <2>1. ASSUME NEW row
        PROVE  row \in OnPair(AccessIndexForScope(G, ps, rs), p, r) <=>
                  Effective(G, p, r) # {} /\ row = AccessRow(G, p, Reach(G, p), r)
    BY <1>1, <1>2 DEF OnPair
  <2>. QED
    BY <2>1, RowOfPair
<1>. QED
  BY <1>1, <1>2, <1>3

\* The full calculation is exact.
LEMMA FullIsExact ==
    ASSUME NEW G
    PROVE  Exact(G, AccessIndex(G))
  BY ScopeIsExact DEF Exact, AccessIndex, Undenied

\* Whatever way a refresh goes, from exact rows it makes exact rows.
THEOREM DerivedRowsExact ==
    ASSUME NEW old, NEW new, WellFormed(old), WellFormed(new),
           NEW rows, rows # {} => Exact(old, rows), NEW hasPrevious
    PROVE  Exact(new, AccessRowsOf(RefreshMode(hasPrevious, old, new, rows), old, new, rows))
<1> DEFINE mode == RefreshMode(hasPrevious, old, new, rows)
<1>1. CASE mode = "full"
  BY <1>1, FullIsExact DEF AccessRowsOf
<1>2. CASE mode # "full"
  <2>1. /\ Exact(old, rows) /\ mode \in {"carry_forward", "delta"}
        /\ mode = "carry_forward" <=> Unchanged(old, new)
        /\ mode = "delta" => ~ NeedsFullRebuild(old, new)
    BY <1>2 DEF RefreshMode
  <2>2. CASE Unchanged(old, new)
    <3>1. ~ NeedsFullRebuild(old, new)
      BY <2>2 DEF Unchanged, NeedsFullRebuild, DifferingEntities, KindOf
    <3>2. ASSUME NEW p, NEW r
          PROVE  ~ InSide(old, new, p, r, rows) /\ ~ InSide(new, old, p, r, rows)
      BY <2>2 DEF Unchanged, ChangedRelationships, NewRelationships, OldRelationships,
                  InSide, SidePrincipals
    <3>3. Exact(new, StillThere(new, rows))
      BY <2>1, <3>1, <3>2, KeptIsRight, KeptIsThere DEF Exact
    <3>. QED
      BY <2>1, <2>2, <3>3 DEF AccessRowsOf
  <2>3. CASE ~ Unchanged(old, new)
    <3> DEFINE ps == ScopePrincipals(old, new, rows)
               rs == ScopeResources(old, new)
               kept == StillThere(new, rows)
               freshPs == ps \cap PrincipalIds(new)
               freshRs == rs \cap ResourceIds(new)
               fresh == AccessIndexForScope(new, freshPs, freshRs)
               result == DeltaAccessRows(old, new, rows)
    <3>1. ~ NeedsFullRebuild(old, new)
      BY <2>1, <2>3
    <3>2. result = IF freshPs # {} /\ freshRs # {}
                   THEN {row \in kept : ~ (row.principal \in ps /\ row.resource \in rs)} \cup fresh
                   ELSE kept
      BY DEF DeltaAccessRows
    <3>3. /\ \A row \in fresh : row.principal \in freshPs /\ row.resource \in freshRs
          /\ \A p \in freshPs, r \in freshRs : OnPair(fresh, p, r) = RowOf(new, p, r)
      <4>1. freshPs \in SUBSET PrincipalIds(new) /\ freshRs \in SUBSET ResourceIds(new)
        OBVIOUS
      <4> HIDE DEF freshPs, freshRs
      <4>. QED
        BY <4>1, ScopeIsExact
    <3>4. \A row \in kept : row.principal \in PrincipalIds(new) /\ row.resource \in ResourceIds(new)
      BY <2>1, <3>1, KeptIsThere
    <3>5. ASSUME NEW p \in PrincipalIds(new), NEW r \in Undenied(new), ~ (p \in ps /\ r \in rs)
          PROVE  OnPair(kept, p, r) = RowOf(new, p, r)
      BY <2>1, <3>1, <3>5, KeptIsRight, SidesAreScope
    <3>6. \A r \in Undenied(new) : r \in ResourceIds(new)
      BY DEF Undenied
    <3> HIDE DEF ps, rs, kept, fresh, result
    <3>7. ASSUME NEW p \in PrincipalIds(new), NEW r \in Undenied(new)
          PROVE  OnPair(result, p, r) = RowOf(new, p, r)
      <4>1. CASE p \in ps /\ r \in rs
        <5>1. OnPair(result, p, r) = OnPair(fresh, p, r)
          BY <3>2, <3>6, <4>1 DEF OnPair
        <5>. QED
          BY <3>3, <3>6, <4>1, <5>1
      <4>2. CASE ~ (p \in ps /\ r \in rs)
        <5>1. OnPair(result, p, r) = OnPair(kept, p, r)
          BY <3>2, <3>3, <4>2 DEF OnPair
        <5>. QED
          BY <3>5, <4>2, <5>1
      <4>. QED
        BY <4>1, <4>2
    <3>8. ASSUME NEW row \in result
          PROVE  row.principal \in PrincipalIds(new) /\ row.resource \in ResourceIds(new)
      BY <3>2, <3>3, <3>4
    <3>9. Exact(new, result)
      BY <3>7, <3>8 DEF Exact
    <3>. QED
      BY <2>1, <2>3, <3>9 DEF AccessRowsOf, result
  <2>. QED
    BY <2>2, <2>3
<1>. QED
  BY <1>1, <1>2

\* Exact rows of one graph agree on a resource without denies.
LEMMA ExactAgree ==
    ASSUME NEW G, NEW A, NEW B, Exact(G, A), Exact(G, B), NEW r \in Undenied(G)
    PROVE  {x \in A : x.resource = r} = {x \in B : x.resource = r}
<1>1. ASSUME NEW X, NEW Y, Exact(G, X), Exact(G, Y), NEW x \in X, x.resource = r
      PROVE  x \in Y
  <2>1. x.principal \in PrincipalIds(G)
    BY <1>1 DEF Exact
  <2>2. OnPair(X, x.principal, r) = OnPair(Y, x.principal, r)
    BY <1>1, <2>1 DEF Exact
  <2>. QED
    BY <1>1, <2>2 DEF OnPair
<1>. QED
  BY <1>1

------------------------------------------------------------------------------
(* The group closure a refresh ends with.                                  *)

OfPrincipal(rows, p) == {row \in rows : row.principal = p}

\* Rows of principals of the graph, and up to the depth the impact analysis
\* sees those of the full calculation.
ClosureExact(G, rows) ==
    /\ \A row \in rows : row.principal \in PrincipalIds(G)
    /\ \A p \in PrincipalIds(G) : Shallow(OfPrincipal(rows, p)) = Shallow(GroupClosureRows(G, p))

\* Each layer of groups is the one before, widened.
LEMMA GroupLayerStep ==
    ASSUME NEW G, NEW a, NEW k \in 1..8
    PROVE  /\ GroupLayers(G, a)[1] = {a}
           /\ k + 1 \in 1..9
           /\ GroupLayers(G, a)[k + 1] = GroupWiden(G, GroupLayers(G, a)[k])
<1> DEFINE l1 == GroupWiden(G, {a})
           l2 == GroupWiden(G, l1)
           l3 == GroupWiden(G, l2)
           l4 == GroupWiden(G, l3)
           l5 == GroupWiden(G, l4)
           l6 == GroupWiden(G, l5)
           l7 == GroupWiden(G, l6)
           l8 == GroupWiden(G, l7)
<1>1. /\ l1 = GroupWiden(G, {a}) /\ l2 = GroupWiden(G, l1) /\ l3 = GroupWiden(G, l2)
      /\ l4 = GroupWiden(G, l3) /\ l5 = GroupWiden(G, l4) /\ l6 = GroupWiden(G, l5)
      /\ l7 = GroupWiden(G, l6) /\ l8 = GroupWiden(G, l7)
  OBVIOUS
<1> HIDE DEF l1, l2, l3, l4, l5, l6, l7, l8
<1>2. GroupLayers(G, a) = <<{a}, l1, l2, l3, l4, l5, l6, l7, l8>>
  BY DEF GroupLayers, l1, l2, l3, l4, l5, l6, l7, l8
<1>3. k \in {1, 2, 3, 4, 5, 6, 7, 8}
  OBVIOUS
<1>. QED
  BY <1>1, <1>2, <1>3

\* What holds of the first layer and passes from each to the next holds of all nine.
LEMMA NineLayers ==
    ASSUME NEW K, 1 \in K, \A k \in 1..8 : k \in K => k + 1 \in K
    PROVE  1..9 \subseteq K
<1>1. {2, 3, 4, 5, 6, 7, 8, 9} \subseteq K
  BY 1 + 1 = 2, 2 + 1 = 3, 3 + 1 = 4, 4 + 1 = 5, 5 + 1 = 6, 6 + 1 = 7, 7 + 1 = 8, 8 + 1 = 9
<1>2. \A k \in 1..9 : k \in {1, 2, 3, 4, 5, 6, 7, 8, 9}
  OBVIOUS
<1>. QED
  BY <1>1, <1>2

\* Who is reached in fewer hops is reached.
LEMMA LayersInReach ==
    ASSUME NEW G, NEW p, NEW k \in 1..9, k <= ReachDepth + 1
    PROVE  Layers(G, p)[k] \subseteq Reach(G, p)
<1> DEFINE n == ReachDepth + 1
           K == {j \in 1..9 : k <= j => Layers(G, p)[k] \subseteq Layers(G, p)[j]}
<1>1. n \in 1..9
  BY DepthAssumption
<1>2. 1 \in K
  BY k = 1 \/ ~ (k <= 1)
<1>3. ASSUME NEW j \in 1..8, j \in K PROVE j + 1 \in K
  <2>1. Layers(G, p)[j] \subseteq Layers(G, p)[j + 1] /\ j + 1 \in 1..9
    BY LayerStep, WidenGrows
  <2>2. CASE k <= j
    BY <1>3, <2>1, <2>2
  <2>3. CASE ~ (k <= j)
    <3>1. k = j + 1 \/ ~ (k <= j + 1)
      BY <2>3
    <3>. QED
      BY <2>1, <3>1
  <2>. QED
    BY <2>2, <2>3
<1> HIDE DEF K
<1>5. n \in K
  BY <1>1, <1>2, <1>3, NineLayers
<1>. QED
  BY <1>1, <1>5 DEF K, Reach

\* Whoever belongs to a group acts as the group, hop by hop.
LEMMA GroupLayersInLayers ==
    ASSUME NEW G, NEW p, NEW k \in 1..9
    PROVE  GroupLayers(G, p)[k] \subseteq Layers(G, p)[k]
<1> DEFINE K == {j \in 1..9 : GroupLayers(G, p)[j] \subseteq Layers(G, p)[j]}
<1>1. 1 \in K
  BY LayerStep, GroupLayerStep
<1>2. ASSUME NEW j \in 1..8, j \in K PROVE j + 1 \in K
  <2>1. \A a : GroupSuccessors(G, a) \subseteq Successors(G, a)
    BY DEF GroupSuccessors, Successors, TRAVERSABLE
  <2>2. GroupWiden(G, GroupLayers(G, p)[j]) \subseteq Widen(G, Layers(G, p)[j])
    BY <1>2, <2>1 DEF GroupWiden, Widen
  <2>. QED
    BY <2>2, LayerStep, GroupLayerStep
<1> HIDE DEF K
<1>4. k \in K
  BY <1>1, <1>2, NineLayers
<1>. QED
  BY <1>4 DEF K

\* The chains of a principal stay in its graph.
LEMMA GroupLayersThere ==
    ASSUME NEW G, NEW p \in Ids(G), NEW k \in 1..9
    PROVE  GroupLayers(G, p)[k] \subseteq Ids(G)
<1> DEFINE K == {j \in 1..9 : GroupLayers(G, p)[j] \subseteq Ids(G)}
<1>1. 1 \in K
  BY GroupLayerStep
<1>2. ASSUME NEW j \in 1..8, j \in K PROVE j + 1 \in K
  <2>1. GroupWiden(G, GroupLayers(G, p)[j]) \subseteq Ids(G)
    BY <1>2 DEF GroupWiden, GroupSuccessors
  <2>. QED
    BY <2>1, GroupLayerStep
<1> HIDE DEF K
<1>4. k \in K
  BY <1>1, <1>2, NineLayers
<1>. QED
  BY <1>4 DEF K

\* A group edge that only one of the graphs has, met within the reach of p,
\* puts p in the scope of the closure.
LEMMA GroupEdgeInScope ==
    ASSUME NEW old, NEW new, NEW p \in PrincipalIds(new), NEW rel, rel.kind \in GROUP_KINDS,
           \/ rel \in NewRelationships(old, new) /\ rel.source \in Reach(new, p)
           \/ /\ rel \in OldRelationships(old, new) /\ rel.source \in Reach(old, p)
              /\ p \in PrincipalIds(old)
    PROVE  p \in GroupScope(old, new)
<1>1. CASE rel \in NewRelationships(old, new) /\ rel.source \in Reach(new, p)
  <2>1. p \in ImpactedPrincipals(new, rel)
    BY <1>1 DEF ImpactedPrincipals, PrincipalsActingAs
  <2>. QED
    BY <1>1, <2>1 DEF GroupScope
<1>2. CASE rel \in OldRelationships(old, new) /\ rel.source \in Reach(old, p)
           /\ p \in PrincipalIds(old)
  <2>1. p \in ImpactedPrincipals(old, rel)
    BY <1>2 DEF ImpactedPrincipals, PrincipalsActingAs
  <2>. QED
    BY <1>2, <2>1 DEF GroupScope
<1>. QED
  BY <1>1, <1>2

\* Group successors are the same in both graphs if no group edge comes or goes.
LEMMA GroupSuccessorsStay ==
    ASSUME NEW G, NEW H, WellFormed(G), WellFormed(H),
           \A e \in Ids(G) \cap Ids(H) : KindOf(G, e) = KindOf(H, e), NEW a,
           \A rel \in G.relationships \ H.relationships :
                rel.kind \in GROUP_KINDS => rel.source # a
    PROVE  GroupSuccessors(G, a) \subseteq GroupSuccessors(H, a)
  BY DEF GroupSuccessors, WellFormed

\* The chains of a principal out of scope are the same in both graphs, as far as
\* the impact analysis sees.
LEMMA GroupLayersStay ==
    ASSUME NEW old, NEW new, WellFormed(old), WellFormed(new), ~ NeedsFullRebuild(old, new),
           NEW p \in PrincipalIds(old) \cap PrincipalIds(new), p \notin GroupScope(old, new),
           NEW k \in 1..9, k <= ReachDepth + 2
    PROVE  GroupLayers(old, p)[k] = GroupLayers(new, p)[k]
<1> DEFINE K == {j \in 1..9 : j <= ReachDepth + 2 => GroupLayers(old, p)[j] = GroupLayers(new, p)[j]}
<1>1. 1 \in K
  <2>1. \A G : GroupLayers(G, p)[1] = {p}
    <3>1. ASSUME NEW G PROVE GroupLayers(G, p)[1] = {p}
      BY GroupLayerStep, 1 \in 1..8
    <3>. QED
      BY <3>1
  <2>. QED
    BY <2>1
<1>2. ASSUME NEW j \in 1..8, j \in K PROVE j + 1 \in K
  <2> SUFFICES ASSUME j + 1 <= ReachDepth + 2
               PROVE  GroupLayers(old, p)[j + 1] = GroupLayers(new, p)[j + 1]
    OBVIOUS
  <2> DEFINE S == GroupLayers(old, p)[j]
  <2>1. j <= ReachDepth + 1 /\ j <= ReachDepth + 2
    BY DepthAssumption
  <2>2. S = GroupLayers(new, p)[j]
    BY <1>2, <2>1
  <2>3. S \subseteq Reach(old, p) /\ S \subseteq Reach(new, p)
    BY <2>1, <2>2, LayersInReach, GroupLayersInLayers
  <2>4. ASSUME NEW a \in S PROVE GroupSuccessors(old, a) = GroupSuccessors(new, a)
    <3>1. ASSUME NEW rel \in new.relationships \ old.relationships, rel.kind \in GROUP_KINDS
          PROVE  rel.source # a
      BY <2>3, <2>4, <3>1, GroupEdgeInScope DEF NewRelationships
    <3>2. ASSUME NEW rel \in old.relationships \ new.relationships, rel.kind \in GROUP_KINDS
          PROVE  rel.source # a
      BY <2>3, <2>4, <3>2, GroupEdgeInScope DEF OldRelationships
    <3>3. \A e \in Ids(old) \cap Ids(new) : KindOf(old, e) = KindOf(new, e)
      BY WithoutRebuild
    <3>4. GroupSuccessors(old, a) \subseteq GroupSuccessors(new, a)
      BY <3>2, <3>3, GroupSuccessorsStay
    <3>5. GroupSuccessors(new, a) \subseteq GroupSuccessors(old, a)
      BY <3>1, <3>3, GroupSuccessorsStay
    <3>. QED
      BY <3>4, <3>5
  <2>5. GroupWiden(old, S) = GroupWiden(new, S)
    BY <2>4 DEF GroupWiden
  <2>. QED
    BY <2>2, <2>5, GroupLayerStep
<1> HIDE DEF K
<1>3. k \in K
  BY <1>1, <1>2, NineLayers
<1>. QED
  BY <1>3 DEF K

\* So its rows are the same.
LEMMA ChainsStay ==
    ASSUME NEW old, NEW new, WellFormed(old), WellFormed(new), ~ NeedsFullRebuild(old, new),
           NEW p \in PrincipalIds(old) \cap PrincipalIds(new), p \notin GroupScope(old, new)
    PROVE  Shallow(GroupClosureRows(old, p)) = Shallow(GroupClosureRows(new, p))
<1>1. ASSUME NEW G, NEW row
      PROVE  row \in Shallow(GroupClosureRows(G, p)) <=>
                \E k \in 1..ClosureDepth : k <= ReachDepth + 1
                    /\ \E g \in GroupLayers(G, p)[k + 1] \ GroupLayers(G, p)[k] :
                          row = [principal |-> p, group |-> g, depth |-> k]
  BY DEF Shallow, GroupClosureRows
<1>2. ASSUME NEW k \in 1..ClosureDepth, k <= ReachDepth + 1
      PROVE  /\ GroupLayers(old, p)[k] = GroupLayers(new, p)[k]
             /\ GroupLayers(old, p)[k + 1] = GroupLayers(new, p)[k + 1]
  <2>1. k \in 1..9 /\ k + 1 \in 1..9 /\ k <= ReachDepth + 2 /\ k + 1 <= ReachDepth + 2
    BY <1>2, DepthAssumption
  <2>. QED
    BY <2>1, GroupLayersStay
<1>3. \A row : row \in Shallow(GroupClosureRows(old, p)) <=> row \in Shallow(GroupClosureRows(new, p))
  BY <1>1, <1>2
<1>. QED
  BY <1>3 DEF Shallow

\* A principal that has come, and is out of scope, belongs to no group.
LEMMA NewcomerHasNoChains ==
    ASSUME NEW old, NEW new, WellFormed(old),
           NEW p \in PrincipalIds(new), p \notin Ids(old), p \notin GroupScope(old, new)
    PROVE  GroupClosureRows(new, p) = {}
<1>1. GroupSuccessors(new, p) = {}
  <2> SUFFICES ASSUME NEW rel \in new.relationships, rel.kind \in GROUP_KINDS, rel.source = p
               PROVE  FALSE
    BY DEF GroupSuccessors
  <2>1. rel \in NewRelationships(old, new)
    BY DEF NewRelationships, WellFormed
  <2>. QED
    BY <2>1, ReachInClosure, GroupEdgeInScope
<1>2. ASSUME NEW k \in 1..9 PROVE GroupLayers(new, p)[k] = {p}
  <2> DEFINE K == {j \in 1..9 : GroupLayers(new, p)[j] = {p}}
  <2>1. 1 \in K
    BY GroupLayerStep
  <2>2. ASSUME NEW j \in 1..8, j \in K PROVE j + 1 \in K
    <3>1. GroupWiden(new, {p}) = {p}
      BY <1>1 DEF GroupWiden
    <3>. QED
      BY <2>2, <3>1, GroupLayerStep
  <2> HIDE DEF K
  <2>3. k \in K
    BY <2>1, <2>2, NineLayers
  <2>. QED
    BY <2>3 DEF K
<1>3. ASSUME NEW k \in 1..ClosureDepth
      PROVE  GroupLayers(new, p)[k + 1] \ GroupLayers(new, p)[k] = {}
  <2>1. k \in 1..9 /\ k + 1 \in 1..9
    BY DepthAssumption
  <2>. QED
    BY <1>2, <2>1
<1>. QED
  BY <1>3 DEF GroupClosureRows

\* The rows of a principal name it and groups of the graph.
LEMMA ChainsThere ==
    ASSUME NEW G, NEW p \in Ids(G), NEW row \in GroupClosureRows(G, p)
    PROVE  row.principal = p /\ row.group \in Ids(G)
<1>1. PICK k \in 1..ClosureDepth : \E g \in GroupLayers(G, p)[k + 1] :
          row = [principal |-> p, group |-> g, depth |-> k]
  BY DEF GroupClosureRows
<1>2. k + 1 \in 1..9
  BY DepthAssumption
<1>. QED
  BY <1>1, <1>2, GroupLayersThere

\* The full calculation of the closure is exact, for all and for some principals.
LEMMA FullClosure ==
    ASSUME NEW G, NEW ps \in SUBSET PrincipalIds(G)
    PROVE  /\ \A row \in GroupClosure(G, ps) : row.principal \in ps
           /\ \A p \in ps : OfPrincipal(GroupClosure(G, ps), p) = GroupClosureRows(G, p)
<1>1. \A p \in PrincipalIds(G) : p \in Ids(G)
  BY DEF PrincipalIds
<1>2. \A p \in ps : \A row \in GroupClosureRows(G, p) : row.principal = p
  BY <1>1, ChainsThere
<1>3. \A row : row \in GroupClosure(G, ps) <=> \E p \in ps : row \in GroupClosureRows(G, p)
  BY DEF GroupClosure
<1>. QED
  BY <1>2, <1>3 DEF OfPrincipal

\* What is carried of a principal out of scope is exact.
LEMMA CarriedIsRight ==
    ASSUME NEW old, NEW new, WellFormed(old), WellFormed(new), ~ NeedsFullRebuild(old, new),
           NEW rows, ClosureExact(old, rows),
           NEW p \in PrincipalIds(new), p \notin GroupScope(old, new)
    PROVE  Shallow(OfPrincipal(CarriedClosure(new, rows), p)) = Shallow(GroupClosureRows(new, p))
<1>1. CASE p \in PrincipalIds(old)
  <2>1. /\ Shallow(OfPrincipal(rows, p)) = Shallow(GroupClosureRows(old, p))
        /\ Shallow(GroupClosureRows(old, p)) = Shallow(GroupClosureRows(new, p))
    BY <1>1, ChainsStay DEF ClosureExact
  <2>2. \A row \in GroupClosureRows(new, p) : row.principal = p /\ row.group \in Ids(new)
    BY ChainsThere DEF PrincipalIds
  <2>3. ASSUME NEW row
        PROVE  row \in Shallow(OfPrincipal(CarriedClosure(new, rows), p))
                  <=> row \in Shallow(GroupClosureRows(new, p))
    <3>1. row \in Shallow(OfPrincipal(rows, p)) <=> row \in Shallow(GroupClosureRows(new, p))
      BY <2>1
    <3>2. p \in Ids(new)
      BY DEF PrincipalIds
    <3>. QED
      BY <2>2, <3>1, <3>2 DEF Shallow, OfPrincipal, CarriedClosure
  <2> DEFINE A == Shallow(OfPrincipal(CarriedClosure(new, rows), p))
             B == Shallow(GroupClosureRows(new, p))
  <2>4. \A row : row \in A <=> row \in B
    BY <2>3
  <2> HIDE DEF A, B
  <2>5. A = B
    BY <2>4
  <2>. QED
    BY <2>5 DEF A, B
<1>2. CASE p \notin PrincipalIds(old)
  <2>1. p \notin Ids(old)
    BY <1>2, WithoutRebuild DEF PrincipalIds
  <2>2. GroupClosureRows(new, p) = {}
    BY <2>1, NewcomerHasNoChains
  <2>3. OfPrincipal(CarriedClosure(new, rows), p) = {}
    BY <1>2 DEF OfPrincipal, CarriedClosure, ClosureExact
  <2>. QED
    BY <2>2, <2>3
<1>. QED
  BY <1>1, <1>2

\* From exact closure rows a refresh makes exact closure rows.
THEOREM DerivedClosureExact ==
    ASSUME NEW old, NEW new, WellFormed(old), WellFormed(new), NEW rows, NEW mode,
           rows # {} => ClosureExact(old, rows),
           mode # "full" => ~ NeedsFullRebuild(old, new)
    PROVE  ClosureExact(new, ClosureRowsOf(mode, old, new, rows))
<1> DEFINE full == GroupClosure(new, PrincipalIds(new))
           scope == GroupScope(old, new)
           carried == CarriedClosure(new, rows)
           delta == {row \in carried : row.principal \notin scope} \cup GroupClosure(new, scope)
<1>1. ClosureExact(new, full)
  BY FullClosure DEF ClosureExact
<1>2. ASSUME ~ NeedsFullRebuild(old, new), ClosureExact(old, rows)
      PROVE  /\ \A row \in carried : row.principal \in PrincipalIds(new)
             /\ \A p \in PrincipalIds(new) : p \notin scope =>
                    Shallow(OfPrincipal(carried, p)) = Shallow(GroupClosureRows(new, p))
  <2>1. \A row \in carried : row.principal \in PrincipalIds(new)
    BY <1>2, WithoutRebuild DEF CarriedClosure, ClosureExact, PrincipalIds
  <2>. QED
    BY <1>2, <2>1, CarriedIsRight
<1>3. ASSUME ~ NeedsFullRebuild(old, new), ClosureExact(old, rows), ~ GroupTopologyChanged(old, new)
      PROVE  ClosureExact(new, carried)
  <2>1. scope = {}
    BY <1>3 DEF GroupTopologyChanged, GroupScope, ChangedRelationships
  <2> HIDE DEF scope, carried
  <2>. QED
    BY <1>2, <1>3, <2>1 DEF ClosureExact
<1>4. ASSUME ~ NeedsFullRebuild(old, new), ClosureExact(old, rows)
      PROVE  ClosureExact(new, delta)
  <2>1. scope \in SUBSET PrincipalIds(new)
    BY DEF GroupScope
  <2> HIDE DEF scope, carried
  <2>2. /\ \A row \in GroupClosure(new, scope) : row.principal \in scope
        /\ \A p \in scope : OfPrincipal(GroupClosure(new, scope), p) = GroupClosureRows(new, p)
    BY <2>1, FullClosure
  <2>3. ASSUME NEW p \in PrincipalIds(new)
        PROVE  Shallow(OfPrincipal(delta, p)) = Shallow(GroupClosureRows(new, p))
    <3>1. CASE p \in scope
      <4>1. OfPrincipal(delta, p) = OfPrincipal(GroupClosure(new, scope), p)
        BY <3>1 DEF OfPrincipal
      <4>. QED
        BY <2>2, <3>1, <4>1
    <3>2. CASE p \notin scope
      <4>1. OfPrincipal(delta, p) = OfPrincipal(carried, p)
        BY <2>2, <3>2 DEF OfPrincipal
      <4>. QED
        BY <1>2, <1>4, <3>2, <4>1
    <3>. QED
      BY <3>1, <3>2
  <2>4. \A row \in delta : row.principal \in PrincipalIds(new)
    BY <1>2, <1>4, <2>1, <2>2
  <2> HIDE DEF delta
  <2>. QED
    BY <2>3, <2>4 DEF ClosureExact
<1> HIDE DEF full, scope, carried, delta
<1>5. RefreshedClosure(old, new, rows) =
        IF rows = {} THEN full
        ELSE IF ~ GroupTopologyChanged(old, new) THEN carried
        ELSE IF TooMuchOf(scope, PrincipalIds(new)) THEN full ELSE delta
  BY DEF RefreshedClosure, full, scope, carried, delta
<1>6. ClosureRowsOf(mode, old, new, rows) =
        IF mode = "full" THEN full ELSE RefreshedClosure(old, new, rows)
  BY DEF ClosureRowsOf, full
<1>. QED
  BY <1>1, <1>3, <1>4, <1>5, <1>6

------------------------------------------------------------------------------
(* The resource hierarchy a refresh ends with.                             *)

\* From the right hierarchy a refresh makes the right one.
THEOREM DerivedHierarchyExact ==
    ASSUME NEW old, NEW new, WellFormed(old), WellFormed(new), NEW rows, NEW mode,
           rows # {} => rows = ResourceHierarchy(old)
    PROVE  HierarchyRowsOf(mode, old, new, rows) = ResourceHierarchy(new)
<1>1. CASE mode = "full" \/ rows = {} \/ HierarchyChanged(old, new)
  BY <1>1 DEF HierarchyRowsOf, RefreshedHierarchy
<1>2. CASE ~ (mode = "full" \/ rows = {} \/ HierarchyChanged(old, new))
  <2>1. Contains(old) = Contains(new) /\ ResourceIds(old) = ResourceIds(new)
    BY <1>2 DEF HierarchyChanged, Contains, ChangedRelationships, NewRelationships, OldRelationships
  <2>2. \A r : Ancestors(old, r) = Ancestors(new, r)
    BY <2>1 DEF Ancestors
  <2>3. ResourceHierarchy(old) = ResourceHierarchy(new)
    <3>1. \A r : HierarchyRows(old, r) = HierarchyRows(new, r)
      BY <2>2 DEF HierarchyRows
    <3>. QED
      BY <2>1, <3>1 DEF ResourceHierarchy
  <2>4. \A row \in ResourceHierarchy(new) : row.resource \in Ids(new) /\ row.ancestor \in Ids(new)
    <3>1. \A r \in ResourceIds(new) : Ancestors(new, r) \subseteq Ids(new) /\ r \in Ids(new)
      BY DEF Ancestors, ResourceIds
    <3>. QED
      BY <3>1 DEF ResourceHierarchy, HierarchyRows
  <2>. QED
    BY <1>2, <2>3, <2>4 DEF HierarchyRowsOf, RefreshedHierarchy, CarriedHierarchy
<1>. QED
  BY <1>1, <1>2

------------------------------------------------------------------------------
(* What a refresh writes.                                                  *)

\* The rows a delta ends with, if it started from rows of the right table.
LEMMA DeltaRowsType ==
    ASSUME NEW old, NEW new, WellFormed(new), NEW rows \in SUBSET AccessRows
    PROVE  /\ StillThere(new, rows) \subseteq AccessRows
           /\ DeltaAccessRows(old, new, rows) \subseteq AccessRows
<1>1. StillThere(new, rows) \subseteq AccessRows
  BY DEF StillThere
<1>2. AccessIndexForScope(new, ScopePrincipals(old, new, rows) \cap PrincipalIds(new),
                          ScopeResources(old, new) \cap ResourceIds(new)) \subseteq AccessRows
  BY AccessIndexType DEF PrincipalIds, ResourceIds
<1>. QED
  BY <1>1, <1>2 DEF DeltaAccessRows

\* The access rows a refresh ends with, whichever way it goes.
LEMMA AccessRowsOfType ==
    ASSUME NEW old, NEW new, WellFormed(new), NEW rows \in SUBSET AccessRows,
           NEW hasPrevious
    PROVE  AccessRowsOf(RefreshMode(hasPrevious, old, new, rows), old, new, rows)
                \in SUBSET AccessRows
<1> DEFINE mode == RefreshMode(hasPrevious, old, new, rows)
<1>1. mode \in {"full", "carry_forward", "delta"}
  BY DEF RefreshMode
<1>2. AccessIndex(new) \subseteq AccessRows
  BY AccessIndexType DEF AccessIndex, PrincipalIds, ResourceIds
<1> HIDE DEF mode
<1>. QED
  BY <1>1, <1>2, DeltaRowsType DEF AccessRowsOf, mode

\* The closure and hierarchy rows a refresh ends with.
LEMMA ClosureRowsOfType ==
    ASSUME NEW old, NEW new, WellFormed(new), NEW mode,
           NEW closure \in SUBSET ClosureRows, NEW hierarchy \in SUBSET HierarchyTableRows
    PROVE  /\ ClosureRowsOf(mode, old, new, closure) \subseteq ClosureRows
           /\ HierarchyRowsOf(mode, old, new, hierarchy) \subseteq HierarchyTableRows
<1>1. \A ps : GroupClosure(new, ps) \subseteq ClosureRows
  BY GroupClosureType
<1>2. RefreshedClosure(old, new, closure) \subseteq ClosureRows
  BY <1>1 DEF RefreshedClosure, CarriedClosure
<1>3. RefreshedHierarchy(old, new, hierarchy) \subseteq HierarchyTableRows
  BY HierarchyType DEF RefreshedHierarchy, CarriedHierarchy
<1>. QED
  BY <1>1, <1>2, <1>3, HierarchyType DEF ClosureRowsOf, HierarchyRowsOf

------------------------------------------------------------------------------
(* The snapshot a refresh looks back to.                                   *)

\* A set of scan numbers that is not empty has a greatest one.
LEMMA GreatestExists ==
    ASSUME NEW S \in SUBSET At, S # {}
    PROVE  \E x \in S : \A y \in S : y <= x
<1> DEFINE T == {MaxScans - x : x \in S}
           R == {ss \in Nat \X Nat : ss[1] < ss[2]}
<1>1. T \in SUBSET Nat /\ T # {}
  <2>1. ASSUME NEW x \in S PROVE MaxScans - x \in Nat
    BY BoundAssumption DEF At
  <2>2. T \subseteq Nat
    BY <2>1
  <2>3. PICK x \in S : TRUE
    OBVIOUS
  <2>4. MaxScans - x \in T
    OBVIOUS
  <2>. QED
    BY <2>2, <2>4
<1>2. IsWellFoundedOn(R, Nat)
  BY NatLessThanWellFounded DEF OpToRel
<1>a. PICK m \in T : \A n \in T : ~ (<<n, m>> \in R)
  <2> HIDE DEF T, R
  <2>. QED
    BY <1>1, <1>2, WFMin
<1>3. \A n \in T : m <= n
  <2>1. ASSUME NEW n \in T PROVE m <= n
    <3>1. n \in Nat /\ m \in Nat
      BY <1>1, <2>1
    <3>2. ~ (n < m)
      BY <1>a, <3>1
    <3>. QED
      BY <3>1, <3>2
  <2>. QED
    BY <2>1
<1>4. PICK x \in S : m = MaxScans - x
  OBVIOUS
<1>5. ASSUME NEW y \in S PROVE y <= x
  <2>1. MaxScans - y \in T
    OBVIOUS
  <2>2. MaxScans - x <= MaxScans - y
    BY <1>3, <1>4, <2>1
  <2>. QED
    BY <2>2, BoundAssumption DEF At
<1>. QED
  BY <1>5

\* _previous_snapshot answers with another stored snapshot, if there is one.
LEMMA PreviousType ==
    ASSUME NEW at
    PROVE  \/ PreviousSnapshot(at) = 0 /\ Others(at) = {}
           \/ PreviousSnapshot(at) \in Others(at) /\ PreviousSnapshot(at) \in At
<1>1. CASE Others(at) = {}
  BY <1>1 DEF PreviousSnapshot
<1>2. CASE Others(at) # {}
  <2>1. Others(at) \in SUBSET At
    BY DEF Others
  <2>2. \E x \in Others(at) : \A y \in Others(at) : y <= x
    BY <1>2, <2>1, GreatestExists
  <2>. QED
    BY <1>2, <2>1, <2>2 DEF PreviousSnapshot
<1>. QED
  BY <1>1, <1>2

\* All a refresh plans to write is rows of the table they are for.
LEMMA PlanType ==
    ASSUME TypeOK, NEW at, WellFormed(snapshots[at])
    PROVE  PlannedRows(Plan(at).rows)
<1> DEFINE p      == PreviousSnapshot(at)
           new    == snapshots[at]
           old    == IF p = 0 THEN EmptyGraph ELSE snapshots[p]
           before == RowsFor(p, "access")
           mode   == RefreshMode(p # 0, old, new, before)
           rows   == AccessRowsOf(mode, old, new, before)
           closure   == ClosureRowsOf(mode, old, new, RowsFor(p, "closure"))
           hierarchy == HierarchyRowsOf(mode, old, new, RowsFor(p, "hierarchy"))
<1>1. p = 0 \/ p \in At
  BY PreviousType
<1>2. ASSUME NEW t \in Tables
      PROVE  RowsFor(p, t) \in SUBSET TableRows[t]
  BY <1>1, <1>2 DEF RowsFor, TypeOK, IndexType
<1>3. /\ RowsFor(p, "access") \in SUBSET AccessRows
      /\ RowsFor(p, "closure") \in SUBSET ClosureRows
      /\ RowsFor(p, "hierarchy") \in SUBSET HierarchyTableRows
  BY <1>2 DEF Tables, TableRows
<1>4. rows \in SUBSET AccessRows
  <2> HIDE DEF p, old, new
  <2>. QED
    BY <1>3, AccessRowsOfType DEF new
<1>5. closure \subseteq ClosureRows /\ hierarchy \subseteq HierarchyTableRows
  <2> HIDE DEF p, old, new, mode
  <2>. QED
    BY <1>3, ClosureRowsOfType DEF new
<1>6. ExposureIndex(rows) \subseteq ExposureRows /\ PrincipalSummary(rows) \subseteq SummaryRows
  <2> HIDE DEF rows
  <2>. QED
    BY <1>4, ExposureType, SummaryType
<1>7. Plan(at).rows = [access |-> rows, closure |-> closure, hierarchy |-> hierarchy,
                       exposure |-> ExposureIndex(rows), principals |-> PrincipalSummary(rows)]
  BY DEF Plan
<1> HIDE DEF rows, closure, hierarchy
<1>. QED
  BY <1>4, <1>5, <1>6, <1>7 DEF PlannedRows, Tables, TableRows

------------------------------------------------------------------------------
(* The inductive invariant.                                                *)

\* Retention never takes the latest snapshot.
LatestStored == count > 0 => snapshots[count] \in Collectable

\* A refresh is always that of the latest snapshot: no scan starts beside it.
JobOnLatest == job # Idle => job.at = count /\ count > 0

RefreshInv == TypeOK /\ LatestStored /\ JobOnLatest

LEMMA InitRefreshInv == Init => RefreshInv
  BY BoundAssumption
  DEF Init, RefreshInv, TypeOK, IndexType, JobType, LatestStored, JobOnLatest, Unscanned, Idle, Tables

LEMMA ScanStep ==
    ASSUME RefreshInv, NEW G \in Collectable, Scan(G)
    PROVE  RefreshInv'
<1> USE DEF RefreshInv, Scan
<1>1. count \in Nat /\ count' = count + 1 /\ count' \in 1..MaxScans
  BY BoundAssumption DEF TypeOK
<1>2. snapshots' \in [At -> Collectable \cup {NoGraph}] /\ snapshots'[count'] \in Collectable
  BY <1>1, BoundAssumption DEF TypeOK, At
<1>3. IndexType'
  BY DEF TypeOK, IndexType, Tables
<1>4. job' \in [stage : {"saved"}, at : 1..count', origin : {"scan", "start"}] /\ job'.at = count'
  BY <1>1 DEF Saved
<1>5. summary' \in 0..count' /\ engine' \in {Unscanned, Down} \cup [at : 1..count', graph : Collectable]
  BY <1>1 DEF TypeOK
<1>6. review' = NoReview \/ review' \in [at : 0..count', rows : SUBSET AccessRows]
  BY <1>1 DEF TypeOK
<1>7. reviews' \in 0..MaxReviews /\ faults' \in 0..MaxFaults
  BY DEF TypeOK
<1>. QED
  BY <1>1, <1>2, <1>3, <1>4, <1>5, <1>6, <1>7 DEF TypeOK, JobType, LatestStored, JobOnLatest

LEMMA BeginStep ==
    ASSUME RefreshInv, Begin
    PROVE  RefreshInv'
<1> USE DEF RefreshInv, Begin
<1>1. job # Idle /\ job.at = count /\ count \in 1..MaxScans /\ job.origin \in {"scan", "start"}
  BY DEF Idle, JobOnLatest, TypeOK, JobType
<1>2. snapshots[job.at] \in Collectable
  BY <1>1 DEF LatestStored
<1>3. engine' \in [at : 1..count, graph : Collectable]
  BY <1>1, <1>2
<1>4. summary' \in 0..count /\ JobType' /\ JobOnLatest'
  <2>1. CASE Exists(job.at)
    BY <1>1, <2>1 DEF TypeOK, JobType, JobOnLatest
  <2>2. CASE ~ Exists(job.at)
    <3>1. job' = [stage |-> "saving", at |-> job.at, origin |-> job.origin,
                  rows |-> Plan(job.at).rows,
                  todo |-> IF Plan(job.at).mode = "full" THEN FullOrder ELSE DeltaOrder]
      BY <2>2
    <3>2. PlannedRows(Plan(job.at).rows)
      BY <1>2, PlanType, CollectableAssumption
    <3>3. FullOrder \in Seq(Tables) /\ DeltaOrder \in Seq(Tables)
      BY DEF FullOrder, DeltaOrder, Tables
    <3>4. JobType' /\ JobOnLatest'
      <4> DEFINE rows == Plan(job.at).rows
                 todo == IF Plan(job.at).mode = "full" THEN FullOrder ELSE DeltaOrder
      <4>1. todo \in Seq(Tables)
        BY <3>3
      <4> HIDE DEF rows, todo
      <4>. QED
        BY <1>1, <3>1, <3>2, <4>1 DEF JobType, JobOnLatest, rows, todo
    <3>. QED
      BY <2>2, <3>4 DEF TypeOK
  <2>. QED
    BY <2>1, <2>2
<1>. QED
  BY <1>1, <1>2, <1>3, <1>4 DEF TypeOK, IndexType, LatestStored

LEMMA SaveTableStep ==
    ASSUME RefreshInv, SaveTable
    PROVE  RefreshInv'
<1> USE DEF RefreshInv, SaveTable
<1>1. job # Idle /\ job.stage # "saved" /\ job.todo \in Seq(Tables) /\ PlannedRows(job.rows)
  BY DEF TypeOK, JobType, Idle
<1>2. Head(job.todo) \in Tables /\ Tail(job.todo) \in Seq(Tables)
  BY <1>1
<1>3. job.rows[Head(job.todo)] \subseteq TableRows[Head(job.todo)]
  BY <1>1, <1>2 DEF PlannedRows
<1>4. IndexType'
  BY <1>2, <1>3 DEF TypeOK, IndexType
<1>5. JobType' /\ JobOnLatest'
  BY <1>1, <1>2 DEF TypeOK, JobType, JobOnLatest, Idle
<1>. QED
  BY <1>4, <1>5 DEF TypeOK, LatestStored

LEMMA EndStep ==
    ASSUME RefreshInv, SaveSummary \/ FailRefresh \/ Crash \/ Start
    PROVE  RefreshInv'
<1> USE DEF RefreshInv
<1>1. CASE SaveSummary
  BY <1>1 DEF SaveSummary, TypeOK, IndexType, JobType, LatestStored, JobOnLatest, Idle
<1>2. CASE FailRefresh
  BY <1>2, BoundAssumption
  DEF FailRefresh, TypeOK, IndexType, JobType, LatestStored, JobOnLatest, Idle
<1>3. CASE Crash
  BY <1>3, BoundAssumption
  DEF Crash, TypeOK, IndexType, JobType, LatestStored, JobOnLatest, Idle
<1>4. CASE Start
  BY <1>4 DEF Start, TypeOK, IndexType, JobType, LatestStored, JobOnLatest, Idle, Saved
<1>. QED
  BY <1>1, <1>2, <1>3, <1>4

LEMMA ReviewStep ==
    ASSUME RefreshInv, ReviewLoad \/ ReviewSave
    PROVE  RefreshInv'
<1> USE DEF RefreshInv
<1>1. CASE ReviewLoad
  <2>1. engine.at \in 0..count /\ engine.graph \in Graphs
    BY <1>1 DEF ReviewLoad, TypeOK, Unscanned, Graphs
  <2>2. EngineAccess[engine.graph] \in SUBSET AccessRows
    BY <2>1, AccessIndexType, CollectableAssumption
    DEF EngineAccess, Graphs, AccessIndex, PrincipalIds, ResourceIds
  <2>3. review' \in [at : 0..count, rows : SUBSET AccessRows]
    BY <1>1, <2>1, <2>2 DEF ReviewLoad
  <2>4. reviews' \in 0..MaxReviews
    BY <1>1, BoundAssumption DEF ReviewLoad, TypeOK
  <2>. QED
    BY <1>1, <2>3, <2>4 DEF ReviewLoad, TypeOK, IndexType, JobType, LatestStored, JobOnLatest
<1>2. CASE ReviewSave
  <2>1. review.rows \subseteq AccessRows
    BY <1>2 DEF ReviewSave, TypeOK
  <2>2. IndexType'
    BY <1>2, <2>1 DEF ReviewSave, TypeOK, IndexType, Tables, TableRows
  <2>. QED
    BY <1>2, <2>2 DEF ReviewSave, TypeOK, JobType, LatestStored, JobOnLatest
<1>. QED
  BY <1>1, <1>2

\* Every step keeps the invariant.
LEMMA RefreshInvStep == RefreshInv /\ [Next]_vars => RefreshInv'
<1> SUFFICES ASSUME RefreshInv, [Next]_vars
             PROVE  RefreshInv'
  OBVIOUS
<1>1. CASE UNCHANGED vars
  BY <1>1 DEF vars, RefreshInv, TypeOK, IndexType, JobType, LatestStored, JobOnLatest
<1>2. CASE Next
  BY <1>2, ScanStep, BeginStep, SaveTableStep, EndStep, ReviewStep DEF Next
<1>. QED
  BY <1>1, <1>2

\* Whatever is collected, at whatever point a refresh breaks off or a process
\* stops: each table holds rows of its own type for known snapshots only, the
\* engine holds a collected graph, and a refresh that is under way is that of
\* the latest snapshot, which the retention has left in place.
THEOREM TypeCorrect == Spec => []TypeOK
<1>1. Spec => []RefreshInv
  BY InitRefreshInv, RefreshInvStep, PTL DEF Spec
<1>2. RefreshInv => TypeOK
  BY DEF RefreshInv
<1>. QED
  BY <1>1, <1>2, PTL

------------------------------------------------------------------------------
(* What the tables tell, as long as no review outlives the engine it asked. *)

\* The totals of resources without a deny count the rows of the full calculation.
RightTotals(G, rows) ==
    \A x \in rows : x.resource \in Undenied(G) =>
        x.principals = Cardinality(RowsOn(AccessIndex(G), x.resource))

\* The tables of a snapshot are each empty or right for the graph.
Told(G, rows) ==
    /\ rows["access"] # {} => Exact(G, rows["access"])
    /\ rows["closure"] # {} => ClosureExact(G, rows["closure"])
    /\ rows["hierarchy"] # {} => rows["hierarchy"] = ResourceHierarchy(G)
    /\ RightTotals(G, rows["exposure"])

TablesOf(at) == [t \in Tables |-> index[t][at]]

\* The engine is that of the snapshot it names; a snapshot that the retention
\* took may still be in memory.
EngineOnSnapshot == engine.at \in At /\ Stored(engine.at) => engine.graph = snapshots[engine.at]

StoredTold == \A at \in At : Stored(at) => Told(snapshots[at], TablesOf(at))
EngineTold == engine.at \in At => Told(engine.graph, TablesOf(engine.at))

\* No rows wait for a snapshot that is still to come.
NothingAhead == \A t \in Tables, at \in At : at > count => index[t][at] = {}

RightRows(G, rows) ==
    /\ Exact(G, rows["access"])
    /\ ClosureExact(G, rows["closure"])
    /\ rows["hierarchy"] = ResourceHierarchy(G)
    /\ RightTotals(G, rows["exposure"])

\* A refresh under way has planned what is right for the engine in place, and
\* the closures it no longer has to save it has saved.
SavingTold ==
    job.stage = "saving" =>
        /\ engine.at = job.at /\ engine.graph = snapshots[job.at]
        /\ RightRows(engine.graph, job.rows)
        /\ \A t \in {"closure", "hierarchy"} :
              (\A n \in 1..Len(job.todo) : job.todo[n] # t) => index[t][job.at] = job.rows[t]

\* Under the summary the closures are there.
SummaryTold ==
    summary # 0 /\ Stored(summary) =>
        /\ ClosureExact(snapshots[summary], index["closure"][summary])
        /\ index["hierarchy"][summary] = ResourceHierarchy(snapshots[summary])

\* A review that is about to save has the rows of the engine still in place.
ReviewTold == review # NoReview => engine # Down /\ review.rows = EngineAccess[engine.graph]

ExactInv ==
    /\ RefreshInv
    /\ EngineOnSnapshot
    /\ StoredTold
    /\ EngineTold
    /\ NothingAhead
    /\ SavingTold
    /\ SummaryTold
    /\ ReviewTold

\* The totals of exact rows are right.
LEMMA TotalsOfExactRows ==
    ASSUME NEW G, NEW rows, Exact(G, rows)
    PROVE  RightTotals(G, ExposureIndex(rows))
<1> SUFFICES ASSUME NEW x \in ExposureIndex(rows), x.resource \in Undenied(G)
             PROVE  x.principals = Cardinality(RowsOn(AccessIndex(G), x.resource))
  BY DEF RightTotals
<1>1. x.principals = Cardinality(RowsOn(rows, x.resource))
  <2>1. PICK r : x = [resource   |-> r,
                      principals |-> Cardinality({y \in rows : y.resource = r}),
                      privileged |-> Cardinality({y \in rows : y.resource = r /\ IsPrivileged(y)})]
    BY DEF ExposureIndex
  <2>2. x.resource = r /\ x.principals = Cardinality({y \in rows : y.resource = r})
    BY <2>1
  <2>. QED
    BY <2>2 DEF RowsOn
<1>2. RowsOn(rows, x.resource) = RowsOn(AccessIndex(G), x.resource)
  BY FullIsExact, ExactAgree DEF RowsOn
<1>. QED
  BY <1>1, <1>2

\* From tables that are right for the snapshot before, a refresh plans rows that
\* are right for its own.
LEMMA PlanIsRight ==
    ASSUME TypeOK, StoredTold, NEW at \in At, Stored(at)
    PROVE  RightRows(snapshots[at], Plan(at).rows)
<1> DEFINE p      == PreviousSnapshot(at)
           new    == snapshots[at]
           old    == IF p = 0 THEN EmptyGraph ELSE snapshots[p]
           before == RowsFor(p, "access")
           mode   == RefreshMode(p # 0, old, new, before)
           rows   == AccessRowsOf(mode, old, new, before)
           closure   == ClosureRowsOf(mode, old, new, RowsFor(p, "closure"))
           hierarchy == HierarchyRowsOf(mode, old, new, RowsFor(p, "hierarchy"))
<1>1. Plan(at).rows = [access |-> rows, closure |-> closure, hierarchy |-> hierarchy,
                       exposure |-> ExposureIndex(rows), principals |-> PrincipalSummary(rows)]
  BY DEF Plan
<1>2. p = 0 \/ (p \in At /\ Stored(p) /\ p # 0)
  BY PreviousType DEF Others, Stored, At
<1>3. WellFormed(new) /\ WellFormed(old)
  BY <1>2, CollectableAssumption DEF TypeOK, Stored
<1>4. /\ RowsFor(p, "access") # {} => Exact(old, RowsFor(p, "access"))
      /\ RowsFor(p, "closure") # {} => ClosureExact(old, RowsFor(p, "closure"))
      /\ RowsFor(p, "hierarchy") # {} => RowsFor(p, "hierarchy") = ResourceHierarchy(old)
  BY <1>2 DEF RowsFor, StoredTold, Told, TablesOf, Tables
<1>5. mode # "full" => ~ NeedsFullRebuild(old, new)
  <2>1. Unchanged(old, new) => ~ NeedsFullRebuild(old, new)
    BY DEF Unchanged, NeedsFullRebuild, DifferingEntities, KindOf
  <2>. QED
    BY <2>1 DEF RefreshMode
<1> HIDE DEF p, new, old
<1>6. Exact(new, rows)
  BY <1>3, <1>4, DerivedRowsExact
<1> HIDE DEF mode, before
<1>7. ClosureExact(new, closure) /\ hierarchy = ResourceHierarchy(new)
  BY <1>3, <1>4, <1>5, DerivedClosureExact, DerivedHierarchyExact
<1>8. RightTotals(new, ExposureIndex(rows))
  BY <1>6, TotalsOfExactRows
<1> HIDE DEF rows, closure, hierarchy
<1>. QED
  BY <1>1, <1>6, <1>7, <1>8 DEF RightRows, new

\* What the engine calculates in full is exact.
LEMMA EngineIsExact ==
    ASSUME NEW G \in Graphs
    PROVE  EngineAccess[G] = AccessIndex(G) /\ Exact(G, EngineAccess[G])
  BY FullIsExact DEF EngineAccess

------------------------------------------------------------------------------
(* Every step keeps it.                                                    *)

\* It holds of a workspace without snapshots.
LEMMA InitExactInv == Init => ExactInv
<1> SUFFICES ASSUME Init PROVE ExactInv
  OBVIOUS
<1>1. RefreshInv
  BY InitRefreshInv
<1>2. ~ (engine.at \in At) /\ \A at \in At : ~ Stored(at)
  BY DEF Init, Unscanned, At, Stored
<1>3. NothingAhead /\ SavingTold /\ SummaryTold /\ ReviewTold
  BY DEF Init, NothingAhead, SavingTold, SummaryTold, ReviewTold, Idle, Tables
<1>. QED
  BY <1>1, <1>2, <1>3 DEF ExactInv, EngineOnSnapshot, StoredTold, EngineTold

\* A scan adds a snapshot without rows, and what the retention clears is empty.
LEMMA ScanKeepsExact ==
    ASSUME ExactInv, NEW G \in Collectable, Scan(G)
    PROVE  ExactInv'
<1> USE DEF ExactInv, Scan
<1>1. RefreshInv'
  BY ScanStep
<1>2. count \in Nat /\ count + 1 \in At /\ TypeOK
  BY BoundAssumption DEF RefreshInv, TypeOK, At
<1>3. \A at \in At : /\ index'["access"][at] \in {{}, index["access"][at]}
                     /\ at + Retention > count + 1 => index'["access"][at] = index["access"][at]
                     /\ \A t \in Tables \ {"access"} : index'[t][at] = index[t][at]
  BY <1>2, BoundAssumption DEF TypeOK, IndexType, At
<1>4. \A at \in At : snapshots'[at] # NoGraph =>
          \/ at = count + 1 /\ snapshots'[at] = G
          \/ at # count + 1 /\ snapshots'[at] = snapshots[at] /\ at + Retention > count + 1
  BY <1>2, BoundAssumption DEF At
<1>5. EngineOnSnapshot'
  <2>1. engine.at # count + 1
    BY <1>2 DEF TypeOK, Unscanned, Down
  <2>. QED
    BY <1>4, <2>1 DEF EngineOnSnapshot, Stored
<1>6. ASSUME NEW at \in At, NEW H, Told(H, TablesOf(at)) PROVE Told(H, TablesOf(at)')
  BY <1>3, <1>6 DEF Told, TablesOf, Tables
<1>7. StoredTold'
  <2> SUFFICES ASSUME NEW at \in At, snapshots'[at] # NoGraph
               PROVE  Told(snapshots'[at], TablesOf(at)')
    BY DEF StoredTold, Stored
  <2>1. CASE at = count + 1
    <3>1. \A t \in Tables : index[t][at] = {}
      BY <1>2, <2>1 DEF NothingAhead
    <3>2. Told(snapshots'[at], TablesOf(at))
      BY <3>1 DEF Told, TablesOf, Tables, RightTotals
    <3>. QED
      BY <1>6, <3>2
  <2>2. CASE at # count + 1
    <3>1. snapshots'[at] = snapshots[at]
      BY <1>4, <2>2
    <3>. QED
      BY <1>6, <3>1 DEF StoredTold, Stored
  <2>. QED
    BY <2>1, <2>2
<1>8. EngineTold'
  BY <1>6 DEF EngineTold
<1>9. NothingAhead'
  BY <1>2, <1>3 DEF NothingAhead, Tables, At
<1>10. SavingTold'
  BY DEF SavingTold, Saved
<1>11. SummaryTold'
  <2>0. summary \in 0..count
    BY <1>2 DEF TypeOK
  <2>1. summary # 0 => (summary \in At /\ summary # count + 1)
    BY <1>2, <2>0, BoundAssumption DEF At
  <2>. QED
    BY <1>3, <1>4, <2>1 DEF SummaryTold, Stored, Tables
<1>12. ReviewTold'
  BY DEF ReviewTold
<1>. QED
  BY <1>1, <1>5, <1>7, <1>8, <1>9, <1>10, <1>11, <1>12
\* A refresh begins with right tables and plans right rows.
LEMMA BeginKeepsExact ==
    ASSUME ~ LongReviews, ExactInv, Begin
    PROVE  ExactInv'
<1> USE DEF ExactInv, Begin
<1>1. RefreshInv'
  BY BeginStep
<1>2. /\ job # Idle /\ job.at \in At /\ Stored(job.at) /\ job.at = count /\ job.at # 0
      /\ TypeOK /\ review = NoReview
  <2>1. job # Idle /\ TypeOK
    BY DEF Idle, RefreshInv
  <2>2. job.at = count /\ count > 0 /\ snapshots[count] \in Collectable
    BY <2>1 DEF RefreshInv, JobOnLatest, LatestStored
  <2>. QED
    BY <2>1, <2>2, CollectableAssumption DEF TypeOK, At, Stored
<1>3. Told(snapshots[job.at], TablesOf(job.at))
  BY <1>2 DEF StoredTold
<1>4. EngineOnSnapshot' /\ StoredTold' /\ EngineTold' /\ NothingAhead' /\ ReviewTold'
  <2>1. EngineOnSnapshot' /\ ReviewTold'
    BY <1>2 DEF EngineOnSnapshot, ReviewTold
  <2>2. \A at : TablesOf(at)' = TablesOf(at)
    BY DEF TablesOf
  <2>3. StoredTold' /\ EngineTold'
    BY <1>3, <2>2 DEF StoredTold, EngineTold, Stored
  <2>4. NothingAhead'
    BY DEF NothingAhead
  <2>. QED
    BY <2>1, <2>3, <2>4
<1>5. CASE Exists(job.at)
  <2>1. SavingTold'
    BY <1>5 DEF SavingTold, Idle
  <2>2. SummaryTold'
    BY <1>2, <1>3, <1>5 DEF SummaryTold, Exists, Told, TablesOf, Tables, Stored
  <2>. QED
    BY <1>1, <1>4, <2>1, <2>2
<1>6. CASE ~ Exists(job.at)
  <2>1. SummaryTold'
    BY <1>6 DEF SummaryTold, Stored
  <2>2. RightRows(snapshots[job.at], Plan(job.at).rows)
    BY <1>2, PlanIsRight
  <2>3. job' = [stage |-> "saving", at |-> job.at, origin |-> job.origin,
                rows |-> Plan(job.at).rows,
                todo |-> IF Plan(job.at).mode = "full" THEN FullOrder ELSE DeltaOrder]
    BY <1>6
  <2>4. SavingTold'
    <3> DEFINE rows == Plan(job.at).rows
               todo == IF Plan(job.at).mode = "full" THEN FullOrder ELSE DeltaOrder
    <3>1. \A t \in {"closure", "hierarchy"} : \E n \in 1..Len(todo) : todo[n] = t
      <4>1. FullOrder[2] = "closure" /\ FullOrder[3] = "hierarchy" /\ Len(FullOrder) = 5
        BY DEF FullOrder
      <4>2. DeltaOrder[4] = "closure" /\ DeltaOrder[5] = "hierarchy" /\ Len(DeltaOrder) = 5
        BY DEF DeltaOrder
      <4>3. todo = FullOrder \/ todo = DeltaOrder
        OBVIOUS
      <4> HIDE DEF todo
      <4>4. 2 \in 1..5 /\ 3 \in 1..5 /\ 4 \in 1..5 /\ 5 \in 1..5
        OBVIOUS
      <4>. QED
        BY <4>1, <4>2, <4>3, <4>4
    <3> HIDE DEF rows, todo
    <3>2. job' = [stage |-> "saving", at |-> job.at, origin |-> job.origin,
                  rows |-> rows, todo |-> todo]
      BY <2>3 DEF rows, todo
    <3>3. RightRows(snapshots[job.at], rows)
      BY <2>2 DEF rows
    <3>. QED
      BY <3>1, <3>2, <3>3 DEF SavingTold
  <2>. QED
    BY <1>1, <1>4, <2>1, <2>4
<1>. QED
  BY <1>5, <1>6

\* A table saved is the table planned, and the others stay.
LEMMA SaveTableKeepsExact ==
    ASSUME ExactInv, SaveTable
    PROVE  ExactInv'
<1> USE DEF ExactInv, SaveTable
<1> DEFINE h == Head(job.todo)
<1>1. RefreshInv'
  BY SaveTableStep
<1>2. /\ TypeOK /\ job.at = count /\ job.at \in At /\ engine.at = job.at
      /\ engine.graph = snapshots[job.at] /\ RightRows(snapshots[job.at], job.rows)
  <2>1. job # Idle /\ TypeOK
    BY DEF Idle, RefreshInv
  <2>2. job.at = count /\ count > 0
    BY <2>1 DEF RefreshInv, JobOnLatest
  <2>. QED
    BY <2>1, <2>2 DEF TypeOK, At, SavingTold
<1>3. job.todo \in Seq(Tables) /\ h \in Tables
  BY <1>2 DEF TypeOK, JobType, Idle
<1>4. \A t \in Tables, at \in At :
          index'[t][at] = IF t = h /\ at = job.at THEN job.rows[t] ELSE index[t][at]
  BY <1>2, <1>3 DEF TypeOK, IndexType
<1>5. ASSUME NEW at \in At, NEW G, Told(G, TablesOf(at)), at = job.at => G = snapshots[job.at]
      PROVE  Told(G, TablesOf(at)')
  <2>1. \A t \in Tables : TablesOf(at)'[t] = IF t = h /\ at = job.at THEN job.rows[t] ELSE TablesOf(at)[t]
    BY <1>4 DEF TablesOf
  <2>2. CASE at # job.at
    BY <1>5, <2>1, <2>2 DEF Told, Tables
  <2>3. CASE at = job.at
    <3>1. RightRows(G, job.rows)
      BY <1>2, <1>5, <2>3
    <3> DEFINE T == TablesOf(at)
    <3> HIDE DEF T, h
    <3>2. \A t \in Tables : T'[t] \in {job.rows[t], T[t]}
      BY <2>1 DEF T
    <3>3. Told(G, T)
      BY <1>5 DEF T
    <3>4. Told(G, T')
      BY <3>1, <3>2, <3>3 DEF Told, RightRows, Tables
    <3>. QED
      BY <3>4 DEF T
  <2>. QED
    BY <2>2, <2>3
<1>6. EngineOnSnapshot' /\ ReviewTold'
  BY DEF EngineOnSnapshot, Stored, ReviewTold
<1>7. StoredTold'
  <2> SUFFICES ASSUME NEW at \in At, snapshots[at] # NoGraph
               PROVE  Told(snapshots[at], TablesOf(at)')
    BY DEF StoredTold, Stored
  <2>. QED
    BY <1>5 DEF StoredTold, Stored
<1>8. EngineTold'
  BY <1>2, <1>5 DEF EngineTold
<1>9. NothingAhead'
  <2>1. \A t \in Tables, at \in At : at > count => at # job.at
    BY <1>2 DEF TypeOK
  <2>. QED
    BY <1>4, <2>1 DEF NothingAhead
<1>10. SummaryTold'
  <2> SUFFICES ASSUME summary # 0, snapshots[summary] # NoGraph
               PROVE  /\ ClosureExact(snapshots[summary], index'["closure"][summary])
                      /\ index'["hierarchy"][summary] = ResourceHierarchy(snapshots[summary])
    BY DEF SummaryTold, Stored
  <2>1. summary \in At
    BY <1>2, BoundAssumption DEF TypeOK, At
  <2>2. /\ ClosureExact(snapshots[summary], index["closure"][summary])
        /\ index["hierarchy"][summary] = ResourceHierarchy(snapshots[summary])
    BY DEF SummaryTold, Stored
  <2>. QED
    BY <1>2, <1>4, <2>1, <2>2 DEF RightRows, Tables
<1>11. SavingTold'
  <2>1. job'.stage = "saving" /\ job'.at = job.at /\ job'.rows = job.rows /\ job'.todo = Tail(job.todo)
    <3>1. DOMAIN job = {"stage", "at", "origin", "rows", "todo"}
      BY <1>2 DEF TypeOK, JobType, Idle
    <3>. QED
      BY <3>1
  <2>2. ASSUME NEW t \in {"closure", "hierarchy"},
               \A n \in 1..Len(Tail(job.todo)) : Tail(job.todo)[n] # t
        PROVE  index'[t][job.at] = job.rows[t]
    <3>1. CASE t = h
      BY <1>2, <1>4, <3>1 DEF Tables
    <3>2. CASE t # h
      <4>1. ASSUME NEW n \in 1..Len(job.todo) PROVE job.todo[n] # t
        <5>1. CASE n = 1
          BY <1>3, <3>2, <5>1
        <5>2. CASE n # 1
          <6>1. n - 1 \in 1..Len(Tail(job.todo)) /\ Tail(job.todo)[n - 1] = job.todo[n]
            BY <1>3, <5>2
          <6>. QED
            BY <2>2, <6>1
        <5>. QED
          BY <5>1, <5>2
      <4>2. index[t][job.at] = job.rows[t]
        BY <4>1 DEF SavingTold
      <4>. QED
        BY <1>2, <1>4, <3>2, <4>2 DEF Tables
    <3>. QED
      BY <3>1, <3>2
  <2>. QED
    BY <1>2, <2>1, <2>2 DEF SavingTold
<1>. QED
  BY <1>1, <1>6, <1>7, <1>8, <1>9, <1>10, <1>11

\* The end of a refresh, a crash and a start leave the tables as they are.
LEMMA EndKeepsExact ==
    ASSUME ExactInv, SaveSummary \/ FailRefresh \/ Crash \/ Start
    PROVE  ExactInv'
<1> USE DEF ExactInv
<1>1. RefreshInv'
  BY EndStep
<1>2. UNCHANGED <<count, snapshots, index, reviews>>
  BY DEF SaveSummary, FailRefresh, Crash, Start
<1>3. StoredTold' /\ NothingAhead'
  <2>1. \A at : TablesOf(at)' = TablesOf(at)
    BY <1>2 DEF TablesOf
  <2>. QED
    BY <1>2, <2>1 DEF StoredTold, Stored, NothingAhead
<1>4. engine' = engine => EngineOnSnapshot' /\ EngineTold'
  BY <1>2 DEF EngineOnSnapshot, EngineTold, Stored, TablesOf
<1>5. ~ (engine'.at \in At) => EngineOnSnapshot' /\ EngineTold'
  BY DEF EngineOnSnapshot, EngineTold
<1>6. summary' = summary => SummaryTold'
  BY <1>2 DEF SummaryTold, Stored
<1>7. engine' = engine /\ review' = review => ReviewTold'
  BY DEF ReviewTold
<1>8. job'.stage # "saving" => SavingTold'
  BY DEF SavingTold
<1>9. CASE SaveSummary
  <2>1. SummaryTold'
    <3> SUFFICES ASSUME summary' # 0, snapshots[summary'] # NoGraph
                 PROVE  /\ ClosureExact(snapshots[summary'], index["closure"][summary'])
                        /\ index["hierarchy"][summary'] = ResourceHierarchy(snapshots[summary'])
      BY <1>2 DEF SummaryTold, Stored
    <3>1. \A t \in {"closure", "hierarchy"} : index[t][job.at] = job.rows[t]
      BY <1>9 DEF SaveSummary, SavingTold
    <3>2. RightRows(snapshots[job.at], job.rows)
      BY <1>9 DEF SaveSummary, SavingTold
    <3>. QED
      BY <1>9, <3>1, <3>2 DEF SaveSummary, RightRows
  <2>. QED
    BY <1>1, <1>3, <1>4, <1>7, <1>8, <1>9, <2>1 DEF SaveSummary, Idle
<1>10. CASE FailRefresh
  BY <1>1, <1>3, <1>4, <1>6, <1>7, <1>8, <1>10 DEF FailRefresh, Idle
<1>11. CASE Crash
  <2>1. ~ (engine'.at \in At) /\ ReviewTold'
    BY <1>11, BoundAssumption DEF Crash, Down, At, ReviewTold
  <2>. QED
    BY <1>1, <1>3, <1>5, <1>6, <1>8, <1>11, <2>1 DEF Crash, Idle
<1>12. CASE Start
  <2>1. review = NoReview /\ review' = review
    BY <1>12 DEF Start, ReviewTold
  <2>2. ReviewTold'
    BY <2>1 DEF ReviewTold
  <2>3. CASE count = 0
    <3>1. ~ (engine'.at \in At) /\ job'.stage # "saving"
      BY <1>12, <2>3, BoundAssumption DEF Start, Unscanned, At, Idle
    <3>. QED
      BY <1>1, <1>3, <1>5, <1>6, <1>8, <1>12, <2>2, <3>1 DEF Start
  <2>4. CASE count # 0
    BY <1>1, <1>3, <1>4, <1>6, <1>8, <1>12, <2>2, <2>4 DEF Start, Saved
  <2>. QED
    BY <2>3, <2>4
<1>. QED
  BY <1>9, <1>10, <1>11, <1>12

\* A review saves what the engine in place calculates.
LEMMA ReviewKeepsExact ==
    ASSUME ExactInv, ReviewLoad \/ ReviewSave
    PROVE  ExactInv'
<1> USE DEF ExactInv
<1>1. RefreshInv'
  BY ReviewStep
<1>2. UNCHANGED <<count, snapshots, summary, engine, job>>
  BY DEF ReviewLoad, ReviewSave
<1>3. EngineOnSnapshot'
  BY <1>2 DEF EngineOnSnapshot, Stored
<1>4. CASE ReviewLoad
  <2>1. index' = index
    BY <1>4 DEF ReviewLoad
  <2>2. \A at : TablesOf(at)' = TablesOf(at)
    BY <2>1 DEF TablesOf
  <2>3. StoredTold' /\ EngineTold' /\ NothingAhead' /\ SavingTold' /\ SummaryTold'
    BY <1>2, <2>1, <2>2 DEF StoredTold, EngineTold, Stored, NothingAhead, SavingTold, SummaryTold
  <2>4. ReviewTold'
    BY <1>4 DEF ReviewLoad, ReviewTold
  <2>. QED
    BY <1>1, <1>3, <2>3, <2>4
<1>5. CASE ReviewSave
  <2>1. engine.graph \in Graphs /\ Exact(engine.graph, review.rows) /\ TypeOK
    <3>1. engine # Down /\ review.rows = EngineAccess[engine.graph] /\ TypeOK
      BY <1>5 DEF ReviewSave, ReviewTold, RefreshInv
    <3>2. engine.graph \in Graphs
      BY <3>1 DEF TypeOK, Unscanned, Graphs
    <3>. QED
      BY <3>1, <3>2, EngineIsExact
  <2>2. \A t \in Tables, at \in At :
            index'[t][at] = IF t = "access" /\ at = engine.at THEN review.rows ELSE index[t][at]
    BY <1>5, <2>1 DEF ReviewSave, TypeOK, IndexType
  <2>3. ASSUME NEW at \in At, NEW G, Told(G, TablesOf(at)), at = engine.at => G = engine.graph
        PROVE  Told(G, TablesOf(at)')
    <3>1. \A t \in Tables : TablesOf(at)'[t] =
              IF t = "access" /\ at = engine.at THEN review.rows ELSE TablesOf(at)[t]
      BY <2>2, <2>3 DEF TablesOf
    <3>. QED
      BY <2>1, <2>3, <3>1 DEF Told, Tables
  <2>4. StoredTold'
    <3> SUFFICES ASSUME NEW at \in At, snapshots[at] # NoGraph
                 PROVE  Told(snapshots[at], TablesOf(at)')
      BY <1>2 DEF StoredTold, Stored
    <3>. QED
      BY <2>3 DEF StoredTold, Stored, EngineOnSnapshot
  <2>5. EngineTold'
    BY <1>2, <2>3 DEF EngineTold
  <2>6. NothingAhead'
    <3>1. \A at \in At : at > count => at # engine.at
      BY <2>1 DEF TypeOK, Unscanned, Down, At
    <3>. QED
      BY <1>2, <2>2, <3>1 DEF NothingAhead
  <2>7. SavingTold'
    <3> SUFFICES ASSUME job.stage = "saving"
                 PROVE  SavingTold'
      BY <1>2 DEF SavingTold
    <3>1. job.at \in At
      BY <2>1, BoundAssumption DEF TypeOK, JobType, Idle, At
    <3>2. \A t \in {"closure", "hierarchy"} : index'[t][job.at] = index[t][job.at]
      BY <2>2, <3>1 DEF Tables
    <3>. QED
      BY <1>2, <3>2 DEF SavingTold
  <2>8. SummaryTold'
    <3>1. summary # 0 => summary \in At
      BY <2>1, BoundAssumption DEF TypeOK, At
    <3>. QED
      BY <1>2, <2>2, <3>1 DEF SummaryTold, Stored, Tables
  <2>9. ReviewTold'
    BY <1>5 DEF ReviewSave, ReviewTold
  <2>. QED
    BY <1>1, <1>3, <2>4, <2>5, <2>6, <2>7, <2>8, <2>9
<1>. QED
  BY <1>4, <1>5

\* Every step keeps it, if no review outlives the engine it asked.
LEMMA ExactInvStep == ~ LongReviews /\ ExactInv /\ [Next]_vars => ExactInv'
<1> SUFFICES ASSUME ~ LongReviews, ExactInv, [Next]_vars
             PROVE  ExactInv'
  OBVIOUS
<1>1. CASE UNCHANGED vars
  <2>1. RefreshInv'
    BY RefreshInvStep DEF ExactInv
  <2>2. \A at : TablesOf(at)' = TablesOf(at)
    BY <1>1 DEF vars, TablesOf
  <2>. QED
    BY <1>1, <2>1, <2>2
    DEF vars, ExactInv, EngineOnSnapshot, StoredTold, EngineTold, NothingAhead, SavingTold,
        SummaryTold, ReviewTold, Stored
<1>2. CASE Next
  BY <1>2, ScanKeepsExact, BeginKeepsExact, SaveTableKeepsExact, EndKeepsExact, ReviewKeepsExact
  DEF Next
<1>. QED
  BY <1>1, <1>2

------------------------------------------------------------------------------
(* What it means for the readers.                                          *)

\* A stored access index is the full calculation on resources without a deny.
LEMMA ExactImpliesAccess == ExactInv => AccessIsExact
<1> SUFFICES ASSUME ExactInv, NEW at \in At, Stored(at), index["access"][at] # {}
             PROVE  OnUndenied(snapshots[at], index["access"][at])
                      = OnUndenied(snapshots[at], EngineAccess[snapshots[at]])
  BY DEF AccessIsExact
<1> DEFINE G == snapshots[at]
           A == index["access"][at]
           B == EngineAccess[G]
<1>1. G \in Graphs
  BY DEF ExactInv, RefreshInv, TypeOK, Stored, Graphs
<1>2. Exact(G, A) /\ Exact(G, B)
  BY <1>1, EngineIsExact DEF ExactInv, StoredTold, Told, TablesOf, Tables
<1> HIDE DEF G, A, B
<1>3. \A r \in Undenied(G) : {x \in A : x.resource = r} = {x \in B : x.resource = r}
  BY <1>2, ExactAgree
<1>4. OnUndenied(G, A) = OnUndenied(G, B)
  BY <1>3 DEF OnUndenied
<1>. QED
  BY <1>4 DEF G, A, B

\* Whatever mix of full, carried and delta refreshes, crashes, failed refreshes
\* and retention led to it, a stored access index is what the engine would
\* calculate in full for its snapshot, on every resource without a deny entry.
THEOREM StoredAccessIsExact ==
    ASSUME ~ LongReviews
    PROVE  Spec => []AccessIsExact
<1>1. ExactInv /\ [Next]_vars => ExactInv'
  BY ExactInvStep
<1>2. Spec => []ExactInv
  BY <1>1, InitExactInv, PTL DEF Spec
<1>. QED
  BY <1>2, ExactImpliesAccess, PTL

\* Exact closure rows are the full calculation, as deep as the analysis sees.
LEMMA ClosureAgrees ==
    ASSUME NEW G, NEW rows, ClosureExact(G, rows)
    PROVE  Shallow(rows) = Shallow(GroupClosure(G, PrincipalIds(G)))
<1> DEFINE full == GroupClosure(G, PrincipalIds(G))
<1>1. ClosureExact(G, full)
  BY FullClosure DEF ClosureExact
<1> HIDE DEF full
<1>2. \A p \in PrincipalIds(G) : Shallow(OfPrincipal(rows, p)) = Shallow(OfPrincipal(full, p))
  BY <1>1 DEF ClosureExact
<1>3. ASSUME NEW A, NEW B, ClosureExact(G, A),
             \A p \in PrincipalIds(G) : Shallow(OfPrincipal(A, p)) = Shallow(OfPrincipal(B, p)),
             NEW row \in Shallow(A)
      PROVE  row \in Shallow(B)
  <2>1. row \in A /\ row.principal \in PrincipalIds(G)
    BY <1>3 DEF Shallow, ClosureExact
  <2>2. row \in Shallow(OfPrincipal(A, row.principal))
    BY <1>3 DEF Shallow, OfPrincipal
  <2>3. row \in Shallow(OfPrincipal(B, row.principal))
    BY <1>3, <2>1, <2>2
  <2>. QED
    BY <2>3 DEF Shallow, OfPrincipal
<1>4. Shallow(rows) \subseteq Shallow(full) /\ Shallow(full) \subseteq Shallow(rows)
  BY <1>1, <1>2, <1>3
<1>. QED
  BY <1>4 DEF full

\* Under the summary the closures are those of the graph.
LEMMA ExactVouches == ExactInv => SummaryVouchesForClosures
<1> SUFFICES ASSUME ExactInv, summary # 0, Stored(summary)
             PROVE  /\ Shallow(index["closure"][summary]) = Shallow(EngineClosure[snapshots[summary]])
                    /\ index["hierarchy"][summary] = EngineHierarchy[snapshots[summary]]
  BY DEF SummaryVouchesForClosures
<1>1. snapshots[summary] \in Graphs
  BY BoundAssumption DEF ExactInv, RefreshInv, TypeOK, Stored, Graphs, At
<1>2. /\ ClosureExact(snapshots[summary], index["closure"][summary])
      /\ index["hierarchy"][summary] = ResourceHierarchy(snapshots[summary])
  BY DEF ExactInv, SummaryTold
<1>. QED
  BY <1>1, <1>2, ClosureAgrees DEF EngineClosure, EngineHierarchy

\* Once a refresh has stored its summary, the group closure and the resource
\* hierarchy of its snapshot are those of its graph, even when they were carried
\* from a snapshot whose own refresh broke off.
THEOREM SummaryVouches ==
    ASSUME ~ LongReviews
    PROVE  Spec => []SummaryVouchesForClosures
<1>1. ExactInv /\ [Next]_vars => ExactInv'
  BY ExactInvStep
<1>2. Spec => []ExactInv
  BY <1>1, InitExactInv, PTL DEF Spec
<1>. QED
  BY <1>2, ExactVouches, PTL

\* A query is served the rows of the engine, from wherever they come.
LEMMA ServedIsExact ==
    ASSUME ExactInv, engine # Down, NEW r \in Undenied(engine.graph)
    PROVE  engine.graph \in Graphs /\ ServedRows(r) = RowsOn(EngineAccess[engine.graph], r)
<1>1. engine.graph \in Graphs
  BY DEF ExactInv, RefreshInv, TypeOK, Unscanned, Graphs
<1>2. CASE IndexedRows(r) = {}
  BY <1>1, <1>2 DEF ServedRows
<1>3. CASE IndexedRows(r) # {}
  <2> DEFINE A == index["access"][engine.at]
             B == EngineAccess[engine.graph]
  <2>1. engine.at \in At /\ A # {}
    BY <1>3 DEF IndexedRows, RowsOn
  <2>2. Exact(engine.graph, A) /\ Exact(engine.graph, B)
    BY <1>1, <2>1, EngineIsExact DEF ExactInv, EngineTold, Told, TablesOf, Tables
  <2> HIDE DEF A, B
  <2>3. RowsOn(A, r) = RowsOn(B, r)
    BY <2>2, ExactAgree DEF RowsOn
  <2>. QED
    BY <1>1, <1>3, <2>1, <2>3 DEF ServedRows, IndexedRows, A, B
<1>. QED
  BY <1>2, <1>3

\* The total of a resource is the number of the rows served for it.
LEMMA ExactTotals == ExactInv => TotalsMatchRows
<1> SUFFICES ASSUME ExactInv, engine.at \in At, NEW r \in Undenied(engine.graph)
             PROVE  ServedTotals(r) = {Cardinality(ServedRows(r))}
  BY DEF TotalsMatchRows
<1> DEFINE exposed == {x \in index["exposure"][engine.at] : x.resource = r}
<1>1. engine # Down
  BY BoundAssumption DEF Down, At
<1>2. ServedRows(r) = RowsOn(AccessIndex(engine.graph), r)
  BY <1>1, ServedIsExact, EngineIsExact
<1>3. \A x \in exposed : x.principals = Cardinality(ServedRows(r))
  BY <1>2 DEF ExactInv, EngineTold, Told, TablesOf, Tables, RightTotals
<1>4. exposed # {} => {x.principals : x \in exposed} = {Cardinality(ServedRows(r))}
  <2> HIDE DEF exposed
  <2>. QED
    BY <1>3
<1>. QED
  BY <1>4 DEF ServedTotals

\* At every moment, in the middle of a refresh or after one that broke off, the
\* total a query reports for a resource is the number of rows it pages through.
THEOREM TotalsAreRight ==
    ASSUME ~ LongReviews
    PROVE  Spec => []TotalsMatchRows
<1>1. ExactInv /\ [Next]_vars => ExactInv'
  BY ExactInvStep
<1>2. Spec => []ExactInv
  BY <1>1, InitExactInv, PTL DEF Spec
<1>. QED
  BY <1>2, ExactTotals, PTL

------------------------------------------------------------------------------
(* The promise of the answers is kept.                                     *)

AnswersNow == IF engine = Down THEN << >> ELSE [r \in Undenied(engine.graph) |-> ServedRows(r)]

\* While there is an engine, the answers are those of its graph.
AnswersOfEngine ==
    engine # Down => engine.graph \in Graphs /\ AnswersNow = ExactAnswers[engine.graph]

\* The invariant says so.
LEMMA ExactGivesAnswers == ExactInv => AnswersOfEngine
<1> SUFFICES ASSUME ExactInv, engine # Down
             PROVE  engine.graph \in Graphs /\ AnswersNow = ExactAnswers[engine.graph]
  BY DEF AnswersOfEngine
<1>1. engine.graph \in Graphs
  BY DEF ExactInv, RefreshInv, TypeOK, Unscanned, Graphs
<1>2. \A r \in Undenied(engine.graph) : ServedRows(r) = RowsOn(EngineAccess[engine.graph], r)
  BY ServedIsExact
<1>. QED
  BY <1>1, <1>2 DEF AnswersNow, ExactAnswers

\* Every step of the indexes, seen through the answers, publishes a graph with
\* its exact answers or stops the process: the refresh implements the promise.
THEOREM RefreshImplementsPromise ==
    ASSUME ~ LongReviews
    PROVE  Spec => ImplementsPromise
<1>1. ExactInv /\ [Next]_vars => ExactInv'
  BY ExactInvStep
<1>2. Spec => []AnswersOfEngine
  BY <1>1, InitExactInv, ExactGivesAnswers, PTL DEF Spec
<1>3. Init /\ AnswersOfEngine => Promise!Init
  <2>1. Init => engine # Down /\ engine.graph = EmptyGraph
    BY DEF Init, Unscanned, Down
  <2>. QED
    BY <2>1 DEF Promise!Init, AnswersOfEngine, AnswersNow
<1>4. AnswersOfEngine' => Promise!Next
  <2> SUFFICES ASSUME AnswersOfEngine'
               PROVE  Promise!Next
    OBVIOUS
  <2>1. CASE engine' = Down
    BY <2>1 DEF Promise!Next, Promise!Stop, Down
  <2>2. CASE engine' # Down
    BY <2>2 DEF Promise!Next, Promise!Publish, AnswersOfEngine, AnswersNow
  <2>. QED
    BY <2>1, <2>2
<1>. QED
  BY <1>2, <1>3, <1>4, PTL DEF Spec, ImplementsPromise, Promise!Spec

------------------------------------------------------------------------------
(* A request changes nothing of what it reads.                             *)

\* Every step is one of the refresh or leaves all of it alone.
LEMMA ReadersOnlyRead == [ReaderNext]_readerVars => [Next]_vars
  BY DEF ReaderNext, RefreshStep, readerVars, vars

\* The invariant of the tables holds beside the readers, too.
LEMMA ExactBesideReaders ==
    ASSUME ~ LongReviews
    PROVE  ReaderSpec => []ExactInv
<1>1. ExactInv /\ [ReaderNext]_readerVars => ExactInv'
  BY ReadersOnlyRead, ExactInvStep
<1>2. ReaderInit => ExactInv
  BY InitExactInv DEF ReaderInit
<1>. QED
  BY <1>1, <1>2, PTL DEF ReaderSpec

\* After a chain of refreshes of which some broke off, and with retention deleting
\* what they built on, totals agree with rows and the summary with the closures.
THEOREM TablesAlwaysAgree ==
    ASSUME ~ LongReviews
    PROVE  ReaderSpec => []TablesAgree
<1>1. ReaderSpec => []ExactInv
  BY ExactBesideReaders
<1>2. ExactInv => TablesAgree
  BY ExactTotals, ExactVouches DEF TablesAgree
<1>. QED
  BY <1>1, <1>2, PTL

------------------------------------------------------------------------------
(* A snapshot a request has met, and its graph.                            *)

\* What is stored has been scanned.
StoredHasCome == \A at \in At : Stored(at) => at <= count

\* G is the graph of at: if at is stored, or the engine is of at, it is G, and
\* what is left of its access rows is right for G.  Retention may have taken the
\* snapshot, the engine may have gone, and rows may be gone or come back.
Followed(at, G) ==
    /\ at \in 0..count /\ G \in Graphs
    /\ at = 0 => G = EmptyGraph
    /\ at \in At /\ Stored(at) => snapshots[at] = G
    /\ engine.at = at => engine.graph = G
    /\ at \in At /\ index["access"][at] # {} => Exact(G, index["access"][at])

\* Only a scan stores a snapshot, under the next number.
LEMMA StoredHasComeStep == ExactInv /\ StoredHasCome /\ [Next]_vars => StoredHasCome'
<1> SUFFICES ASSUME ExactInv, StoredHasCome, [Next]_vars, NEW at \in At, snapshots'[at] # NoGraph
             PROVE  at <= count'
  BY DEF StoredHasCome, Stored
<1>1. TypeOK /\ count \in Nat /\ at \in Nat
  BY DEF ExactInv, RefreshInv, TypeOK, At
<1>2. CASE UNCHANGED <<count, snapshots>>
  BY <1>2 DEF StoredHasCome, Stored
<1>3. ASSUME NEW G \in Collectable, Scan(G)
      PROVE  at <= count'
  <2>1. at = count + 1 \/ snapshots[at] # NoGraph
    BY <1>3 DEF Scan
  <2>2. count' = count + 1
    BY <1>3 DEF Scan
  <2>. QED
    BY <1>1, <2>1, <2>2 DEF StoredHasCome, Stored
<1>4. CASE UNCHANGED vars
  BY <1>2, <1>4 DEF vars
<1>5. Begin \/ SaveTable \/ SaveSummary \/ FailRefresh \/ Crash \/ Start \/ ReviewLoad \/ ReviewSave
         => UNCHANGED <<count, snapshots>>
  BY DEF Begin, SaveTable, SaveSummary, FailRefresh, Crash, Start, ReviewLoad, ReviewSave
<1>. QED
  BY <1>2, <1>3, <1>4, <1>5 DEF Next

\* The graph of a snapshot stays its graph, whatever is scanned, refreshed,
\* reviewed or deleted.
LEMMA FollowedStep ==
    ASSUME ExactInv, StoredHasCome, [Next]_vars, NEW at, NEW G, Followed(at, G)
    PROVE  Followed(at, G)'
<1>1. /\ TypeOK /\ LatestStored /\ JobOnLatest /\ count \in Nat /\ at \in Nat /\ at <= count
      /\ G \in Graphs
  BY DEF ExactInv, RefreshInv, TypeOK, Followed
<1>2. CASE UNCHANGED <<count, snapshots, index, engine>>
  BY <1>2 DEF Followed, Stored
<1>3. ASSUME NEW H \in Collectable, Scan(H)
      PROVE  Followed(at, G)'
  <2>1. count' = count + 1 /\ engine' = engine
    BY <1>3 DEF Scan
  <2>2. at \in At => snapshots'[at] \in {NoGraph, snapshots[at]}
    BY <1>1, <1>3 DEF Scan
  <2>3. at \in At => index'["access"][at] \in {{}, index["access"][at]}
    BY <1>1, <1>3 DEF Scan, TypeOK, IndexType, Tables
  <2>. QED
    BY <1>1, <2>1, <2>2, <2>3 DEF Followed, Stored
<1>4. CASE Begin
  <2>1. UNCHANGED <<count, snapshots, index>> /\ job # Idle /\ engine' = [at |-> job.at, graph |-> snapshots[job.at]]
    BY <1>4 DEF Begin, Idle
  <2>2. job.at = count /\ count > 0 /\ snapshots[count] \in Collectable
    BY <1>1, <2>1 DEF JobOnLatest, LatestStored
  <2>3. engine'.at = at => at \in At /\ Stored(at) /\ engine'.graph = snapshots[at]
    BY <1>1, <2>1, <2>2, CollectableAssumption, BoundAssumption DEF Stored, At, TypeOK
  <2>. QED
    BY <2>1, <2>3 DEF Followed, Stored
<1>5. CASE SaveTable
  <2>1. UNCHANGED <<count, snapshots, engine>> /\ job # Idle /\ job.stage = "saving"
    BY <1>5 DEF SaveTable, Idle
  <2>2. job.at = count /\ count > 0 /\ snapshots[count] \in Collectable
    BY <1>1, <2>1 DEF JobOnLatest, LatestStored
  <2>3. Exact(snapshots[job.at], job.rows["access"])
    BY <2>1 DEF ExactInv, SavingTold, RightRows
  <2>4. at \in At => index'["access"][at] = index["access"][at]
                     \/ (at = job.at /\ index'["access"][at] = job.rows["access"])
    BY <1>1, <1>5 DEF SaveTable, TypeOK, IndexType, Tables
  <2>5. at = job.at => at \in At /\ Stored(at)
    BY <1>1, <2>2, CollectableAssumption, BoundAssumption DEF Stored, At, TypeOK
  <2>. QED
    BY <2>1, <2>3, <2>4, <2>5 DEF Followed, Stored
<1>6. CASE SaveSummary \/ FailRefresh \/ ReviewLoad
  BY <1>2, <1>6 DEF SaveSummary, FailRefresh, ReviewLoad
<1>7. CASE Crash
  BY <1>1, <1>7 DEF Crash, Followed, Stored, Down
<1>8. CASE Start
  <2>1. UNCHANGED <<count, snapshots, index>> /\ (engine' = engine \/ engine' = Unscanned)
    BY <1>8 DEF Start
  <2>. QED
    BY <2>1 DEF Followed, Stored, Unscanned
<1>9. CASE ReviewSave
  <2>1. UNCHANGED <<count, snapshots, engine>>
    BY <1>9 DEF ReviewSave
  <2>2. engine # Down /\ review.rows = EngineAccess[engine.graph]
    BY <1>9 DEF ReviewSave, ExactInv, ReviewTold
  <2>3. at \in At => index'["access"][at] = IF at = engine.at THEN review.rows ELSE index["access"][at]
    BY <1>1, <1>9 DEF ReviewSave, TypeOK, IndexType, Tables
  <2>4. Exact(G, EngineAccess[G])
    BY <1>1, EngineIsExact
  <2>. QED
    BY <2>1, <2>2, <2>3, <2>4 DEF Followed, Stored
<1>10. CASE UNCHANGED vars
  BY <1>2, <1>10 DEF vars
<1>. QED
  BY <1>3, <1>4, <1>5, <1>6, <1>7, <1>8, <1>9, <1>10 DEF Next

\* The engine in place is followed, and so is every stored snapshot.
LEMMA BeginsFollowed ==
    ASSUME ExactInv, StoredHasCome
    PROVE  /\ engine # Down => Followed(engine.at, engine.graph)
           /\ \A at \in At : Stored(at) => Followed(at, snapshots[at])
<1>1. TypeOK /\ count \in Nat
  BY DEF ExactInv, RefreshInv, TypeOK
<1>2. ASSUME engine # Down
      PROVE  Followed(engine.at, engine.graph)
  <2>1. engine.at \in 0..count /\ engine.graph \in Graphs /\ (engine.at = 0 => engine.graph = EmptyGraph)
    BY <1>1, <1>2 DEF TypeOK, Unscanned, Graphs
  <2>2. engine.at \in At /\ index["access"][engine.at] # {} => Exact(engine.graph, index["access"][engine.at])
    BY DEF ExactInv, EngineTold, Told, TablesOf, Tables
  <2>3. engine.at \in At /\ Stored(engine.at) => snapshots[engine.at] = engine.graph
    BY DEF ExactInv, EngineOnSnapshot
  <2>. QED
    BY <2>1, <2>2, <2>3 DEF Followed
<1>3. ASSUME NEW at \in At, Stored(at)
      PROVE  Followed(at, snapshots[at])
  <2>1. at \in 0..count /\ at # 0 /\ snapshots[at] \in Graphs
    BY <1>1, <1>3 DEF TypeOK, StoredHasCome, Stored, Graphs, At
  <2>2. index["access"][at] # {} => Exact(snapshots[at], index["access"][at])
    BY <1>3 DEF ExactInv, StoredTold, Told, TablesOf, Tables
  <2>3. engine.at = at => engine.graph = snapshots[at]
    BY <1>3 DEF ExactInv, EngineOnSnapshot
  <2>. QED
    BY <2>1, <2>2, <2>3 DEF Followed
<1>. QED
  BY <1>2, <1>3

\* In a graph without denies exact rows are the full calculation.
LEMMA ExactUndisputed ==
    ASSUME NEW G \in Graphs, Undisputed(G), NEW rows, Exact(G, rows)
    PROVE  rows = EngineAccess[G]
<1> DEFINE full == EngineAccess[G]
<1>1. Exact(G, full)
  BY EngineIsExact
<1>2. Undenied(G) = ResourceIds(G)
  BY DEF Undisputed, Undenied
<1> HIDE DEF full
<1>3. ASSUME NEW A, NEW B, Exact(G, A), Exact(G, B), NEW x \in A
      PROVE  x \in B
  <2>1. x.resource \in Undenied(G)
    BY <1>2, <1>3 DEF Exact
  <2>2. {y \in A : y.resource = x.resource} = {y \in B : y.resource = x.resource}
    BY <1>3, <2>1, ExactAgree
  <2>. QED
    BY <1>3, <2>2
<1>4. rows = full
  BY <1>1, <1>3
<1>. QED
  BY <1>4 DEF full

------------------------------------------------------------------------------
(* What a request looks like.                                              *)

Fields(kind) ==
    CASE kind = "pages" -> {"kind", "of", "offset", "got", "page", "told", "lost", "engine", "step"}
      [] kind = "detail" -> {"kind", "of", "step", "met", "edges", "closure", "access"}
      [] kind = "analytics" -> {"kind", "step", "at", "met", "exposure", "principals"}
      [] kind = "drift" -> {"kind", "step", "at", "before", "graphs", "lost", "rows", "drift"}
      [] OTHER -> {"kind", "step"}

\* Which requests are read in which steps.
ReaderShape ==
    /\ reader.kind \in {"none", "pages", "detail", "analytics", "drift"}
    /\ DOMAIN reader = Fields(reader.kind)
    /\ reader.kind = "none" => reader.step = "done"
    /\ reader.step = "next" => reader.kind = "pages"
    /\ reader.kind = "detail" => reader.step \in {"closure", "access", "done"}
    /\ reader.kind = "drift" => reader.step \in {"current", "previous", "done"}

\* A drift comes from the steps of a drift, a detail from those of a detail.
LEMMA ReaderShapeStep ==
    ASSUME ReaderShape, ReaderStep
    PROVE  /\ ReaderShape'
           /\ reader'.kind = "drift" => (\E at \in At : AskDrift(at)) \/ ReadCurrent \/ ReadPrevious
           /\ reader'.kind = "detail" =>
                 (\E e \in Details : AskDetail(e)) \/ ReadClosure \/ ReadDetailAccess
<1> DEFINE Pages(r) == DOMAIN r = Fields("pages") /\ r.kind = "pages"
<1>1. ASSUME NEW r, Pages(r), NEW e, Capture(r, e)
      PROVE  ReaderShape' /\ reader'.kind \notin {"drift", "detail"}
  <2>1. CASE reader' = NoReader
    BY <2>1 DEF NoReader, ReaderShape, Fields
  <2>2. CASE reader' = [r EXCEPT !.engine = engine, !.step = "rows"]
    BY <1>1, <2>2 DEF ReaderShape, Fields
  <2>. QED
    BY <1>1, <2>1, <2>2 DEF Capture
<1>2. ASSUME NEW e, AskPages(e)
      PROVE  ReaderShape' /\ reader'.kind \notin {"drift", "detail"}
  <2> DEFINE r == [kind |-> "pages", of |-> e, offset |-> 0, got |-> <<>>, page |-> <<>>,
                   told |-> {}, lost |-> FALSE, engine |-> engine, step |-> "rows"]
  <2>1. Pages(r)
    BY DEF Fields
  <2>2. Capture(r, e)
    BY <1>2 DEF AskPages
  <2> HIDE DEF r, Pages
  <2>. QED
    BY <1>1, <2>1, <2>2
<1>3. CASE AskNextPage
  <2>1. Pages(reader) /\ Capture(reader, reader.of)
    BY <1>3 DEF AskNextPage, ReaderShape
  <2>. QED
    BY <1>1, <2>1
<1>4. CASE ReadPage \/ ReadTotal
  <2>1. Pages(reader)
    BY <1>4 DEF ReadPage, ReadTotal, ReaderShape
  <2>2. ASSUME NEW page, NEW source, NEW total
        PROVE  DOMAIN Answered(page, source, total) = Fields("pages") /\ Answered(page, source, total).kind = "pages"
    BY <2>1 DEF Answered, Fields
  <2>3. DOMAIN reader' = Fields("pages") /\ reader'.kind = "pages"
    <3>1. CASE ReadTotal
      <4>1. PICK total, lost : reader' = [Answered(reader.page, "index", total) EXCEPT !.lost = lost]
        BY <3>1 DEF ReadTotal
      <4>. QED
        BY <2>2, <4>1 DEF Fields
    <3>2. CASE ReadPage
      <4>1. \/ \E page : reader' = [reader EXCEPT !.page = page, !.step = "total"]
            \/ \E page, total : reader' = Answered(page, "engine", total)
        BY <3>2 DEF ReadPage
      <4>. QED
        BY <2>1, <2>2, <4>1 DEF Fields
    <3>. QED
      BY <1>4, <3>1, <3>2
  <2>. QED
    BY <2>3 DEF ReaderShape
<1>5. ASSUME NEW e \in Details, AskDetail(e)
      PROVE  ReaderShape' /\ reader'.kind # "drift"
  BY <1>5 DEF AskDetail, ReaderShape, Fields
<1>6. CASE ReadClosure \/ ReadDetailAccess
  <2>1. reader.kind = "detail" /\ DOMAIN reader = Fields("detail")
    BY <1>6 DEF ReadClosure, ReadDetailAccess, ReaderShape
  <2>2. \/ reader' = NoReader
        \/ \E met, closure : reader' = [reader EXCEPT !.step = "access", !.met = met, !.closure = closure]
        \/ \E met, access : reader' = [reader EXCEPT !.step = "done", !.met = met, !.access = access]
    BY <1>6 DEF ReadClosure, ReadDetailAccess
  <2>3. \/ reader' = NoReader
        \/ reader'.kind = "detail" /\ DOMAIN reader' = Fields("detail") /\ reader'.step \in {"access", "done"}
    BY <2>1, <2>2 DEF Fields
  <2>. QED
    BY <1>6, <2>3 DEF ReaderShape, Fields, NoReader
<1>7. CASE AskAnalytics \/ ReadExposure \/ ReadPrincipals
  <2>1. CASE AskAnalytics
    BY <2>1 DEF AskAnalytics, ReaderShape, Fields
  <2>2. CASE ReadExposure \/ ReadPrincipals
    <3>1. reader.kind = "analytics" /\ DOMAIN reader = Fields("analytics")
      BY <2>2 DEF ReadExposure, ReadPrincipals, ReaderShape
    <3>2. \/ \E met, x : reader' = [reader EXCEPT !.step = "principals", !.met = met, !.exposure = x]
          \/ \E met, x : reader' = [reader EXCEPT !.step = "done", !.met = met, !.principals = x]
      BY <2>2 DEF ReadExposure, ReadPrincipals
    <3>3. reader'.kind = "analytics" /\ DOMAIN reader' = Fields("analytics") /\ reader'.step # "next"
      BY <3>1, <3>2 DEF Fields
    <3>. QED
      BY <3>3 DEF ReaderShape
  <2>. QED
    BY <1>7, <2>1, <2>2
<1>8. ASSUME NEW at \in At, AskDrift(at)
      PROVE  ReaderShape' /\ reader'.kind # "detail"
  BY <1>8 DEF AskDrift, ReaderShape, Fields
<1>9. CASE ReadCurrent \/ ReadPrevious
  <2>1. /\ reader'.kind = "drift" /\ DOMAIN reader' = Fields("drift")
        /\ reader'.step \in {"current", "previous", "done"}
    BY <1>9 DEF ReadCurrent, ReadPrevious, ReaderShape, Fields
  <2>. QED
    BY <1>9, <2>1 DEF ReaderShape
<1>. QED
  BY <1>2, <1>3, <1>4, <1>5, <1>6, <1>7, <1>8, <1>9 DEF ReaderStep

------------------------------------------------------------------------------
(* What the drift between two snapshots holds.                             *)

\* Both snapshots are followed; what was read of them is right for their graphs,
\* unless the retention took one before.
DriftHolds(a, b, G, H) ==
    /\ a \in At /\ b \in At /\ Followed(a, G) /\ Followed(b, H)
    /\ reader.at = a /\ reader.before = b /\ reader.graphs = <<G, H>>
    /\ reader.lost \in BOOLEAN
    /\ reader.step = "previous" /\ ~ reader.lost => Exact(G, reader.rows)
    /\ reader.step = "done" /\ ~ reader.lost =>
          \E new, old : Exact(G, new) /\ Exact(H, old) /\ reader.drift = Drift(new, old)

DriftFollowed == reader.kind = "drift" => \E a, b, G, H : DriftHolds(a, b, G, H)

\* Rows of a followed snapshot are right until it has expired.
LEMMA RowsAreFollowed ==
    ASSUME NEW a \in At, NEW G, Followed(a, G), ~ Expired(a)
    PROVE  Exact(G, AccessRowsAt(a))
<1>1. Rows("access", a) = index["access"][a]
  BY DEF Rows
<1>2. Exact(G, EngineAccess[G])
  BY EngineIsExact DEF Followed
<1>. QED
  BY <1>1, <1>2 DEF AccessRowsAt, Expired, Followed

\* A drift asked for, or read on.
LEMMA DriftStep ==
    ASSUME ExactInv, StoredHasCome, ReaderShape, DriftFollowed, UNCHANGED vars,
           (\E at \in At : AskDrift(at)) \/ ReadCurrent \/ ReadPrevious
    PROVE  DriftFollowed'
<1>1. \A a, G : Followed(a, G) => Followed(a, G)'
  BY DEF vars, Followed, Stored
<1>2. ASSUME NEW at \in At, AskDrift(at)
      PROVE  DriftFollowed'
  <2>0. PICK b : b = FSets!Max(Before(at))
    OBVIOUS
  <2>1. b \in Before(at)
    <3>1. Before(at) \in SUBSET At /\ Before(at) # {}
      BY <1>2 DEF AskDrift, Before, Others
    <3>2. \E x \in Before(at) : \A y \in Before(at) : y <= x
      BY <3>1, GreatestExists
    <3>3. \A x, y \in At : x >= y <=> y <= x
      BY BoundAssumption DEF At
    <3>4. \E x \in Before(at) : \A y \in Before(at) : x >= y
      BY <3>1, <3>2, <3>3
    <3>. QED
      BY <2>0, <3>4 DEF FSets!Max
  <2>2. b \in At /\ Stored(b) /\ Stored(at)
    BY <1>2, <2>1 DEF AskDrift, Before, Others, Stored
  <2>3. reader' = [kind |-> "drift", step |-> "current", at |-> at, before |-> b,
                   graphs |-> <<snapshots[at], snapshots[b]>>, lost |-> FALSE,
                   rows |-> {}, drift |-> NoDrift]
    BY <1>2, <2>0 DEF AskDrift
  <2>4. PICK G, H : G = snapshots[at] /\ H = snapshots[b]
    OBVIOUS
  <2>5. Followed(at, G)' /\ Followed(b, H)'
    BY <1>1, <2>2, <2>4, BeginsFollowed
  <2>6. DriftHolds(at, b, G, H)'
    BY <2>2, <2>3, <2>4, <2>5 DEF DriftHolds
  <2>. QED
    BY <2>6 DEF DriftFollowed
<1>3. ASSUME ReadCurrent \/ ReadPrevious
      PROVE  DriftFollowed'
  <2>1. reader.kind = "drift" /\ DOMAIN reader = Fields("drift")
    BY <1>3 DEF ReadCurrent, ReadPrevious, ReaderShape
  <2>2. PICK a, b, G, H : DriftHolds(a, b, G, H)
    BY <2>1 DEF DriftFollowed
  <2>3. a \in At /\ b \in At /\ Followed(a, G)' /\ Followed(b, H)'
    BY <1>1, <2>2 DEF DriftHolds
  <2>4. CASE ReadCurrent
    <3>1. PICK rows, expired : rows = AccessRowsAt(a) /\ expired = Expired(a)
      OBVIOUS
    <3>2. expired \in BOOLEAN /\ (~ expired => Exact(G, rows))
      BY <2>2, <3>1, RowsAreFollowed DEF DriftHolds, Expired
    <3>3. reader' = [reader EXCEPT !.step = "previous", !.rows = rows, !.lost = expired]
      BY <2>2, <2>4, <3>1 DEF ReadCurrent, DriftHolds
    <3>4. /\ reader'.at = a /\ reader'.before = b /\ reader'.graphs = <<G, H>>
          /\ reader'.step = "previous" /\ reader'.rows = rows /\ reader'.lost = expired
      BY <2>1, <2>2, <3>3 DEF DriftHolds, Fields
    <3>5. DriftHolds(a, b, G, H)'
      BY <2>3, <3>2, <3>4 DEF DriftHolds
    <3>. QED
      BY <3>5 DEF DriftFollowed
  <2>5. CASE ReadPrevious
    <3>1. PICK new, old, lost : /\ new = reader.rows /\ old = AccessRowsAt(b)
                                /\ lost = (reader.lost \/ Expired(b))
      OBVIOUS
    <3>2. lost \in BOOLEAN /\ (~ lost => Exact(G, new) /\ Exact(H, old))
      BY <2>2, <2>5, <3>1, RowsAreFollowed DEF DriftHolds, ReadPrevious
    <3>3. PICK drift : drift = Drift(new, old)
      OBVIOUS
    <3>4. reader' = [reader EXCEPT !.step = "done", !.rows = {}, !.lost = lost, !.drift = drift]
      BY <2>2, <2>5, <3>1, <3>3 DEF ReadPrevious, DriftHolds
    <3>5. /\ reader'.at = a /\ reader'.before = b /\ reader'.graphs = <<G, H>>
          /\ reader'.step = "done" /\ reader'.drift = drift /\ reader'.lost = lost
      BY <2>1, <2>2, <3>4 DEF DriftHolds, Fields
    <3>6. DriftHolds(a, b, G, H)'
      BY <2>3, <3>2, <3>3, <3>5 DEF DriftHolds
    <3>. QED
      BY <3>6 DEF DriftFollowed
  <2>. QED
    BY <1>3, <2>4, <2>5
<1>. QED
  BY <1>2, <1>3

------------------------------------------------------------------------------
(* What the detail of an entity holds.                                     *)

\* What has been read is of the graph of the only engine met so far.
DetailHolds(at, G) ==
    /\ Followed(at, G)
    /\ reader.edges = Edges(G, reader.of)
    /\ reader.step \in {"access", "done"} =>
          Shallow(reader.closure) = Shallow(ComputedClosure(G, reader.of))
    /\ reader.step = "done" /\ Undisputed(G) => reader.access = About(EngineAccess[G], reader.of)

DetailFollowed ==
    reader.kind = "detail" =>
        reader.met # {} /\ \A at : reader.met = {at} => \E G : DetailHolds(at, G)

\* Closure rows found for an entity are those the engine computes for it, as deep
\* as the analysis sees, even if only one of the two closures has been saved.
LEMMA ClosureServed ==
    ASSUME ExactInv, engine # Down, NEW e,
           GroupsOf(engine.at, e) \cup AncestorsOf(engine.at, e) # {}
    PROVE  Shallow(GroupsOf(engine.at, e) \cup AncestorsOf(engine.at, e))
              = Shallow(ComputedClosure(engine.graph, e))
<1> DEFINE G == engine.graph
           C == Rows("closure", engine.at)
           H == Rows("hierarchy", engine.at)
           full == GroupClosure(G, PrincipalIds(G))
           tree == ResourceHierarchy(G)
<1>1. G \in Graphs
  BY DEF ExactInv, RefreshInv, TypeOK, Unscanned, Graphs
<1>2. (C # {} => ClosureExact(G, C)) /\ (H # {} => H = tree)
  BY DEF ExactInv, EngineTold, Told, TablesOf, Tables, Rows
<1>3. ComputedClosure(G, e) = OfPrincipal(full, e) \cup {row \in tree : row.resource = e}
  BY <1>1 DEF ComputedClosure, EngineClosure, EngineHierarchy, OfPrincipal
<1>4. /\ GroupsOf(engine.at, e) = OfPrincipal(C, e)
      /\ AncestorsOf(engine.at, e) = {row \in H : row.resource = e}
  BY DEF GroupsOf, AncestorsOf, OfPrincipal
<1>5. \A row \in tree : row.resource \in ResourceIds(G)
  BY DEF ResourceHierarchy, HierarchyRows
<1>6. PrincipalIds(G) \cap ResourceIds(G) = {}
  BY DEF PrincipalIds, ResourceIds, PRINCIPAL_KINDS
<1>7. ClosureExact(G, full)
  BY FullClosure DEF ClosureExact
<1> HIDE DEF G, C, H, full, tree
<1>8. CASE e \in PrincipalIds(G)
  <2>1. {row \in H : row.resource = e} = {} /\ {row \in tree : row.resource = e} = {}
    BY <1>2, <1>5, <1>6, <1>8
  <2>2. C # {}
    BY <1>4, <2>1 DEF OfPrincipal
  <2>3. Shallow(OfPrincipal(C, e)) = Shallow(OfPrincipal(full, e))
    BY <1>2, <1>7, <1>8, <2>2 DEF ClosureExact
  <2>. QED
    BY <1>3, <1>4, <2>1, <2>3 DEF G
<1>9. CASE e \notin PrincipalIds(G)
  <2>1. OfPrincipal(C, e) = {} /\ OfPrincipal(full, e) = {}
    BY <1>2, <1>7, <1>9 DEF OfPrincipal, ClosureExact
  <2>2. H # {}
    BY <1>4, <2>1
  <2>. QED
    BY <1>2, <1>3, <1>4, <2>1, <2>2 DEF G
<1>. QED
  BY <1>8, <1>9

\* Access rows found for an entity are those the engine computes for it.
LEMMA AccessServed ==
    ASSUME ExactInv, engine # Down, Undisputed(engine.graph), NEW e, AccessOf(engine.at, e) # {}
    PROVE  AccessOf(engine.at, e) = About(EngineAccess[engine.graph], e)
<1>1. engine.graph \in Graphs
  BY DEF ExactInv, RefreshInv, TypeOK, Unscanned, Graphs
<1>2. engine.at \in At /\ index["access"][engine.at] # {}
  BY DEF AccessOf, About, Rows
<1>3. Exact(engine.graph, index["access"][engine.at])
  BY <1>2 DEF ExactInv, EngineTold, Told, TablesOf, Tables
<1>. QED
  BY <1>1, <1>2, <1>3, ExactUndisputed DEF AccessOf, Rows

\* A detail asked for, or read on.
LEMMA DetailStep ==
    ASSUME ExactInv, StoredHasCome, ReaderShape, DetailFollowed, UNCHANGED vars,
           (\E e \in Details : AskDetail(e)) \/ ReadClosure \/ ReadDetailAccess
    PROVE  DetailFollowed'
<1>1. \A a, G : Followed(a, G) => Followed(a, G)'
  BY DEF vars, Followed, Stored
<1>2. PICK here, now : here = engine.at /\ now = engine.graph
  OBVIOUS
<1>3. engine # Down /\ Followed(here, now)'
  <2>1. engine # Down
    BY DEF AskDetail, Ready, ReadClosure, ReadDetailAccess
  <2>. QED
    BY <1>1, <1>2, <2>1, BeginsFollowed
<1>4. ASSUME NEW e \in Details, AskDetail(e)
      PROVE  DetailFollowed'
  <2>1. /\ reader'.of = e /\ reader'.step = "closure" /\ reader'.met = {here}
        /\ reader'.edges = Edges(now, e)
    BY <1>2, <1>4 DEF AskDetail
  <2>2. DetailHolds(here, now)'
    BY <1>3, <2>1 DEF DetailHolds
  <2>. QED
    BY <2>1, <2>2 DEF DetailFollowed
<1>5. CASE ReadClosure \/ ReadDetailAccess
  <2>1. reader.kind = "detail" /\ DOMAIN reader = Fields("detail") /\ reader.met # {}
    BY <1>5 DEF ReadClosure, ReadDetailAccess, ReaderShape, DetailFollowed
  <2>2. CASE reader' = NoReader
    BY <2>2 DEF NoReader, DetailFollowed
  <2>3. PICK e : e = reader.of
    OBVIOUS
  <2>4. ASSUME reader' # NoReader
        PROVE  /\ reader'.of = e /\ reader'.met = reader.met \cup {here} /\ reader'.edges = reader.edges
               /\ \/ /\ reader'.step = "access"
                     /\ Shallow(reader'.closure) = Shallow(ComputedClosure(now, e))
                  \/ /\ reader'.step = "done" /\ reader.step = "access" /\ reader'.closure = reader.closure
                     /\ Undisputed(now) => reader'.access = About(EngineAccess[now], e)
    <3>1. CASE ReadClosure
      <4> DEFINE indexed == GroupsOf(engine.at, e) \cup AncestorsOf(engine.at, e)
      <4>1. PICK closure : closure = IF indexed # {} THEN indexed ELSE ComputedClosure(now, e)
        OBVIOUS
      <4>2. Shallow(closure) = Shallow(ComputedClosure(now, e))
        BY <1>2, <1>3, <4>1, ClosureServed
      <4>3. reader' = [reader EXCEPT !.step = "access", !.met = @ \cup {here}, !.closure = closure]
        BY <1>2, <2>3, <2>4, <3>1, <4>1 DEF ReadClosure
      <4>. QED
        BY <2>1, <2>3, <4>2, <4>3 DEF Fields
    <3>2. CASE ReadDetailAccess
      <4> DEFINE indexed == AccessOf(engine.at, e)
      <4>1. PICK access : access = IF indexed # {} THEN indexed ELSE About(EngineAccess[now], e)
        OBVIOUS
      <4>2. Undisputed(now) => access = About(EngineAccess[now], e)
        BY <1>2, <1>3, <4>1, AccessServed
      <4>3. reader' = [reader EXCEPT !.step = "done", !.met = @ \cup {here}, !.access = access]
        BY <1>2, <2>3, <2>4, <3>2, <4>1 DEF ReadDetailAccess
      <4>4. reader.step = "access"
        BY <3>2 DEF ReadDetailAccess
      <4>. QED
        BY <2>1, <2>3, <4>2, <4>3, <4>4 DEF Fields
    <3>. QED
      BY <1>5, <3>1, <3>2
  <2>5. ASSUME reader' # NoReader, NEW at, reader'.met = {at}
        PROVE  \E G : DetailHolds(at, G)'
    <3>1. reader.met = {at} /\ at = here
      BY <2>1, <2>4, <2>5
    <3>2. PICK G : DetailHolds(at, G)
      BY <2>1, <3>1 DEF DetailFollowed
    <3>3. G = now
      BY <1>2, <3>1, <3>2 DEF DetailHolds, Followed
    <3>4. DetailHolds(at, G)'
      BY <1>3, <2>3, <2>4, <2>5, <3>1, <3>2, <3>3 DEF DetailHolds
    <3>. QED
      BY <3>4
  <2>6. ASSUME reader' # NoReader
        PROVE  DetailFollowed'
    BY <2>1, <2>4, <2>5, <2>6 DEF DetailFollowed
  <2>. QED
    BY <2>2, <2>6
<1>. QED
  BY <1>4, <1>5

------------------------------------------------------------------------------
(* Every step keeps it.                                                    *)

ReaderInv ==
    /\ ExactInv
    /\ StoredHasCome
    /\ ReaderShape
    /\ DriftFollowed
    /\ DetailFollowed

\* It holds before the first request.
LEMMA InitReaderInv == ReaderInit => ReaderInv
<1> SUFFICES ASSUME ReaderInit PROVE ReaderInv
  OBVIOUS
<1>1. ExactInv
  BY InitExactInv DEF ReaderInit
<1>2. StoredHasCome
  BY DEF ReaderInit, Init, StoredHasCome, Stored
<1>3. ReaderShape /\ DriftFollowed /\ DetailFollowed
  BY DEF ReaderInit, NoReader, ReaderShape, Fields, DriftFollowed, DetailFollowed
<1>. QED
  BY <1>1, <1>2, <1>3 DEF ReaderInv

\* A request that waits holds on to what it has, whatever the refresh does.
LEMMA WaitingReader ==
    ASSUME ReaderInv, [Next]_vars, reader' = reader
    PROVE  ReaderShape' /\ DriftFollowed' /\ DetailFollowed'
<1>1. \A at, G : Followed(at, G) => Followed(at, G)'
  BY FollowedStep DEF ReaderInv
<1>2. ReaderShape'
  BY DEF ReaderInv, ReaderShape
<1>3. DriftFollowed'
  <2>1. ASSUME NEW a, NEW b, NEW G, NEW H, DriftHolds(a, b, G, H)
        PROVE  DriftHolds(a, b, G, H)'
    BY <1>1, <2>1 DEF DriftHolds
  <2>. QED
    BY <2>1 DEF ReaderInv, DriftFollowed
<1>4. DetailFollowed'
  <2>1. ASSUME NEW at, NEW G, DetailHolds(at, G)
        PROVE  DetailHolds(at, G)'
    BY <1>1, <2>1 DEF DetailHolds
  <2>. QED
    BY <2>1 DEF ReaderInv, DetailFollowed
<1>. QED
  BY <1>2, <1>3, <1>4

\* Every step of refreshes and readers keeps it.
LEMMA ReaderInvStep == ~ LongReviews /\ ReaderInv /\ [ReaderNext]_readerVars => ReaderInv'
<1> SUFFICES ASSUME ~ LongReviews, ReaderInv, [ReaderNext]_readerVars
             PROVE  ReaderInv'
  OBVIOUS
<1>1. ExactInv' /\ StoredHasCome' /\ [Next]_vars
  BY ReadersOnlyRead, ExactInvStep, StoredHasComeStep DEF ReaderInv
<1>2. CASE reader' = reader
  BY <1>1, <1>2, WaitingReader DEF ReaderInv
<1>3. CASE reader' = NoReader
  BY <1>1, <1>3 DEF ReaderInv, NoReader, ReaderShape, Fields, DriftFollowed, DetailFollowed
<1>4. CASE ReaderStep /\ UNCHANGED vars
  <2>1. reader'.kind # "drift" => DriftFollowed'
    BY DEF DriftFollowed
  <2>2. reader'.kind # "detail" => DetailFollowed'
    BY DEF DetailFollowed
  <2>. QED
    BY <1>1, <1>4, <2>1, <2>2, ReaderShapeStep, DriftStep, DetailStep DEF ReaderInv
<1>. QED
  BY <1>2, <1>3, <1>4 DEF ReaderNext, RefreshStep, readerVars

\* Of every specification of readers and refreshes without straddling reviews.
LEMMA ReaderInvariant ==
    ASSUME ~ LongReviews
    PROVE  ReaderSpec => []ReaderInv
<1>1. ReaderInv /\ [ReaderNext]_readerVars => ReaderInv'
  BY ReaderInvStep
<1>. QED
  BY <1>1, InitReaderInv, PTL DEF ReaderSpec

------------------------------------------------------------------------------
(* What the answers tell.                                                  *)

\* The detail of an entity, put together in the middle of a refresh or after one
\* that broke off, shows the closure and the access of the very graph its edges
\* are of, unless the engine was replaced in between.
THEOREM DetailsAreOfOneGraph ==
    ASSUME ~ LongReviews
    PROVE  ReaderSpec => []DetailOfOneGraph
<1>1. ReaderSpec => []ReaderInv
  BY ReaderInvariant
<1>2. ReaderInv => DetailOfOneGraph
  <2> SUFFICES ASSUME ReaderInv, reader.kind = "detail", reader.step = "done",
                      reader.met = {engine.at}, Undisputed(engine.graph)
               PROVE  /\ reader.edges = Edges(engine.graph, reader.of)
                      /\ Shallow(reader.closure) = Shallow(ComputedClosure(engine.graph, reader.of))
                      /\ reader.access = About(EngineAccess[engine.graph], reader.of)
    BY DEF DetailOfOneGraph
  <2>1. PICK G : DetailHolds(engine.at, G)
    BY DEF ReaderInv, DetailFollowed
  <2>2. G = engine.graph
    BY <2>1 DEF DetailHolds, Followed
  <2>. QED
    BY <2>1, <2>2 DEF DetailHolds
<1>. QED
  BY <1>1, <1>2, PTL

\* A row of the engine permits something.
LEMMA RowsPermit ==
    ASSUME NEW G, NEW row \in AccessIndex(G)
    PROVE  /\ row.principal \in PrincipalIds(G) /\ row.resource \in ResourceIds(G)
           /\ row.permissions # {}
<1>1. PICK p \in PrincipalIds(G), r \in ResourceIds(G) :
          EffectiveGrants(G, Reach(G, p), r) # {} /\ row = AccessRow(G, p, Reach(G, p), r)
  BY DEF AccessIndex, AccessIndexForScope, RowsOfPrincipal
<1> DEFINE acts == Reach(G, p)
           gs == EffectiveGrants(G, acts, r)
<1>2. PICK g \in gs : g.permissions \ DeniedPermissions(G, acts, r) # {}
  BY <1>1 DEF EffectiveGrants
<1>3. (UNION {x.permissions : x \in gs}) \ DeniedPermissions(G, acts, r) # {}
  <2> HIDE DEF acts, gs
  <2>. QED
    BY <1>2
<1>4. row.permissions = (UNION {x.permissions : x \in gs}) \ DeniedPermissions(G, acts, r)
  BY <1>1 DEF AccessRow
<1>5. row.principal = p /\ row.resource = r
  BY <1>1 DEF AccessRow
<1>. QED
  BY <1>3, <1>4, <1>5

\* A pair that has a row is a pair that is allowed something.
LEMMA PairsAllowed ==
    ASSUME NEW G \in Graphs, NEW pair
    PROVE  pair \in Pairs(EngineAccess[G]) <=> Allowed(G, pair) # {}
<1> DEFINE rows == EngineAccess[G]
           here == {row.permissions : row \in {x \in rows : <<x.principal, x.resource>> = pair}}
<1>1. \A row \in rows : row.permissions # {}
  BY EngineIsExact, RowsPermit
<1>2. Allowed(G, pair) = UNION here
  BY DEF Allowed, Permitted
<1>3. pair \in Pairs(rows) <=> \E row \in rows : <<row.principal, row.resource>> = pair
  BY DEF Pairs
<1> HIDE DEF rows
<1>4. ASSUME NEW row \in rows, <<row.principal, row.resource>> = pair
      PROVE  UNION here # {}
  <2>1. row.permissions \in here /\ row.permissions # {}
    BY <1>1, <1>4
  <2>. QED
    BY <2>1
<1>5. (\A row \in rows : <<row.principal, row.resource>> # pair) => UNION here = {}
  OBVIOUS
<1>. QED
  BY <1>2, <1>3, <1>4, <1>5 DEF rows

\* A drift tells exactly the pairs that can reach, can no longer reach, or reach
\* with other permissions in the later of two graphs, whichever of their rows were
\* carried over, recalculated, missing or about to be deleted.
THEOREM DriftTellsDifference ==
    ASSUME ~ LongReviews
    PROVE  ReaderSpec => []DriftIsDifference
<1>1. ReaderSpec => []ReaderInv
  BY ReaderInvariant
<1>2. ReaderInv => DriftIsDifference
  <2> SUFFICES ASSUME ReaderInv, reader.kind = "drift", reader.step = "done", ~ reader.lost,
                      NEW G, NEW H, G = reader.graphs[1], H = reader.graphs[2],
                      EngineAccess[G] # {}, EngineAccess[H] # {}, Undisputed(G), Undisputed(H),
                      NEW pair
               PROVE  /\ pair \in reader.drift.added <=> Allowed(H, pair) = {} /\ Allowed(G, pair) # {}
                      /\ pair \in reader.drift.removed <=> Allowed(H, pair) # {} /\ Allowed(G, pair) = {}
                      /\ pair \in reader.drift.changed
                            <=> {} \notin {Allowed(H, pair), Allowed(G, pair)} /\ Allowed(H, pair) # Allowed(G, pair)
    BY DEF DriftIsDifference
  <2>1. PICK a, b : DriftHolds(a, b, G, H)
    BY DEF ReaderInv, DriftFollowed, DriftHolds
  <2>2. G \in Graphs /\ H \in Graphs
    BY <2>1 DEF DriftHolds, Followed
  <2>3. reader.drift = Drift(EngineAccess[G], EngineAccess[H])
    BY <2>1, <2>2, ExactUndisputed DEF DriftHolds
  <2> DEFINE new == EngineAccess[G]
             old == EngineAccess[H]
  <2>4. /\ reader.drift.added = Pairs(new) \ Pairs(old)
        /\ reader.drift.removed = Pairs(old) \ Pairs(new)
        /\ reader.drift.changed = {x \in Pairs(new) \cap Pairs(old) : Permitted(new, x) # Permitted(old, x)}
    BY <2>3 DEF Drift
  <2>5. /\ pair \in Pairs(new) <=> Allowed(G, pair) # {}
        /\ pair \in Pairs(old) <=> Allowed(H, pair) # {}
    BY <2>2, PairsAllowed
  <2>6. Permitted(new, pair) = Allowed(G, pair) /\ Permitted(old, pair) = Allowed(H, pair)
    BY DEF Allowed
  <2> HIDE DEF new, old
  <2>. QED
    BY <2>4, <2>5, <2>6
<1>. QED
  BY <1>1, <1>2, PTL
=============================================================================
