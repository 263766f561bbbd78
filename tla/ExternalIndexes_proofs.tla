------------------------ MODULE ExternalIndexes_proofs ------------------------
(***************************************************************************)
(* The copies of a snapshot and the answers cached from them, for any      *)
(* processes, any snapshots in any order, and any number of faults.        *)
(***************************************************************************)
EXTENDS ExternalIndexes, FiniteSetTheorems, TLAPS

------------------------------------------------------------------------------
(* Neighbourhoods.                                                         *)

\* How a neighbourhood grows from one distance to the next.
LEMMA BallGrows ==
    ASSUME NEW s, NEW R
    PROVE  /\ Ball(s, R, 0) = {s}
           /\ \A i \in 0 .. 3 : Ball(s, R, i + 1) = Wider(Ball(s, R, i), R)
<1> DEFINE b1 == Wider({s}, R)
           b2 == Wider(b1, R)
           b3 == Wider(b2, R)
           b4 == Wider(b3, R)
           f == [i \in 0 .. 4 |-> IF i = 0 THEN {s} ELSE IF i = 1 THEN b1
                                  ELSE IF i = 2 THEN b2 ELSE IF i = 3 THEN b3 ELSE b4]
           Grows(g) == g = [i \in 0 .. 4 |-> IF i = 0 THEN {s} ELSE Wider(g[i - 1], R)]
           ball == CHOOSE g : Grows(g)
<1>1. f[0] = {s} /\ f[1] = b1 /\ f[2] = b2 /\ f[3] = b3 /\ f[4] = b4
  OBVIOUS
<1>2. \A i \in 1 .. 4 : f[i] = Wider(f[i - 1], R)
  <2> HIDE DEF f
  <2>1. ASSUME NEW i \in 1 .. 4 PROVE f[i] = Wider(f[i - 1], R)
    <3>1. i = 1 \/ i = 2 \/ i = 3 \/ i = 4
      OBVIOUS
    <3>. QED
      BY <1>1, <3>1
  <2>. QED
    BY <2>1
<1>3. Grows(f)
  <2>1. \A i \in 0 .. 4 : f[i] = IF i = 0 THEN {s} ELSE Wider(f[i - 1], R)
    <3> HIDE DEF f
    <3>1. ASSUME NEW i \in 0 .. 4 PROVE f[i] = IF i = 0 THEN {s} ELSE Wider(f[i - 1], R)
      <4>1. CASE i = 0
        BY <1>1, <4>1
      <4>2. CASE i \in 1 .. 4
        BY <1>2, <4>2
      <4>. QED
        BY <4>1, <4>2
    <3>. QED
      BY <3>1
  <2>2. f = [i \in 0 .. 4 |-> f[i]]
    OBVIOUS
  <2> HIDE DEF f
  <2>. QED
    BY <2>1, <2>2
<1>4. Grows(ball)
  <2> HIDE DEF f, Grows
  <2>. QED
    BY <1>3
<1>5. \A i \in 0 .. 4 : Ball(s, R, i) = ball[i]
  BY DEF Ball
<1>6. ball[0] = {s} /\ \A i \in 0 .. 3 : ball[i + 1] = Wider(ball[i], R)
  <2> HIDE DEF ball
  <2>1. \A i \in 0 .. 4 : ball[i] = IF i = 0 THEN {s} ELSE Wider(ball[i - 1], R)
    BY <1>4
  <2>2. ASSUME NEW i \in 0 .. 3 PROVE ball[i + 1] = Wider(ball[i], R)
    <3>1. i + 1 \in 0 .. 4 /\ i + 1 # 0 /\ (i + 1) - 1 = i
      OBVIOUS
    <3>. QED
      BY <2>1, <3>1
  <2>. QED
    BY <2>1, <2>2
<1> HIDE DEF ball
<1>. QED
  BY <1>5, <1>6

\* A neighbourhood stays among the ends of relationships.
LEMMA BallInside ==
    ASSUME NEW D, NEW s \in D, NEW R \in SUBSET (D \X D), NEW d \in 0 .. 4
    PROVE  Ball(s, R, d) \subseteq D
<1>1. \A E : E \subseteq D => Wider(E, R) \subseteq D
  BY DEF Wider
<1>2. Ball(s, R, 0) \subseteq D
  BY BallGrows
<1>3. \A i \in 0 .. 3 : Ball(s, R, i) \subseteq D => Ball(s, R, i + 1) \subseteq D
  BY <1>1, BallGrows
<1>4. Ball(s, R, 1) \subseteq D /\ (Ball(s, R, 1) \subseteq D => Ball(s, R, 2) \subseteq D)
      /\ (Ball(s, R, 2) \subseteq D => Ball(s, R, 3) \subseteq D)
      /\ (Ball(s, R, 3) \subseteq D => Ball(s, R, 4) \subseteq D)
  <2>1. 0 + 1 = 1 /\ 1 + 1 = 2 /\ 2 + 1 = 3 /\ 3 + 1 = 4
    OBVIOUS
  <2>. QED
    BY <1>2, <1>3, <2>1
<1>5. d = 0 \/ d = 1 \/ d = 2 \/ d = 3 \/ d = 4
  OBVIOUS
<1>. QED
  BY <1>2, <1>4, <1>5

\* A copy of a graph under other names.
Renamed(g, R) == {<<g[r[1]], g[r[2]]>> : r \in R}

CopyOf(g, E) == {g[e] : e \in E}

Separates(g, D) == DOMAIN g = D /\ \A a, b \in D : g[a] = g[b] => a = b

\* Neighbourhoods in a copy are copies of neighbourhoods.
LEMMA BallRenamed ==
    ASSUME NEW D, NEW g, Separates(g, D),
           NEW s \in D, NEW R \in SUBSET (D \X D), NEW d \in 0 .. 4
    PROVE  Ball(g[s], Renamed(g, R), d) = CopyOf(g, Ball(s, R, d))
<1>0. DOMAIN g = D /\ \A a, b \in D : g[a] = g[b] => a = b
  BY DEF Separates
<1> DEFINE Q == Renamed(g, R)
           Copied(i) == Ball(g[s], Q, i) = {g[e] : e \in Ball(s, R, i)}
<1>1. ASSUME NEW E \in SUBSET D
      PROVE  Wider({g[e] : e \in E}, Q) = {g[e] : e \in Wider(E, R)}
  <2> DEFINE gE == {g[e] : e \in E}
  <2>1. \A e \in D : g[e] \in gE <=> e \in E
    BY <1>0
  <2>2. \A r \in R : r[1] \in D /\ r[2] \in D
    OBVIOUS
  <2> HIDE DEF gE
  <2>3. ASSUME NEW y \in Wider(gE, Q) PROVE y \in {g[e] : e \in Wider(E, R)}
    <3>1. CASE y \in gE
      BY <3>1 DEF Wider, gE
    <3>2. CASE \E q \in Q : (q[1] \in gE \/ q[2] \in gE) /\ y \in {q[1], q[2]}
      <4>1. PICK r \in R : (g[r[1]] \in gE \/ g[r[2]] \in gE) /\ (y = g[r[1]] \/ y = g[r[2]])
        BY <3>2 DEF Renamed
      <4>2. r[1] \in Wider(E, R) /\ r[2] \in Wider(E, R)
        BY <2>1, <2>2, <4>1 DEF Wider
      <4>. QED
        BY <4>1, <4>2
    <3>. QED
      BY <2>3, <3>1, <3>2 DEF Wider
  <2>4. ASSUME NEW e \in Wider(E, R) PROVE g[e] \in Wider(gE, Q)
    <3>1. CASE e \in E
      BY <3>1 DEF Wider, gE
    <3>2. CASE \E r \in R : (r[1] \in E \/ r[2] \in E) /\ e \in {r[1], r[2]}
      <4>1. PICK r \in R : (r[1] \in E \/ r[2] \in E) /\ e \in {r[1], r[2]}
        BY <3>2
      <4>2. PICK q \in Q : q = <<g[r[1]], g[r[2]]>>
        BY DEF Renamed
      <4>3. q[1] = g[r[1]] /\ q[2] = g[r[2]]
        BY <4>2
      <4>4. (q[1] \in gE \/ q[2] \in gE) /\ g[e] \in {q[1], q[2]}
        BY <2>1, <2>2, <4>1, <4>3
      <4>. QED
        BY <4>4 DEF Wider
    <3>. QED
      BY <2>4, <3>1, <3>2 DEF Wider
  <2>. QED
    BY <2>3, <2>4 DEF gE
<1>2. Copied(0)
  BY BallGrows
<1>3. ASSUME NEW i \in 0 .. 3, Copied(i)
      PROVE  Copied(i + 1)
  <2>1. Ball(s, R, i) \in SUBSET D
    BY BallInside
  <2>2. Wider({g[e] : e \in Ball(s, R, i)}, Q) = {g[e] : e \in Wider(Ball(s, R, i), R)}
    BY <1>1, <2>1
  <2>3. Ball(g[s], Q, i + 1) = Wider(Ball(g[s], Q, i), Q) /\ Ball(s, R, i + 1) = Wider(Ball(s, R, i), R)
    BY BallGrows
  <2>. QED
    BY <1>3, <2>2, <2>3
<1> HIDE DEF Copied
<1>4. Copied(1) /\ (Copied(1) => Copied(2)) /\ (Copied(2) => Copied(3)) /\ (Copied(3) => Copied(4))
  <2>1. 0 + 1 = 1 /\ 1 + 1 = 2 /\ 2 + 1 = 3 /\ 3 + 1 = 4
    OBVIOUS
  <2>. QED
    BY <1>2, <1>3, <2>1
<1>5. d = 0 \/ d = 1 \/ d = 2 \/ d = 3 \/ d = 4
  OBVIOUS
<1>. QED
  BY <1>2, <1>4, <1>5 DEF Copied, CopyOf

------------------------------------------------------------------------------
(* The invariant.                                                          *)

Asking == {"read", "inbound", "outbound", "store"}

\* What is created at once is finite, and nothing is kept of snapshots to come.
CopyShape ==
    /\ IsFiniteSet(nodes) /\ IsFiniteSet(edges)
    /\ \A x \in edges : x.at \in 1 .. Len(world)
    /\ DOMAIN cache = Key
    /\ \A k \in Key : cache[k] # {} => k[2] <= Len(world)

\* A query is of a stored snapshot; only graphs are read in several statements.
QueryShape ==
    /\ query \in [Process -> [stage : Asking \cup {"idle"}, kind : Kind \cup {"none"},
                              at : 0 .. Len(world), found : Answer]]
    /\ \A p \in Process : query[p].stage # "idle" => query[p].kind \in Kind /\ query[p].at > 0
    /\ \A p \in Process : query[p].stage \in {"inbound", "outbound"} => query[p].kind = "graph"

\* A document is of an entity of the snapshot it was written for.
Documented ==
    \A e \in Entity :
        /\ stored[e] # 0 => e \in world[stored[e]].entities
        /\ visible[e] # 0 => e \in world[visible[e]].entities

\* An answer about to be cached is of the engine the query began with.
QueriesRight ==
    \A p \in Process, n \in Nat : query[p].stage = "store" /\ query[p].at = n =>
        /\ query[p].kind = "search" => query[p].found.nodes \subseteq Documents(n)
        /\ query[p].kind = "engine" => query[p].found = FromEngine("engine", n)

\* Who has met no other writer is the only one.
AloneTold == \A p \in Process : job[p].alone => \A q \in Process \ {p} : job[q] = NoJob

\* What a writer that has met no other has left of OpenSearch.
SearchTold ==
    /\ \A p \in Process : job[p].alone /\ job[p].stage = "purge" =>
          \A e \in world[job[p].at].entities : stored[e] = job[p].at
    /\ last.search # 0 =>
          /\ \A p \in Process : job[p].stage \notin {"bulk", "purge"}
          /\ visible = stored
          /\ \A e \in world[last.search].entities : stored[e] = last.search

Node(p, n, e) == [entity |-> e, at |-> n, by |-> p]
NodesOf(p, n) == {Node(p, n, e) : e \in world[n].entities}
EdgesOf(p, n) ==
    {[source |-> Node(p, n, r[1]), target |-> Node(p, n, r[2]), at |-> n, by |-> p] :
        r \in world[n].relationships}

\* And of Neo4j.
GraphTold ==
    /\ \A p \in Process : job[p].alone /\ job[p].stage = "nodes" => nodes = {} /\ edges = {}
    /\ \A p \in Process : job[p].alone /\ job[p].stage = "edges" =>
          nodes = NodesOf(p, job[p].at) /\ edges = {}
    /\ last.graph # 0 =>
          /\ \A p \in Process : job[p] = NoJob
          /\ \E p \in Process : nodes = NodesOf(p, last.graph) /\ edges = EdgesOf(p, last.graph)

IndexInv ==
    /\ TypeOK /\ CopyShape /\ QueryShape /\ Documented
    /\ QueriesRight /\ AnswersOfKey
    /\ AloneTold /\ SearchTold /\ GraphTold

------------------------------------------------------------------------------
(* Types.                                                                  *)

\* Snapshots are finite graphs of known entities.
LEMMA WorldType ==
    ASSUME TypeOK, NEW n \in 1 .. Len(world)
    PROVE  /\ world[n] \in World
           /\ world[n].entities \subseteq Entity /\ IsFiniteSet(world[n].entities)
           /\ world[n].relationships \subseteq world[n].entities \X world[n].entities
           /\ world[n].relationships \subseteq Entity \X Entity
           /\ IsFiniteSet(world[n].relationships)
<1>1. world[n] \in World
  BY DEF TypeOK
<1>2. /\ world[n].entities \subseteq Entity
      /\ world[n].relationships \subseteq world[n].entities \X world[n].entities
  BY <1>1, WorldAssumption
<1>3. world[n].relationships \subseteq Entity \X Entity
  BY <1>2
<1>4. IsFiniteSet(Entity \X Entity) /\ IsFiniteSet(world[n].entities)
  BY <1>2, FiniteAssumption, FS_Product, FS_Subset
<1>. QED
  BY <1>1, <1>2, <1>3, <1>4, FS_Subset

\* What the engine answers is an answer.
LEMMA EngineAnswers ==
    ASSUME TypeOK, NEW n \in 1 .. Len(world), NEW kind
    PROVE  FromEngine(kind, n) \in Answer
<1>1. n \in 1 .. MaxSnapshots
  BY FiniteAssumption DEF TypeOK
<1>2. [Nothing EXCEPT !.nodes = Documents(n)] \in Answer
  BY <1>1, WorldType DEF Nothing, Documents, Answer
<1>3. Subgraph(n) \in Answer
  <2> DEFINE R == world[n].relationships
             walked == {r \in R : r[1] \in Near(R, Depth - 1) \/ r[2] \in Near(R, Depth - 1)}
             near == Near(R, Depth)
             in == {r \in R : r[2] = Focus}
             out == {r \in R : r[1] = Focus}
  <2>1. R \in SUBSET (Entity \X Entity) /\ IsFiniteSet(R)
    BY WorldType
  <2>2. near \subseteq Entity
    BY <2>1, BallInside, QueryAssumption DEF Near
  <2>3. Cardinality(in) \in Nat /\ Cardinality(out) \in Nat
    <3>1. in \in SUBSET R /\ out \in SUBSET R
      OBVIOUS
    <3> HIDE DEF R, in, out
    <3>. QED
      BY <2>1, <3>1, FS_Subset, FS_CardinalityType
  <2>4. {<<e, n>> : e \in near} \subseteq Entity \X (1 .. MaxSnapshots)
    BY <1>1, <2>2
  <2>5. {<<r[1], r[2], n>> : r \in walked} \subseteq Entity \X Entity \X (1 .. MaxSnapshots)
    BY <1>1, <2>1
  <2>6. Subgraph(n) = [nodes |-> {<<e, n>> : e \in near}, edges |-> {<<r[1], r[2], n>> : r \in walked},
                       inbound |-> Cardinality(in), outbound |-> Cardinality(out)]
    BY DEF Subgraph
  <2> HIDE DEF near, walked, in, out
  <2>. QED
    BY <2>3, <2>4, <2>5, <2>6 DEF Answer
<1>. QED
  BY <1>2, <1>3 DEF FromEngine

\* What OpenSearch answers is an answer, and of the snapshot it is asked for.
LEMMA SearchAnswers ==
    ASSUME TypeOK, Documented, NEW n \in 1 .. Len(world)
    PROVE  Searched(n) \in Answer /\ Searched(n).nodes \subseteq Documents(n)
<1>1. n \in 1 .. MaxSnapshots /\ n # 0
  BY FiniteAssumption DEF TypeOK
<1>2. Hits(n) \subseteq Documents(n)
  BY <1>1 DEF Hits, Documents, Documented
<1>3. [Nothing EXCEPT !.nodes = Hits(n)] \in Answer
  BY <1>1 DEF Hits, Nothing, Answer
<1>4. FromEngine("search", n).nodes = Documents(n)
  BY DEF FromEngine, Nothing
<1>5. [Nothing EXCEPT !.nodes = Hits(n)].nodes = Hits(n)
  BY DEF Nothing
<1>. QED
  BY <1>2, <1>3, <1>4, <1>5, EngineAnswers DEF Searched

\* A traversal keeps one value of each key.
LEMMA TraversalParts ==
    ASSUME NEW t \in Traversals
    PROVE  \E f \in {v \in nodes : v.entity = Focus} :
              /\ t = [nodes |-> t.nodes, edges |-> t.edges, inbound |-> 0, outbound |-> 0]
              /\ t.nodes \in SUBSET Surroundings(f).nodes /\ t.edges \in SUBSET Surroundings(f).edges
              /\ \A x \in Surroundings(f).nodes : Cardinality({y \in t.nodes : y[1] = x[1]}) = 1
              /\ \A x \in Surroundings(f).edges :
                    Cardinality({y \in t.edges : <<y[1], y[2]>> = <<x[1], x[2]>>}) = 1
<1>1. PICK f \in {v \in nodes : v.entity = Focus} : t \in Traversed(Surroundings(f))
  BY DEF Traversals
<1> DEFINE V == Surroundings(f).nodes
           E == Surroundings(f).edges
           ofNode == [v \in V |-> v[1]]
           ofEdge == [x \in E |-> <<x[1], x[2]>>]
<1>2. t \in [nodes : OneEach(V, ofNode), edges : OneEach(E, ofEdge), inbound : {0}, outbound : {0}]
  BY <1>1 DEF Traversed
<1> HIDE DEF V, E
<1>3. t = [nodes |-> t.nodes, edges |-> t.edges, inbound |-> 0, outbound |-> 0]
      /\ t.nodes \in OneEach(V, ofNode) /\ t.edges \in OneEach(E, ofEdge)
  <2> HIDE DEF ofNode, ofEdge
  <2>. QED
    BY <1>2
<1>4. /\ t.nodes \in SUBSET V
      /\ \A x \in V : Cardinality({y \in t.nodes : ofNode[y] = ofNode[x]}) = 1
      /\ t.edges \in SUBSET E
      /\ \A x \in E : Cardinality({y \in t.edges : ofEdge[y] = ofEdge[x]}) = 1
  <2> HIDE DEF ofNode, ofEdge
  <2>. QED
    BY <1>3 DEF OneEach
<1>5. ASSUME NEW x \in V
      PROVE  {y \in t.nodes : ofNode[y] = ofNode[x]} = {y \in t.nodes : y[1] = x[1]}
  BY <1>4
<1>6. ASSUME NEW x \in E
      PROVE  {y \in t.edges : ofEdge[y] = ofEdge[x]} = {y \in t.edges : <<y[1], y[2]>> = <<x[1], x[2]>>}
  BY <1>4
<1> HIDE DEF ofNode, ofEdge
<1>. QED
  BY <1>3, <1>4, <1>5, <1>6 DEF V, E

\* What Neo4j answers is an answer.
LEMMA GraphAnswers ==
    ASSUME TypeOK, CopyShape, NEW t \in Traversals
    PROVE  t \in Answer
<1>1. PICK f \in {v \in nodes : v.entity = Focus} :
         /\ t = [nodes |-> t.nodes, edges |-> t.edges, inbound |-> 0, outbound |-> 0]
         /\ t.nodes \in SUBSET Surroundings(f).nodes /\ t.edges \in SUBSET Surroundings(f).edges
  BY TraversalParts
<1> DEFINE all == Surroundings(f)
<1>3. all.nodes \subseteq Entity \X (1 .. MaxSnapshots) /\ all.edges \subseteq Entity \X Entity \X (1 .. MaxSnapshots)
  <2> DEFINE pairs == {<<x.source, x.target>> : x \in edges}
             near == Ball(f, pairs, Depth)
             inner == Ball(f, pairs, Depth - 1)
             walked == {x \in edges : x.source \in inner \/ x.target \in inner}
  <2>1. pairs \in SUBSET (nodes \X nodes)
    BY DEF TypeOK
  <2> HIDE DEF pairs
  <2>2. near \subseteq nodes
    BY <2>1, BallInside, QueryAssumption
  <2>3. \A v \in nodes : v.entity \in Entity /\ v.at \in 1 .. MaxSnapshots
    BY FiniteAssumption DEF TypeOK
  <2>4. \A x \in edges : x.source \in nodes /\ x.target \in nodes /\ x.at \in 1 .. MaxSnapshots
    BY FiniteAssumption DEF TypeOK, CopyShape
  <2>5. all.nodes = {<<v.entity, v.at>> : v \in near}
        /\ all.edges = {<<x.source.entity, x.target.entity, x.at>> : x \in walked}
    BY DEF Surroundings, pairs
  <2> HIDE DEF near, inner, all
  <2>. QED
    BY <2>2, <2>3, <2>4, <2>5
<1>4. t.nodes \subseteq Entity \X (1 .. MaxSnapshots) /\ t.edges \subseteq Entity \X Entity \X (1 .. MaxSnapshots)
  BY <1>1, <1>3
<1> HIDE DEF all
<1>. QED
  BY <1>1, <1>4 DEF Answer

\* The counts of Neo4j are numbers.
LEMMA GraphCounts ==
    ASSUME CopyShape
    PROVE  /\ Cardinality({x \in edges : x.target.entity = Focus}) \in Nat
           /\ Cardinality({x \in edges : x.source.entity = Focus}) \in Nat
<1> DEFINE in == {x \in edges : x.target.entity = Focus}
           out == {x \in edges : x.source.entity = Focus}
<1>1. in \in SUBSET edges /\ out \in SUBSET edges /\ IsFiniteSet(edges)
  BY DEF CopyShape
<1> HIDE DEF in, out
<1>2. Cardinality(in) \in Nat /\ Cardinality(out) \in Nat
  BY <1>1, FS_Subset, FS_CardinalityType
<1>. QED
  BY <1>2 DEF in, out

------------------------------------------------------------------------------
(* Queries.                                                                *)

\* Who asks and who is told leaves the copies alone.
LEMMA BesideCopies ==
    ASSUME IndexInv, UNCHANGED <<world, engine, job, copies, last>>,
           faults' \in 0 .. MaxFaults,
           \A k \in Key : cache'[k] \subseteq Answer /\ Cardinality(cache'[k]) <= 1,
           DOMAIN cache' = Key, \A k \in Key : cache'[k] # {} => k[2] <= Len(world),
           QueryShape', QueriesRight', AnswersOfKey'
    PROVE  IndexInv'
<1>1. UNCHANGED <<world, engine, job, stored, visible, nodes, edges, last>>
  BY DEF copies
<1>2. \A p \in Process : query'[p].found \in Answer /\ query'[p].at \in 0 .. Len(world)
  BY <1>1 DEF QueryShape
<1>3. TypeOK'
  BY <1>1, <1>2 DEF IndexInv, TypeOK
<1>4. CopyShape' /\ Documented' /\ AloneTold'
  BY <1>1 DEF IndexInv, CopyShape, Documented, AloneTold
<1>5. SearchTold'
  BY <1>1 DEF IndexInv, SearchTold
<1>6. \A p, n : NodesOf(p, n)' = NodesOf(p, n) /\ EdgesOf(p, n)' = EdgesOf(p, n)
  BY <1>1 DEF NodesOf, EdgesOf, Node
<1>7. GraphTold'
  BY <1>1, <1>6 DEF IndexInv, GraphTold
<1>. QED
  BY <1>3, <1>4, <1>5, <1>7 DEF IndexInv

\* The calculations of an engine stay what they are.
LEMMA SameEngine ==
    ASSUME UNCHANGED world, NEW n
    PROVE  /\ Documents(n)' = Documents(n)
           /\ \A kind : FromEngine(kind, n)' = FromEngine(kind, n)
  BY DEF Documents, FromEngine, Subgraph, Near

\* A query turns to what comes next.
LEMMA TurningStep ==
    ASSUME IndexInv, NEW p \in Process, query[p].stage # "idle",
           NEW stage \in Asking, NEW found \in Answer, Turning(p, stage, found),
           stage \in {"inbound", "outbound"} => query[p].kind = "graph",
           stage = "store" /\ query[p].kind = "search" => found.nodes \subseteq Documents(query[p].at),
           stage = "store" /\ query[p].kind = "engine" => found = FromEngine("engine", query[p].at),
           UNCHANGED <<world, engine, job, copies, cache, last>>, faults' \in 0 .. MaxFaults
    PROVE  IndexInv'
<1>1. query' = [query EXCEPT ![p] = [query[p] EXCEPT !.stage = stage, !.found = found]]
  BY DEF Turning
<1>2. /\ query'[p].stage = stage /\ query'[p].found = found
      /\ query'[p].kind = query[p].kind /\ query'[p].at = query[p].at
      /\ \A q \in Process \ {p} : query'[q] = query[q]
  BY <1>1 DEF IndexInv, QueryShape
<1>3. QueryShape'
  <2>1. query' \in [Process -> [stage : Asking \cup {"idle"}, kind : Kind \cup {"none"},
                                at : 0 .. Len(world), found : Answer]]
    <3> HIDE DEF Asking
    <3>. QED
      BY <1>1 DEF IndexInv, QueryShape
  <2>. QED
    BY <1>2, <2>1 DEF IndexInv, QueryShape
<1>4. QueriesRight'
  <2> SUFFICES ASSUME NEW q \in Process, NEW n \in Nat, query'[q].stage = "store", query'[q].at = n
               PROVE  /\ query'[q].kind = "search" => query'[q].found.nodes \subseteq Documents(n)'
                      /\ query'[q].kind = "engine" => query'[q].found = FromEngine("engine", n)'
    BY DEF QueriesRight
  <2>1. Documents(n)' = Documents(n) /\ FromEngine("engine", n)' = FromEngine("engine", n)
    BY SameEngine
  <2>2. query[q].at = n /\ query'[q].kind = query[q].kind
    BY <1>2
  <2>3. CASE q = p
    BY <1>2, <2>1, <2>2, <2>3
  <2>4. CASE q # p
    BY <1>2, <2>1, <2>2, <2>4 DEF IndexInv, QueriesRight
  <2>. QED
    BY <2>3, <2>4
<1>5. AnswersOfKey'
  BY SameEngine DEF IndexInv, AnswersOfKey
<1>. QED
  BY <1>3, <1>4, <1>5, BesideCopies DEF IndexInv, TypeOK, CopyShape

\* A query begins.
LEMMA AskStep ==
    ASSUME IndexInv, NEW p \in Process, NEW kind \in Kind, Ask(p, kind)
    PROVE  IndexInv'
<1> DEFINE new == [stage |-> "read", kind |-> kind, at |-> engine[p], found |-> Nothing]
<1>1. engine[p] \in 0 .. Len(world) /\ engine[p] # 0 /\ Nothing \in Answer
  BY DEF Ask, IndexInv, TypeOK, Nothing, Answer
<1>2. query' = [query EXCEPT ![p] = new] /\ UNCHANGED <<world, engine, job, copies, cache, faults, last>>
  BY DEF Ask
<1>3. new \in [stage : Asking \cup {"idle"}, kind : Kind \cup {"none"}, at : 0 .. Len(world), found : Answer]
      /\ new.stage = "read" /\ new.kind \in Kind /\ new.at > 0
  <2>1. engine[p] > 0
    BY <1>1 DEF IndexInv, TypeOK
  <2>. QED
    BY <1>1, <2>1 DEF Asking
<1> HIDE DEF new
<1>4. query'[p] = new /\ \A q \in Process \ {p} : query'[q] = query[q]
  BY <1>2 DEF IndexInv, QueryShape
<1>5. QueryShape'
  <2>1. query' \in [Process -> [stage : Asking \cup {"idle"}, kind : Kind \cup {"none"},
                                at : 0 .. Len(world), found : Answer]]
    BY <1>2, <1>3 DEF IndexInv, QueryShape
  <2>. QED
    BY <1>2, <1>3, <1>4, <2>1 DEF IndexInv, QueryShape
<1>6. QueriesRight' /\ AnswersOfKey'
  <2>1. \A n : Documents(n)' = Documents(n) /\ \A k : FromEngine(k, n)' = FromEngine(k, n)
    BY <1>2, SameEngine
  <2>. QED
    BY <1>2, <1>3, <1>4, <2>1 DEF IndexInv, QueriesRight, AnswersOfKey
<1>. QED
  BY <1>2, <1>5, <1>6, BesideCopies DEF IndexInv, TypeOK, CopyShape

\* A backend, or the engine, answers.
LEMMA ReadStep ==
    ASSUME IndexInv, NEW p \in Process,
           \/ ReadEngine(p) \/ ReadSearch(p) \/ ReadGraph(p)
           \/ CountInbound(p) \/ CountOutbound(p) \/ ReadFails(p)
    PROVE  IndexInv'
<1>1. /\ query[p].stage # "idle" /\ UNCHANGED <<world, engine, job, copies, cache, last>>
  BY DEF ReadEngine, ReadSearch, ReadGraph, CountInbound, CountOutbound, ReadFails
<1>2. faults' \in 0 .. MaxFaults
  BY FiniteAssumption DEF ReadEngine, ReadSearch, ReadGraph, CountInbound, CountOutbound, ReadFails,
     IndexInv, TypeOK
<1>3. PICK n \in 1 .. Len(world) : n = query[p].at
  BY <1>1 DEF IndexInv, QueryShape
<1>4. query[p].found \in Answer /\ "store" \in Asking /\ "inbound" \in Asking /\ "outbound" \in Asking
  BY DEF IndexInv, QueryShape, Asking
<1>5. \A kind : FromEngine(kind, n) \in Answer
  BY EngineAnswers DEF IndexInv
<1>6. CASE ReadEngine(p)
  <2>1. Turning(p, "store", FromEngine("engine", n)) /\ query[p].kind = "engine"
    BY <1>3, <1>6 DEF ReadEngine
  <2>. QED
    BY <1>1, <1>2, <1>3, <1>4, <1>5, <2>1, TurningStep
<1>7. CASE ReadSearch(p)
  <2>1. Turning(p, "store", Searched(n)) /\ query[p].kind = "search"
    BY <1>3, <1>7 DEF ReadSearch
  <2>2. Searched(n) \in Answer /\ Searched(n).nodes \subseteq Documents(n)
    BY SearchAnswers DEF IndexInv
  <2>. QED
    BY <1>1, <1>2, <1>3, <1>4, <2>1, <2>2, TurningStep
<1>8. CASE ReadGraph(p)
  <2>1. query[p].kind = "graph"
    BY <1>8 DEF ReadGraph
  <2>2. ASSUME Turning(p, "store", Subgraph(n)) PROVE IndexInv'
    <3>1. Subgraph(n) \in Answer
      BY <1>5 DEF FromEngine
    <3>. QED
      BY <1>1, <1>2, <1>4, <2>1, <2>2, <3>1, TurningStep
  <2>3. ASSUME NEW t \in Traversals, Turning(p, "inbound", t) PROVE IndexInv'
    <3>1. t \in Answer
      BY GraphAnswers DEF IndexInv
    <3>. QED
      BY <1>1, <1>2, <1>4, <2>1, <2>3, <3>1, TurningStep
  <2>. QED
    BY <1>3, <1>8, <2>2, <2>3 DEF ReadGraph
<1>9. CASE CountInbound(p)
  <2> DEFINE m == Cardinality({x \in edges : x.target.entity = Focus})
             found == [query[p].found EXCEPT !.inbound = m]
  <2>1. Turning(p, "outbound", found) /\ query[p].kind = "graph"
    BY <1>9 DEF CountInbound, IndexInv, QueryShape
  <2>2. m \in Nat
    BY GraphCounts DEF IndexInv
  <2> HIDE DEF m
  <2>3. found \in Answer
    BY <1>4, <2>2 DEF Answer
  <2> HIDE DEF found
  <2>. QED
    BY <1>1, <1>2, <1>4, <2>1, <2>3, TurningStep
<1>10. CASE CountOutbound(p)
  <2> DEFINE m == Cardinality({x \in edges : x.source.entity = Focus})
             found == [query[p].found EXCEPT !.outbound = m]
  <2>1. Turning(p, "store", found) /\ query[p].kind = "graph"
    BY <1>10 DEF CountOutbound, IndexInv, QueryShape
  <2>2. m \in Nat
    BY GraphCounts DEF IndexInv
  <2> HIDE DEF m
  <2>3. found \in Answer
    BY <1>4, <2>2 DEF Answer
  <2> HIDE DEF found
  <2>. QED
    BY <1>1, <1>2, <1>4, <2>1, <2>3, TurningStep
<1>11. CASE ReadFails(p)
  <2>1. PICK kind : kind = query[p].kind
    OBVIOUS
  <2>2. Turning(p, "store", FromEngine(kind, n)) /\ kind # "engine"
    BY <1>3, <1>11, <2>1 DEF ReadFails
  <2>3. kind = "search" => FromEngine(kind, n).nodes = Documents(n)
    BY DEF FromEngine, Nothing
  <2>. QED
    BY <1>1, <1>2, <1>3, <1>4, <1>5, <2>1, <2>2, <2>3, TurningStep
<1>. QED
  BY <1>6, <1>7, <1>8, <1>9, <1>10, <1>11

\* What is cached was right when it was asked for.
LEMMA StoreStep ==
    ASSUME IndexInv, NEW p \in Process, Store(p)
    PROVE  IndexInv'
<1>1. PICK n \in 1 .. Len(world) : n = query[p].at
  BY DEF Store, IndexInv, QueryShape
<1>2. PICK kind \in Kind : kind = query[p].kind
  BY DEF Store, IndexInv, QueryShape
<1>3. PICK found \in Answer : found = query[p].found
  BY DEF IndexInv, QueryShape
<1>4. /\ query[p].stage = "store" /\ n \in Nat
      /\ kind = "search" => found.nodes \subseteq Documents(n)
      /\ kind = "engine" => found = FromEngine("engine", n)
  BY <1>1, <1>2, <1>3 DEF Store, IndexInv, QueriesRight
<1>5. /\ cache' = [cache EXCEPT ![<<kind, n>>] = {found}] /\ query' = [query EXCEPT ![p] = NoQuery]
      /\ UNCHANGED <<world, engine, job, copies, faults, last>>
  BY <1>1, <1>2, <1>3 DEF Store
<1>6. <<kind, n>> \in Key
  BY FiniteAssumption DEF Key, IndexInv, TypeOK
<1>7. Cardinality({found}) = 1
  BY FS_Singleton
<1>8. /\ DOMAIN cache' = Key
      /\ \A k \in Key : cache'[k] = IF k = <<kind, n>> THEN {found} ELSE cache[k]
  BY <1>5, <1>6 DEF IndexInv, CopyShape
<1>9. /\ \A k \in Key : cache'[k] \subseteq Answer /\ Cardinality(cache'[k]) <= 1
      /\ \A k \in Key : cache'[k] # {} => k[2] <= Len(world)
  <2>1. ASSUME NEW k \in Key
        PROVE  /\ cache'[k] \subseteq Answer /\ Cardinality(cache'[k]) <= 1
               /\ cache'[k] # {} => k[2] <= Len(world)
    <3>1. CASE k = <<kind, n>>
      <4>1. cache'[k] = {found} /\ k[2] = n
        BY <1>8, <3>1
      <4>2. Cardinality(cache'[k]) = 1
        BY <1>7, <4>1
      <4>. QED
        BY <4>1, <4>2
    <3>2. CASE cache'[k] = cache[k]
      BY <3>2 DEF IndexInv, CopyShape, TypeOK
    <3>. QED
      BY <1>8, <3>1, <3>2
  <2>. QED
    BY <2>1
<1>10. \A m : Documents(m)' = Documents(m) /\ \A k : FromEngine(k, m)' = FromEngine(k, m)
  BY <1>5, SameEngine
<1>11. AnswersOfKey'
  BY <1>4, <1>8, <1>10 DEF IndexInv, AnswersOfKey
<1>12. /\ NoQuery \in [stage : Asking \cup {"idle"}, kind : Kind \cup {"none"}, at : 0 .. Len(world), found : Answer]
       /\ NoQuery.stage = "idle"
  BY DEF NoQuery, Nothing, Answer
<1>13. query'[p] = NoQuery /\ \A q \in Process \ {p} : query'[q] = query[q]
  BY <1>5 DEF IndexInv, QueryShape
<1>14. QueryShape'
  <2>1. query' \in [Process -> [stage : Asking \cup {"idle"}, kind : Kind \cup {"none"},
                                at : 0 .. Len(world), found : Answer]]
    BY <1>5, <1>12 DEF IndexInv, QueryShape
  <2>. QED
    BY <1>5, <1>12, <1>13, <2>1 DEF IndexInv, QueryShape
<1>15. QueriesRight'
  BY <1>10, <1>12, <1>13 DEF IndexInv, QueriesRight
<1>. QED
  BY <1>5, <1>8, <1>9, <1>11, <1>14, <1>15, BesideCopies DEF IndexInv, TypeOK

\* An entry is forgotten.
LEMMA ExpireStep ==
    ASSUME IndexInv, NEW k \in Key, Expire(k)
    PROVE  IndexInv'
<1>1. /\ UNCHANGED <<world, engine, job, copies, query, faults, last>>
      /\ DOMAIN cache' = Key /\ \A j \in Key : cache'[j] = IF j = k THEN {} ELSE cache[j]
  BY DEF Expire, IndexInv, CopyShape
<1>2. Cardinality({}) = 0
  BY FS_EmptySet
<1>3. /\ \A j \in Key : cache'[j] \subseteq Answer /\ Cardinality(cache'[j]) <= 1
      /\ \A j \in Key : cache'[j] # {} => j[2] <= Len(world)
  <2>1. ASSUME NEW j \in Key
        PROVE  /\ cache'[j] \subseteq Answer /\ Cardinality(cache'[j]) <= 1
               /\ cache'[j] # {} => j[2] <= Len(world)
    <3>1. CASE cache'[j] = {}
      <4>1. Cardinality(cache'[j]) = 0
        BY <1>2, <3>1
      <4>. QED
        BY <3>1, <4>1
    <3>2. CASE cache'[j] = cache[j]
      BY <3>2 DEF IndexInv, CopyShape, TypeOK
    <3>. QED
      BY <1>1, <3>1, <3>2
  <2>. QED
    BY <2>1
<1>4. \A m : Documents(m)' = Documents(m) /\ \A c : FromEngine(c, m)' = FromEngine(c, m)
  BY <1>1, SameEngine
<1>5. QueryShape' /\ QueriesRight' /\ AnswersOfKey'
  BY <1>1, <1>4 DEF IndexInv, QueryShape, QueriesRight, AnswersOfKey
<1>. QED
  BY <1>1, <1>3, <1>5, BesideCopies DEF IndexInv, TypeOK

------------------------------------------------------------------------------
(* Writers.                                                                *)

Jobs(n) == [stage : Stage, at : 1 .. n, alone : BOOLEAN] \cup {NoJob}

\* Snapshots are only added.
Grows ==
    /\ world' \in Seq(World) /\ Len(world') \in 1 .. MaxSnapshots /\ Len(world) <= Len(world')
    /\ \A n \in 1 .. Len(world) : world'[n] = world[n]

\* Whoever writes leaves cached answers alone, and queries unless the process
\* ends.
LEMMA BesideQueries ==
    ASSUME IndexInv, Grows, cache' = cache,
           query' = query \/ \E p \in Process : query' = [query EXCEPT ![p] = NoQuery],
           engine' \in [Process -> 0 .. Len(world')], job' \in [Process -> Jobs(Len(world'))],
           stored' \in [Entity -> 0 .. Len(world')], visible' \in [Entity -> 0 .. Len(world')],
           \A v \in nodes' : v.entity \in Entity /\ v.at \in 1 .. Len(world') /\ v.by \in Process,
           \A x \in edges' : x.source \in nodes' /\ x.target \in nodes' /\ x.by \in Process
                               /\ x.at \in 1 .. Len(world'),
           IsFiniteSet(nodes'), IsFiniteSet(edges'), faults' \in 0 .. MaxFaults,
           last' \in [search : 0 .. Len(world'), graph : 0 .. Len(world')],
           Documented', AloneTold', SearchTold', GraphTold'
    PROVE  IndexInv'
<1> DEFINE QueryType(n) == [stage : Asking \cup {"idle"}, kind : Kind \cup {"none"}, at : 0 .. n, found : Answer]
<1>1. Len(world) \in Nat /\ Len(world') \in Nat /\ Len(world) <= Len(world')
  BY FiniteAssumption DEF IndexInv, TypeOK, Grows
<1>2. \A q \in Process : query'[q] = query[q] \/ query'[q] = NoQuery
  BY DEF IndexInv, QueryShape
<1>3. NoQuery \in QueryType(Len(world)) /\ NoQuery.stage = "idle"
  BY <1>1 DEF NoQuery, Nothing, Answer
<1>4. query' \in [Process -> QueryType(Len(world'))]
  <2>1. query' \in [Process -> QueryType(Len(world))]
    BY <1>3 DEF IndexInv, QueryShape
  <2>2. QueryType(Len(world)) \subseteq QueryType(Len(world'))
    BY <1>1
  <2> HIDE DEF QueryType
  <2>. QED
    BY <2>1, <2>2
<1>5. QueryShape'
  BY <1>2, <1>3, <1>4 DEF IndexInv, QueryShape
<1>6. \A q \in Process : query'[q].found \in Answer /\ query'[q].at \in 0 .. Len(world')
  BY <1>4
<1>7. TypeOK'
  BY <1>6 DEF IndexInv, TypeOK, Grows, Jobs
<1>8. \A k \in Key : cache'[k] # {} => k[2] <= Len(world')
  <2>1. ASSUME NEW k \in Key, cache[k] # {} PROVE k[2] <= Len(world')
    <3>1. k[2] <= Len(world) /\ k[2] \in Nat
      BY <2>1 DEF IndexInv, CopyShape, Key
    <3>. QED
      BY <1>1, <3>1
  <2>. QED
    BY <2>1
<1>9. CopyShape'
  BY <1>8 DEF IndexInv, CopyShape
<1>10. ASSUME NEW n \in 1 .. Len(world)
       PROVE  Documents(n)' = Documents(n) /\ \A k : FromEngine(k, n)' = FromEngine(k, n)
  <2>1. world'[n] = world[n]
    BY DEF Grows
  <2>. QED
    BY <2>1 DEF Documents, FromEngine, Subgraph, Near
<1>11. QueriesRight'
  <2> SUFFICES ASSUME NEW q \in Process, NEW n \in Nat, query'[q].stage = "store", query'[q].at = n
               PROVE  /\ query'[q].kind = "search" => query'[q].found.nodes \subseteq Documents(n)'
                      /\ query'[q].kind = "engine" => query'[q].found = FromEngine("engine", n)'
    BY DEF QueriesRight
  <2>1. query'[q] = query[q]
    BY <1>2, <1>3
  <2>2. n \in 1 .. Len(world)
    BY <2>1 DEF IndexInv, QueryShape
  <2>. QED
    BY <1>10, <2>1, <2>2 DEF IndexInv, QueriesRight
<1>12. AnswersOfKey'
  <2> SUFFICES ASSUME NEW k \in Key, NEW a \in cache[k]
               PROVE  /\ k[1] = "search" => a.nodes \subseteq Documents(k[2])'
                      /\ k[1] = "engine" => a = FromEngine("engine", k[2])'
    BY DEF AnswersOfKey
  <2>1. k[2] \in 1 .. Len(world)
    BY <1>1 DEF IndexInv, CopyShape, Key
  <2>. QED
    BY <1>10, <2>1 DEF IndexInv, AnswersOfKey
<1>. QED
  BY <1>5, <1>7, <1>9, <1>11, <1>12 DEF IndexInv

\* The newest snapshot is turned to.
LEMMA BeginStep ==
    ASSUME IndexInv, NEW p \in Process, NEW n, n \in 1 .. Len(world'), BeginJob(p, n), Grows,
           engine' \in [Process -> 0 .. Len(world')], last' = Unknown,
           UNCHANGED <<copies, cache, query, faults>>
    PROVE  IndexInv'
<1> DEFINE meets == \E q \in Process \ {p} : job[q] # NoJob
<1>1. UNCHANGED <<stored, visible, nodes, edges, cache, query, faults>>
  BY DEF copies
<1>2. Len(world) \in Nat /\ Len(world') \in Nat /\ Len(world) <= Len(world')
  BY FiniteAssumption DEF IndexInv, TypeOK, Grows
<1>3. job' = [q \in Process |->
                IF q = p THEN [stage |-> "bulk", at |-> n, alone |-> ~ meets]
                ELSE IF job[q] = NoJob THEN NoJob ELSE [job[q] EXCEPT !.alone = FALSE]]
  BY DEF BeginJob
<1>4. job' \in [Process -> Jobs(Len(world'))]
  <2>1. ASSUME NEW q \in Process, job[q] # NoJob
        PROVE  [job[q] EXCEPT !.alone = FALSE] \in [stage : Stage, at : 1 .. Len(world'), alone : BOOLEAN]
    <3>1. job[q] \in [stage : Stage, at : 1 .. Len(world), alone : BOOLEAN]
      BY <2>1 DEF IndexInv, TypeOK
    <3>2. 1 .. Len(world) \subseteq 1 .. Len(world')
      BY <1>2
    <3> HIDE DEF Stage
    <3>. QED
      BY <3>1, <3>2
  <2>2. [stage |-> "bulk", at |-> n, alone |-> ~ meets] \in [stage : Stage, at : 1 .. Len(world'), alone : BOOLEAN]
    BY DEF Stage
  <2>3. ASSUME NEW q \in Process PROVE job'[q] \in Jobs(Len(world'))
    BY <1>3, <2>1, <2>2 DEF Jobs
  <2>. QED
    BY <1>3, <2>3
<1>5. job'[p].stage = "bulk" /\ (job'[p].alone => \A q \in Process \ {p} : job[q] = NoJob)
  BY <1>3
<1>6. NoJob.alone = FALSE /\ NoJob.stage = "idle"
  BY DEF NoJob
<1>7. \A q \in Process \ {p} : ~ job'[q].alone /\ (job[q] = NoJob => job'[q] = NoJob)
  <2>1. ASSUME NEW q \in Process \ {p}, job[q] # NoJob PROVE ~ [job[q] EXCEPT !.alone = FALSE].alone
    <3>1. job[q] \in [stage : Stage, at : 1 .. Len(world), alone : BOOLEAN]
      BY <2>1 DEF IndexInv, TypeOK
    <3>. QED
      BY <3>1
  <2>. QED
    BY <1>3, <1>6, <2>1
<1>8. AloneTold'
  BY <1>5, <1>7 DEF AloneTold
<1>9. last'.search = 0 /\ last'.graph = 0 /\ last' \in [search : 0 .. Len(world'), graph : 0 .. Len(world')]
  BY <1>2 DEF Unknown
<1>10. SearchTold' /\ GraphTold'
  BY <1>5, <1>7, <1>9 DEF SearchTold, GraphTold
<1>11. Documented'
  BY <1>1, <1>2 DEF IndexInv, TypeOK, Documented, Grows
<1>12. /\ stored' \in [Entity -> 0 .. Len(world')] /\ visible' \in [Entity -> 0 .. Len(world')]
       /\ faults' \in 0 .. MaxFaults
  <2>1. 0 .. Len(world) \subseteq 0 .. Len(world')
    BY <1>2
  <2>. QED
    BY <1>1, <2>1 DEF IndexInv, TypeOK
<1>13. /\ \A v \in nodes' : v.entity \in Entity /\ v.at \in 1 .. Len(world') /\ v.by \in Process
       /\ \A x \in edges' : x.source \in nodes' /\ x.target \in nodes' /\ x.by \in Process
                               /\ x.at \in 1 .. Len(world')
       /\ IsFiniteSet(nodes') /\ IsFiniteSet(edges')
  <2>1. 1 .. Len(world) \subseteq 1 .. Len(world')
    BY <1>2
  <2>. QED
    BY <1>1, <2>1 DEF IndexInv, TypeOK, CopyShape
<1>. QED
  BY <1>1, <1>4, <1>8, <1>9, <1>10, <1>11, <1>12, <1>13, BesideQueries

\* A scan stores a snapshot; a process that starts finds the newest.
LEMMA ScanStep ==
    ASSUME IndexInv, NEW p \in Process, Scan(p) \/ Start(p)
    PROVE  IndexInv'
<1>1. world \in Seq(World) /\ Len(world) \in Nat /\ Len(world) >= 1 /\ Len(world) <= MaxSnapshots
  BY FiniteAssumption DEF IndexInv, TypeOK
<1>2. CASE Scan(p)
  <2>1. PICK w \in World : world' = Append(world, w)
    BY <1>2 DEF Scan
  <2>2. Len(world') = Len(world) + 1 /\ Grows
    BY <1>1, <1>2, <2>1, FiniteAssumption DEF Scan, Grows
  <2>3. engine' \in [Process -> 0 .. Len(world')]
    <3>1. engine' = [engine EXCEPT ![p] = Len(world) + 1] /\ engine \in [Process -> 0 .. Len(world)]
      BY <1>2 DEF Scan, IndexInv, TypeOK
    <3>2. 0 .. Len(world) \subseteq 0 .. Len(world') /\ Len(world) + 1 \in 0 .. Len(world')
      BY <1>1, <2>2
    <3>. QED
      BY <3>1, <3>2
  <2>4. Len(world) + 1 \in 1 .. Len(world')
    BY <1>1, <2>2
  <2>. QED
    BY <1>2, <2>2, <2>3, <2>4, BeginStep DEF Scan
<1>3. CASE Start(p)
  <2>1. Grows /\ world' = world
    BY <1>1, <1>3 DEF Start, Grows, IndexInv, TypeOK
  <2>2. engine' \in [Process -> 0 .. Len(world')] /\ Len(world) \in 1 .. Len(world')
    BY <1>1, <1>3, <2>1 DEF Start, IndexInv, TypeOK
  <2>. QED
    BY <1>3, <2>1, <2>2, BeginStep DEF Start
<1>. QED
  BY <1>2, <1>3

\* A job goes on.
LEMMA TurnFacts ==
    ASSUME IndexInv, NEW p \in Process, job[p].stage \in Stage, NEW stage \in Stage, Turn(p, stage)
    PROVE  /\ job' \in [Process -> Jobs(Len(world))]
           /\ job'[p].stage = stage /\ job'[p].at = job[p].at /\ job'[p].alone = job[p].alone
           /\ \A q \in Process \ {p} : job'[q] = job[q] /\ ~ job[q].alone
           /\ job[p] # NoJob /\ job[p].at \in 1 .. Len(world)
           /\ last.graph = 0 /\ AloneTold'
<1> DEFINE JobType == [stage : Stage, at : 1 .. Len(world), alone : BOOLEAN]
<1>1. job[p] \in JobType /\ job[p] # NoJob /\ job \in [Process -> Jobs(Len(world))]
  BY DEF NoJob, Stage, IndexInv, TypeOK, Jobs
<1>2. job' = [job EXCEPT ![p] = [job[p] EXCEPT !.stage = stage]]
  BY DEF Turn
<1>3. [job[p] EXCEPT !.stage = stage] \in JobType
  <2> HIDE DEF Stage
  <2>. QED
    BY <1>1
<1>4. job' \in [Process -> Jobs(Len(world))]
  BY <1>1, <1>2, <1>3 DEF Jobs
<1>5. /\ job'[p].stage = stage /\ job'[p].at = job[p].at /\ job'[p].alone = job[p].alone
      /\ \A q \in Process \ {p} : job'[q] = job[q]
  BY <1>1, <1>2
<1>6. \A q \in Process \ {p} : ~ job[q].alone
  BY <1>1 DEF IndexInv, AloneTold
<1>7. AloneTold'
  BY <1>5, <1>6 DEF IndexInv, AloneTold
<1>8. last.graph = 0
  BY <1>1 DEF IndexInv, GraphTold
<1>. QED
  BY <1>1, <1>4, <1>5, <1>6, <1>7, <1>8

\* A job ends.
LEMMA EndFacts ==
    ASSUME IndexInv, NEW p \in Process, EndJob(p)
    PROVE  /\ job' \in [Process -> Jobs(Len(world))]
           /\ job'[p] = NoJob /\ job'[p].stage = "idle" /\ ~ job'[p].alone
           /\ \A q \in Process \ {p} : job'[q] = job[q]
           /\ AloneTold'
<1>1. job \in [Process -> Jobs(Len(world))] /\ job' = [job EXCEPT ![p] = NoJob]
  BY DEF EndJob, IndexInv, TypeOK, Jobs
<1>2. job' \in [Process -> Jobs(Len(world))]
  BY <1>1 DEF Jobs
<1>3. job'[p] = NoJob /\ job'[p].stage = "idle" /\ ~ job'[p].alone /\ \A q \in Process \ {p} : job'[q] = job[q]
  BY <1>1 DEF NoJob
<1>. QED
  BY <1>2, <1>3 DEF IndexInv, AloneTold

\* Most steps change little of what has a type.
LEMMA WriteStep ==
    ASSUME IndexInv, UNCHANGED <<world, engine, cache, query>>,
           job' \in [Process -> Jobs(Len(world))],
           stored' \in [Entity -> 0 .. Len(world)], visible' \in [Entity -> 0 .. Len(world)],
           \A v \in nodes' : v.entity \in Entity /\ v.at \in 1 .. Len(world) /\ v.by \in Process,
           \A x \in edges' : x.source \in nodes' /\ x.target \in nodes' /\ x.by \in Process
                               /\ x.at \in 1 .. Len(world),
           IsFiniteSet(nodes'), IsFiniteSet(edges'), faults' \in 0 .. MaxFaults,
           last' \in [search : 0 .. Len(world), graph : 0 .. Len(world)],
           Documented', AloneTold', SearchTold', GraphTold'
    PROVE  IndexInv'
<1>1. Grows
  BY FiniteAssumption DEF Grows, IndexInv, TypeOK
<1>2. engine' \in [Process -> 0 .. Len(world)]
  BY DEF IndexInv, TypeOK
<1>. QED
  BY <1>1, <1>2, BesideQueries

\* What is of a type, in a state.
LEMMA CopyTypes ==
    ASSUME IndexInv
    PROVE  /\ stored \in [Entity -> 0 .. Len(world)] /\ visible \in [Entity -> 0 .. Len(world)]
           /\ \A v \in nodes : v.entity \in Entity /\ v.at \in 1 .. Len(world) /\ v.by \in Process
           /\ \A x \in edges : x.source \in nodes /\ x.target \in nodes /\ x.by \in Process
                                  /\ x.at \in 1 .. Len(world)
           /\ IsFiniteSet(nodes) /\ IsFiniteSet(edges) /\ faults \in 0 .. MaxFaults
           /\ faults < MaxFaults => faults + 1 \in 0 .. MaxFaults
           /\ last \in [search : 0 .. Len(world), graph : 0 .. Len(world)]
           /\ Len(world) \in Nat /\ Len(world) >= 1
  BY FiniteAssumption DEF IndexInv, TypeOK, CopyShape

\* Documents are written, all or some.
LEMMA BulkStep ==
    ASSUME IndexInv, NEW p \in Process, Bulk(p) \/ BulkFails(p)
    PROVE  IndexInv'
<1>1. job[p].stage = "bulk" /\ job[p].stage \in Stage
  BY DEF Bulk, BulkFails, Stage
<1>2. PICK n : n = job[p].at
  OBVIOUS
<1>3. PICK E \in SUBSET world[n].entities, stage \in {"purge", "wipe"} :
         /\ stored' = Overwritten(E, n) /\ Turn(p, stage)
         /\ stage = "purge" => E = world[n].entities
  BY <1>2 DEF Bulk, BulkFails
<1>4. UNCHANGED <<world, engine, visible, nodes, edges, cache, query, last>> /\ faults' \in 0 .. MaxFaults
  BY CopyTypes DEF Bulk, BulkFails
<1>5. stage \in Stage
  BY DEF Stage
<1>6. /\ job' \in [Process -> Jobs(Len(world))]
      /\ job'[p].stage = stage /\ job'[p].at = n /\ job'[p].alone = job[p].alone
      /\ \A q \in Process \ {p} : job'[q] = job[q] /\ ~ job[q].alone
      /\ n \in 1 .. Len(world)
      /\ last.graph = 0 /\ AloneTold'
  BY <1>1, <1>2, <1>3, <1>5, TurnFacts
<1>7. /\ stored' \in [Entity -> 0 .. Len(world)]
      /\ \A e \in Entity : stored'[e] = IF e \in E THEN n ELSE stored[e]
  BY <1>3, <1>6, CopyTypes DEF Overwritten
<1>8. Documented'
  BY <1>3, <1>4, <1>7 DEF IndexInv, Documented
<1>9. world[n].entities \subseteq Entity
  BY <1>6, WorldType DEF IndexInv
<1>10. last.search = 0
  BY <1>1 DEF IndexInv, SearchTold
<1>11. SearchTold'
  <2>1. ASSUME NEW q \in Process, job'[q].alone, job'[q].stage = "purge"
        PROVE  \A e \in world[job'[q].at].entities : stored'[e] = job'[q].at
    BY <1>3, <1>6, <1>7, <1>9, <2>1
  <2>. QED
    BY <1>4, <1>10, <2>1 DEF SearchTold
<1>12. GraphTold'
  BY <1>4, <1>6 DEF GraphTold
<1>. QED
  BY <1>4, <1>6, <1>7, <1>8, <1>11, <1>12, CopyTypes, WriteStep

\* A document becomes visible.
LEMMA ExposeStep ==
    ASSUME IndexInv, NEW e \in Entity, Expose(e)
    PROVE  IndexInv'
<1>1. /\ UNCHANGED <<world, engine, job, stored, nodes, edges, cache, query, faults, last>>
      /\ visible' \in [Entity -> 0 .. Len(world)]
      /\ \A x \in Entity : visible'[x] = visible[x] \/ visible'[x] = stored[x]
      /\ visible # stored
  BY CopyTypes DEF Expose
<1>2. Documented'
  BY <1>1 DEF IndexInv, Documented
<1>3. SearchTold' /\ AloneTold'
  BY <1>1 DEF IndexInv, SearchTold, AloneTold
<1>4. \A p, n : NodesOf(p, n)' = NodesOf(p, n) /\ EdgesOf(p, n)' = EdgesOf(p, n)
  BY <1>1 DEF NodesOf, EdgesOf
<1>5. GraphTold'
  BY <1>1, <1>4 DEF IndexInv, GraphTold
<1>6. job' \in [Process -> Jobs(Len(world))]
  BY <1>1 DEF IndexInv, TypeOK, Jobs
<1>. QED
  BY <1>1, <1>2, <1>3, <1>5, <1>6, CopyTypes, WriteStep

\* Documents of other snapshots go.
LEMMA PurgeStep ==
    ASSUME IndexInv, NEW p \in Process, Purge(p)
    PROVE  IndexInv'
<1>1. job[p].stage = "purge" /\ job[p].stage \in Stage /\ "wipe" \in Stage
  BY DEF Purge, Stage
<1>2. PICK n : n = job[p].at
  OBVIOUS
<1>3. /\ stored' = PurgedBy(n) /\ visible' = stored' /\ Turn(p, "wipe")
      /\ last' = IF job[p].alone THEN [last EXCEPT !.search = n] ELSE last
      /\ UNCHANGED <<world, engine, nodes, edges, cache, query, faults>>
  BY <1>2 DEF Purge
<1>4. /\ job' \in [Process -> Jobs(Len(world))]
      /\ job'[p].stage = "wipe" /\ job'[p].at = n /\ job'[p].alone = job[p].alone
      /\ \A q \in Process \ {p} : job'[q] = job[q] /\ ~ job[q].alone
      /\ n \in 1 .. Len(world)
      /\ last.graph = 0 /\ AloneTold'
  BY <1>1, <1>2, <1>3, TurnFacts
<1>5. /\ stored' \in [Entity -> 0 .. Len(world)] /\ visible' \in [Entity -> 0 .. Len(world)]
      /\ \A e \in Entity : stored'[e] = IF visible[e] \notin {0, n} /\ stored[e] = visible[e] THEN 0 ELSE stored[e]
  BY <1>3, CopyTypes DEF PurgedBy
<1>6. /\ last' \in [search : 0 .. Len(world), graph : 0 .. Len(world)] /\ last'.graph = last.graph
      /\ last'.search = IF job[p].alone THEN n ELSE last.search
  BY <1>3, <1>4, CopyTypes
<1>7. Documented'
  BY <1>3, <1>5 DEF IndexInv, Documented
<1>8. SearchTold'
  <2>1. \A q \in Process : ~ (job'[q].alone /\ job'[q].stage = "purge")
    BY <1>4
  <2>2. last.search = 0
    BY <1>1 DEF IndexInv, SearchTold
  <2>3. ASSUME job[p].alone
        PROVE  /\ \A q \in Process : job'[q].stage \notin {"bulk", "purge"}
               /\ \A e \in world[n].entities : stored'[e] = n
    <3>1. \A q \in Process \ {p} : job[q] = NoJob
      BY <2>3 DEF IndexInv, AloneTold
    <3>2. \A e \in world[n].entities : e \in Entity /\ stored[e] = n
      BY <1>1, <1>2, <1>4, <2>3, WorldType DEF IndexInv, SearchTold
    <3>3. NoJob.stage = "idle"
      BY DEF NoJob
    <3>4. \A e \in world[n].entities : stored'[e] = n
      BY <1>4, <1>5, <3>2
    <3>. QED
      BY <1>4, <3>1, <3>3, <3>4
  <2>. QED
    BY <1>3, <1>6, <2>1, <2>2, <2>3 DEF SearchTold
<1>9. GraphTold'
  BY <1>4, <1>6 DEF GraphTold
<1>. QED
  BY <1>3, <1>4, <1>5, <1>6, <1>7, <1>8, <1>9, CopyTypes, WriteStep

\* Nothing of OpenSearch changes while a writer is at Neo4j.
LEMMA SearchStays ==
    ASSUME IndexInv, NEW p \in Process, UNCHANGED <<world, stored, visible>>, last'.search = last.search,
           job'[p].stage \notin {"bulk", "purge"}, \A q \in Process \ {p} : job'[q] = job[q]
    PROVE  Documented' /\ SearchTold'
  BY DEF IndexInv, Documented, SearchTold

\* The graph of before goes.
LEMMA WipeStep ==
    ASSUME IndexInv, NEW p \in Process, Wipe(p)
    PROVE  IndexInv'
<1>1. /\ job[p].stage \in Stage /\ "nodes" \in Stage
      /\ nodes' = {} /\ edges' = {} /\ Turn(p, "nodes")
      /\ UNCHANGED <<world, engine, stored, visible, cache, query, faults, last>>
  BY DEF Wipe, Stage
<1>2. /\ job' \in [Process -> Jobs(Len(world))]
      /\ job'[p].stage = "nodes"
      /\ \A q \in Process \ {p} : job'[q] = job[q] /\ ~ job[q].alone
      /\ last.graph = 0 /\ AloneTold'
  BY <1>1, TurnFacts
<1>3. Documented' /\ SearchTold'
  BY <1>1, <1>2, SearchStays
<1>4. GraphTold'
  BY <1>1, <1>2 DEF GraphTold
<1>. QED
  BY <1>1, <1>2, <1>3, <1>4, CopyTypes, FS_EmptySet, WriteStep

\* The nodes of a snapshot.
LEMMA NodesFinite ==
    ASSUME IndexInv, NEW p \in Process, NEW n \in 1 .. Len(world)
    PROVE  /\ IsFiniteSet(NodesOf(p, n))
           /\ \A v \in NodesOf(p, n) : v.entity \in world[n].entities /\ v.at = n /\ v.by = p
<1> DEFINE E == world[n].entities
           f == [e \in E |-> Node(p, n, e)]
<1>1. f \in Surjection(E, NodesOf(p, n))
  BY DEF Surjection, NodesOf
<1>2. IsFiniteSet(E)
  BY WorldType DEF IndexInv
<1> HIDE DEF f
<1>. QED
  BY <1>1, <1>2, FS_Surjection DEF NodesOf, Node

\* The nodes are created.
LEMMA NodesStep ==
    ASSUME IndexInv, NEW p \in Process, Nodes(p)
    PROVE  IndexInv'
<1>1. PICK n : n = job[p].at
  OBVIOUS
<1>2. /\ job[p].stage \in Stage /\ job[p].stage = "nodes" /\ "edges" \in Stage
      /\ nodes' = nodes \cup NodesOf(p, n) /\ Turn(p, "edges")
      /\ UNCHANGED <<world, engine, stored, visible, edges, cache, query, faults, last>>
  BY <1>1 DEF Nodes, Stage, NodesOf, Node
<1>3. /\ job' \in [Process -> Jobs(Len(world))]
      /\ job'[p].stage = "edges" /\ job'[p].at = n /\ job'[p].alone = job[p].alone
      /\ \A q \in Process \ {p} : job'[q] = job[q] /\ ~ job[q].alone
      /\ n \in 1 .. Len(world)
      /\ last.graph = 0 /\ AloneTold'
  BY <1>1, <1>2, TurnFacts
<1>4. Documented' /\ SearchTold'
  BY <1>2, <1>3, SearchStays
<1>5. /\ IsFiniteSet(NodesOf(p, n)) /\ world[n].entities \subseteq Entity
      /\ \A v \in NodesOf(p, n) : v.entity \in world[n].entities /\ v.at = n /\ v.by = p
  BY <1>3, NodesFinite, WorldType DEF IndexInv
<1>6. IsFiniteSet(nodes')
  BY <1>2, <1>5, CopyTypes, FS_Union
<1>7. NodesOf(p, n)' = NodesOf(p, n)
  BY <1>2 DEF NodesOf
<1>8. GraphTold'
  <2>1. job[p].alone => nodes = {} /\ edges = {}
    BY <1>2 DEF IndexInv, GraphTold
  <2>2. job'[p].alone => nodes' = NodesOf(p, n)' /\ edges' = {}
    BY <1>2, <1>3, <1>7, <2>1
  <2>3. NodesOf(p, job[p].at)' = NodesOf(p, n)'
    BY <1>3 DEF NodesOf
  <2>. QED
    BY <1>2, <1>3, <2>2, <2>3 DEF GraphTold
<1>9. /\ \A v \in nodes' : v.entity \in Entity /\ v.at \in 1 .. Len(world) /\ v.by \in Process
      /\ \A x \in edges' : x.source \in nodes' /\ x.target \in nodes' /\ x.by \in Process
                              /\ x.at \in 1 .. Len(world)
  BY <1>2, <1>3, <1>5, CopyTypes
<1>. QED
  BY <1>2, <1>3, <1>4, <1>6, <1>8, <1>9, CopyTypes, WriteStep

\* The relationships that are joined.
LEMMA JoiningType ==
    ASSUME IndexInv, NEW p \in Process, NEW n \in 1 .. Len(world)
    PROVE  /\ IsFiniteSet(Joining(p, n))
           /\ \A x \in Joining(p, n) : x.source \in nodes /\ x.target \in nodes /\ x.by = p /\ x.at = n
<1> DEFINE S == nodes \X nodes
           T == {[source |-> s[1], target |-> s[2], at |-> n, by |-> p] : s \in S}
           f == [s \in S |-> [source |-> s[1], target |-> s[2], at |-> n, by |-> p]]
<1>1. f \in Surjection(S, T)
  BY DEF Surjection
<1>2. IsFiniteSet(S)
  BY CopyTypes, FS_Product
<1>3. IsFiniteSet(T)
  <2> HIDE DEF f, S, T
  <2>. QED
    BY <1>1, <1>2, FS_Surjection
<1>4. ASSUME NEW x \in Joining(p, n)
      PROVE  x \in T /\ x.source \in nodes /\ x.target \in nodes /\ x.by = p /\ x.at = n
  <2>1. PICK r \in world[n].relationships :
           \E v \in {y \in nodes : y.entity = r[1]}, u \in {y \in nodes : y.entity = r[2]} :
              x = [source |-> v, target |-> u, at |-> n, by |-> p]
    BY DEF Joining
  <2>2. PICK v \in nodes, u \in nodes : x = [source |-> v, target |-> u, at |-> n, by |-> p]
    BY <2>1
  <2>3. x \in T
    <3>1. <<v, u>> \in S /\ <<v, u>>[1] = v /\ <<v, u>>[2] = u
      OBVIOUS
    <3>. QED
      BY <2>2, <3>1
  <2>. QED
    BY <2>2, <2>3
<1>5. Joining(p, n) \subseteq T
  BY <1>4
<1> HIDE DEF T
<1>6. IsFiniteSet(Joining(p, n))
  BY <1>3, <1>5, FS_Subset
<1>. QED
  BY <1>4, <1>6

\* With the nodes of one writer alone, each relationship is joined once.
LEMMA JoinedOnce ==
    ASSUME IndexInv, NEW p \in Process, NEW n \in 1 .. Len(world), nodes = NodesOf(p, n)
    PROVE  Joining(p, n) = EdgesOf(p, n)
<1>1. \A r \in world[n].relationships : r[1] \in world[n].entities /\ r[2] \in world[n].entities
  BY WorldType DEF IndexInv
<1>2. ASSUME NEW e \in world[n].entities
      PROVE  {x \in nodes : x.entity = e} = {Node(p, n, e)}
  BY DEF NodesOf, Node
<1>3. ASSUME NEW r \in world[n].relationships
      PROVE  {[source |-> v, target |-> u, at |-> n, by |-> p] :
                 v \in {x \in nodes : x.entity = r[1]}, u \in {x \in nodes : x.entity = r[2]}}
             = {[source |-> Node(p, n, r[1]), target |-> Node(p, n, r[2]), at |-> n, by |-> p]}
  BY <1>1, <1>2
<1>. QED
  BY <1>3 DEF Joining, EdgesOf

\* The relationships are joined, and the copy is complete.
LEMMA EdgesStep ==
    ASSUME IndexInv, NEW p \in Process, Edges(p)
    PROVE  IndexInv'
<1>1. PICK n : n = job[p].at
  OBVIOUS
<1>2. /\ job[p].stage = "edges"
      /\ edges' = edges \cup Joining(p, n) /\ EndJob(p)
      /\ last' = IF job[p].alone THEN [last EXCEPT !.graph = n] ELSE last
      /\ UNCHANGED <<world, engine, stored, visible, nodes, cache, query, faults>>
  BY <1>1 DEF Edges
<1>3. /\ job' \in [Process -> Jobs(Len(world))]
      /\ job'[p] = NoJob /\ job'[p].stage = "idle" /\ ~ job'[p].alone
      /\ \A q \in Process \ {p} : job'[q] = job[q]
      /\ AloneTold'
  BY <1>2, EndFacts
<1>4. job[p] # NoJob /\ n \in 1 .. Len(world)
  BY <1>1, <1>2 DEF IndexInv, TypeOK, NoJob
<1>5. \A q \in Process \ {p} : ~ job[q].alone
  BY <1>4 DEF IndexInv, AloneTold
<1>6. last.graph = 0
  BY <1>4 DEF IndexInv, GraphTold
<1>7. /\ last' \in [search : 0 .. Len(world), graph : 0 .. Len(world)] /\ last'.search = last.search
      /\ last'.graph = IF job[p].alone THEN n ELSE 0
  <2>1. last \in [search : 0 .. Len(world), graph : 0 .. Len(world)] /\ n \in 0 .. Len(world)
    BY <1>4, CopyTypes
  <2>2. CASE job[p].alone
    BY <1>2, <2>1, <2>2
  <2>3. CASE ~ job[p].alone
    BY <1>2, <1>6, <2>1, <2>3
  <2>. QED
    BY <2>2, <2>3
<1>8. Documented' /\ SearchTold'
  BY <1>2, <1>3, <1>7, SearchStays
<1>9. /\ IsFiniteSet(Joining(p, n))
      /\ \A x \in Joining(p, n) : x.source \in nodes /\ x.target \in nodes /\ x.by = p /\ x.at = n
  BY <1>4, JoiningType
<1>10. IsFiniteSet(edges')
  BY <1>2, <1>9, CopyTypes, FS_Union
<1>11. /\ \A v \in nodes' : v.entity \in Entity /\ v.at \in 1 .. Len(world) /\ v.by \in Process
       /\ \A x \in edges' : x.source \in nodes' /\ x.target \in nodes' /\ x.by \in Process
                               /\ x.at \in 1 .. Len(world)
  BY <1>2, <1>4, <1>9, CopyTypes
<1>12. NodesOf(p, n)' = NodesOf(p, n) /\ EdgesOf(p, n)' = EdgesOf(p, n)
  BY <1>2 DEF NodesOf, EdgesOf
<1>13. ASSUME job[p].alone
       PROVE  /\ \A q \in Process : job'[q] = NoJob
              /\ nodes' = NodesOf(p, n)' /\ edges' = EdgesOf(p, n)'
  <2>1. \A q \in Process \ {p} : job[q] = NoJob
    BY <1>13 DEF IndexInv, AloneTold
  <2>2. nodes = NodesOf(p, n) /\ edges = {}
    BY <1>1, <1>2, <1>13 DEF IndexInv, GraphTold
  <2>3. Joining(p, n) = EdgesOf(p, n)
    BY <1>4, <2>2, JoinedOnce
  <2>. QED
    BY <1>2, <1>3, <1>12, <2>1, <2>2, <2>3
<1>14. GraphTold'
  <2>1. \A q \in Process : ~ job'[q].alone
    BY <1>3, <1>5
  <2>2. ASSUME last'.graph # 0
        PROVE  /\ \A q \in Process : job'[q] = NoJob
               /\ nodes' = NodesOf(p, last.graph)' /\ edges' = EdgesOf(p, last.graph)'
    <3>1. job[p].alone /\ last'.graph = n
      BY <1>7, <2>2
    <3>2. NodesOf(p, last.graph)' = NodesOf(p, n)' /\ EdgesOf(p, last.graph)' = EdgesOf(p, n)'
      BY <3>1 DEF NodesOf, EdgesOf
    <3>. QED
      BY <1>13, <3>1, <3>2
  <2>. QED
    BY <2>1, <2>2 DEF GraphTold
<1>. QED
  BY <1>2, <1>3, <1>7, <1>8, <1>10, <1>11, <1>14, CopyTypes, WriteStep

\* A request to a backend fails, and the copy stays as it is.
LEMMA RequestFailsStep ==
    ASSUME IndexInv, NEW p \in Process, RequestFails(p)
    PROVE  IndexInv'
<1>1. /\ job[p].stage \in Stage /\ "wipe" \in Stage
      /\ Turn(p, "wipe") \/ EndJob(p)
      /\ faults' \in 0 .. MaxFaults
      /\ UNCHANGED <<world, engine, stored, visible, nodes, edges, cache, query, last>>
  BY CopyTypes DEF RequestFails, Stage, copies
<1>2. /\ job' \in [Process -> Jobs(Len(world))]
      /\ job'[p].stage \in {"wipe", "idle"}
      /\ \A q \in Process \ {p} : job'[q] = job[q]
      /\ AloneTold'
  BY <1>1, TurnFacts, EndFacts
<1>3. job[p] # NoJob
  BY <1>1 DEF NoJob, Stage
<1>4. last.graph = 0
  BY <1>3 DEF IndexInv, GraphTold
<1>5. Documented' /\ SearchTold'
  BY <1>1, <1>2, SearchStays
<1>6. \A q \in Process \ {p} : ~ job[q].alone
  BY <1>3 DEF IndexInv, AloneTold
<1>7. GraphTold'
  BY <1>1, <1>2, <1>4, <1>6 DEF GraphTold
<1>. QED
  BY <1>1, <1>2, <1>5, <1>7, CopyTypes, WriteStep

\* A process ends, in the middle of whatever it does.
LEMMA CrashStep ==
    ASSUME IndexInv, NEW p \in Process, Crash(p)
    PROVE  IndexInv'
<1>1. /\ EndJob(p) /\ faults' \in 0 .. MaxFaults
      /\ engine' = [engine EXCEPT ![p] = 0] /\ query' = [query EXCEPT ![p] = NoQuery]
      /\ UNCHANGED <<world, stored, visible, nodes, edges, cache, last>>
  BY CopyTypes DEF Crash, copies
<1>2. /\ job' \in [Process -> Jobs(Len(world))]
      /\ job'[p] = NoJob /\ job'[p].stage = "idle" /\ ~ job'[p].alone
      /\ \A q \in Process \ {p} : job'[q] = job[q]
      /\ AloneTold'
  BY <1>1, EndFacts
<1>3. Documented' /\ SearchTold'
  BY <1>1, <1>2, SearchStays
<1>4. \A q, n : NodesOf(q, n)' = NodesOf(q, n) /\ EdgesOf(q, n)' = EdgesOf(q, n)
  BY <1>1 DEF NodesOf, EdgesOf
<1>5. GraphTold'
  BY <1>1, <1>2, <1>4 DEF IndexInv, GraphTold
<1>6. Grows
  BY <1>1, FiniteAssumption DEF Grows, IndexInv, TypeOK
<1>7. engine' \in [Process -> 0 .. Len(world)]
  BY <1>1, CopyTypes DEF IndexInv, TypeOK
<1>. QED
  BY <1>1, <1>2, <1>3, <1>5, <1>6, <1>7, CopyTypes, BesideQueries

\* Every step keeps it.
LEMMA IndexInvStep == IndexInv /\ [Next]_vars => IndexInv'
<1> SUFFICES ASSUME IndexInv, [Next]_vars PROVE IndexInv'
  OBVIOUS
<1>1. ASSUME NEW p \in Process, Scan(p) \/ Start(p) PROVE IndexInv'
  BY <1>1, ScanStep
<1>2. ASSUME NEW p \in Process, Bulk(p) \/ BulkFails(p) PROVE IndexInv'
  BY <1>2, BulkStep
<1>3. ASSUME NEW p \in Process, Purge(p) \/ Wipe(p) \/ Nodes(p) \/ Edges(p) PROVE IndexInv'
  BY <1>3, PurgeStep, WipeStep, NodesStep, EdgesStep
<1>4. ASSUME NEW p \in Process, RequestFails(p) \/ Crash(p) PROVE IndexInv'
  BY <1>4, RequestFailsStep, CrashStep
<1>5. ASSUME NEW p \in Process,
             \/ ReadEngine(p) \/ ReadSearch(p) \/ ReadGraph(p)
             \/ CountInbound(p) \/ CountOutbound(p) \/ ReadFails(p)
      PROVE  IndexInv'
  BY <1>5, ReadStep
<1>6. ASSUME NEW p \in Process, Store(p) \/ \E kind \in Kind : Ask(p, kind) PROVE IndexInv'
  BY <1>6, StoreStep, AskStep
<1>7. ASSUME NEW e \in Entity, Expose(e) PROVE IndexInv'
  BY <1>7, ExposeStep
<1>8. ASSUME NEW k \in Key, Expire(k) PROVE IndexInv'
  BY <1>8, ExpireStep
<1>9. CASE UNCHANGED vars
  <2>1. /\ UNCHANGED <<world, engine, job, copies, cache, query, faults, last>>
        /\ UNCHANGED <<stored, visible, nodes, edges>>
    BY <1>9 DEF vars, copies
  <2>2. \A n : Documents(n)' = Documents(n) /\ \A k : FromEngine(k, n)' = FromEngine(k, n)
    BY <2>1, SameEngine
  <2>3. QueryShape' /\ QueriesRight' /\ AnswersOfKey'
    BY <2>1, <2>2 DEF IndexInv, QueryShape, QueriesRight, AnswersOfKey
  <2>. QED
    BY <2>1, <2>3, BesideCopies DEF IndexInv, TypeOK, CopyShape
<1>. QED
  BY <1>1, <1>2, <1>3, <1>4, <1>5, <1>6, <1>7, <1>8, <1>9 DEF Next, Work

\* It holds before anything is written.
LEMMA InitIndexInv == Init => IndexInv
<1> SUFFICES ASSUME Init PROVE IndexInv
  OBVIOUS
<1>1. PICK w \in World : world = <<w>>
  BY DEF Init
<1>2. world \in Seq(World) /\ Len(world) = 1 /\ 1 \in 1 .. MaxSnapshots
  BY <1>1, FiniteAssumption
<1>3. Nothing \in Answer /\ Cardinality({}) = 0 /\ IsFiniteSet({})
  BY FS_EmptySet DEF Nothing, Answer
<1>4. /\ engine = [p \in Process |-> 0] /\ job = [p \in Process |-> NoJob]
      /\ stored = [e \in Entity |-> 0] /\ visible = [e \in Entity |-> 0]
      /\ nodes = {} /\ edges = {} /\ cache = [k \in Key |-> {}]
      /\ query = [p \in Process |-> NoQuery] /\ faults = 0
      /\ last = [search |-> 0, graph |-> 0]
  BY DEF Init, Unknown
<1>5. \A k \in Key : cache[k] = {} /\ Cardinality(cache[k]) <= 1
  BY <1>3, <1>4
<1>6. \A p \in Process : query[p].found \in Answer /\ query[p].at \in 0 .. Len(world)
  BY <1>2, <1>3, <1>4 DEF NoQuery
<1>7. TypeOK
  BY <1>2, <1>4, <1>5, <1>6, FiniteAssumption DEF TypeOK
<1>8. CopyShape
  BY <1>3, <1>4, <1>5 DEF CopyShape
<1>9. QueryShape /\ QueriesRight
  BY <1>2, <1>3, <1>4 DEF QueryShape, QueriesRight, NoQuery
<1>10. Documented /\ AnswersOfKey /\ AloneTold
  BY <1>4, <1>5 DEF Documented, AnswersOfKey, AloneTold, NoJob
<1>11. SearchTold /\ GraphTold
  BY <1>4 DEF SearchTold, GraphTold, NoJob
<1>. QED
  BY <1>7, <1>8, <1>9, <1>10, <1>11 DEF IndexInv

------------------------------------------------------------------------------
(* The theorems.                                                           *)

\* The invariant holds.
LEMMA IndexAlways == Spec => []IndexInv
<1>. QED
  BY InitIndexInv, IndexInvStep, PTL DEF Spec

\* A cached search or calculation speaks of the snapshot in its key and of no
\* other, although scans replace engines and documents while it is under way.
THEOREM CacheIsOfItsKey == Spec => []AnswersOfKey
<1>1. IndexInv => AnswersOfKey
  BY DEF IndexInv
<1>. QED
  BY <1>1, IndexAlways, PTL

\* What a search finds once a writer alone is through.
LEMMA SearchCopied == IndexInv => SearchFollowsIndexing
<1> SUFFICES ASSUME IndexInv, last.search # 0
             PROVE  Searched(last.search).nodes = Documents(last.search)
  BY DEF SearchFollowsIndexing
<1>1. PICK n \in 1 .. Len(world) : n = last.search
  BY DEF IndexInv, TypeOK
<1>2. n # 0 /\ world[n].entities \subseteq Entity
  BY WorldType DEF IndexInv
<1>3. \A e \in Entity : visible[e] = n <=> e \in world[n].entities
  BY <1>1, <1>2 DEF IndexInv, SearchTold, Documented
<1>4. Hits(n) = Documents(n)
  BY <1>2, <1>3 DEF Hits, Documents
<1>5. Searched(n).nodes = Documents(n)
  BY <1>4 DEF Searched, FromEngine, Nothing
<1>. QED
  BY <1>1, <1>5

\* A set of one element has an element.
LEMMA NoneOfNothing == ASSUME NEW S, Cardinality(S) = 1 PROVE S # {}
<1>1. Cardinality({}) = 0
  BY FS_EmptySet
<1>2. CASE S = {}
  <2>1. Cardinality(S) = 0
    BY <1>1, <1>2
  <2>. QED
    BY <2>1
<1>. QED
  BY <1>2

\* What a traversal finds once a writer alone is through: each value has its key
\* for itself, so all of them are kept, and the copy has the neighbourhoods of
\* the snapshot.
LEMMA GraphCopied == IndexInv => GraphFollowsIndexing
<1> SUFFICES ASSUME IndexInv, last.graph # 0
             PROVE  /\ \A t \in Traversals :
                          t.nodes = Subgraph(last.graph).nodes /\ t.edges = Subgraph(last.graph).edges
                    /\ Cardinality(edges) = Cardinality(world[last.graph].relationships)
                    /\ {v.entity : v \in nodes} = world[last.graph].entities
  BY DEF GraphFollowsIndexing
<1>1. PICK n \in 1 .. Len(world) : n = last.graph
  BY DEF IndexInv, TypeOK
<1>2. PICK p \in Process : nodes = NodesOf(p, n) /\ edges = EdgesOf(p, n)
  BY <1>1 DEF IndexInv, GraphTold
<1> DEFINE E == world[n].entities
           R == world[n].relationships
           g == [e \in E |-> Node(p, n, e)]
           h == [r \in R |-> [source |-> g[r[1]], target |-> g[r[2]], at |-> n, by |-> p]]
<1>3. R \in SUBSET (E \X E) /\ IsFiniteSet(R) /\ IsFiniteSet(E)
  BY WorldType DEF IndexInv
<1>4. /\ \A e \in E : g[e].entity = e /\ g[e].at = n
      /\ \A a, b \in E : g[a] = g[b] => a = b
  BY DEF Node
<1>5. \A r \in R : r = <<r[1], r[2]>> /\ r[1] \in E /\ r[2] \in E
  BY <1>3
<1>6. edges = {h[r] : r \in R} /\ nodes = {g[e] : e \in E}
  BY <1>2, <1>5 DEF EdgesOf, NodesOf
<1>7. \A r \in R : h[r].source = g[r[1]] /\ h[r].target = g[r[2]] /\ h[r].at = n
  OBVIOUS
<1>8. DOMAIN g = E /\ DOMAIN h = R
  OBVIOUS
<1> HIDE DEF g, h, E, R
<1>9. Cardinality(edges) = Cardinality(R)
  <2>1. \A q, r \in R : h[q] = h[r] => q = r
    BY <1>4, <1>5, <1>7
  <2>2. h \in Bijection(R, edges)
    BY <1>6, <2>1 DEF Bijection, Injection, Surjection, IsInjective, h
  <2>. QED
    BY <1>3, <2>2, FS_Bijection DEF ExistsBijection
<1>10. {v.entity : v \in nodes} = E
  BY <1>4, <1>6
<1>11. ASSUME NEW t \in Traversals
       PROVE  t.nodes = Subgraph(n).nodes /\ t.edges = Subgraph(n).edges
  <2>1. PICK f \in {v \in nodes : v.entity = Focus} :
           /\ t.nodes \in SUBSET Surroundings(f).nodes /\ t.edges \in SUBSET Surroundings(f).edges
           /\ \A x \in Surroundings(f).nodes : Cardinality({y \in t.nodes : y[1] = x[1]}) = 1
           /\ \A x \in Surroundings(f).edges :
                 Cardinality({y \in t.edges : <<y[1], y[2]>> = <<x[1], x[2]>>}) = 1
    BY TraversalParts
  <2>2. f = g[Focus] /\ Focus \in E
    BY <1>4, <1>6
  <2> DEFINE pairs == {<<x.source, x.target>> : x \in edges}
             near == Near(R, Depth)
             inner == Near(R, Depth - 1)
             walked == {r \in R : r[1] \in inner \/ r[2] \in inner}
             V == {<<e, n>> : e \in near}
             W == {<<r[1], r[2], n>> : r \in walked}
  <2>3. pairs = Renamed(g, R)
    BY <1>6, <1>7 DEF Renamed
  <2>4. Depth \in 0 .. 4 /\ Depth - 1 \in 0 .. 4
    BY QueryAssumption
  <2> HIDE DEF pairs, near, inner
  <2>5. ASSUME NEW d \in 0 .. 4
        PROVE  Ball(f, pairs, d) = {g[e] : e \in Ball(Focus, R, d)} /\ Ball(Focus, R, d) \subseteq E
    <3>1. Ball(g[Focus], Renamed(g, R), d) = {g[e] : e \in Ball(Focus, R, d)}
      <4>1. Separates(g, E) /\ Focus \in E /\ R \in SUBSET (E \X E)
        BY <1>3, <1>4, <1>8, <2>2 DEF Separates
      <4>2. Ball(g[Focus], Renamed(g, R), d) = CopyOf(g, Ball(Focus, R, d))
        BY <4>1, BallRenamed
      <4>. QED
        BY <4>2 DEF CopyOf
    <3>2. Ball(Focus, R, d) \subseteq E
      BY <1>3, <2>2, BallInside
    <3>. QED
      BY <2>2, <2>3, <3>1, <3>2
  <2>5a. near = Ball(Focus, R, Depth) /\ inner = Ball(Focus, R, Depth - 1)
    BY DEF Near, near, inner
  <2>5b. /\ Ball(f, pairs, Depth) = {g[e] : e \in near} /\ near \subseteq E
         /\ Ball(f, pairs, Depth - 1) = {g[e] : e \in inner} /\ inner \subseteq E
    BY <2>4, <2>5, <2>5a
  <2>6. Surroundings(f).nodes = {<<v.entity, v.at>> : v \in Ball(f, pairs, Depth)}
    BY DEF Surroundings, pairs
  <2>7. Surroundings(f).nodes = V
    BY <1>4, <2>5b, <2>6
  <2> DEFINE inside == Ball(f, pairs, Depth - 1)
             taken == {x \in edges : x.source \in inside \/ x.target \in inside}
  <2>8. Surroundings(f).edges = {<<x.source.entity, x.target.entity, x.at>> : x \in taken}
    BY DEF Surroundings, pairs
  <2> HIDE DEF inside
  <2>9. taken = {h[r] : r \in walked}
    <3>1. inside = {g[e] : e \in inner} /\ inner \subseteq E
      BY <2>5b DEF inside
    <3>2. \A e \in E : g[e] \in inside <=> e \in inner
      BY <1>4, <3>1
    <3>3. \A r \in R : h[r] \in taken <=> r \in walked
      BY <1>5, <1>6, <1>7, <3>2
    <3>. QED
      BY <1>6, <3>3
  <2>10. Surroundings(f).edges = W
    <3>1. \A r \in walked : <<h[r].source.entity, h[r].target.entity, h[r].at>> = <<r[1], r[2], n>>
      BY <1>4, <1>5, <1>7
    <3> HIDE DEF taken, walked
    <3>. QED
      BY <2>8, <2>9, <3>1
  <2>11. Subgraph(n).nodes = V /\ Subgraph(n).edges = W
    BY DEF Subgraph, near, inner, R
  <2>12. ASSUME NEW x \in V PROVE x \in t.nodes
    <3>1. Cardinality({y \in t.nodes : y[1] = x[1]}) = 1
      BY <2>1, <2>7
    <3>2. PICK S : S = {y \in t.nodes : y[1] = x[1]}
      OBVIOUS
    <3>3. S # {}
      BY <3>1, <3>2, NoneOfNothing
    <3>. QED
      BY <2>1, <2>7, <3>2, <3>3
  <2>13. ASSUME NEW x \in W PROVE x \in t.edges
    <3>1. Cardinality({y \in t.edges : <<y[1], y[2]>> = <<x[1], x[2]>>}) = 1
      BY <2>1, <2>10
    <3>2. PICK S : S = {y \in t.edges : <<y[1], y[2]>> = <<x[1], x[2]>>}
      OBVIOUS
    <3>3. S # {}
      BY <3>1, <3>2, NoneOfNothing
    <3>4. PICK y \in W : y \in t.edges /\ y[1] = x[1] /\ y[2] = x[2]
      BY <2>1, <2>10, <3>2, <3>3
    <3>. QED
      BY <3>4
  <2> HIDE DEF V, W
  <2>. QED
    BY <2>1, <2>7, <2>10, <2>11, <2>12, <2>13
<1>. QED
  BY <1>1, <1>9, <1>10, <1>11 DEF E, R

\* Once a writer that met no other is through, a search finds the entities of its
\* snapshot and a traversal the neighbourhood the engine would find, all of them
\* and once, however writers before it failed, stopped or overlapped.
THEOREM CopiesAreTheSnapshot == Spec => []CopiesFollowIndexing
<1>1. IndexInv => CopiesFollowIndexing
  BY SearchCopied, GraphCopied DEF IndexInv, CopiesFollowIndexing
<1>. QED
  BY <1>1, IndexAlways, PTL
=============================================================================
