--------------------------- MODULE ExternalIndexes ---------------------------
(***************************************************************************)
(* The copies of a snapshot outside the database - documents in            *)
(* OpenSearch, a graph in Neo4j - and the answers cached in Valkey, which  *)
(* several processes share (backend/app/platform_services.py and the       *)
(* services in front of it).  A process writes the copies after it has put *)
(* the engine of a new snapshot in place; a query reads them, or falls     *)
(* back on the engine it began with, and caches what it got under the      *)
(* number of that engine's snapshot.                                       *)
(*                                                                         *)
(* What a document or a node says of an entity is known by the snapshot it *)
(* was written for.  Every entity matches the search; limits on the size   *)
(* of an answer, which nothing here reaches, and the ranking of results    *)
(* are left out.                                                           *)
(***************************************************************************)
EXTENDS Integers, Sequences, FiniteSets

CONSTANTS
    Process,
    Asker,         \* the processes that are asked, the others only write
    Entity,
    Focus,         \* the entity whose neighbourhood is asked for
    Depth,         \* how far the neighbourhood goes
    World,         \* the snapshots a scan may find: [entities, relationships]
    Kind,          \* queries that are asked: some of "search", "graph", "engine"
    MaxSnapshots,
    MaxFaults      \* bound on failed requests to the backends and on crashes

ASSUME WorldAssumption ==
    \A w \in World : w.entities \subseteq Entity
                        /\ w.relationships \subseteq w.entities \X w.entities

ASSUME FiniteAssumption == IsFiniteSet(Entity) /\ MaxSnapshots \in Nat \ {0} /\ MaxFaults \in Nat

ASSUME QueryAssumption ==
    Asker \subseteq Process /\ Kind \subseteq {"search", "graph", "engine"}
        /\ Focus \in Entity /\ Depth \in 1 .. 4

VARIABLES
    world,      \* the stored snapshots, in their order
    engine,     \* the snapshot of each process' engine, 0 while it is down
    job,        \* the writing of copies each process is in
    stored,     \* OpenSearch: the snapshot each entity's document was written for, 0: none,
    visible,    \*   and the same for the document a search can see
    nodes,      \* Neo4j: what is created at once has one number in "by", since
    edges,      \*   two processes that write at once leave everything twice
    cache,      \* Valkey: at most one answer for each key
    query,      \* the query each process is answering
    faults,
    last        \* history: the snapshots the copies were last completed for, undisturbed

copies == <<stored, visible, nodes, edges>>
vars == <<world, engine, job, copies, cache, query, faults, last>>

Nothing == [nodes |-> {}, edges |-> {}, inbound |-> 0, outbound |-> 0]
NoJob == [stage |-> "idle", at |-> 0, alone |-> FALSE]
NoQuery == [stage |-> "idle", kind |-> "none", at |-> 0, found |-> Nothing]
Unknown == [search |-> 0, graph |-> 0]

Stage == {"bulk", "purge", "wipe", "nodes", "edges"}
Key == Kind \X (1 .. MaxSnapshots)

Answer == [nodes : SUBSET (Entity \X (1 .. MaxSnapshots)),
           edges : SUBSET (Entity \X Entity \X (1 .. MaxSnapshots)),
           inbound : Nat, outbound : Nat]

TypeOK ==
    /\ world \in Seq(World) /\ Len(world) \in 1 .. MaxSnapshots
    /\ engine \in [Process -> 0 .. Len(world)]
    /\ job \in [Process -> [stage : Stage, at : 1 .. Len(world), alone : BOOLEAN] \cup {NoJob}]
    /\ stored \in [Entity -> 0 .. Len(world)]
    /\ visible \in [Entity -> 0 .. Len(world)]
    /\ \A v \in nodes : v.entity \in Entity /\ v.at \in 1 .. Len(world) /\ v.by \in Process
    /\ \A x \in edges : x.source \in nodes /\ x.target \in nodes /\ x.by \in Process
    /\ \A k \in Key : cache[k] \subseteq Answer /\ Cardinality(cache[k]) <= 1
    /\ \A p \in Process : query[p].found \in Answer /\ query[p].at \in 0 .. Len(world)
    /\ faults \in 0 .. MaxFaults
    /\ last \in [search : 0 .. Len(world), graph : 0 .. Len(world)]

------------------------------------------------------------------------------
(* What the engine of a snapshot answers.                                  *)

Documents(n) == {<<e, n>> : e \in world[n].entities}

\* One relationship further, in either direction.
Wider(E, R) == E \cup UNION {{r[1], r[2]} : r \in {x \in R : x[1] \in E \/ x[2] \in E}}

\* What is at most d relationships away.
Ball(start, R, d) ==
    LET ball[i \in 0 .. 4] == IF i = 0 THEN {start} ELSE Wider(ball[i - 1], R)
    IN  ball[d]

Near(R, d) == Ball(Focus, R, d)

\* GraphService.subgraph without Neo4j: no relationship between two entities at the rim.
Subgraph(n) ==
    LET R == world[n].relationships
        walked == {r \in R : r[1] \in Near(R, Depth - 1) \/ r[2] \in Near(R, Depth - 1)}
    IN  [nodes    |-> {<<e, n>> : e \in Near(R, Depth)},
         edges    |-> {<<r[1], r[2], n>> : r \in walked},
         inbound  |-> Cardinality({r \in R : r[2] = Focus}),
         outbound |-> Cardinality({r \in R : r[1] = Focus})]

FromEngine(kind, n) ==
    IF kind = "graph" THEN Subgraph(n) ELSE [Nothing EXCEPT !.nodes = Documents(n)]

(* What the copies answer.                                                 *)

\* Mutant: the hits are not filtered by the snapshot.
HitsOfAny(n) == {<<e, visible[e]>> : e \in {x \in Entity : visible[x] # 0}}

Hits(n) == {<<e, n>> : e \in {x \in Entity : visible[x] = n}}

\* OpenSearchBackend.search: no hits are taken for no answer.
Searched(n) ==
    IF Hits(n) = {} THEN FromEngine("search", n) ELSE [Nothing EXCEPT !.nodes = Hits(n)]

\* What a dictionary keeps of several values for one key: some one of them.
OneEach(S, key) ==
    {T \in SUBSET S : \A x \in S : Cardinality({y \in T : key[y] = key[x]}) = 1}

\* The paths of Neo4j from one focus node; no snapshot is asked for.
Surroundings(f) ==
    LET pairs == {<<x.source, x.target>> : x \in edges}
        inner == Ball(f, pairs, Depth - 1)
        walked == {x \in edges : x.source \in inner \/ x.target \in inner}
    IN  [nodes |-> {<<v.entity, v.at>> : v \in Ball(f, pairs, Depth)},
         edges |-> {<<x.source.entity, x.target.entity, x.at>> : x \in walked}]

Traversed(all) ==
    [nodes : OneEach(all.nodes, [v \in all.nodes |-> v[1]]),
     edges : OneEach(all.edges, [x \in all.edges |-> <<x[1], x[2]>>]),
     inbound : {0}, outbound : {0}]

Traversals == UNION {Traversed(Surroundings(v)) : v \in {x \in nodes : x.entity = Focus}}

------------------------------------------------------------------------------
Init ==
    /\ world \in {<<w>> : w \in World}
    /\ engine = [p \in Process |-> 0]
    /\ job = [p \in Process |-> NoJob]
    /\ stored = [e \in Entity |-> 0]
    /\ visible = [e \in Entity |-> 0]
    /\ nodes = {}
    /\ edges = {}
    /\ cache = [k \in Key |-> {}]
    /\ query = [p \in Process |-> NoQuery]
    /\ faults = 0
    /\ last = Unknown

(* Writing the copies: RuntimeState._refresh_enterprise_indexes.           *)

BeginJob(p, n) ==
    LET meets == \E q \in Process \ {p} : job[q] # NoJob
    IN  job' = [q \in Process |->
                   IF q = p THEN [stage |-> "bulk", at |-> n, alone |-> ~meets]
                   ELSE IF job[q] = NoJob THEN NoJob ELSE [job[q] EXCEPT !.alone = FALSE]]

\* A scan stores a snapshot, puts its engine in place and turns to the copies.
\* Bound: it finds something else than the scan before.
Scan(p) ==
    /\ engine[p] # 0 /\ job[p] = NoJob
    /\ Len(world) < MaxSnapshots
    /\ \E w \in World \ {world[Len(world)]} : world' = Append(world, w)
    /\ engine' = [engine EXCEPT ![p] = Len(world) + 1]
    /\ BeginJob(p, Len(world) + 1)
    /\ last' = Unknown
    /\ UNCHANGED <<copies, cache, query, faults>>

\* A process starts with the newest snapshot and writes its copies again.
Start(p) ==
    /\ engine[p] = 0
    /\ engine' = [engine EXCEPT ![p] = Len(world)]
    /\ BeginJob(p, Len(world))
    /\ last' = Unknown
    /\ UNCHANGED <<world, copies, cache, query, faults>>

Turn(p, stage) == job' = [job EXCEPT ![p].stage = stage]
EndJob(p) == job' = [job EXCEPT ![p] = NoJob]

\* A bulk request overwrites a document with the same id, whatever it was written for.
Overwritten(E, n) == [e \in Entity |-> IF e \in E THEN n ELSE stored[e]]

Bulk(p) ==
    /\ job[p].stage = "bulk"
    /\ stored' = Overwritten(world[job[p].at].entities, job[p].at)
    /\ Turn(p, IF world[job[p].at].entities = {} THEN "wipe" ELSE "purge")
    /\ UNCHANGED <<world, engine, visible, nodes, edges, cache, query, faults, last>>

\* Some documents may have been written; the purge is skipped.
BulkFails(p) ==
    /\ job[p].stage = "bulk" /\ faults < MaxFaults
    /\ world[job[p].at].entities # {}
    /\ \E E \in SUBSET world[job[p].at].entities : stored' = Overwritten(E, job[p].at)
    /\ Turn(p, "wipe")
    /\ faults' = faults + 1
    /\ UNCHANGED <<world, engine, visible, nodes, edges, cache, query, last>>

\* The index refreshes itself, a shard at a time.
Expose(e) ==
    /\ visible[e] # stored[e]
    /\ visible' = [visible EXCEPT ![e] = stored[e]]
    /\ UNCHANGED <<world, engine, job, stored, nodes, edges, cache, query, faults, last>>

\* delete_by_query finds what is visible, leaves what was written since, and refreshes.
PurgedBy(n) ==
    [e \in Entity |-> IF visible[e] \notin {0, n} /\ stored[e] = visible[e] THEN 0 ELSE stored[e]]

Purge(p) ==
    /\ job[p].stage = "purge"
    /\ stored' = PurgedBy(job[p].at)
    /\ visible' = stored'
    /\ last' = IF job[p].alone THEN [last EXCEPT !.search = job[p].at] ELSE last
    /\ Turn(p, "wipe")
    /\ UNCHANGED <<world, engine, nodes, edges, cache, query, faults>>

\* Mutant: the graph of the snapshot before is left in place.
WipeNothing(p) ==
    /\ job[p].stage = "wipe"
    /\ Turn(p, "nodes")
    /\ UNCHANGED <<world, engine, copies, cache, query, faults, last>>

Wipe(p) ==
    /\ job[p].stage = "wipe"
    /\ nodes' = {} /\ edges' = {}
    /\ Turn(p, "nodes")
    /\ UNCHANGED <<world, engine, stored, visible, cache, query, faults, last>>

Nodes(p) ==
    /\ job[p].stage = "nodes"
    /\ nodes' = nodes \cup {[entity |-> e, at |-> job[p].at, by |-> p] : e \in world[job[p].at].entities}
    /\ Turn(p, "edges")
    /\ UNCHANGED <<world, engine, stored, visible, edges, cache, query, faults, last>>

\* The ends of a relationship are matched by their entity alone.
Joining(p, n) ==
    UNION {{[source |-> v, target |-> u, at |-> n, by |-> p] :
                v \in {x \in nodes : x.entity = r[1]}, u \in {x \in nodes : x.entity = r[2]}} :
           r \in world[n].relationships}

Edges(p) ==
    /\ job[p].stage = "edges"
    /\ edges' = edges \cup Joining(p, job[p].at)
    /\ last' = IF job[p].alone THEN [last EXCEPT !.graph = job[p].at] ELSE last
    /\ EndJob(p)
    /\ UNCHANGED <<world, engine, stored, visible, nodes, cache, query, faults>>

\* An exception of a backend is logged and the next backend has its turn.
RequestFails(p) ==
    /\ job[p].stage \in {"purge", "wipe", "nodes", "edges"} /\ faults < MaxFaults
    /\ IF job[p].stage = "purge" THEN Turn(p, "wipe") ELSE EndJob(p)
    /\ faults' = faults + 1
    /\ UNCHANGED <<world, engine, copies, cache, query, last>>

Crash(p) ==
    /\ engine[p] # 0 /\ faults < MaxFaults
    /\ engine' = [engine EXCEPT ![p] = 0]
    /\ EndJob(p)
    /\ query' = [query EXCEPT ![p] = NoQuery]
    /\ faults' = faults + 1
    /\ UNCHANGED <<world, copies, cache, last>>

------------------------------------------------------------------------------
(* Answering: SearchService, GraphService, and the services that ask the   *)
(* engine only (explain, what-if, risks, overview, catalog).               *)

Turning(p, stage, found) == query' = [query EXCEPT ![p].stage = stage, ![p].found = found]

\* Bound: entries of different keys share nothing, so one is cached at a time.
CacheEmpty == \A k \in Key : cache[k] = {}

\* The engine is fetched once; an answer in the cache is given and that is all.
Ask(p, kind) ==
    /\ p \in Asker /\ engine[p] # 0 /\ query[p] = NoQuery
    /\ kind = "graph" => Focus \in world[engine[p]].entities
    /\ CacheEmpty
    /\ query' = [query EXCEPT ![p] = [stage |-> "read", kind |-> kind, at |-> engine[p], found |-> Nothing]]
    /\ UNCHANGED <<world, engine, job, copies, cache, faults, last>>

\* Mutant: the engine is fetched again for the calculation.
ReadNewestEngine(p) ==
    /\ query[p].stage = "read" /\ query[p].kind = "engine"
    /\ Turning(p, "store", FromEngine("engine", engine[p]))
    /\ UNCHANGED <<world, engine, job, copies, cache, faults, last>>

ReadEngine(p) ==
    /\ query[p].stage = "read" /\ query[p].kind = "engine"
    /\ Turning(p, "store", FromEngine("engine", query[p].at))
    /\ UNCHANGED <<world, engine, job, copies, cache, faults, last>>

ReadSearch(p) ==
    /\ query[p].stage = "read" /\ query[p].kind = "search"
    /\ Turning(p, "store", Searched(query[p].at))
    /\ UNCHANGED <<world, engine, job, copies, cache, faults, last>>

ReadGraph(p) ==
    /\ query[p].stage = "read" /\ query[p].kind = "graph"
    /\ IF Traversals = {} THEN Turning(p, "store", Subgraph(query[p].at))
       ELSE \E t \in Traversals : Turning(p, "inbound", t)
    /\ UNCHANGED <<world, engine, job, copies, cache, faults, last>>

\* Two more statements, each of them on the graph as it is by then.
CountInbound(p) ==
    /\ query[p].stage = "inbound"
    /\ Turning(p, "outbound",
               [query[p].found EXCEPT !.inbound = Cardinality({x \in edges : x.target.entity = Focus})])
    /\ UNCHANGED <<world, engine, job, copies, cache, faults, last>>

CountOutbound(p) ==
    /\ query[p].stage = "outbound"
    /\ Turning(p, "store",
               [query[p].found EXCEPT !.outbound = Cardinality({x \in edges : x.source.entity = Focus})])
    /\ UNCHANGED <<world, engine, job, copies, cache, faults, last>>

\* A backend that does not answer is replaced by the engine the query began with.
ReadFails(p) ==
    /\ query[p].stage \in {"read", "inbound", "outbound"} /\ query[p].kind # "engine"
    /\ faults < MaxFaults
    /\ Turning(p, "store", FromEngine(query[p].kind, query[p].at))
    /\ faults' = faults + 1
    /\ UNCHANGED <<world, engine, job, copies, cache, last>>

Store(p) ==
    /\ query[p].stage = "store"
    /\ cache' = [cache EXCEPT ![<<query[p].kind, query[p].at>>] = {query[p].found}]
    /\ query' = [query EXCEPT ![p] = NoQuery]
    /\ UNCHANGED <<world, engine, job, copies, faults, last>>

\* Mutant: entries are stored without an expiry.
ExpireNever(k) == FALSE /\ UNCHANGED vars

\* The life of an entry ends, 30 s after it was stored or later.
Expire(k) ==
    /\ cache[k] # {}
    /\ cache' = [cache EXCEPT ![k] = {}]
    /\ UNCHANGED <<world, engine, job, copies, query, faults, last>>

------------------------------------------------------------------------------
Work(p) ==
    \/ Bulk(p) \/ Purge(p) \/ Wipe(p) \/ Nodes(p) \/ Edges(p)
    \/ ReadEngine(p) \/ ReadSearch(p) \/ ReadGraph(p)
    \/ CountInbound(p) \/ CountOutbound(p) \/ Store(p)

Next ==
    \/ \E p \in Process :
          \/ Scan(p) \/ Start(p) \/ Work(p)
          \/ BulkFails(p) \/ RequestFails(p) \/ Crash(p) \/ ReadFails(p)
          \/ \E kind \in Kind : Ask(p, kind)
    \/ \E e \in Entity : Expose(e)
    \/ \E k \in Key : Expire(k)

Fairness ==
    /\ \A p \in Process : WF_vars(Work(p)) /\ WF_vars(Start(p))
    /\ \A k \in Key : WF_vars(Expire(k))

Spec == Init /\ [][Next]_vars
FairSpec == Spec /\ Fairness

------------------------------------------------------------------------------
(* A cached search or calculation speaks of the snapshot in its key and of *)
(* no other, and a calculation says all the engine of that snapshot says,  *)
(* although scans replace engines and documents while it is under way.     *)
AnswersOfKey ==
    \A k \in Key : \A a \in cache[k] :
        /\ k[1] = "search" => a.nodes \subseteq Documents(k[2])
        /\ k[1] = "engine" => a = FromEngine("engine", k[2])

(* Once a writer that met no other is through with OpenSearch, a search    *)
(* under its snapshot finds that snapshot's entities, all of them, however *)
(* writers before it failed, stopped or overlapped.                        *)
SearchFollowsIndexing ==
    last.search # 0 => Searched(last.search).nodes = Documents(last.search)

(* Once a writer that met no other is through with Neo4j, a traversal      *)
(* finds the neighbourhood the engine would find, and every relationship   *)
(* once: nothing is left of earlier, broken off or overlapping writers.    *)
GraphFollowsIndexing ==
    last.graph # 0 =>
        /\ \A t \in Traversals :
              t.nodes = Subgraph(last.graph).nodes /\ t.edges = Subgraph(last.graph).edges
        /\ Cardinality(edges) = Cardinality(world[last.graph].relationships)
        /\ {v.entity : v \in nodes} = world[last.graph].entities

(* When the copies of a snapshot stay complete, wrong answers given in the *)
(* meantime die out: from some time on whatever the cache holds under that *)
(* snapshot is what its engine would say.                                  *)
Settled(n) == last.search = n /\ last.graph = n
Right(n) == \A kind \in Kind : \A a \in cache[<<kind, n>>] : a = FromEngine(kind, n)

AnswersSettle ==
    \A n \in 1 .. MaxSnapshots : <>[]Settled(n) => <>[]Right(n)

(* What the code promises of the two copies: they have the form their      *)
(* backends keep, and once written undisturbed they hold the snapshot.     *)
CopiesFollowIndexing == TypeOK /\ SearchFollowsIndexing /\ GraphFollowsIndexing
=============================================================================
