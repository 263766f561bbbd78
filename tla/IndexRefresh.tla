---------------------------- MODULE IndexRefresh ----------------------------
(***************************************************************************)
(* The life of the materialized indexes of one workspace: a scan stores a  *)
(* snapshot, the engine is swapped, ensure_indexes writes five tables and  *)
(* a summary, each in a transaction of its own, and the process can fail   *)
(* between any two of them (backend/app/index_refresh_service.py, with     *)
(* run_scan and _bind_workspace of runtime.py and the tables of            *)
(* storage.py).  Queries read the tables while this goes on                *)
(* (entitlement_service.py).                                               *)
(*                                                                         *)
(* Snapshots are numbered in the order of their generated_at.              *)
(***************************************************************************)
EXTENDS IndexDelta, Sequences

CONSTANTS
    Collectable,  \* the graphs a collection can return
    EmptyGraph,   \* the graph a workspace without snapshot starts from
    NoGraph,      \* stands for a snapshot that is not stored
    Retention,    \* EIP_SNAPSHOT_RETENTION
    MaxScans,     \* bound on scans
    MaxFaults,    \* bound on crashes and failed saves together
    MaxReviews,   \* bound on reviews that find no access rows
    LongReviews   \* whether the engine may be swapped while such a review computes

ASSUME CollectableAssumption ==
    /\ \A G \in Collectable \cup {EmptyGraph} : WellFormed(G)
    /\ NoGraph \notin Collectable \cup {EmptyGraph}

ASSUME BoundAssumption ==
    /\ Retention \in Nat \ {0}
    /\ MaxScans \in Nat /\ MaxFaults \in Nat /\ MaxReviews \in Nat
    /\ LongReviews \in BOOLEAN

VARIABLES
    count,      \* snapshots saved so far; the last one has this number
    snapshots,  \* the graph stored under each number, or NoGraph
    index,      \* index[t][at]: the rows of table t for snapshot at
    summary,    \* the snapshot the last IndexRefreshSummary names, 0 for none
    engine,     \* [at, graph] of the AccessGraphEngine in memory
    job,        \* the refresh in progress
    review,     \* [at, rows] a review campaign in creation is about to save
    reviews,    \* such reviews so far
    faults      \* crashes and failed saves so far

vars == <<count, snapshots, index, summary, engine, job, review, reviews, faults>>

At == 1..MaxScans
Tables == {"access", "closure", "hierarchy", "exposure", "principals"}

TableRows == [access |-> AccessRows, closure |-> ClosureRows, hierarchy |-> HierarchyTableRows,
              exposure |-> ExposureRows, principals |-> SummaryRows]

\* The orders in which a refresh commits its tables.
FullOrder == <<"access", "closure", "hierarchy", "exposure", "principals">>
DeltaOrder == <<"access", "exposure", "principals", "closure", "hierarchy">>

Unscanned == [at |-> 0, graph |-> EmptyGraph]
Down == [at |-> -1, graph |-> NoGraph]

Idle == [stage |-> "idle"]
NoReview == [at |-> -1, rows |-> {}]
\* origin: a scan survives an exception of the refresh, a start does not.
Saved(at, origin) == [stage |-> "saved", at |-> at, origin |-> origin]

Graphs == Collectable \cup {EmptyGraph}

\* What the engine of a graph computes in full; it keeps the results.
EngineAccess == [G \in Graphs |-> AccessIndex(G)]
EngineClosure == [G \in Graphs |-> GroupClosure(G, PrincipalIds(G))]
EngineHierarchy == [G \in Graphs |-> ResourceHierarchy(G)]

------------------------------------------------------------------------------
(* ensure_indexes *)

\* Mutant: the access rows alone tell that a refresh has been done.
ExistsByAccess(at) == index["access"][at] # {}

Exists(at) == \A t \in Tables : index[t][at] # {}

Others(at) == {x \in At : x # at /\ snapshots[x] # NoGraph}

\* _previous_snapshot: the newest of the others, 0 if there is none.
PreviousSnapshot(at) ==
    IF Others(at) = {} THEN 0 ELSE CHOOSE x \in Others(at) : \A y \in Others(at) : y <= x

RowsFor(at, t) == IF at = 0 THEN {} ELSE index[t][at]

\* What the refresh of at will write, decided from what it reads.
Plan(at) ==
    LET p      == PreviousSnapshot(at)
        new    == snapshots[at]
        old    == IF p = 0 THEN EmptyGraph ELSE snapshots[p]
        before == RowsFor(p, "access")
        mode   == RefreshMode(p # 0, old, new, before)
        rows   == AccessRowsOf(mode, old, new, before)
    IN  [mode |-> mode,
         rows |-> [access     |-> rows,
                   closure    |-> ClosureRowsOf(mode, old, new, RowsFor(p, "closure")),
                   hierarchy  |-> HierarchyRowsOf(mode, old, new, RowsFor(p, "hierarchy")),
                   exposure   |-> ExposureIndex(rows),
                   principals |-> PrincipalSummary(rows)]]

------------------------------------------------------------------------------

Init ==
    /\ count = 0
    /\ snapshots = [at \in At |-> NoGraph]
    /\ index = [t \in Tables |-> [at \in At |-> {}]]
    /\ summary = 0
    /\ engine = Unscanned
    /\ job = Idle
    /\ review = NoReview
    /\ reviews = 0
    /\ faults = 0

\* run_scan up to save_snapshot, which also applies the retention: snapshots
\* and their access rows go, the rows of the other tables stay.
Scan(G) ==
    /\ engine # Down /\ job = Idle /\ count < MaxScans
    /\ count' = count + 1
    /\ snapshots' = [at \in At |-> IF at = count + 1 THEN G
                                   ELSE IF at + Retention <= count + 1 THEN NoGraph
                                   ELSE snapshots[at]]
    /\ index' = [index EXCEPT !["access"] =
                    [at \in At |-> IF at + Retention <= count + 1 THEN {} ELSE index["access"][at]]]
    /\ job' = Saved(count + 1, "scan")
    /\ UNCHANGED <<summary, engine, review, reviews, faults>>

\* The engine is swapped and ensure_indexes reads what it needs; it is done at
\* once when the tables have rows (then at most a summary is missing).
Begin ==
    /\ job.stage = "saved"
    /\ LongReviews \/ review = NoReview
    /\ engine' = [at |-> job.at, graph |-> snapshots[job.at]]
    /\ IF Exists(job.at)
       THEN /\ job' = Idle
            /\ summary' = job.at
       ELSE /\ \E plan \in {Plan(job.at)} :
                  job' = [stage |-> "saving", at |-> job.at, origin |-> job.origin,
                          rows |-> plan.rows,
                          todo |-> IF plan.mode = "full" THEN FullOrder ELSE DeltaOrder]
            /\ UNCHANGED summary
    /\ UNCHANGED <<count, snapshots, index, review, reviews, faults>>

\* One save_* of the storage: the rows of a snapshot are replaced in one commit.
SaveTable ==
    /\ job.stage = "saving" /\ job.todo # <<>>
    /\ LET t == Head(job.todo) IN
       index' = [index EXCEPT ![t] = [@ EXCEPT ![job.at] = job.rows[t]]]
    /\ job' = [job EXCEPT !.todo = Tail(job.todo)]
    /\ UNCHANGED <<count, snapshots, summary, engine, review, reviews, faults>>

SaveSummary ==
    /\ job.stage = "saving" /\ job.todo = <<>>
    /\ summary' = job.at
    /\ job' = Idle
    /\ UNCHANGED <<count, snapshots, index, engine, review, reviews, faults>>

\* Something after save_snapshot raises: the scan is recorded as failed and the
\* process goes on, with the engine it has by then.
FailRefresh ==
    /\ job.stage \in {"saved", "saving"} /\ job.origin = "scan" /\ faults < MaxFaults
    /\ faults' = faults + 1
    /\ job' = Idle
    /\ UNCHANGED <<count, snapshots, index, summary, engine, review, reviews>>

Crash ==
    /\ engine # Down /\ faults < MaxFaults
    /\ faults' = faults + 1
    /\ engine' = Down
    /\ job' = Idle
    /\ review' = NoReview
    /\ UNCHANGED <<count, snapshots, index, summary, reviews>>

\* Mutant: a start builds the engine and does not ensure the indexes.
StartWithoutEnsure ==
    /\ engine = Down /\ job = Idle
    /\ engine' = IF count = 0 THEN Unscanned ELSE [at |-> count, graph |-> snapshots[count]]
    /\ UNCHANGED <<count, snapshots, index, summary, job, review, reviews, faults>>

\* _bind_workspace when the process starts: with a snapshot stored, the engine
\* is built on the latest and its indexes are ensured.
Start ==
    /\ engine = Down /\ job = Idle
    /\ IF count = 0
       THEN engine' = Unscanned /\ UNCHANGED job
       ELSE job' = Saved(count, "start") /\ UNCHANGED engine
    /\ UNCHANGED <<count, snapshots, index, summary, review, reviews, faults>>

\* create_access_review finds no access rows for the snapshot of the engine and
\* has the engine compute them.
ReviewLoad ==
    /\ engine # Down /\ review = NoReview /\ reviews < MaxReviews
    /\ RowsFor(engine.at, "access") = {}
    /\ reviews' = reviews + 1
    /\ review' = [at |-> engine.at, rows |-> EngineAccess[engine.graph]]
    /\ UNCHANGED <<count, snapshots, index, summary, engine, job, faults>>

\* It saves them for the snapshot of what by now is the engine.
ReviewSave ==
    /\ review # NoReview
    /\ index' = [index EXCEPT !["access"] =
                    [at \in At |-> IF at = engine.at THEN review.rows ELSE index["access"][at]]]
    /\ review' = NoReview
    /\ UNCHANGED <<count, snapshots, summary, engine, job, reviews, faults>>

Next ==
    \/ \E G \in Collectable : Scan(G)
    \/ Begin
    \/ SaveTable
    \/ SaveSummary
    \/ FailRefresh
    \/ Crash
    \/ Start
    \/ ReviewLoad
    \/ ReviewSave

Spec == Init /\ [][Next]_vars

\* The threads of a refresh and of a review run on until they end, and a supervisor restarts a
\* stopped process (restart: unless-stopped in the compose files).
Fairness == WF_vars(Begin) /\ WF_vars(SaveTable) /\ WF_vars(SaveSummary)
            /\ WF_vars(Start) /\ WF_vars(ReviewSave)

FairSpec == Spec /\ Fairness

------------------------------------------------------------------------------
(* What a query reads meanwhile: EntitlementService.resource_exposure.     *)

RowsOn(rows, r) == {row \in rows : row.resource = r}

IndexedRows(r) == IF engine.at \in At THEN RowsOn(index["access"][engine.at], r) ELSE {}

\* The rows of the index when it has some for r, the engine's own otherwise.
ServedRows(r) ==
    IF IndexedRows(r) # {} THEN IndexedRows(r) ELSE RowsOn(EngineAccess[engine.graph], r)

\* The exposure row gives the total when there is one, a count of the rows otherwise.
ServedTotals(r) ==
    LET exposed == {x \in index["exposure"][engine.at] : x.resource = r}
    IN  IF IndexedRows(r) # {} /\ exposed # {}
        THEN {x.principals : x \in exposed}
        ELSE {Cardinality(ServedRows(r))}

OnUndenied(G, rows) == {row \in rows : row.resource \in Undenied(G)}

Stored(at) == snapshots[at] # NoGraph

------------------------------------------------------------------------------
(* Properties.                                                             *)

PlannedRows(rows) == DOMAIN rows = Tables /\ \A t \in Tables : rows[t] \subseteq TableRows[t]

IndexType ==
    /\ DOMAIN index = Tables
    /\ \A t \in Tables : DOMAIN index[t] = At /\ \A at \in At : index[t][at] \subseteq TableRows[t]

JobType ==
    \/ job = Idle
    \/ job \in [stage : {"saved"}, at : 1..count, origin : {"scan", "start"}]
    \/ /\ DOMAIN job = {"stage", "at", "origin", "rows", "todo"}
       /\ job.stage = "saving" /\ job.at \in 1..count /\ job.origin \in {"scan", "start"}
       /\ PlannedRows(job.rows)
       /\ job.todo \in Seq(Tables)

\* The variables keep their types: what a refresh has planned or committed is
\* rows of the table they are for, and the engine holds a graph that was collected.
TypeOK ==
    /\ count \in 0..MaxScans
    /\ snapshots \in [At -> Collectable \cup {NoGraph}]
    /\ IndexType
    /\ summary \in 0..count
    /\ engine \in {Unscanned, Down} \cup [at : 1..count, graph : Collectable]
    /\ JobType
    /\ review = NoReview \/ review \in [at : 0..count, rows : SUBSET AccessRows]
    /\ reviews \in 0..MaxReviews
    /\ faults \in 0..MaxFaults

\* Whatever mix of full, carried and delta refreshes, crashes and retention led
\* to it, a saved access index equals the engine's full calculation for that
\* snapshot on every resource without a deny entry (_delta_access_scope must
\* miss no pair whose row changes).
AccessIsExact ==
    \A at \in At : Stored(at) /\ index["access"][at] # {} =>
        OnUndenied(snapshots[at], index["access"][at])
            = OnUndenied(snapshots[at], EngineAccess[snapshots[at]])

\* Once the summary of a refresh is stored, the closures of its snapshot are
\* those of its graph, although they may have been carried from a snapshot whose
\* own refresh broke off.  Group chains count up to the depth the impact analysis
\* sees, one edge beyond ReachDepth.
SummaryVouchesForClosures ==
    summary # 0 /\ Stored(summary) =>
        /\ Shallow(index["closure"][summary])
              = Shallow(EngineClosure[snapshots[summary]])
        /\ index["hierarchy"][summary] = EngineHierarchy[snapshots[summary]]

\* At every moment, in the middle of a refresh and after one that broke off, with
\* rows from a refresh or from a review, the total a query reports for a resource
\* is the number of rows it pages through.
TotalsMatchRows ==
    engine.at \in At =>
        \A r \in Undenied(engine.graph) : ServedTotals(r) = {Cardinality(ServedRows(r))}

ExactAnswers ==
    [G \in Graphs |-> [r \in Undenied(G) |-> RowsOn(EngineAccess[G], r)]]

Promise == INSTANCE AccessPromise WITH
    FirstGraph <- EmptyGraph,
    Exact      <- ExactAnswers,
    graph      <- engine.graph,
    answers    <- IF engine = Down THEN << >>
                  ELSE [r \in Undenied(engine.graph) |-> ServedRows(r)]

\* What the queries promise: on resources without a deny entry the answers are
\* at every moment those of the engine, whether they come from the index or
\* from the engine, and change only when an engine is put in place or the
\* process stops.
ImplementsPromise == Promise!Spec

\* After a crash the latest snapshot ends up with its summary, with the tables
\* it vouches for, unless further scans move the target (bounded here).
RestartCompletes ==
    engine = Down ~> (engine.at = count /\ job = Idle /\ summary = count)
=============================================================================
