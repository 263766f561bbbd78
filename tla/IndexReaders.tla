---------------------------- MODULE IndexReaders ----------------------------
(***************************************************************************)
(* Requests that read the materialized indexes in several steps, beside    *)
(* the scans, refreshes and faults of IndexRefresh: the pages of who has   *)
(* access (backend/app/entitlement_service.py), the detail of an entity    *)
(* and the analytics (backend/app/runtime.py), and the drift between two   *)
(* snapshots (backend/app/change_service.py).                              *)
(*                                                                         *)
(* One request at a time is followed; requests change nothing.  Rows are   *)
(* ordered as if all were equally risky.  The query cache in front of the  *)
(* pages is in ExternalIndexes.                                            *)
(***************************************************************************)
EXTENDS IndexRefresh

Seqs == INSTANCE SequencesExt
FSets == INSTANCE FiniteSetsExt

CONSTANTS
    Listings,  \* the entities whose access is paged through
    Details,   \* the entities whose detail is asked for
    Limit,     \* rows on a page
    NameRank,  \* the order of the names of entities, in which the engine lists rows
    IdRank     \* the order of their ids, in which the index lists them

ASSUME ReaderAssumption ==
    /\ Listings \cup Details \subseteq Entity /\ Limit \in Nat \ {0}
    /\ \A rank \in {NameRank, IdRank} : \A e1, e2 \in Entity : rank[e1] = rank[e2] => e1 = e2

VARIABLE reader   \* the request under way, or just answered

readerVars == <<count, snapshots, index, summary, engine, job, review, reviews, faults, reader>>

NoReader == [kind |-> "none", step |-> "done"]
Ready == reader.step = "done" /\ engine # Down

------------------------------------------------------------------------------
(* What is selected from the tables.                                       *)

Rows(t, at) == IF at \in At THEN index[t][at] ELSE {}
About(rows, e) == {row \in rows : e \in {row.principal, row.resource}}

AccessOf(at, e) == About(Rows("access", at), e)
GroupsOf(at, p) == {row \in Rows("closure", at) : row.principal = p}
AncestorsOf(at, r) == {row \in Rows("hierarchy", at) : row.resource = r}
ExposureOf(at, r) == {row \in Rows("exposure", at) : row.resource = r}
SummaryOf(at, p) == {row \in Rows("principals", at) : row.principal = p}

------------------------------------------------------------------------------
(* resource_exposure and principal_access, page by page.                   *)

Other(row, e) == IF row.principal = e THEN row.resource ELSE row.principal
Listed(rows, e, rank) == Seqs!SetToSortSeq(rows, LAMBDA x, y : rank[Other(x, e)] < rank[Other(y, e)])
Window(rows, offset) == SubSeq(rows, offset + 1, FSets!Min({offset + Limit, Len(rows)}))

\* A request captures the engine it begins with.
Capture(r, e) ==
    reader' = IF e \in Ids(engine.graph) THEN [r EXCEPT !.engine = engine, !.step = "rows"] ELSE NoReader

AskPages(e) ==
    /\ Ready
    /\ Capture([kind |-> "pages", of |-> e, offset |-> 0, got |-> <<>>, page |-> <<>>,
                told |-> {}, lost |-> FALSE, engine |-> engine, step |-> "rows"], e)

AskNextPage ==
    /\ reader.step = "next" /\ engine # Down
    /\ Capture(reader, reader.of)

\* What a page says is there in all decides whether another is asked for.
Answered(page, source, total) ==
    [reader EXCEPT !.got = @ \o page, !.offset = @ + Limit, !.page = <<>>,
                   !.told = @ \cup {[at |-> reader.engine.at, source |-> source, total |-> total]},
                   !.step = IF reader.offset + Len(page) < total THEN "next" ELSE "done"]

\* The engine's rows are sliced when the index has none for the page.
ReadPage ==
    /\ reader.kind = "pages" /\ reader.step = "rows"
    /\ LET e       == reader.of
           indexed == Window(Listed(AccessOf(reader.engine.at, e), e, IdRank), reader.offset)
           full    == Listed(About(EngineAccess[reader.engine.graph], e), e, NameRank)
       IN  reader' = IF indexed # <<>>
                     THEN [reader EXCEPT !.page = indexed, !.step = "total"]
                     ELSE Answered(Window(full, reader.offset), "engine", Len(full))

\* The exposure row, or the summary of the principal, tells the total; the rows
\* are counted where there is neither, and retention can have deleted them by now.
Totals(at, e) ==
    LET told == {x.principals : x \in ExposureOf(at, e)} \cup {x.resources : x \in SummaryOf(at, e)}
    IN  IF told # {} THEN told ELSE {Cardinality(AccessOf(at, e))}

\* Mutant: the total is that of the newest snapshot.
ReadTotalOfNewest ==
    /\ reader.kind = "pages" /\ reader.step = "total"
    /\ \E total \in Totals(count, reader.of) :
          reader' = [Answered(reader.page, "index", total) EXCEPT !.lost = @ \/ total = 0]

ReadTotal ==
    /\ reader.kind = "pages" /\ reader.step = "total"
    /\ \E total \in Totals(reader.engine.at, reader.of) :
          reader' = [Answered(reader.page, "index", total) EXCEPT !.lost = @ \/ total = 0]

------------------------------------------------------------------------------
(* entity_detail: its parts ask for the engine again and again.            *)

Edges(G, e) == {rel \in G.relationships : e \in {rel.source, rel.target}}

AskDetail(e) ==
    /\ Ready /\ e \in Ids(engine.graph)
    /\ reader' = [kind |-> "detail", of |-> e, step |-> "closure", met |-> {engine.at},
                  edges |-> Edges(engine.graph, e), closure |-> {}, access |-> {}]

\* What the engine computes: the groups of a principal, the ancestors of a resource.
ComputedClosure(G, e) ==
    {row \in EngineClosure[G] : row.principal = e} \cup {row \in EngineHierarchy[G] : row.resource = e}

\* Mutant: the closures of the snapshot stored last, which may not be the engine's.
ReadClosureOfNewest ==
    /\ reader.kind = "detail" /\ reader.step = "closure" /\ engine # Down
    /\ reader' = [reader EXCEPT !.step = "access", !.met = @ \cup {engine.at},
                                !.closure = GroupsOf(count, reader.of) \cup AncestorsOf(count, reader.of)]

ReadClosure ==
    /\ reader.kind = "detail" /\ reader.step = "closure" /\ engine # Down
    /\ LET e == reader.of
           indexed == GroupsOf(engine.at, e) \cup AncestorsOf(engine.at, e)
       IN  reader' = IF e \notin Ids(engine.graph) THEN NoReader
                     ELSE [reader EXCEPT !.step = "access", !.met = @ \cup {engine.at},
                                         !.closure = IF indexed # {} THEN indexed
                                                     ELSE ComputedClosure(engine.graph, e)]

\* The first page of access, with the engine of that moment.
ReadDetailAccess ==
    /\ reader.kind = "detail" /\ reader.step = "access" /\ engine # Down
    /\ LET e == reader.of
           indexed == AccessOf(engine.at, e)
       IN  reader' = IF e \notin Ids(engine.graph) THEN NoReader
                     ELSE [reader EXCEPT !.step = "done", !.met = @ \cup {engine.at},
                             !.access = IF indexed # {} THEN indexed ELSE About(EngineAccess[engine.graph], e)]

------------------------------------------------------------------------------
(* exposure_analytics: the snapshot is captured, the engine is not.        *)

AskAnalytics ==
    /\ Ready
    /\ reader' = [kind |-> "analytics", step |-> "exposure", at |-> engine.at, met |-> {engine.at},
                  exposure |-> {}, principals |-> {}]

ReadExposure ==
    /\ reader.kind = "analytics" /\ reader.step = "exposure" /\ engine # Down
    /\ LET rows == Rows("exposure", reader.at)
       IN  reader' = [reader EXCEPT !.step = "principals", !.met = @ \cup {engine.at},
                        !.exposure = IF rows # {} THEN rows ELSE ExposureIndex(EngineAccess[engine.graph])]

ReadPrincipals ==
    /\ reader.kind = "analytics" /\ reader.step = "principals" /\ engine # Down
    /\ LET rows == Rows("principals", reader.at)
       IN  reader' = [reader EXCEPT !.step = "done", !.met = @ \cup {engine.at},
                        !.principals = IF rows # {} THEN rows ELSE PrincipalSummary(EngineAccess[engine.graph])]

------------------------------------------------------------------------------
(* _drift_change_for_pair: two stored snapshots that follow each other.    *)

NoDrift == [added |-> {}, removed |-> {}, changed |-> {}]

Before(at) == {x \in Others(at) : x < at}

AskDrift(at) ==
    /\ Ready
    /\ Stored(at) /\ Before(at) # {}
    /\ LET before == FSets!Max(Before(at))
       IN  reader' = [kind |-> "drift", step |-> "current", at |-> at, before |-> before,
                      graphs |-> <<snapshots[at], snapshots[before]>>, lost |-> FALSE,
                      rows |-> {}, drift |-> NoDrift]

\* _load_access_index_rows: the rows of the index, or what the engine of the
\* stored snapshot computes; none if retention has deleted it by now.
AccessRowsAt(at) ==
    IF Rows("access", at) # {} THEN Rows("access", at)
    ELSE IF Stored(at) THEN EngineAccess[snapshots[at]] ELSE {}

Pairs(rows) == {<<row.principal, row.resource>> : row \in rows}
Permitted(rows, pair) == UNION {row.permissions : row \in {x \in rows : <<x.principal, x.resource>> = pair}}

\* Mutant: what is new in one of the two is taken for new.
DriftEitherWay(new, old) ==
    IF new = {} \/ old = {} THEN NoDrift
    ELSE [added   |-> (Pairs(new) \ Pairs(old)) \cup (Pairs(old) \ Pairs(new)),
          removed |-> Pairs(old) \ Pairs(new),
          changed |-> {pair \in Pairs(new) \cap Pairs(old) : Permitted(new, pair) # Permitted(old, pair)}]

\* Nothing is reported against a snapshot in which nobody has access.  Of what
\* tells two rows apart the permissions are in the rows of this model.
Drift(new, old) ==
    IF new = {} \/ old = {} THEN NoDrift
    ELSE [added   |-> Pairs(new) \ Pairs(old),
          removed |-> Pairs(old) \ Pairs(new),
          changed |-> {pair \in Pairs(new) \cap Pairs(old) : Permitted(new, pair) # Permitted(old, pair)}]

Expired(at) == ~ Stored(at) /\ Rows("access", at) = {}

ReadCurrent ==
    /\ reader.kind = "drift" /\ reader.step = "current" /\ engine # Down
    /\ reader' = [reader EXCEPT !.step = "previous", !.rows = AccessRowsAt(reader.at), !.lost = Expired(reader.at)]

ReadPrevious ==
    /\ reader.kind = "drift" /\ reader.step = "previous" /\ engine # Down
    /\ reader' = [reader EXCEPT !.step = "done", !.rows = {}, !.lost = @ \/ Expired(reader.before),
                                !.drift = Drift(reader.rows, AccessRowsAt(reader.before))]

------------------------------------------------------------------------------

ReaderInit == Init /\ reader = NoReader

\* A step of IndexRefresh; requests end with the process, and an answer that is
\* out is forgotten.
RefreshStep ==
    /\ Next
    /\ reader' = IF engine' = Down \/ reader.step = "done" THEN NoReader ELSE reader

ReaderStep ==
    \/ \E e \in Listings : AskPages(e)
    \/ \E e \in Details : AskDetail(e)
    \/ AskNextPage
    \/ ReadPage
    \/ ReadTotal
    \/ ReadClosure
    \/ ReadDetailAccess
    \/ AskAnalytics
    \/ ReadExposure
    \/ ReadPrincipals
    \/ \E at \in At : AskDrift(at)
    \/ ReadCurrent
    \/ ReadPrevious

ReaderNext == RefreshStep \/ (ReaderStep /\ UNCHANGED vars)

ReaderSpec == ReaderInit /\ [][ReaderNext]_readerVars

------------------------------------------------------------------------------
(* Properties.  They are about graphs without deny entries: with them a    *)
(* delta can leave rows that differ from the engine's.                     *)

Undisputed(G) == Denies(G) = {}

\* The pages of one listing, read one by one while scans, refreshes, failures and
\* retention go on, list everybody once and tell their number, if all pages came
\* from one snapshot and all from the index or all from the engine.  (The two
\* list in different orders, and a total counted after retention is nought.)
PagesComplete ==
    reader.kind = "pages" /\ reader.step = "done" =>
        \/ reader.lost \/ Cardinality(reader.told) > 1
        \/ \A r \in reader.told :
              LET rows == About(EngineAccess[reader.engine.graph], reader.of)
              IN  Undisputed(reader.engine.graph) =>
                    /\ Seqs!ToSet(reader.got) = rows
                    /\ Len(reader.got) = Cardinality(rows) /\ r.total = Cardinality(rows)

\* An entity's detail, put together in the middle of a refresh or after one that
\* broke off, shows the closure and the access of the very graph its edges are
\* of, unless the engine was replaced in between.
DetailOfOneGraph ==
    reader.kind = "detail" /\ reader.step = "done" /\ reader.met = {engine.at} /\ Undisputed(engine.graph) =>
        LET e == reader.of
            G == engine.graph
        IN  /\ reader.edges = Edges(G, e)
            /\ Shallow(reader.closure) = Shallow(ComputedClosure(G, e))
            /\ reader.access = About(EngineAccess[G], e)

Total(rows, field) ==
    FSets!MapThenSumSet(LAMBDA row : row[field], rows)

\* The two lists of the analytics count the same access, once by resource and
\* once by principal, although the two tables are written in separate commits,
\* unless the engine was replaced in between.
AnalyticsAgree ==
    reader.kind = "analytics" /\ reader.step = "done" /\ Cardinality(reader.met) = 1 =>
        /\ Total(reader.exposure, "principals") = Total(reader.principals, "resources")
        /\ Total(reader.exposure, "privileged") = Total(reader.principals, "privileged")

\* What the pair of a principal and a resource permits in a graph.
Allowed(G, pair) == Permitted(EngineAccess[G], pair)

\* A drift tells exactly the pairs that can reach, can no longer reach, or reach
\* with other permissions in the later of two graphs, whichever of their rows were
\* carried over, recalculated, missing or about to be deleted.  It is lost with a
\* snapshot that retention deletes meanwhile, and where nobody has access at all.
DriftIsDifference ==
    reader.kind = "drift" /\ reader.step = "done" /\ ~ reader.lost =>
        LET new == reader.graphs[1]
            old == reader.graphs[2]
        IN  \/ EngineAccess[new] = {} \/ EngineAccess[old] = {}
            \/ ~ Undisputed(new) \/ ~ Undisputed(old)
            \/ \A pair \in PrincipalIds(new) \X ResourceIds(new) :
                  /\ pair \in reader.drift.added <=> Allowed(old, pair) = {} /\ Allowed(new, pair) # {}
                  /\ pair \in reader.drift.removed <=> Allowed(old, pair) # {} /\ Allowed(new, pair) = {}
                  /\ pair \in reader.drift.changed
                        <=> {} \notin {Allowed(old, pair), Allowed(new, pair)} /\ Allowed(old, pair) # Allowed(new, pair)

\* What is listed and ranked in several reads is complete and of one graph.
ListingsComplete == PagesComplete /\ AnalyticsAgree

\* After a chain of refreshes of which some broke off, and with retention deleting
\* what they built on, the tables of a snapshot agree at every moment: the totals
\* with the rows, the summary with the closures and access it vouches for.
TablesAgree == TotalsMatchRows /\ SummaryVouchesForClosures
=============================================================================
