-------------------------- MODULE ReviewCampaigns --------------------------
(***************************************************************************)
(* Access reviews, and the questions that are asked beside them            *)
(* (backend/app/governance.py, the review part of runtime.py, the two      *)
(* review tables of storage.py).                                           *)
(* A campaign is made of rows of the access index, with an edge to remove  *)
(* suggested for each of them; its items are decided one by one.  Requests *)
(* ask self.engine several times, and a scan can replace it in between.    *)
(*                                                                         *)
(* A snapshot is named by its number, which stands for its generated_at;   *)
(* the newest is the engine's.  Items are kept in memory as they are in    *)
(* the table; notes and times of decisions are left out.                   *)
(***************************************************************************)
EXTENDS AccessInsights, IdentityClusters

CONSTANTS
    FirstWorlds, NextWorlds, \* the graphs of the first and of later snapshots
    Payloads,                \* requests: [minRisk, privilegedOnly, maxItems]
    Limits,                  \* how many risk findings are asked for
    AccountNames,            \* the names and sources that accounts can have
    MaxSnapshots, MaxCampaigns \* bounds

NONE == 0   \* no edge, no rows
DECISIONS == {"pending", "decided", "needs_follow_up"}   \* decided: keep or revoke

ASSUME WorldAssumption ==
    /\ \A G \in FirstWorlds \cup NextWorlds : WellFormed(G) /\ IsFiniteSet(G.relationships)
    /\ \A rel \in Relationship : rel.id \in Nat \ {NONE}
    /\ Limits \subseteq Nat
    /\ \A q \in Payloads : q.maxItems > 0

ASSUME BoundAssumption == MaxSnapshots \in Nat \ {0} /\ MaxCampaigns \in Nat

VARIABLES
    snapshots, \* the graphs of the snapshots
    index,     \* access_index: under each snapshot the number of the one its rows are of
    refreshed, \* the snapshots all of whose tables a refresh has stored
    request,   \* the creation of a campaign that is under way
    campaigns, \* the tables access_review_campaigns and access_review_items
    asked,     \* the last question with its answer
    raced      \* history: rows were stored by a request that a scan had met

vars == <<snapshots, index, refreshed, request, campaigns, asked, raced>>

Newest == Len(snapshots)
Engine == snapshots[Newest]

NoRequest == [step |-> "none", payload |-> NONE, rows |-> NONE, items |-> {}, met |-> FALSE]

EdgesById(G, id) == {rel \in G.relationships : rel.id = id}

------------------------------------------------------------------------------
(* Scans replace the engine, then refresh the index, or fail to.           *)

\* A request that is under way has been met by a scan.
Scan ==
    /\ Newest < MaxSnapshots
    /\ \E G \in NextWorlds : snapshots' = Append(snapshots, G)
    /\ request' = IF request.step = "none" THEN request ELSE [request EXCEPT !.met = TRUE]
    /\ asked' = {}
    /\ UNCHANGED <<index, refreshed, campaigns, raced>>

\* ensure_indexes writes the rows unless all of the tables are there.
RefreshIndex ==
    /\ Newest \notin refreshed
    /\ refreshed' = refreshed \cup {Newest}
    /\ index' = [index EXCEPT ![Newest] = Newest]
    /\ asked' = {}
    /\ UNCHANGED <<snapshots, request, campaigns, raced>>

------------------------------------------------------------------------------
(* create_access_review                                                    *)

Requests(r) == request' = r /\ asked' = {} /\ UNCHANGED <<snapshots, refreshed, campaigns>>

\* The rows that are stored under the engine's snapshot, if there are any.  Rows
\* that are another's were left by a request that was met.
ReadRows ==
    /\ request.step = "none" /\ Len(campaigns) < MaxCampaigns
    /\ \E q \in Payloads :
          Requests([NoRequest EXCEPT !.payload = q, !.rows = index[Newest],
                                     !.met = index[Newest] \notin {NONE, Newest},
                                     !.step = IF index[Newest] = NONE THEN "compute" ELSE "build"])
    /\ UNCHANGED <<index, raced>>

ComputeRows ==
    /\ request.step = "compute"
    /\ Requests([request EXCEPT !.rows = Newest, !.step = "save"])
    /\ UNCHANGED <<index, raced>>

\* The stamp is read again: the rows may be those of an engine that is gone.
SaveRows ==
    /\ request.step = "save"
    /\ index' = [index EXCEPT ![Newest] = request.rows]
    /\ raced' = (raced \/ request.met)
    /\ Requests([request EXCEPT !.step = "build"])

\* Mutant: the first removable edge of any path to the resource.
SuggestionsOfResource(G, p, r) ==
    {e.id : e \in {x \in UNION {ExplainedEdges(entry) : entry \in FullMap(G, {})} :
                       x.removable /\ \E entry \in FullMap(G, {}) :
                          entry.resource = r /\ x \in ExplainedEdges(entry)}}

\* The removable edges of the first kept path that has one, the first of them
\* on that path; none if there is no path, or none is removable.
Suggestions(G, p, r) ==
    LET FirstRemovable(path) ==
          {path.edges[n].id : n \in {m \in DOMAIN path.edges :
              path.edges[m].removable /\ \A l \in 1 .. m - 1 : ~ path.edges[l].removable}}
    IN  UNION {{id \in UNION {FirstRemovable(entry.paths[n]) : n \in DOMAIN entry.paths} :
                  \E n \in DOMAIN entry.paths :
                     /\ id \in FirstRemovable(entry.paths[n])
                     /\ \A m \in 1 .. n - 1 : FirstRemovable(entry.paths[m]) = {}} :
               entry \in Explain(G, p, r)}

Item(G, row) ==
    LET ids == Suggestions(G, row.principal, row.resource)
    IN  [principal |-> row.principal, resource |-> row.resource, permissions |-> row.permissions,
         edge |-> IF ids = {} THEN NONE ELSE CHOOSE id \in ids : TRUE, decision |-> "pending"]

Matching(rows, q) ==
    {row \in rows : row.risk >= q.minRisk
                    /\ (q.privilegedOnly => row.permissions \cap Privileged # {})}

\* The first of them, the riskiest first.
Cut(rows, n) ==
    {S \in SUBSET rows :
        /\ Cardinality(S) = FSets!Min({n, Cardinality(rows)})
        /\ \A s \in S, t \in rows \ S : s.risk >= t.risk}

\* build_review_candidates; without candidates the request is refused.
BuildCandidates ==
    /\ request.step = "build"
    /\ \E S \in Cut(Matching(PathRows(snapshots[request.rows]), request.payload), request.payload.maxItems) :
          Requests(IF S = {} THEN NoRequest
                   ELSE [request EXCEPT !.step = "store", !.items = {Item(Engine, row) : row \in S}])
    /\ UNCHANGED <<index, raced>>

\* storage.create_access_review_campaign, under the stamp of the engine by now.
StoreCampaign ==
    /\ request.step = "store"
    /\ campaigns' = Append(campaigns, [stamp |-> Newest, status |-> "open",
                                       items |-> request.items, met |-> request.met])
    /\ request' = NoRequest
    /\ asked' = {}
    /\ UNCHANGED <<snapshots, index, refreshed, raced>>

------------------------------------------------------------------------------
(* Decisions, and what is told of an item.                                 *)

StatusOf(items) ==
    IF items # {} /\ \A i \in items : i.decision # "pending" THEN "completed" ELSE "open"

\* A list of campaigns whose items are still to be counted.
Unfinished(a) == a.kind = "list" /\ Len(a.pending) < Len(a.status)

\* A list of campaigns that is being read has met a decision.
MetLists == {[a EXCEPT !.met = TRUE] : a \in {x \in asked : Unfinished(x)}}

\* Mutant: a campaign that is completed stays so.
DecideOnce(c, item, decision) ==
    LET items == (campaigns[c].items \ {item}) \cup {[item EXCEPT !.decision = decision]}
    IN  /\ campaigns' = [campaigns EXCEPT ![c].items = items,
              ![c].status = IF @ = "completed" THEN @ ELSE StatusOf(items)]
        /\ asked' = MetLists
        /\ UNCHANGED <<snapshots, index, refreshed, request, raced>>

\* storage.update_access_review_decision: one transaction under the lock.
Decide(c, item, decision) ==
    LET items == (campaigns[c].items \ {item}) \cup {[item EXCEPT !.decision = decision]}
    IN  /\ campaigns' = [campaigns EXCEPT ![c].items = items, ![c].status = StatusOf(items)]
        /\ asked' = MetLists
        /\ UNCHANGED <<snapshots, index, refreshed, request, raced>>

\* remediation_plan_for_item, with the engine of the moment: the edge may be
\* unknown to it by now, or no longer removable.
Plan(item) ==
    IF item.edge = NONE THEN {}
    ELSE {Simulate(Engine, e) : e \in {x \in EdgesById(Engine, item.edge) : x.removable}}

------------------------------------------------------------------------------
(* Questions to the engine of the moment, one at a time and before there   *)
(* is a campaign, as no answer depends on campaigns.  Those whose answer   *)
(* depends on the graph alone are asked of the first snapshot.             *)

MayAsk == request.step = "none" /\ campaigns = <<>> /\ asked = {}

Ask(question) ==
    /\ MayAsk
    /\ asked' = {question}
    /\ UNCHANGED <<snapshots, index, refreshed, request, campaigns, raced>>

AskOfGraph(question) == Newest = 1 /\ refreshed = {} /\ Ask(question)

AskWhatIf(e) ==
    /\ e.removable
    /\ LET answer == Simulate(Engine, e)
           focus == Focus(answer.diff)
       IN  AskOfGraph([kind |-> "whatif", edge |-> e, answer |-> answer,
                blast |-> TopBlast(answer.diff, ShownImpacts), focus |-> focus,
                before |-> FocusAccess(Engine, {}, focus), after |-> FocusAccess(Engine, {e}, focus)])

AskOverview == AskOfGraph([kind |-> "overview", answer |-> Overview(Engine)])

\* list_findings takes the rows that are stored under the engine's snapshot, or
\* computes them.
AskRisks(limit) ==
    /\ MayAsk
    /\ LET rows == PathRows(snapshots[IF index[Newest] = NONE THEN Newest ELSE index[Newest]])
       IN  \E findings \in Findings(Engine, rows, limit) :
              Ask([kind |-> "risks", limit |-> limit, findings |-> findings])

\* The accounts have any names.
AskClusters(account) ==
    AskOfGraph([kind |-> "clusters", account |-> account, answer |-> Clusters(Engine, account)])

------------------------------------------------------------------------------
(* get_access_review: the campaign and its items are read under the lock,  *)
(* the entities are those of the engine of the moment.  Beside it          *)
(* list_access_review_campaigns, which reads the campaigns under the lock, *)
(* then the items of each without it.                                      *)

PendingOf(items) == Cardinality({i \in items : i.decision = "pending"})

\* _resolve_summary: what the engine does not know is of the past.
Resolved(id) == IF id \in DOMAIN Engine.entities THEN "engine" ELSE "historical"

AskCampaign(c) ==
    LET items == campaigns[c].items
        ids == {i.principal : i \in items} \cup {i.resource : i \in items}
    IN  /\ asked = {}
        /\ asked' = {[kind |-> "campaign", id |-> c, status |-> campaigns[c].status,
                      pending |-> PendingOf(items), sources |-> [id \in ids |-> Resolved(id)]]}
        /\ UNCHANGED <<snapshots, index, refreshed, request, campaigns, raced>>

AskList ==
    /\ campaigns # <<>> /\ asked = {}
    /\ asked' = {[kind |-> "list", status |-> [c \in DOMAIN campaigns |-> campaigns[c].status],
                  pending |-> <<>>, met |-> FALSE]}
    /\ UNCHANGED <<snapshots, index, refreshed, request, campaigns, raced>>

\* Mutant: who follows up is counted with the pending.
CountUndecided ==
    \E a \in asked :
        /\ Unfinished(a)
        /\ asked' = {[a EXCEPT !.pending = Append(@, Cardinality(
               {i \in campaigns[Len(@) + 1].items : i.decision \in {"pending", "needs_follow_up"}}))]}
        /\ UNCHANGED <<snapshots, index, refreshed, request, campaigns, raced>>

\* _row_to_access_review_campaign_summary
CountPending ==
    \E a \in asked :
        /\ Unfinished(a)
        /\ asked' = {[a EXCEPT !.pending = Append(@, PendingOf(campaigns[Len(@) + 1].items))]}
        /\ UNCHANGED <<snapshots, index, refreshed, request, campaigns, raced>>

------------------------------------------------------------------------------
Init ==
    /\ \E G \in FirstWorlds : snapshots = <<G>>
    /\ index = [n \in 1 .. MaxSnapshots |-> NONE]
    /\ refreshed = {}
    /\ request = NoRequest
    /\ campaigns = <<>>
    /\ asked = {}
    /\ raced = FALSE

Next ==
    \/ Scan \/ RefreshIndex
    \/ ReadRows \/ ComputeRows \/ SaveRows \/ BuildCandidates \/ StoreCampaign
    \/ \E c \in DOMAIN campaigns : \E item \in campaigns[c].items :
          \E decision \in DECISIONS \ {item.decision} : Decide(c, item, decision)
    \/ \E e \in Engine.relationships : AskWhatIf(e)
    \/ AskOverview
    \/ \E limit \in Limits : AskRisks(limit)
    \/ \E account \in AccountNames : AskClusters(account)
    \/ \E c \in DOMAIN campaigns : AskCampaign(c)
    \/ AskList \/ CountPending

Spec == Init /\ [][Next]_vars

------------------------------------------------------------------------------
(* Properties.                                                             *)

\* What the tables and a request hold, and that a pair has one item.
TypeOK ==
    /\ Newest \in 1 .. MaxSnapshots
    /\ index \in [1 .. MaxSnapshots -> 0 .. Newest]
    /\ request.step \in {"none", "compute", "save", "build", "store"}
    /\ request.rows \in 0 .. Newest /\ request.met \in BOOLEAN
    /\ refreshed \subseteq 1 .. Newest /\ raced \in BOOLEAN
    /\ \A c \in DOMAIN campaigns :
          /\ campaigns[c].status \in {"open", "completed"} /\ campaigns[c].stamp \in 1 .. Newest
          /\ campaigns[c].items # {}
          /\ \A i, j \in campaigns[c].items :
                i.principal = j.principal /\ i.resource = j.resource => i = j

\* A campaign is completed exactly while all of its items are decided, also
\* when a decision is taken back.
\* The code: storage.update_access_review_decision.
StatusFollowsDecisions ==
    \A c \in DOMAIN campaigns : campaigns[c].status = StatusOf(campaigns[c].items)

\* A campaign tells of the snapshot it names: its items are access rows of that
\* snapshot, and an edge that is suggested is removable there and lies on a path
\* that is told of the pair.  Except: a scan came in between (request.met), as
\* create_access_review asks for the engine four times, or had come between the
\* rows and the table of an earlier request.
CampaignOfOneSnapshot ==
    \A c \in DOMAIN campaigns :
        LET G == snapshots[campaigns[c].stamp]
        IN  ~ campaigns[c].met =>
              \A i \in campaigns[c].items :
                 /\ \E row \in AccessIndexForScope(G, {i.principal}, {i.resource}) :
                       i.permissions \subseteq row.permissions
                 /\ i.edge # NONE =>
                       \E e \in EdgesById(G, i.edge) : \E entry \in Explain(G, i.principal, i.resource) :
                          e.removable /\ e \in ExplainedEdges(entry)

\* The rows stored under a snapshot are its own, whoever stored them.  Except: a
\* request that computed rows was met by a scan before it stored them, as
\* create_access_review names the engine twice in one line.
IndexOfItsSnapshot == ~ raced => \A n \in 1 .. MaxSnapshots : index[n] \in {NONE, n}

\* While the snapshot of a campaign is the engine's, the plan for an item with a
\* suggestion can be had, and the pair is among those it works out: without the
\* edge a path of the pair is gone.  Except: containment, which no removal undoes.
PlanStands ==
    \A c \in DOMAIN campaigns : ~ campaigns[c].met /\ campaigns[c].stamp = Newest =>
        \A i \in campaigns[c].items : i.edge # NONE =>
            /\ Plan(i) # {}
            /\ \A e \in EdgesById(Engine, i.edge) : e.kind # "contains" =>
                  /\ i.principal \in ImpactedPrincipals(Engine, e)
                  /\ i.resource \in ImpactedResources(Engine, e)
                  /\ \E path \in PairPaths(Engine, {}, i.principal, i.resource) :
                        e \in Steps(path.edges)

Without(G, e) == [G EXCEPT !.relationships = @ \ {e}]

\* The permissions a pair loses when an edge goes, by the definition of access.
Lost(G, e) ==
    {d \in {[principal |-> row.principal, resource |-> row.resource,
             removed |-> row.permissions \ UNION {x.permissions :
                 x \in {y \in AccessIndex(Without(G, e)) :
                           y.principal = row.principal /\ y.resource = row.resource}}] :
                row \in AccessIndex(G)} : d.removed # {}}

Asked(kind) == {a \in asked : a.kind = kind}

\* A what-if answer from the pairs the edge can touch is the answer from all
\* pairs; what it shows of one resource before and after is that difference; and
\* where no pair has more paths than are kept, it tells exactly what is lost
\* without the edge.  Except: containment, which is not undone; and a pair that has
\* more paths than are kept once the edge is gone, on a resource a deny names: a
\* deny that goes with the edge gives paths that push others out.
\* The code: simulate_edge_removal, _impacted_principal_ids_for_relationship,
\* _impact_surface_for_relationship.
WhatIfExact ==
    \A a \in Asked("whatif") :
        LET all == FullMap(Engine, {})
            after == FullMap(Engine, {a.edge})
        IN  /\ (\A entry \in after : entry.count <= Kept \/ entry.resource \in Undenied(Engine))
                  => a.answer = WhatIfOf(all, after)
            /\ Diff(a.before, a.after) = {d \in a.answer.diff : d.resource \in a.focus}
            /\ a.edge.kind # "contains" /\ (\A entry \in all \cup after : entry.count <= Kept)
                  => a.answer.diff = Lost(Engine, a.edge)

\* What is told from paths is the access of AccessGraph: the same pairs, and for
\* a pair no permission that it has not, and all of them if all its paths are kept.
\* The code: _materialize_effective_access_map with its paths[:6].
PathsTellAccess ==
    Asked("whatif") # {} =>
        LET rows == AccessIndex(Engine)
            all == FullMap(Engine, {})
        IN  /\ PairsOf(all) = {<<row.principal, row.resource>> : row \in rows}
            /\ \A entry \in all, row \in rows :
                  entry.principal = row.principal /\ entry.resource = row.resource =>
                     /\ entry.permissions \subseteq row.permissions
                     /\ entry.count <= Kept => entry.permissions = row.permissions

\* The pairs whose paths are all kept, or have none: for them paths and access agree.
Whole(G, p, r) == Cardinality(PairPaths(G, {}, p, r)) <= Kept

\* The overview counts privileged principals of a resource as the exposure index
\* does, and leaves out no resource that is as exposed as one it shows.  Except: a
\* pair of the resource has more paths than are kept.
\* The code: _build_hotspots against resource_exposure_index.
HotspotsTellExposure ==
    \A a \in Asked("overview") : \A row \in ExposureIndex(AccessIndex(Engine)) :
        (\A p \in PrincipalIds(Engine) : Whole(Engine, p, row.resource)) =>
            LET shown == {s \in a.answer.hotspots : s.resource = row.resource}
            IN  IF shown # {} THEN \A s \in shown : s.privileged = row.privileged
                ELSE \/ row.privileged = 0
                     \/ /\ Cardinality(a.answer.hotspots) >= ShownSpots
                        /\ \A s \in a.answer.hotspots :
                              Exposure(Engine, s) >= Exposure(Engine, [s EXCEPT !.resource = row.resource,
                                                              !.privileged = row.privileged, !.delegated = 0])

\* An edge whose removal takes access from somebody is offered as a scenario, unless
\* the list is full of others that concern as many; all who lose are among the
\* principals it counts, and what they lose it on is in the reach its focus is of.
\* Except: containment.
\* The code: _build_scenarios against simulate_edge_removal.
ScenariosTellLosses ==
    \A a \in Asked("overview") : \A e \in Engine.relationships :
        LET lost == Lost(Engine, e)
            losers == {d.principal : d \in lost}
            offered == {s \in a.answer.scenarios : s.edge = e}
        IN  e.removable /\ e.kind # "contains" /\ lost # {} =>
              IF offered # {}
              THEN \A s \in offered : losers \subseteq s.principals /\ {d.resource : d \in lost} \subseteq s.resources
              ELSE /\ Cardinality(a.answer.scenarios) >= ShownScenarios
                   /\ \A s \in a.answer.scenarios : Cardinality(s.principals) >= Cardinality(losers)

\* A principal is granted a resource through deeply nested groups alone, and
\* through one that it acts as because of the nesting.
GrantedBy(G, p, r) == {g.source : g \in EffectiveGrants(G, Reach(G, p), r)}
DepthsTo(G, p, g) == {row.depth : row \in {x \in GroupClosureRows(G, p) : x.group = g}}

DeepOnly(G, p, r) ==
    /\ \A g \in GrantedBy(G, p, r) : \E depth \in DepthsTo(G, p, g) : depth >= Floor.nesting
    /\ \E g \in GrantedBy(G, p, r) : \E depth \in DepthsTo(G, p, g) : depth <= ReachDepth

\* The findings report only access that is there, and when they are fewer than the
\* limit, all privileged access and everybody who is granted something only through
\* deeply nested groups.  Except: a pair has more paths than are kept, groups that
\* are nested deeper than an actor acts, and rows that a request had stored under
\* the wrong snapshot.
\* The code: list_findings against the access and the closure of groups.
RisksTellAccess ==
    ~ raced => \A a \in Asked("risks") :
        LET rows == AccessIndex(Engine)
            Told(categories) == {f.subject : f \in {x \in a.findings : x.category \in categories}}
        IN  /\ Told({"direct", "indirect", "opaque", "nesting"}) \subseteq {<<row.principal, row.resource>> : row \in rows}
            /\ Cardinality(a.findings) < a.limit =>
                  \A row \in rows : Whole(Engine, row.principal, row.resource) =>
                     /\ IsPrivileged(row) => <<row.principal, row.resource>> \in Told({"direct", "indirect"})
                     /\ DeepOnly(Engine, row.principal, row.resource) => <<row.principal, row.resource>> \in Told({"nesting"})

\* Two accounts are linked if no set of accounts that keys do not leave has one
\* without the other.
Linked(G, account, a, b) ==
    LET buckets == {bucket \in {Bucket(G, account, key) : key \in AllKeys(G, account)} : Joins(account, bucket)}
    IN  \A S \in SUBSET Accounts(G) :
           a \in S /\ (\A bucket \in buckets : bucket \subseteq S \/ bucket \cap S = {}) => b \in S

\* Accounts are in one cluster exactly if a chain of keys links them, whatever the
\* order in which keys join them; each shares a key with another of its cluster; and
\* the cluster may do what its members may.  Except: a pair has more paths than are kept.
\* The code: _materialize_identity_clusters, _build_identity_cluster_resources.
ClustersAreComponents ==
    \A a \in Asked("clusters") :
        /\ \A x, y \in Accounts(Engine) : x # y =>
              (Linked(Engine, a.account, x, y) <=> \E c \in a.answer : {x, y} \subseteq c.members)
        /\ \A c \in a.answer : \A x \in c.members : c.matching[x] # {}
        /\ \A c \in a.answer : \A r \in ResourceIds(Engine) :
              (\A x \in c.members : Whole(Engine, x, r)) =>
                 UNION {res.permissions : res \in {z \in c.resources : z.resource = r}}
                   = UNION {row.permissions : row \in {z \in AccessIndex(Engine) : z.principal \in c.members /\ z.resource = r}}

\* A campaign is shown as completed exactly if none of its items is counted as
\* pending, in a list unless a decision came in between; and while its snapshot is
\* the engine's, nothing in it is shown as of the past.
\* The code: storage.get_access_review_campaign, enrich_campaign_detail, and
\* storage.list_access_review_campaigns, which counts without the lock.
ReviewsAreTold ==
    /\ \A a \in Asked("list") : ~ a.met =>
          \A c \in DOMAIN a.pending : a.status[c] = "completed" <=> a.pending[c] = 0
    /\ \A a \in Asked("campaign") :
          /\ a.status = "completed" <=> a.pending = 0
          /\ campaigns[a.id].stamp = Newest /\ ~ campaigns[a.id].met =>
                \A id \in DOMAIN a.sources : a.sources[id] = "engine"

\* Tables and requests have their types, and a campaign's status is that of its items.
CampaignsInv == TypeOK /\ StatusFollowsDecisions

\* What a review creates, its campaign and the rows it stores on the way, is of the
\* snapshot it is filed under.
ReviewsOfOneSnapshot == CampaignOfOneSnapshot /\ IndexOfItsSnapshot

\* What is told from the paths that are kept agrees with access as AccessGraph
\* defines it: the pairs and permissions, the most exposed resources, the edges
\* worth removing and the findings.
InsightsTellAccess ==
    PathsTellAccess /\ HotspotsTellExposure /\ ScenariosTellLosses /\ RisksTellAccess
=============================================================================
