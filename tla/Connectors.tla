----------------------------- MODULE Connectors -----------------------------
(***************************************************************************)
(* What the connectors make of the answers of a directory, Entra ID,       *)
(* Azure, Okta and CyberArk (backend/app/integration_collectors.py).       *)
(*                                                                         *)
(* An id a service gives is a model value.  An id of the product keeps the *)
(* beginning of the text it is made from: _stable_id cuts it after 42      *)
(* characters, which are 31 bytes.  Stem is what the id of an entity keeps *)
(* of the service's id, Trace what the id of an edge keeps of the id of    *)
(* its source, which comes first in its text; the target never fits in.    *)
(* label stands for the weight by which _merge_entities chooses.           *)
(***************************************************************************)
EXTENDS AccessGraph, Sequences, TLC

Seqs == INSTANCE SequencesExt

CONSTANTS
    Ready,          \* the connectors whose settings are there and valid
    Services,       \* what the services hold at each scan, a sequence of records
    Limit,          \* the caps on lists: EIP_LDAP_ENTRY_LIMIT and the like
    PrincipalKind,  \* for each principal of a service the kind it is given
    Withheld,       \* the rights of a safe's member that are not carried over
    Stem, Trace

Collectors == <<"ad-ldap", "entra-graph", "azure-rbac", "okta-ud", "cyberark-privileged">>

ASSUME ConnectorAssumption ==
    /\ Ready \subseteq {Collectors[n] : n \in DOMAIN Collectors}
    /\ \A cap \in DOMAIN Limit : Limit[cap] \in Nat \ {0}
    /\ \A raw \in DOMAIN PrincipalKind : PrincipalKind[raw] \in PRINCIPAL_KINDS

------------------------------------------------------------------------------
(* Ids, pages and bundles.                                                 *)

StableId(prefix, raw) == <<prefix, Stem[raw]>>
EdgeId(source) == <<"rel", source[1], Trace[source]>>

\* _paginated_get: page by page until the cap is reached.
Pages(list, cap) == SubSeq(list, 1, IF Len(list) < cap THEN Len(list) ELSE cap)

\* The edges each member of a list leads to, in the order of the list.
ForEach(list, EdgesOf(_)) == Seqs!FoldLeft(LAMBDA edges, x : edges \o EdgesOf(x), <<>>, list)
Listed(seq) == {seq[n] : n \in DOMAIN seq}

EntityOf(prefix, raw, kind, label) == [id |-> StableId(prefix, raw), kind |-> kind, label |-> label]

Edge(kind, source, target, permissions) ==
    [id |-> EdgeId(source), kind |-> kind, source |-> source, target |-> target,
     permissions |-> permissions, inherits |-> kind = "role_grant"]

\* What is left of permissions a service does not name.
OrElse(permissions, usual) == IF permissions = {} THEN {usual} ELSE permissions

\* A bundle as the merge reads it: of entities under one id the heaviest, of
\* edges under one id the last.
Bundle(found, edges, notes) ==
    [entities |->
        [id \in {e.id : e \in found} |->
            LET heaviest == CHOOSE e \in found : e.id = id /\ \A x \in found : x.id = id => x.label <= e.label
            IN  [kind |-> heaviest.kind, label |-> heaviest.label]],
     relationships |->
        {edges[n] : n \in {k \in DOMAIN edges : \A m \in DOMAIN edges : m > k => edges[m].id # edges[k].id}},
     notes |-> notes]

FailedBundle == Bundle({}, <<>>, {"failed"})

------------------------------------------------------------------------------
(* The connectors.                                                         *)

\* The groups a directory puts somebody in, through groups as well.
GroupsAbove(memberOf, x) ==
    LET up[k \in 0 .. Cardinality(DOMAIN memberOf)] ==
            IF k = 0 THEN memberOf[x]
            ELSE up[k - 1] \cup UNION {memberOf[g] : g \in up[k - 1]}
    IN  up[Cardinality(DOMAIN memberOf)]

\* _collect_ldap_bundle.  The first lookup of groups through groups that is
\* refused or raises is the last one: from there on memberOf has to do, as it
\* has for one that comes back empty for another reason.
LdapBundle(ldap, lost, empty) ==
    LET groups == Pages(ldap.groups, Limit.ldap)
        people == Pages(ldap.people, Limit.ldap)
        groupsOf(n) ==
            IF n < lost /\ n # empty THEN GroupsAbove(ldap.memberOf, people[n])
            ELSE ldap.memberOf[people[n]]
        edgesOf(n) ==
            LET known == Seqs!SetToSeq(groupsOf(n) \cap Listed(groups))
            IN  [k \in DOMAIN known |->
                    Edge("member_of", StableId("ad_principal", people[n]), StableId("ad_group", known[k]), {})]
    IN  Bundle({EntityOf("ad_group", g, "group", 0) : g \in Listed(groups)}
                 \cup {EntityOf("ad_principal", p, "user", 0) : p \in Listed(people)},
               ForEach([n \in DOMAIN people |-> n], edgesOf),
               IF \E n \in DOMAIN people : n >= lost /\ ldap.memberOf[people[n]] # {}
               THEN {"direct"} ELSE {})

\* The memberships of one user, asked for in a batch and, where the batch has
\* no answer, once more alone.
TransitiveGroups(graph, user) ==
    Pages(Seqs!SetToSeq(GroupsAbove(graph.memberOf, user)), Limit.graphGroups)

\* _collect_graph_bundle.  A group the list does not hold is entered when a
\* membership names it; those a site is shared with have entities of their own.
GraphBundle(graph) ==
    LET users == Pages(graph.users, Limit.graphUsers)
        groups == Pages(graph.groups, Limit.graphGroups)
        met == UNION {Listed(TransitiveGroups(graph, u)) : u \in Listed(users)}
        edgesOf(u) ==
            LET above == TransitiveGroups(graph, u)
            IN  [k \in DOMAIN above |->
                    Edge("member_of", StableId("graph_principal", u), StableId("graph_group", above[k]), {})]
        siteEdges(site) ==
            [k \in DOMAIN site.grants |->
                Edge("direct_acl", StableId("graph_permission_principal", site.grants[k].to),
                     StableId("graph_resource", site.id), OrElse(site.grants[k].roles, "Read"))]
    IN  Bundle({EntityOf("graph_group", g, "group", 0) : g \in Listed(groups) \cup met}
                 \cup {EntityOf("graph_principal", u, PrincipalKind[u], 0) : u \in Listed(users)}
                 \cup {EntityOf("graph_resource", s.id, "resource", 0) : s \in Listed(graph.sites)}
                 \cup UNION {{EntityOf("graph_permission_principal", x.to, PrincipalKind[x.to], 0) :
                                x \in Listed(s.grants)} : s \in Listed(graph.sites)},
               ForEach(users, edgesOf) \o ForEach(graph.sites, siteEdges),
               {cap \in {"users", "groups"} :
                  \/ cap = "users" /\ Len(users) >= Limit.graphUsers
                  \/ cap = "groups" /\ Len(groups) >= Limit.graphGroups})

\* _collect_azure_rbac_bundle: every assignment becomes a role of its own
\* between principal and scope.
AzureBundle(subscriptions) ==
    LET role(a) == StableId("azure_role_instance", a.id)
        edgesOf(a) ==
            <<Edge("assigned_role", StableId("cloud_principal", a.to), role(a), {}),
              Edge("role_grant", role(a), StableId("azure_resource", a.scope), OrElse(a.actions, a.role))>>
        assigned == UNION {Listed(s.assignments) : s \in Listed(subscriptions)}
    IN  Bundle({EntityOf("azure_resource", s.scope, "resource", 2) : s \in Listed(subscriptions)}
                 \cup {EntityOf("azure_resource", a.scope, "resource", 1) : a \in assigned}
                 \cup {EntityOf("cloud_principal", a.to, PrincipalKind[a.to], 0) : a \in assigned}
                 \cup {EntityOf("azure_role_instance", a.id, "role",
                             IF a.actions \cap Privileged # {} THEN 1 ELSE 0) : a \in assigned},
               ForEach(subscriptions, LAMBDA s : ForEach(s.assignments, edgesOf)), {})

\* _collect_okta_bundle.  The members of a group are not looked for among the
\* users of the list.
OktaBundle(okta) ==
    LET groups == Pages(okta.groups, Limit.oktaGroups)
        edgesOf(g) ==
            LET members == Pages(okta.members[g], Limit.oktaUsers)
            IN  [k \in DOMAIN members |->
                    Edge("member_of", StableId("okta_principal", members[k]), StableId("okta_group", g), {})]
    IN  Bundle({EntityOf("okta_group", g, "group", 0) : g \in Listed(groups)}
                 \cup {EntityOf("okta_principal", u, "user", 0) : u \in Listed(Pages(okta.users, Limit.oktaUsers))},
               ForEach(groups, edgesOf), {})

Rights(m) == OrElse(m.rights \ Withheld, "Member")

\* _collect_cyberark_bundle
CyberarkBundle(safes) ==
    LET listed == Pages(safes, Limit.safes)
        edgesOf(safe) ==
            [k \in DOMAIN safe.members |->
                Edge("direct_acl", StableId("cyberark_principal", safe.members[k].to),
                     StableId("cyberark_safe", safe.name), Rights(safe.members[k]))]
    IN  Bundle({EntityOf("cyberark_safe", s.name, "resource", 0) : s \in Listed(listed)}
                 \cup UNION {{EntityOf("cyberark_principal", m.to, PrincipalKind[m.to], 0) :
                                m \in Listed(s.members)} : s \in Listed(listed)},
               ForEach(listed, edgesOf), {})

------------------------------------------------------------------------------
(* A round of the connectors.                                              *)

\* What can go wrong: the connectors one of whose requests fails, the first
\* person whose lookup the directory refuses, and one whose lookup comes back
\* empty (0 for nobody).
Calm(services) == [failed |-> {}, lost |-> Len(services.ldap.people) + 1, empty |-> 0]

\* One of these at a time.
Outages(services) ==
    {[Calm(services) EXCEPT !.failed = {c}] : c \in Ready}
      \cup {[Calm(services) EXCEPT !.lost = n] : n \in DOMAIN services.ldap.people}
      \cup {[Calm(services) EXCEPT !.empty = n] : n \in DOMAIN services.ldap.people}

BundleOf(connector, services, outage) ==
    CASE connector \in outage.failed -> FailedBundle
      [] connector = "ad-ldap" -> LdapBundle(services.ldap, outage.lost, outage.empty)
      [] connector = "entra-graph" -> GraphBundle(services.graph)
      [] connector = "azure-rbac" -> AzureBundle(services.azure)
      [] connector = "okta-ud" -> OktaBundle(services.okta)
      [] OTHER -> CyberarkBundle(services.cyberark)

Asked == SelectSeq(Collectors, LAMBDA c : c \in Ready)

\* collect_configured_bundles: one after the other, those without their
\* settings left out.
ConfiguredBundles(services, outage) ==
    [n \in DOMAIN Asked |-> BundleOf(Asked[n], services, outage)]

------------------------------------------------------------------------------
(* What the bundles tell, held against what the services hold.             *)

\* Every edge is a fact [source, target, permissions], and every fact has an
\* edge, or has lost it to one whose id is the same.
Tells(b, facts) ==
    /\ \A rel \in b.relationships : <<rel.source, rel.target, rel.permissions>> \in facts
    /\ \A f \in facts : \E rel \in b.relationships : rel.id = EdgeId(f[1])

LdapFacts(ldap) ==
    UNION {{<<StableId("ad_principal", p), StableId("ad_group", g), {}>> :
              g \in GroupsAbove(ldap.memberOf, p) \cap Listed(Pages(ldap.groups, Limit.ldap))} :
           p \in Listed(Pages(ldap.people, Limit.ldap))}

\* Lookups that fail invent no groups; one that is refused may lose some, which
\* the bundle notes, and so may one that comes back empty, which it does not.
LdapTold(ldap, empty, b) ==
    /\ \A rel \in b.relationships : <<rel.source, rel.target, {}>> \in LdapFacts(ldap)
    /\ b.notes = {} =>
          \A f \in LdapFacts(ldap) :
              \/ \E rel \in b.relationships : rel.id = EdgeId(f[1])
              \/ empty # 0 /\ f[1] = StableId("ad_principal", ldap.people[empty])

GraphFacts(graph) ==
    (UNION {{<<StableId("graph_principal", u), StableId("graph_group", g), {}>> :
               g \in GroupsAbove(graph.memberOf, u)} : u \in Listed(graph.users)})
      \cup (UNION {{<<StableId("graph_permission_principal", x.to), StableId("graph_resource", s.id),
                      OrElse(x.roles, "Read")>> : x \in Listed(s.grants)} : s \in Listed(graph.sites)})

\* Nothing of a tenant is left out unless the bundle notes that a cap was met.
GraphTold(graph, b) ==
    /\ \A rel \in b.relationships : <<rel.source, rel.target, rel.permissions>> \in GraphFacts(graph)
    /\ b.notes = {} =>
          /\ Tells(b, GraphFacts(graph))
          /\ {StableId("graph_group", g) : g \in Listed(graph.groups)} \subseteq DOMAIN b.entities

Assignments(subscriptions) == UNION {Listed(s.assignments) : s \in Listed(subscriptions)}

\* Whoever is given a scope through a role was assigned to it there with these
\* actions, but where several assignments have come to be one role; and nobody
\* who was assigned anything is left without a role.
AzureTold(subscriptions, b) ==
    LET behind(role) == {a \in Assignments(subscriptions) : StableId("azure_role_instance", a.id) = role}
    IN  /\ \A rel, grant \in b.relationships :
              rel.kind = "assigned_role" /\ grant.kind = "role_grant" /\ grant.source = rel.target =>
                \/ \E a \in behind(rel.target) :
                      /\ rel.source = StableId("cloud_principal", a.to)
                      /\ grant.target = StableId("azure_resource", a.scope)
                      /\ grant.permissions = OrElse(a.actions, a.role)
                \/ Cardinality(behind(rel.target)) > 1
        /\ \A a \in Assignments(subscriptions) :
              \E rel \in b.relationships : rel.id = EdgeId(StableId("cloud_principal", a.to))

OktaFacts(okta) ==
    UNION {{<<StableId("okta_principal", m), StableId("okta_group", g), {}>> :
              m \in Listed(Pages(okta.members[g], Limit.oktaUsers))} :
           g \in Listed(Pages(okta.groups, Limit.oktaGroups))}

CyberarkFacts(safes) ==
    UNION {{<<StableId("cyberark_principal", m.to), StableId("cyberark_safe", s.name), Rights(m)>> :
              m \in Listed(s.members)} : s \in Listed(Pages(safes, Limit.safes))}

ToldBy(connector, services, outage, b) ==
    CASE connector \in outage.failed -> b = FailedBundle
      [] connector = "ad-ldap" -> LdapTold(services.ldap, outage.empty, b)
      [] connector = "entra-graph" -> GraphTold(services.graph, b)
      [] connector = "azure-rbac" -> AzureTold(services.azure, b)
      [] connector = "okta-ud" -> Tells(b, OktaFacts(services.okta))
      [] OTHER -> Tells(b, CyberarkFacts(services.cyberark))

\* The members of an Okta group that the capped list of users does not hold:
\* the only ends of edges that are no entities.
Unlisted(okta) ==
    {StableId("okta_principal", m) : m \in UNION {Listed(okta.members[g]) : g \in Listed(okta.groups)}}
      \ {StableId("okta_principal", u) : u \in Listed(Pages(okta.users, Limit.oktaUsers))}
=============================================================================
