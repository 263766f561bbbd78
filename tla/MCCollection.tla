---------------------------- MODULE MCCollection ----------------------------
(* A directory with a note and a hidden object, scanned twice over by local  *)
(* targets, a remote host, an account with a group of its name, five         *)
(* connectors whose services grow beyond their caps between the two scans,   *)
(* and two imported sources that use the same ids.                           *)
EXTENDS Collection, TLC

CONSTANTS top, docs, note, dot, srv

MCObject == {top, docs, note, dot, srv}
MCAbove == [o \in MCObject |-> CASE o \in {top, docs} -> top [] o \in {note, dot} -> docs [] OTHER -> srv]
MCLayouts == {MCObject, {top, srv}}

Line(tag, subject, permissions) == [tag |-> tag, subject |-> subject, permissions |-> permissions]
Private == {Line("user", "", {"r", "w"}), Line("group", "", {"r"}), Line("other", "", {})}
Shared == {Line("user", "", {"r", "w"}), Line("user", "bob", {"w"}), Line("group", "", {}),
           Line("mask", "", {"r"}), Line("other", "", {"r"})}
MCAcl == {Private, Shared}

MCRoot == <<docs, top, srv>>
MCDepth == <<1, 2, 0>>
MCMaxItems == <<5, 2, 2>>
MCSelections == {{1, 2}, {3}}
MCOwner == [o \in MCObject |-> "ann"]
MCGroup == [o \in MCObject |-> "staff"]
MCMember == {<<"ann", "staff">>, <<"ann", "ann">>, <<"staff", "all">>}

Share(id, parent) ==
    [entities |-> [e \in {<<"own", parent>>, <<"own", "x">>} |-> [kind |-> "resource", label |-> 0]],
     relationships |-> {[id |-> <<"own", id>>, kind |-> "contains", source |-> <<"own", parent>>, target |-> <<"own", "x">>,
                         permissions |-> {}, inherits |-> FALSE]}]
\* eve is in gA through a group that the cap on groups cuts off, and so is known
\* to be in it only as long as the directory looks groups up.
MCLimit == [ldap |-> 2, graphUsers |-> 3, graphGroups |-> 2, oktaUsers |-> 2, oktaGroups |-> 1, safes |-> 2]
Above3 == [x \in {"ann", "eve", "gA", "gB", "gC"} |->
             CASE x = "ann" -> {"gA"} [] x = "gA" -> {"gB"} [] x = "eve" -> {"gC"} [] x = "gC" -> {"gA"} [] OTHER -> {}]
Tenant(users, groups) ==
    [users |-> users, groups |-> groups,
     memberOf |-> [x \in {"u1", "u2", "t1", "t2", "t3"} |-> CASE x = "u1" -> {"t1"} [] x = "t1" -> {"t2"} [] OTHER -> {}],
     sites |-> <<[id |-> "site", grants |-> <<[to |-> "x1", roles |-> {"w"}], [to |-> "x2", roles |-> {}]>>]>>]
Assigned(id, to, scope, actions) == [id |-> id, to |-> to, scope |-> scope, actions |-> actions, role |-> "Custom"]
Safe(name, members) == [name |-> name, members |-> members]
Adm(rights) == [to |-> "adm", rights |-> rights]

MCServices ==
    <<[ldap |-> [groups |-> <<"gA", "gB", "gC">>, people |-> <<"ann", "eve">>, memberOf |-> Above3],
       graph |-> Tenant(<<"u1", "u2">>, <<"t1">>),
       azure |-> <<[scope |-> "subA", assignments |-> <<Assigned("A1", "op", "rgA", {"w"})>>]>>,
       okta |-> [groups |-> <<"k1">>, users |-> <<"o1", "o2">>, members |-> [g \in {"k1"} |-> <<"o1", "o2">>]],
       cyberark |-> <<Safe("s1", <<Adm({"r"}), [to |-> "ops", rights |-> {"w", "use"}]>>)>>],
      [ldap |-> [groups |-> <<"gB", "gA", "gC">>, people |-> <<"eve", "ann">>, memberOf |-> Above3],
       graph |-> Tenant(<<"u1", "u2">>, <<"t2", "t1", "t3">>),
       azure |-> <<[scope |-> "subB", assignments |-> <<Assigned("B1", "op", "subB", {})>>],
                   [scope |-> "subA", assignments |->
                       <<Assigned("A1", "op", "rgA", {"w"}), Assigned("A2", "dev", "subA", {})>>]>>,
       okta |-> [groups |-> <<"k1", "k2">>, users |-> <<"o1", "o2", "o3">>,
                 members |-> [g \in {"k1", "k2"} |-> <<"o3", "o2", "o1">>]],
       cyberark |-> <<Safe("s1", <<Adm({"r"})>>), Safe("s2", <<Adm({"use"})>>), Safe("s3", <<Adm({"w"})>>)>>]>>

MCPrincipalKind ==
    [p \in {"u1", "u2", "x1", "x2", "op", "dev", "adm", "ops"} |->
        IF p = "op" THEN "service_account" ELSE IF p \in {"x2", "ops"} THEN "group" ELSE "user"]

\* All scopes and assignments of a subscription begin with the same 31 bytes.
Raw == {"ann", "eve", "gA", "gB", "gC", "site", "t1", "t2", "t3", "subA", "subB", "rgA", "A1", "A2", "B1",
        "k1", "k2", "o1", "o2", "o3", "s1", "s2", "s3"} \cup DOMAIN MCPrincipalKind
MCStem == [x \in Raw |-> IF x \in {"rgA", "A1", "A2"} THEN "subA" ELSE IF x = "B1" THEN "subB" ELSE x]
MCTrace ==
    [id \in {"ad_principal", "graph_principal", "graph_permission_principal", "cloud_principal",
             "azure_role_instance", "okta_principal", "cyberark_principal"} \X Raw |->
        IF id[1] \in {"azure_role_instance", "graph_permission_principal"} THEN "first" ELSE id[2]]

MCImported == <<[id |-> "imp1", enabled |-> TRUE, bundle |-> Share(1, "p")],
                [id |-> "imp2", enabled |-> TRUE, bundle |-> Share(2, "q")]>>

MCPermission == {"r", "w", "use", "Read", "Member", "Custom"}
People == {PrincipalId(n) : n \in {"ann", "bob", "root", "staff", "all", "Everyone", "user", "group", "mask"}}
Objects == {ResourceId(o) : o \in MCObject}

\* The ids the connectors make of these, and the edges they can draw.
Cloud(prefix, raws) == {StableId(prefix, raw) : raw \in raws}
Joins(kind, sources, targets, permissions) ==
    {Edge(kind, s, t, p) : s \in sources, t \in targets, p \in permissions}
Okta == Cloud("okta_principal", {"o1", "o2", "o3"})
Role == Cloud("azure_role_instance", {"A1", "B1"})
Scope == Cloud("azure_resource", {"subA", "subB"})
MCEdges ==
    Joins("member_of", Cloud("ad_principal", {"ann", "eve"}), Cloud("ad_group", {"gA", "gB"}), {{}})
      \cup Joins("member_of", Cloud("graph_principal", {"u1", "u2"}), Cloud("graph_group", {"t1", "t2"}), {{}})
      \cup Joins("direct_acl", Cloud("graph_permission_principal", {"x1", "x2"}),
                 Cloud("graph_resource", {"site"}), {{"w"}, {"Read"}})
      \cup Joins("assigned_role", Cloud("cloud_principal", {"op", "dev"}), Role, {{}})
      \cup Joins("role_grant", Role, Scope, {{"w"}, {"Custom"}})
      \cup Joins("member_of", Okta, Cloud("okta_group", {"k1"}), {{}})
      \cup Joins("direct_acl", Cloud("cyberark_principal", {"adm", "ops"}),
                 Cloud("cyberark_safe", {"s1", "s2"}), {{"r"}, {"w"}, {"Member"}})
Ends ==
    People \cup Objects \cup Scope \cup Okta \cup {e.source : e \in MCEdges} \cup {e.target : e \in MCEdges}
      \cup {<<"own", e>> : e \in {"p", "q", "x"}}
      \cup {<<s, <<"own", e>>>> : s \in {"imp1", "imp2"}, e \in {"p", "q", "x"}}
Edges ==
    {Rel(k, s, t, {}) : k \in {"member_of", "nested_group"}, s \in People, t \in People}
      \cup {Rel("contains", s, t, {}) : s \in Objects, t \in Objects}
      \cup {Rel("direct_acl", s, t, p) : s \in People, t \in Objects, p \in SUBSET {"r", "w"}}
      \cup MCEdges \cup UNION {OfSource(s).relationships \cup s.bundle.relationships : s \in Listed(MCImported)}

\* TLC evaluates a definition once, but one that replaces a constant at each use.
MCEntity == Ends
MCRelationship == Edges
=============================================================================
