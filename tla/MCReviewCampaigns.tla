-------------------------- MODULE MCReviewCampaigns --------------------------
(* ann in a team in a dept, an operator's role of the team, bob as her        *)
(* delegate, a folder with a file that the team may be denied to write.       *)
EXTENDS ReviewCampaigns, TLC

CONSTANTS ann, bob, cal, dan, team, dept, ops, folder, file

Edge(id, kind, source, target, permissions, inherits, removable) ==
    [id |-> id, kind |-> kind, source |-> source, target |-> target, permissions |-> permissions,
     inherits |-> inherits, temporary |-> FALSE, removable |-> removable]

annInTeam   == Edge(1, "member_of", ann, team, {}, FALSE, TRUE)
annKept     == Edge(1, "member_of", ann, team, {}, FALSE, FALSE)
teamInDept  == Edge(2, "nested_group", team, dept, {}, FALSE, TRUE)
annInDept   == Edge(3, "member_of", ann, dept, {}, FALSE, FALSE)
deptFolder  == Edge(4, "direct_acl", dept, folder, {"r", "w"}, TRUE, TRUE)
annFile     == Edge(5, "direct_acl", ann, file, {"x"}, FALSE, TRUE)
fileIn      == Edge(6, "contains", folder, file, {}, FALSE, TRUE)
teamDenied  == Edge(7, "deny_acl", team, file, {"w"}, FALSE, TRUE)
teamOps     == Edge(8, "assigned_role", team, ops, {}, FALSE, TRUE)
opsFolder   == Edge(9, "role_grant", ops, folder, {"x"}, TRUE, TRUE)
bobForAnn   == Edge(10, "delegated_access", bob, ann, {}, FALSE, TRUE)

MCRelationship == {annInTeam, annKept, teamInDept, annInDept, deptFolder, annFile, fileIn, teamDenied,
                   teamOps, opsFolder, bobForAnn}
MCEntity == {ann, bob, cal, dan, team, dept, ops, folder, file}

KindFor(e) == IF e \in {ann, bob, cal, dan} THEN "user" ELSE IF e \in {team, dept} THEN "group"
              ELSE IF e = ops THEN "role" ELSE "resource"
Risk(e) == IF e = file THEN 20 ELSE 0
People == [e \in MCEntity |-> [kind |-> KindFor(e), label |-> Risk(e)]]

World(edges) == [entities |-> People, relationships |-> edges]
MCFirstWorlds ==
    {World({teamInDept, deptFolder, fileIn, opsFolder} \cup E) :
        E \in SUBSET {annInTeam, annInDept, annFile, teamDenied}
                \cup {{teamOps, bobForAnn, annInTeam} \cup F : F \in SUBSET {annFile, teamDenied}}}
MCNextWorlds ==
    {[entities |-> [e \in MCEntity \ {ann} |-> People[e]], relationships |-> {teamInDept, deptFolder, fileIn}],
     World({annKept, teamInDept, deptFolder, annFile, fileIn})}
MCPayloads == {[minRisk |-> 20, privilegedOnly |-> TRUE, maxItems |-> 2]}

MCCriticality == [e \in MCEntity |-> IF e = file THEN 5 ELSE 1]
MCNameRank == ann :> 1 @@ bob :> 2 @@ cal :> 3 @@ dan :> 4 @@ dept :> 5 @@ file :> 6 @@ folder :> 7
                @@ ops :> 8 @@ team :> 9
MCFloor == [hot |-> 40, risk |-> 40, grave |-> 45, complexity |-> 34, opaque |-> 50, members |-> 2,
            crowd |-> 3, nesting |-> 2]

Name(form, domain, words, sep) == [form |-> form, domain |-> domain, words |-> words, sep |-> sep]
mail   == Name("mail", "corp", <<"ann", "lee">>, ".")
host   == Name("host", "hq", <<"ann", "lee">>, ".")
spaced == Name("plain", "", <<"ann", "lee">>, " ")
joined == Name("plain", "", <<"ann", "lee">>, "")
other  == Name("mail", "corp", <<"dan">>, "")
admin  == Name("host", "hq", <<"admin">>, "")
admin2 == Name("host", "lab", <<"admin">>, "")
MCGeneric == {Text("", <<"admin">>, "", "")}

\* Four accounts of two sources.
MCAccountNames ==
    {ann :> [name |-> n1, source |-> "ad"] @@ bob :> [name |-> n2, source |-> "ad"]
       @@ cal :> [name |-> n3, source |-> "cloud"] @@ dan :> [name |-> n4, source |-> "cloud"] :
       n1 \in {mail, joined}, n2 \in {host, admin}, n3 \in {spaced, joined, admin2}, n4 \in {other, spaced}}
=============================================================================
