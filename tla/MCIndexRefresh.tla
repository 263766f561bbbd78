--------------------------- MODULE MCIndexRefresh ---------------------------
(* Small worlds for IndexRefresh: ann and her team, nested in a dept with     *)
(* access to a folder and the file in it; bob, who has the file; a role on    *)
(* the vault, which the dept may be denied; bystanders that keep the scope of *)
(* a change below the 70% of the fallback.                                    *)
EXTENDS IndexRefresh

CONSTANTS ann, bob, cal, dan, team, dept, auditor, folder, file, vault, attic

Edge(id, kind, source, target, permissions, inherits) ==
    [id |-> id, kind |-> kind, source |-> source, target |-> target,
     permissions |-> permissions, inherits |-> inherits]

annInTeam    == Edge(1, "member_of", ann, team, {}, FALSE)
teamInDept   == Edge(2, "nested_group", team, dept, {}, FALSE)
deptFolderRW == Edge(3, "direct_acl", dept, folder, {"read", "write"}, TRUE)
deptFolderR  == Edge(3, "direct_acl", dept, folder, {"read"}, FALSE)
bobFile      == Edge(4, "direct_acl", bob, file, {"read"}, FALSE)
fileInFolder == Edge(5, "contains", folder, file, {}, FALSE)
deptNoVault  == Edge(6, "deny_acl", dept, vault, {"read"}, FALSE)
auditVault   == Edge(7, "role_grant", auditor, vault, {"read"}, FALSE)
teamAudits   == Edge(8, "assigned_role", team, auditor, {}, FALSE)
calForAnn    == Edge(9, "delegated_access", cal, ann, {}, FALSE)

MCRelationship == {annInTeam, teamInDept, deptFolderRW, deptFolderR, bobFile, fileInFolder,
                   deptNoVault, auditVault, teamAudits, calForAnn}

MCEntity == {ann, bob, cal, dan, team, dept, auditor, folder, file, vault, attic}
MCPermission == {"read", "write"}
MCPrivileged == {"write"}
MCLabel == {"a", "b"}

DefaultKind(e) ==
    IF e \in {ann, bob, cal, dan} THEN "user"
    ELSE IF e \in {team, dept} THEN "group"
    ELSE IF e = auditor THEN "role" ELSE "resource"

Plain(E) == [e \in E |-> [kind |-> DefaultKind(e), label |-> "a"]]

MCEmptyGraph == [entities |-> Plain({}), relationships |-> {}]

People == {ann, bob, cal, team, dept, auditor, folder, file, vault}
World(fixed, free, acls) ==
    {[entities |-> Plain(People), relationships |-> fixed \cup base \cup acl] :
        base \in SUBSET free, acl \in acls}

\* Edges that come and go, and one that changes.
EdgeWorld ==
    World({bobFile, auditVault, teamInDept}, {annInTeam, fileInFolder, deptNoVault, teamAudits},
          {{}, {deptFolderRW}, {deptFolderR}})

\* Just enough to go through every way of refreshing.
TinyWorld ==
    World({bobFile, auditVault, calForAnn, teamInDept, fileInFolder}, {annInTeam}, {{deptFolderRW}})

\* Entities that come and go, are relabelled or change their kind.
Known(E) == {rel \in {annInTeam, deptFolderRW, bobFile, fileInFolder, auditVault, teamInDept, calForAnn} :
                rel.source \in E /\ rel.target \in E}
Relabelled(E, e, k) == [Plain(E) EXCEPT ![e] = [kind |-> k, label |-> "b"]]
EntityWorld ==
    LET full == People \cup {dan, attic}
        sets == {full \ E : E \in {{}, {file}, {ann}, {team}, {attic}, {dan, attic}, {auditor}, {cal, file}}}
    IN  {[entities |-> Plain(E), relationships |-> Known(E)] : E \in sets}
          \cup {[entities |-> Relabelled(full, e, DefaultKind(e)), relationships |-> Known(full)] :
                    e \in {bob, dept, folder}}
          \cup {[entities |-> Relabelled(full, auditor, "group"), relationships |-> Known(full)]}

PairWorld == EdgeWorld \cup EntityWorld
=============================================================================
