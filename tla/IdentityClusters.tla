-------------------------- MODULE IdentityClusters --------------------------
(***************************************************************************)
(* The accounts that are taken for one identity because of their names     *)
(* (backend/app/engine.py, from identity_clusters on): each name gives     *)
(* keys, accounts with a key in common are joined, and a cluster can do    *)
(* what its members can.                                                   *)
(*                                                                         *)
(* A name is a record [form, domain, words, sep]: "mail" is words@domain,  *)
(* "host" is domain\words, "plain" is the words alone; sep is what stands  *)
(* between the words.  Names are case folded, and have no slash; texts of  *)
(* different make-up differ.                                               *)
(***************************************************************************)
EXTENDS AccessPaths

CONSTANTS
    Generic,   \* texts that are no key: the aliases everybody has, and short ones
    MaxBucket  \* how many accounts a key may have (12)

Accounts(G) == {p \in PrincipalIds(G) : KindOf(G, p) \in {"user", "service_account"}}

------------------------------------------------------------------------------
(* _identity_match_keys.  What is not a letter, a digit or one of . _ @ -  *)
(* is left out of a key.                                                   *)

Text(head, words, sep, tail) ==
    [head |-> head, words |-> words, sep |-> IF sep = " " THEN "" ELSE sep, tail |-> tail]

MailKeys(n) ==
    LET whole == Text("", n.words, n.sep, n.domain)
    IN  {<<"name", whole>>, <<"email", whole>>, <<"account", Text("", n.words, n.sep, "")>>,
         <<"domain", Text("", <<>>, "", n.domain)>>}
          \cup (IF n.sep = "." THEN {<<"collapsed", Text("", n.words, "", "")>>} ELSE {})

OtherKeys(n) ==
    LET whole == Text(n.domain, n.words, n.sep, "")
    IN  {<<"name", whole>>, <<"account", whole>>}
          \cup (IF n.form = "host" THEN {<<"account", Text("", n.words, n.sep, "")>>} ELSE {})
          \cup (IF n.sep = " " THEN {<<"account", Text(n.domain, n.words, ".", "")>>} ELSE {})
          \cup (IF n.form = "host" \/ n.sep # "" THEN {<<"collapsed", Text(n.domain, n.words, "", "")>>} ELSE {})

Keys(n) == {key \in IF n.form = "mail" THEN MailKeys(n) ELSE OtherKeys(n) : key[2] \notin Generic}

------------------------------------------------------------------------------
(* _materialize_identity_clusters.  account: the name and the source of    *)
(* each.                                                                   *)

AllKeys(G, account) == UNION {Keys(account[a].name) : a \in Accounts(G)}
Bucket(G, account, key) == {a \in Accounts(G) : key \in Keys(account[a].name)}

\* Nothing is joined by a key that too many have, or by the same name from the
\* same source.
Joins(account, bucket) ==
    /\ Cardinality(bucket) \in 2 .. MaxBucket
    /\ \/ Cardinality({account[a].source : a \in bucket}) > 1
       \/ Cardinality({account[a].name : a \in bucket}) > 1

\* The first of a bucket is joined with each of the others.
Pairings(G, account) ==
    UNION {LET anchor == CHOOSE a \in bucket : TRUE IN {<<anchor, a>> : a \in bucket \ {anchor}} :
           bucket \in {b \in {Bucket(G, account, key) : key \in AllKeys(G, account)} : Joins(account, b)}}

\* find
Root(parents, a) ==
    LET up[n \in 0 .. Cardinality(DOMAIN parents)] == IF n = 0 THEN a ELSE parents[up[n - 1]]
    IN  up[Cardinality(DOMAIN parents)]

\* Mutant: the account is put below the other root, its own root is not.
UnionAtOnce(parents, pair) == [parents EXCEPT ![pair[2]] = Root(parents, pair[1])]

\* union
Union(parents, pair) == [parents EXCEPT ![Root(parents, pair[2])] = Root(parents, pair[1])]

Parents(G, account) ==
    FSets!FoldSet(LAMBDA pair, parents : Union(parents, pair), [a \in Accounts(G) |-> a], Pairings(G, account))

Groups(G, account) ==
    LET parents == Parents(G, account)
    IN  {g \in {{a \in Accounts(G) : Root(parents, a) = r} : r \in Accounts(G)} : Cardinality(g) > 1}

SharedKeys(G, account, members) ==
    {key \in AllKeys(G, account) : Cardinality(Bucket(G, account, key) \cap members) > 1}

\* _build_identity_cluster_resources; the detail shows eight of them.
ClusterResources(G, members) ==
    LET rows == {row \in PathRows(G) : row.principal \in members}
        Of(r) == {row \in rows : row.resource = r}
    IN  {[resource |-> r, permissions |-> UNION {row.permissions : row \in Of(r)},
          contributors |-> {row.principal : row \in Of(r)},
          paths |-> FSets!MapThenSumSet(LAMBDA row : row.count, Of(r)),
          risk |-> FSets!Max({row.risk : row \in Of(r)})] : r \in {row.resource : row \in rows}}

\* _build_identity_cluster_members: the keys that tell for each member.
Evidence(account, members, keys) == [a \in members |-> keys \cap Keys(account[a].name)]

\* _build_identity_cluster_summary, completed by what the cluster reaches.
Summary(account, members, resources) ==
    [sources |-> {account[a].source : a \in members}, resources |-> Cardinality(resources),
     risk |-> FSets!Max({0} \cup {res.risk : res \in resources})]

\* A cluster is one of the groups that has keys in common.
Cluster(G, account, members) ==
    LET resources == ClusterResources(G, members)
        keys == SharedKeys(G, account, members)
    IN  [members |-> members, matching |-> Evidence(account, members, keys), resources |-> resources,
         summary |-> Summary(account, members, resources)]

Clusters(G, account) ==
    {Cluster(G, account, members) : members \in {g \in Groups(G, account) : SharedKeys(G, account, g) # {}}}
=============================================================================
