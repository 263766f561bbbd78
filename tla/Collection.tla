----------------------------- MODULE Collection -----------------------------
(***************************************************************************)
(* Collecting a snapshot (backend/app/fs_collectors.py, pipeline.py and    *)
(* their use in runtime.py): every target is walked by a thread of its     *)
(* own, breadth first, and what a target had in its scan cache under the   *)
(* same fingerprint is not read again; the items become a graph, bundles   *)
(* of connectors and imported ones are merged into it, then snapshot and   *)
(* caches are stored.  The file systems change meanwhile, and a scan may   *)
(* stop anywhere.                                                          *)
(*                                                                         *)
(* An object stands for its path and whatever exists there.  Its stamp is  *)
(* the time of its last change and stands for the fingerprint, which holds *)
(* that time.  Windows targets, which have no fingerprints, and symbolic   *)
(* links are left out.                                                     *)
(***************************************************************************)
EXTENDS Connectors

CONSTANTS
    Object,
    Above,            \* the directory of an object, or the object itself for "/"
    Hidden,           \* objects whose name begins with a dot
    Acl,              \* the lists getfacl can print: sets of [tag, subject, permissions]
    OwnerOf, GroupOf, \* names of an object's owner and group
    Target,           \* the targets, numbered in the order of the scan
    Selections,       \* the sets of targets a scan is asked for
    RootOf, DepthOf, MaxItems, \* path, max_depth and max_entries of a target
    Remote,           \* targets that are collected over SSH
    WithoutGetfacl,   \* targets whose host has no getfacl
    User, Group, Member, \* the host's accounts, groups and pairs of them
    GroupLike,        \* names _guess_identity_kind takes for a group's
    Layouts, InitialAcl, \* the sets of objects that may exist at first, and their list
    Imported,         \* the sequence of the imported sources [id, enabled, bundle]
    MaxChanges, MaxScans, MaxFaults \* bounds

Directory == {Above[o] : o \in Object}

ASSUME CollectionAssumption ==
    /\ IsFiniteSet(Object) /\ Above \in [Object -> Object] /\ Hidden \subseteq Object
    /\ IsFiniteSet(Target) /\ Target = 1 .. Cardinality(Target)
    /\ \A L \in Layouts : \A o \in Object : (o \in L => Above[o] \in L) /\ (Above[o] = o => o \in L)
    /\ InitialAcl \in Acl
    /\ Remote \subseteq Target /\ WithoutGetfacl \subseteq Target
    /\ Selections \subseteq (SUBSET Target) \ {{}}
    /\ Len(Services) >= MaxScans
    /\ RootOf \in [Target -> Object]
    /\ DepthOf \in [Target -> Nat] /\ MaxItems \in [Target -> Nat \ {0}]

\* A path is below each directory it names, and above none of them.
ASSUME PathAssumption ==
    \A S \in SUBSET Object : S # {} => \E o \in S : Above[o] = o \/ Above[o] \notin S

ASSUME AclAssumption == \A acl \in Acl : \A e \in acl : e.permissions \subseteq Permission

ASSUME BoundAssumption == {MaxChanges, MaxScans, MaxFaults} \subseteq Nat

\* Imported bundles are closed: the ends of their edges are among their entities.
ASSUME BundleAssumption ==
    \A s \in Listed(Imported) : \A rel \in s.bundle.relationships :
        {rel.source, rel.target} \subseteq DOMAIN s.bundle.entities

VARIABLES
    disk,      \* for each object: whether it exists, its access list, its last change
    changes,
    cache,     \* scan_object_cache: for each target a set of items
    stage,     \* of the scan: "idle", "walk" or "store"
    stored,    \* how many caches the scan has stored
    known,     \* the caches as the scan has loaded them
    walk,      \* what each target's thread does
    bundles,   \* what the connectors have answered, until it is stored
    outage,    \* history: what went wrong with them in that round
    scans, faults,
    during,    \* history: the lists each object had since the scan began
    steady     \* history: the objects that existed all the time since

disks == <<disk, changes>>
seen == <<during, steady>>
scan == <<stage, stored, known, walk, bundles, outage>>
vars == <<disks, cache, scan, scans, faults, seen>>

Children(o) == {x \in Object : Above[x] = o /\ x # o}
There(o) == disk[o].there

------------------------------------------------------------------------------
(* From an access list to entries.                                         *)

Subject(e) ==
    IF e.subject # "" THEN e.subject
    ELSE IF e.tag = "other" THEN "Everyone" ELSE e.tag

\* _getfacl_entries: an entry of nobody in particular goes by its tag.
AclEntries(acl) ==
    {[identity |-> Subject(e), permissions |-> e.permissions] :
        e \in {x \in acl : x.permissions # {}}}

\* The bits of the mode: those of the group are the mask where there is one.
ModeOf(acl, tag) ==
    UNION {e.permissions : e \in {x \in acl : x.tag = tag /\ x.subject = ""}}
GroupBits(acl) ==
    IF \E e \in acl : e.tag = "mask" THEN ModeOf(acl, "mask") ELSE ModeOf(acl, "group")

\* The entries _linux_access_entries falls back on.
ModeEntries(o, acl) ==
    {e \in {[identity |-> OwnerOf[o], permissions |-> ModeOf(acl, "user")],
            [identity |-> GroupOf[o], permissions |-> GroupBits(acl)],
            [identity |-> "Everyone", permissions |-> ModeOf(acl, "other")]} : e.permissions # {}}

\* _linux_access_entries, getfacl having found the list or not.
AccessEntries(t, o, listed, acl) ==
    IF listed /\ t \notin WithoutGetfacl /\ AclEntries(acl) # {}
    THEN AclEntries(acl) ELSE ModeEntries(o, acl)

------------------------------------------------------------------------------
(* The file systems.                                                       *)

Write(o, there, acl, touched) ==
    /\ changes < MaxChanges
    /\ changes' = changes + 1
    /\ disk' = [x \in Object |->
                  IF x = o THEN [there |-> there, acl |-> acl, stamp |-> changes + 1]
                  ELSE IF x \in touched THEN [disk[x] EXCEPT !.stamp = changes + 1]
                  ELSE disk[x]]
    /\ during' = [during EXCEPT ![o] = IF stage = "idle" \/ ~ there THEN @ ELSE @ \cup {acl}]
    /\ steady' = IF there THEN steady ELSE steady \ {o}
    /\ UNCHANGED <<cache, scan, scans, faults>>

ChangeAcl(o) ==
    \E acl \in Acl \ {disk[o].acl} : There(o) /\ Write(o, TRUE, acl, {})

CreateObject(o) ==
    /\ ~ There(o) /\ There(Above[o])
    /\ \E acl \in Acl : Write(o, TRUE, acl, {Above[o]})

RemoveObject(o) ==
    /\ There(o) /\ Above[o] # o
    /\ \A x \in Children(o) : ~ There(x)
    /\ Write(o, FALSE, disk[o].acl, {Above[o]})

------------------------------------------------------------------------------
(* A scan: run_scan and one thread for each target.                        *)

Resting == [queue |-> <<>>, step |-> "next", at |-> <<>>, items |-> {}, warned |-> FALSE]

\* run_scan takes the scan lock; load_scan_caches reads all caches at once.
BeginScan(T) ==
    /\ stage = "idle" /\ scans < MaxScans
    /\ stage' = "walk"
    /\ scans' = scans + 1
    /\ known' = [t \in Target |-> IF t \in T THEN cache[t] ELSE {}]
    /\ walk' = [t \in Target |->
                  IF t \in T THEN [Resting EXCEPT !.queue = <<[object |-> RootOf[t], depth |-> 0]>>]
                  ELSE Resting]
    /\ during' = [o \in Object |-> IF There(o) THEN {disk[o].acl} ELSE {}]
    /\ steady' = {o \in Object : There(o)}
    /\ UNCHANGED <<disks, cache, stored, bundles, outage, faults>>

Full(t) == Cardinality(walk[t].items) = MaxItems[t]
Done(t) == walk[t].step = "next" /\ (walk[t].queue = <<>> \/ Full(t))

Walks(t, w) ==
    /\ walk' = [walk EXCEPT ![t] = w]
    /\ UNCHANGED <<disks, cache, stage, stored, known, bundles, outage, scans, faults, seen>>

Skipped(t, o) == o \in Hidden /\ o # RootOf[t]
Found(t, o, entries, stamp) == [object |-> o, stamp |-> stamp, entries |-> entries]

\* A cached record of an object on a remote host is printed by the script with
\* its entries under a name the collector does not read.
HitEntries(t, hit) == IF t \in Remote THEN {} ELSE hit.entries

\* Mutant: the cache is asked for the path alone.
VisitByPath(t) ==
    LET w == walk[t]
        here == Head(w.queue)
        o == here.object
        popped == [w EXCEPT !.queue = Tail(@)]
        hits == {i \in known[t] : i.object = o}
    IN  /\ stage = "walk" /\ w.step = "next" /\ ~ Done(t)
        /\ \/ Skipped(t, o) /\ Walks(t, popped)
           \/ ~ Skipped(t, o) /\ ~ There(o) /\ Walks(t, [popped EXCEPT !.warned = TRUE])
           \/ /\ ~ Skipped(t, o) /\ There(o)
              /\ \E hit \in hits :
                    Walks(t, [popped EXCEPT !.step = "list", !.at = here,
                       !.items = @ \cup {Found(t, o, HitEntries(t, hit), hit.stamp)}])
           \/ /\ ~ Skipped(t, o) /\ There(o) /\ hits = {}
              /\ Walks(t, [popped EXCEPT !.step = "read",
                    !.at = [object |-> o, depth |-> here.depth,
                            stamp |-> disk[o].stamp, acl |-> disk[o].acl]])

\* What stat tells of the next object, and what the cache knows of it.
Visit(t) ==
    LET w == walk[t]
        here == Head(w.queue)
        o == here.object
        popped == [w EXCEPT !.queue = Tail(@)]
        hits == {i \in known[t] : i.object = o /\ i.stamp = disk[o].stamp}
    IN  /\ stage = "walk" /\ w.step = "next" /\ ~ Done(t)
        /\ \/ Skipped(t, o) /\ Walks(t, popped)
           \/ ~ Skipped(t, o) /\ ~ There(o) /\ Walks(t, [popped EXCEPT !.warned = TRUE])
           \/ /\ ~ Skipped(t, o) /\ There(o)
              /\ \E hit \in hits :
                    Walks(t, [popped EXCEPT !.step = "list", !.at = here,
                       !.items = @ \cup {Found(t, o, HitEntries(t, hit), hit.stamp)}])
           \/ /\ ~ Skipped(t, o) /\ There(o) /\ hits = {}
              /\ Walks(t, [popped EXCEPT !.step = "read",
                    !.at = [object |-> o, depth |-> here.depth,
                            stamp |-> disk[o].stamp, acl |-> disk[o].acl]])

\* Mutant: the fingerprint is taken after the entries were read.
ReadAclThenStat(t) ==
    LET w == walk[t]
        o == w.at.object
    IN  /\ stage = "walk" /\ w.step = "read"
        /\ \E old \in during[o] :
              Walks(t, [w EXCEPT !.step = "list", !.at = [object |-> o, depth |-> w.at.depth],
                 !.items = @ \cup {Found(t, o, AccessEntries(t, o, There(o), old), disk[o].stamp)}])

\* getfacl is run after stat: it reads what is there now, or nothing.
ReadAcl(t) ==
    LET w == walk[t]
        o == w.at.object
        acl == IF There(o) THEN disk[o].acl ELSE w.at.acl
    IN  /\ stage = "walk" /\ w.step = "read"
        /\ Walks(t, [w EXCEPT !.step = "list", !.at = [object |-> o, depth |-> w.at.depth],
              !.items = @ \cup {Found(t, o, AccessEntries(t, o, There(o), acl), w.at.stamp)}])

\* Mutant: the limit of the depth is off by one.
ListChildrenAbove(t) ==
    LET w == walk[t]
        o == w.at.object
        enters == o \in Directory /\ w.at.depth + 1 < DepthOf[t]
        below == {[object |-> x, depth |-> w.at.depth + 1] : x \in {c \in Children(o) : There(c)}}
    IN  /\ stage = "walk" /\ w.step = "list"
        /\ Walks(t, [w EXCEPT !.step = "next", !.at = <<>>,
              !.warned = @ \/ (enters /\ ~ There(o)),
              !.queue = IF enters /\ There(o) THEN @ \o Seqs!SetToSeq(below) ELSE @])

\* The children, sorted, go to the end of the queue; a directory that has
\* vanished makes a warning.
ListChildren(t) ==
    LET w == walk[t]
        o == w.at.object
        enters == o \in Directory /\ w.at.depth < DepthOf[t]
        below == {[object |-> x, depth |-> w.at.depth + 1] : x \in {c \in Children(o) : There(c)}}
    IN  /\ stage = "walk" /\ w.step = "list"
        /\ Walks(t, [w EXCEPT !.step = "next", !.at = <<>>,
              !.warned = @ \/ (enters /\ ~ There(o)),
              !.queue = IF enters /\ There(o) THEN @ \o Seqs!SetToSeq(below) ELSE @])

\* _scan_ssh_target: the connection fails, and nothing of the target is known.
Unreachable(t) ==
    /\ stage = "walk" /\ t \in Remote /\ ~ Done(t) /\ faults < MaxFaults
    /\ faults' = faults + 1
    /\ walk' = [walk EXCEPT ![t] = [Resting EXCEPT !.warned = TRUE]]
    /\ UNCHANGED <<disks, cache, stage, stored, known, bundles, outage, scans, seen>>

------------------------------------------------------------------------------
(* The graph of the items: _build_snapshot.                                *)

PrincipalId(name) == <<"principal", name>>
ResourceId(o) == <<"res", o>>

Rel(kind, source, target, permissions) ==
    [id |-> <<kind, source, target, permissions>>, kind |-> kind, source |-> source,
     target |-> target, permissions |-> permissions, inherits |-> FALSE]

\* Accounts are entered first: a group of the same name shares their entity.
KindOfName(name) ==
    IF name \in User THEN IF name = "root" THEN "service_account" ELSE "user"
    ELSE IF name \in Group \cup {"Everyone"} \cup GroupLike THEN "group" ELSE "user"

AllItems(items) == UNION {items[t] : t \in Target}

Names(items) ==
    User \cup Group \cup {"Everyone"} \cup {m[1] : m \in Member}
      \cup {e.identity : e \in UNION {i.entries : i \in AllItems(items)}}

BaseEntities(items) ==
    LET ids == {PrincipalId(n) : n \in Names(items)} \cup {ResourceId(i.object) : i \in AllItems(items)}
    IN  [id \in ids |-> IF id[1] = "res" THEN [kind |-> "resource", label |-> 0]
                        ELSE [kind |-> KindOfName(id[2]), label |-> 0]]

MembershipEdges ==
    {Rel(IF KindOfName(m[1]) = "group" THEN "nested_group" ELSE "member_of",
         PrincipalId(m[1]), PrincipalId(m[2]), {}) : m \in Member}

\* An object hangs below its directory if that was met before, by the same
\* target, whose items are sorted by depth, or by one before it.
ContainsEdges(items) ==
    UNION {{Rel("contains", ResourceId(Above[i.object]), ResourceId(i.object), {}) :
              i \in {x \in items[t] : Above[x.object] # x.object
                       /\ \E s \in 1 .. t : \E p \in items[s] : p.object = Above[x.object]}} :
           t \in Target}

AclEdges(items) ==
    UNION {{Rel("direct_acl", PrincipalId(e.identity), ResourceId(i.object), e.permissions) :
              e \in i.entries} : i \in AllItems(items)}

BaseGraph(items) ==
    [entities |-> BaseEntities(items),
     relationships |-> MembershipEdges \cup ContainsEdges(items) \cup AclEdges(items)]

\* Mutant: an imported bundle keeps its ids.
OfSourceAsItIs(s) == s.bundle

\* _collection_bundle_from_imported_source: ids are those of the bundle behind
\* the id of the source.
OfSource(s) ==
    LET b == s.bundle
        own == [id \in {<<s.id, e>> : e \in DOMAIN b.entities} |-> b.entities[id[2]]]
    IN  [entities |-> own,
         relationships |->
            {[rel EXCEPT !.id = <<s.id, @>>, !.source = <<s.id, @>>, !.target = <<s.id, @>>] :
                rel \in b.relationships}]

\* _merge_entities keeps the heavier of two under one id, _merge_relationships
\* the later.
Merge(G, b) ==
    [entities |->
        [e \in {x \in DOMAIN b.entities :
                  x \in DOMAIN G.entities => b.entities[x].label > G.entities[x].label} |-> b.entities[e]]
          @@ G.entities,
     relationships |->
        {rel \in G.relationships : \A x \in b.relationships : x.id # rel.id} \cup b.relationships]

\* _imported_source_bundles
ImportedBundles ==
    LET enabled == SelectSeq(Imported, LAMBDA s : s.enabled)
    IN  [n \in DOMAIN enabled |-> OfSource(enabled[n])]

\* NormalizationPipeline.normalize
Normalize(G, configured) == Seqs!FoldLeft(Merge, G, configured \o ImportedBundles)

\* What the scan makes of the items its threads have found.
Snapshot == Normalize(BaseGraph([t \in Target |-> walk[t].items]), bundles)

\* All threads are done: the connectors are asked, a failure of theirs being no
\* failure of the scan, and the snapshot is stored.
StoreSnapshot ==
    /\ stage = "walk" /\ \A t \in Target : Done(t)
    /\ stage' = "store"
    /\ \/ outage' = Calm(Services[scans]) /\ UNCHANGED faults
       \/ /\ faults < MaxFaults /\ faults' = faults + 1
          /\ outage' \in Outages(Services[scans])
    /\ bundles' = ConfiguredBundles(Services[scans], outage')
    /\ UNCHANGED <<disks, cache, stored, known, walk, scans, seen>>

\* replace_scan_cache, for the targets of the scan one by one.  A record is
\* kept as it was found, whichever way.
StoreCache ==
    /\ stage = "store" /\ stored < Cardinality(Target)
    /\ stored' = stored + 1
    /\ cache' = [cache EXCEPT ![stored'] =
                    IF walk[stored'] = Resting THEN @ ELSE walk[stored'].items]
    /\ bundles' = <<>> /\ outage' = <<>>
    /\ UNCHANGED <<disks, stage, known, walk, scans, faults, seen>>

Rested ==
    /\ stage' = "idle"
    /\ stored' = 0
    /\ known' = [t \in Target |-> {}]
    /\ walk' = [t \in Target |-> Resting]
    /\ bundles' = <<>> /\ outage' = <<>>
    /\ during' = [o \in Object |-> {}]
    /\ steady' = {}
    /\ UNCHANGED <<disks, cache, scans>>

EndScan == stage = "store" /\ stored = Cardinality(Target) /\ Rested /\ UNCHANGED faults

\* An exception or a crash: what is stored stays.
ScanFails == stage # "idle" /\ faults < MaxFaults /\ Rested /\ faults' = faults + 1

------------------------------------------------------------------------------
Init ==
    /\ \E L \in Layouts :
          disk = [o \in Object |-> [there |-> o \in L, acl |-> InitialAcl, stamp |-> 0]]
    /\ changes = 0
    /\ cache = [t \in Target |-> {}]
    /\ stage = "idle" /\ stored = 0
    /\ known = [t \in Target |-> {}]
    /\ walk = [t \in Target |-> Resting]
    /\ bundles = <<>> /\ outage = <<>>
    /\ scans = 0 /\ faults = 0
    /\ during = [o \in Object |-> {}]
    /\ steady = {}

Next ==
    \/ \E o \in Object : ChangeAcl(o) \/ CreateObject(o) \/ RemoveObject(o)
    \/ \E T \in Selections : BeginScan(T)
    \/ \E t \in Target : Visit(t) \/ ReadAcl(t) \/ ListChildren(t) \/ Unreachable(t)
    \/ StoreSnapshot \/ StoreCache \/ EndScan \/ ScanFails

Spec == Init /\ [][Next]_vars

------------------------------------------------------------------------------
(* Properties.                                                             *)

IsItem(i) ==
    /\ i.object \in Object /\ i.stamp \in 0 .. changes
    /\ \A e \in i.entries : e.permissions \in (SUBSET Permission) \ {{}}

\* What the tables hold, where a scan can stand, and that a path has one record
\* in the cache of a target, whose key it is (storage.replace_scan_cache).
TypeOK ==
    /\ disk \in [Object -> [there : BOOLEAN, acl : Acl, stamp : 0 .. MaxChanges]]
    /\ changes \in 0 .. MaxChanges /\ scans \in 0 .. MaxScans /\ faults \in 0 .. MaxFaults
    /\ stage \in {"idle", "walk", "store"}
    /\ bundles # <<>> => stage = "store" /\ stored = 0
    /\ stored \in 0 .. Cardinality(Target)
    /\ \A t \in Target :
          /\ walk[t].step \in {"next", "read", "list"} /\ walk[t].warned \in BOOLEAN
          /\ Cardinality(walk[t].items) <= MaxItems[t]
          /\ \A i \in cache[t] \cup known[t] \cup walk[t].items : IsItem(i)
          /\ \A i, j \in cache[t] : i.object = j.object => i = j

\* A record that the next scan would use instead of reading the object, because
\* the fingerprint is still the object's, has the entries the object has.
\* Except: what is unchanged on a remote host loses its entries with the second
\* scan (HitEntries).  The code: _linux_fingerprint and _cached_path_record.
CacheVouches ==
    \A t \in Target : \A i \in cache[t] :
        There(i.object) /\ i.stamp = disk[i.object].stamp =>
            \/ i.entries = AccessEntries(t, i.object, TRUE, disk[i.object].acl)
            \/ t \in Remote /\ i.entries = {}

\* Every item of a scan tells entries the object had at some moment of that
\* very scan, by its list or by its mode, however old the cache and whatever
\* changes meanwhile.  The same exception for remote hosts.
ItemsWereThere ==
    \A t \in Target : \A i \in walk[t].items :
        \/ \E acl \in during[i.object], listed \in BOOLEAN :
              i.entries = AccessEntries(t, i.object, listed, acl)
        \/ t \in Remote /\ i.entries = {}

\* The objects from the root of a target down to one that is n levels deeper:
\* none but the root is hidden, and all were there since the scan began.
Ways(t, n) ==
    {way \in [0 .. n -> steady] :
        way[0] = RootOf[t] /\ \A k \in 1 .. n : way[k] \in Children(way[k - 1]) \ Hidden}

\* A scan that stores a snapshot without a warning has overlooked nothing: an
\* object that was there all the time, not hidden and not below a hidden one,
\* and not deeper than max_depth, is among the items of each target of the scan
\* it belongs to, unless max_entries cut that target short, which the code
\* does not report (_scan_linux_target).
NothingOverlooked ==
    stage = "store" /\ (\A t \in Target : ~ walk[t].warned) =>
        \A t \in {x \in Target : walk[x] # Resting /\ ~ Full(x)} :
            \A n \in 0 .. DepthOf[t] : \A way \in Ways(t, n) :
                \E i \in walk[t].items : i.object = way[n]

\* A snapshot that is stored is a graph the engine and the index refresh can
\* work with, whatever the scan met, and although bundles use the same ids.
\* Except: an Okta group can have members that are no entities, whom the engine
\* then never comes across (_collect_okta_bundle).
GraphWellFormed ==
    stage = "store" /\ stored = 0 =>
        \A G \in {Snapshot} :
            LET strays == {rel \in G.relationships : rel.source \notin DOMAIN G.entities}
            IN  /\ WellFormed([G EXCEPT !.relationships = @ \ strays])
                /\ \A rel \in strays : rel.source \in Unlisted(Services[scans].okta)

\* Each connector's bundle tells what its service holds, also when lookups fail
\* half way or lists meet their caps: no edge is invented, and Entra ID and the
\* directory leave nothing out without a note, but where a lookup came back
\* empty.  A fact is lost at most to one whose id _stable_id cuts to the same
\* text, which makes one role of several Azure assignments, so that a principal
\* is shown with what another was assigned (integration_collectors.py).
ConnectorsTell ==
    \A n \in DOMAIN bundles : ToldBy(Asked[n], Services[scans], outage, bundles[n])

\* The state of a scan has its types, what it stores is well formed, and what
\* the connectors add to it is what their services hold.
CollectionInv == TypeOK /\ GraphWellFormed /\ ConnectorsTell
=============================================================================
