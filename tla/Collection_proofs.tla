-------------------------- MODULE Collection_proofs --------------------------
(***************************************************************************)
(* What a scan writes down and what the cache keeps of it, for any tree of *)
(* objects, any targets and any number of changes, scans and faults.       *)
(***************************************************************************)
EXTENDS Collection, FiniteSetTheorems, FunctionTheorems, SequenceTheorems, TLAPS

------------------------------------------------------------------------------
(* The invariant.                                                          *)

Place == [object : Object, depth : Nat]

\* A thread has a queue of places, and between two steps it is at one of them.
WalkShape(w) ==
    /\ DOMAIN w = {"queue", "step", "at", "items", "warned"}
    /\ w.queue \in Seq(Place)
    /\ w.step # "next" => w.at.object \in Object /\ w.at.depth \in Nat

\* No stamp is of a change to come.
Shape ==
    /\ disk \in [Object -> [there : BOOLEAN, acl : Acl, stamp : Nat]]
    /\ changes \in Nat /\ \A o \in Object : disk[o].stamp <= changes
    /\ DOMAIN during = Object
    /\ DOMAIN cache = Target /\ DOMAIN known = Target /\ DOMAIN walk = Target
    /\ \A t \in Target : WalkShape(walk[t])

\* A record has the entries of its object if it has the object's stamp.
Vouches(t, i) ==
    /\ i.object \in Object /\ i.stamp \in Nat /\ i.stamp <= changes
    /\ There(i.object) /\ i.stamp = disk[i.object].stamp =>
          \/ i.entries = AccessEntries(t, i.object, TRUE, disk[i.object].acl)
          \/ t \in Remote /\ i.entries = {}

\* So does every record anywhere: it may be used, loaded or stored later.
AllVouch == \A t \in Target : \A i \in cache[t] \cup known[t] \cup walk[t].items : Vouches(t, i)

\* Between stat and getfacl a thread knows a stamp and a list of this scan.
StatHeld ==
    \A t \in Target : walk[t].step = "read" =>
        /\ walk[t].at.stamp \in Nat /\ walk[t].at.stamp <= changes
        /\ walk[t].at.acl \in during[walk[t].at.object]

\* While a scan runs, the lists of all objects are noted.
ListsNoted == stage # "idle" => \A o \in Object : There(o) => disk[o].acl \in during[o]

\* The entries an object had at some moment of this scan.
OfThisScan(t, i) ==
    \/ \E acl \in during[i.object], listed \in BOOLEAN :
          i.entries = AccessEntries(t, i.object, listed, acl)
    \/ t \in Remote /\ i.entries = {}

WalkInv ==
    /\ Shape
    /\ AllVouch
    /\ StatHeld
    /\ ListsNoted
    /\ \A t \in Target : \A i \in walk[t].items : OfThisScan(t, i)

------------------------------------------------------------------------------
(* Every step keeps it.                                                    *)

\* The children of a directory in an order.
LEMMA ListedChildren ==
    ASSUME NEW S, IsFiniteSet(S)
    PROVE  Seqs!SetToSeq(S) \in Seq(S)
<1>1. Cardinality(S) \in Nat /\ ExistsBijection(1..Cardinality(S), S)
  BY FS_CardinalityType
<1>2. PICK f \in [1..Cardinality(S) -> S] : \A a, b \in DOMAIN f : f[a] = f[b] => a = b
  BY <1>1 DEF ExistsBijection, Bijection, Injection, IsInjective
<1>3. Seqs!Cardinality(S) = Cardinality(S)
  BY Zenon DEF Seqs!Cardinality, Cardinality
<1>4. Seqs!SetToSeq(S) = CHOOSE g \in [1..Cardinality(S) -> S] : Seqs!IsInjective(g)
  BY <1>3 DEF Seqs!SetToSeq
<1>5. Seqs!IsInjective(f)
  BY <1>2 DEF Seqs!IsInjective
<1>6. Seqs!SetToSeq(S) \in [1..Cardinality(S) -> S]
  BY <1>4, <1>5
<1>. QED
  BY <1>1, <1>6

\* It holds before the first scan.
LEMMA InitWalkInv == Init => WalkInv
<1> SUFFICES ASSUME Init PROVE WalkInv
  OBVIOUS
<1>1. PICK L \in Layouts : disk = [o \in Object |-> [there |-> o \in L, acl |-> InitialAcl, stamp |-> 0]]
  BY DEF Init
<1>2. \A t \in Target : walk[t] = Resting /\ cache[t] = {} /\ known[t] = {}
  BY DEF Init
<1>3. WalkShape(Resting) /\ Resting.step = "next" /\ Resting.items = {}
  BY DEF Resting, WalkShape
<1>4. Shape
  BY <1>1, <1>2, <1>3, CollectionAssumption DEF Init, Shape
<1>. QED
  BY <1>2, <1>3, <1>4 DEF Init, WalkInv, AllVouch, StatHeld, ListsNoted

\* A change leaves a stamp no record has, and forgets no list.
LEMMA FileStep ==
    ASSUME WalkInv, NEW o \in Object, NEW there \in BOOLEAN, NEW acl \in Acl, NEW touched,
           Write(o, there, acl, touched)
    PROVE  WalkInv'
<1> USE DEF WalkInv
<1>1. /\ changes' = changes + 1 /\ UNCHANGED <<cache, known, walk, stage>>
      /\ \A x \in Object :
            \/ disk'[x] = disk[x]
            \/ disk'[x].stamp = changes + 1 /\ x = o /\ disk'[x].there = there /\ disk'[x].acl = acl
            \/ /\ disk'[x].stamp = changes + 1 /\ x # o
               /\ disk'[x].there = disk[x].there /\ disk'[x].acl = disk[x].acl
  BY DEF Write, scan, Shape
<1>2. disk' \in [Object -> [there : BOOLEAN, acl : Acl, stamp : Nat]]
  BY DEF Write, Shape
<1>3. /\ DOMAIN during' = Object
      /\ \A x \in Object : during[x] \subseteq during'[x]
      /\ stage # "idle" /\ there => acl \in during'[o]
  BY DEF Write, Shape
<1>4. Shape'
  BY <1>1, <1>2, <1>3 DEF Shape
<1>5. ASSUME NEW t \in Target, NEW i, Vouches(t, i)
      PROVE  Vouches(t, i)'
  <2>1. i.object \in Object /\ i.stamp \in Nat /\ i.stamp <= changes /\ changes \in Nat
    BY <1>5 DEF Vouches, Shape
  <2> SUFFICES ASSUME disk'[i.object].there, i.stamp = disk'[i.object].stamp
               PROVE  \/ i.entries = AccessEntries(t, i.object, TRUE, disk'[i.object].acl)
                      \/ t \in Remote /\ i.entries = {}
    <3>1. i.stamp <= changes'
      BY <1>1, <2>1
    <3>. QED
      BY <2>1, <3>1 DEF Vouches, There
  <2>2. disk'[i.object] = disk[i.object]
    BY <1>1, <2>1
  <2>. QED
    BY <1>5, <2>2 DEF Vouches, There
<1>6. AllVouch'
  BY <1>1, <1>5 DEF AllVouch
<1>7. StatHeld'
  BY <1>1, <1>3 DEF StatHeld, Shape, WalkShape
<1>8. ListsNoted'
  <2> SUFFICES ASSUME stage # "idle", NEW x \in Object, disk'[x].there
               PROVE  disk'[x].acl \in during'[x]
    BY <1>1 DEF ListsNoted, There
  <2>1. CASE x = o /\ disk'[x].there = there /\ disk'[x].acl = acl
    BY <1>3, <2>1
  <2>2. CASE disk'[x].there = disk[x].there /\ disk'[x].acl = disk[x].acl
    BY <1>3, <2>2 DEF ListsNoted, There
  <2>. QED
    BY <1>1, <2>1, <2>2
<1>9. ASSUME NEW t \in Target, NEW i \in walk[t].items
      PROVE  OfThisScan(t, i)'
  <2>1. i.object \in Object /\ OfThisScan(t, i)
    BY <1>9 DEF AllVouch, Vouches
  <2>. QED
    BY <1>3, <2>1 DEF OfThisScan
<1>. QED
  BY <1>1, <1>4, <1>6, <1>7, <1>8, <1>9

\* So does a step of one thread, if what it adds vouches and is of this scan.
LEMMA ThreadStep ==
    ASSUME WalkInv, NEW t \in Target, NEW w, Walks(t, w), WalkShape(w),
           \A i \in w.items \ walk[t].items : Vouches(t, i) /\ OfThisScan(t, i),
           w.step = "read" => /\ w.at.stamp \in Nat /\ w.at.stamp <= changes
                              /\ w.at.acl \in during[w.at.object]
    PROVE  WalkInv'
<1> USE DEF WalkInv
<1>1. /\ DOMAIN walk' = Target /\ walk'[t] = w
      /\ \A s \in Target : s # t => walk'[s] = walk[s]
      /\ UNCHANGED <<disk, changes, cache, stage, known, during>>
  BY DEF Walks, disks, seen, Shape
<1>2. Shape'
  BY <1>1 DEF Shape
<1>3. ASSUME NEW s \in Target, NEW i
      PROVE  (Vouches(s, i)' <=> Vouches(s, i)) /\ (OfThisScan(s, i)' <=> OfThisScan(s, i))
  BY <1>1 DEF Vouches, OfThisScan, There
<1>4. ASSUME NEW s \in Target, NEW i \in walk'[s].items
      PROVE  Vouches(s, i) /\ OfThisScan(s, i)
  BY <1>1 DEF AllVouch
<1>5. AllVouch'
  BY <1>1, <1>3, <1>4 DEF AllVouch
<1>6. StatHeld'
  BY <1>1 DEF StatHeld
<1>7. ListsNoted'
  BY <1>1 DEF ListsNoted, There
<1>. QED
  BY <1>2, <1>3, <1>4, <1>5, <1>6, <1>7

\* A place is taken from the queue.
LEMMA Popped ==
    ASSUME NEW w, WalkShape(w), w.queue # <<>>
    PROVE  /\ Head(w.queue).object \in Object /\ Head(w.queue).depth \in Nat
           /\ Tail(w.queue) \in Seq(Place)
<1>1. w.queue \in Seq(Place)
  BY DEF WalkShape
<1>2. Head(w.queue) \in Place /\ Tail(w.queue) \in Seq(Place)
  BY <1>1
<1>. QED
  BY <1>2 DEF Place

\* What the cache knows under the object's stamp, the object still has.
LEMMA VisitStep ==
    ASSUME WalkInv, NEW t \in Target, Visit(t)
    PROVE  WalkInv'
<1> DEFINE w == walk[t]
           here == Head(w.queue)
           o == here.object
           popped == [w EXCEPT !.queue = Tail(@)]
           hits == {i \in known[t] : i.object = o /\ i.stamp = disk[o].stamp}
<1>1. WalkShape(w) /\ w.queue # <<>> /\ stage # "idle" /\ w.step = "next"
  BY DEF WalkInv, Shape, Visit, Done
<1>2. o \in Object /\ here.depth \in Nat /\ Tail(w.queue) \in Seq(Place)
  BY <1>1, Popped
<1>3. DOMAIN w = {"queue", "step", "at", "items", "warned"}
  BY <1>1 DEF WalkShape
<1>4. There(o) => disk[o].acl \in during[o]
  BY <1>1, <1>2 DEF WalkInv, ListsNoted
<1>5. CASE Walks(t, popped)
  <2>1. WalkShape(popped) /\ popped.items = w.items /\ popped.step = "next"
    BY <1>1, <1>2, <1>3 DEF WalkShape
  <2>. QED
    BY <1>5, <2>1, ThreadStep
<1>6. CASE Walks(t, [popped EXCEPT !.warned = TRUE])
  <2> DEFINE next == [popped EXCEPT !.warned = TRUE]
  <2>1. WalkShape(next) /\ next.items = w.items /\ next.step = "next"
    BY <1>1, <1>2, <1>3 DEF WalkShape
  <2> HIDE DEF next
  <2>. QED
    BY <1>6, <2>1, ThreadStep DEF next
<1>7. ASSUME There(o), NEW hit \in hits,
             Walks(t, [popped EXCEPT !.step = "list", !.at = here,
                       !.items = @ \cup {Found(t, o, HitEntries(t, hit), hit.stamp)}])
      PROVE  WalkInv'
  <2> DEFINE new == Found(t, o, HitEntries(t, hit), hit.stamp)
             next == [popped EXCEPT !.step = "list", !.at = here, !.items = @ \cup {new}]
  <2>1. hit \in known[t] /\ hit.object = o /\ hit.stamp = disk[o].stamp /\ Vouches(t, hit)
    BY DEF WalkInv, AllVouch
  <2>2. \/ hit.entries = AccessEntries(t, o, TRUE, disk[o].acl)
        \/ t \in Remote /\ hit.entries = {}
    BY <1>7, <2>1 DEF Vouches
  <2>3. /\ new.object = o /\ new.stamp = disk[o].stamp
        /\ \/ new.entries = AccessEntries(t, o, TRUE, disk[o].acl)
           \/ t \in Remote /\ new.entries = {}
    BY <2>1, <2>2 DEF Found, HitEntries
  <2>4. new.stamp \in Nat /\ new.stamp <= changes
    BY <2>1, <2>3 DEF Vouches
  <2> HIDE DEF new
  <2>5. Vouches(t, new) /\ OfThisScan(t, new)
    BY <1>2, <1>4, <1>7, <2>3, <2>4 DEF Vouches, OfThisScan
  <2>6. WalkShape(next) /\ next.items = w.items \cup {new} /\ next.step = "list"
    BY <1>1, <1>2, <1>3 DEF WalkShape
  <2>7. Walks(t, next)
    BY <1>7 DEF new
  <2> HIDE DEF next
  <2>. QED
    BY <2>5, <2>6, <2>7, ThreadStep
<1>8. ASSUME There(o),
             Walks(t, [popped EXCEPT !.step = "read",
                       !.at = [object |-> o, depth |-> here.depth,
                               stamp |-> disk[o].stamp, acl |-> disk[o].acl]])
      PROVE  WalkInv'
  <2> DEFINE next == [popped EXCEPT !.step = "read",
                       !.at = [object |-> o, depth |-> here.depth,
                               stamp |-> disk[o].stamp, acl |-> disk[o].acl]]
  <2>1. WalkShape(next) /\ next.items = w.items
    BY <1>1, <1>2, <1>3 DEF WalkShape
  <2>2. next.at.stamp = disk[o].stamp /\ next.at.acl = disk[o].acl /\ next.at.object = o
    BY <1>3
  <2>3. disk[o].stamp \in Nat /\ disk[o].stamp <= changes
    BY <1>2 DEF WalkInv, Shape
  <2>4. Walks(t, next)
    BY <1>8
  <2> HIDE DEF next
  <2>. QED
    BY <1>4, <1>8, <2>1, <2>2, <2>3, <2>4, ThreadStep
<1>. QED
  BY <1>5, <1>6, <1>7, <1>8 DEF Visit

\* What getfacl reads after the stat is of the object as it was at the stat, if
\* it still has that stamp.
LEMMA ReadAclStep ==
    ASSUME WalkInv, NEW t \in Target, ReadAcl(t)
    PROVE  WalkInv'
<1> DEFINE w == walk[t]
           o == w.at.object
           acl == IF There(o) THEN disk[o].acl ELSE w.at.acl
           new == Found(t, o, AccessEntries(t, o, There(o), acl), w.at.stamp)
           next == [w EXCEPT !.step = "list", !.at = [object |-> o, depth |-> w.at.depth],
                      !.items = @ \cup {new}]
<1>1. WalkShape(w) /\ stage # "idle" /\ w.step = "read" /\ Walks(t, next)
  BY DEF WalkInv, Shape, ReadAcl
<1>2. o \in Object /\ w.at.depth \in Nat /\ There(o) \in BOOLEAN
  BY <1>1 DEF WalkShape, WalkInv, Shape, There
<1>3. w.at.stamp \in Nat /\ w.at.stamp <= changes /\ acl \in during[o]
  BY <1>1, <1>2 DEF WalkInv, StatHeld, ListsNoted
<1>4. /\ new.object = o /\ new.stamp = w.at.stamp
      /\ new.entries = AccessEntries(t, o, There(o), acl)
  BY DEF Found
<1>5. WalkShape(next) /\ next.items = w.items \cup {new} /\ next.step = "list"
  BY <1>1, <1>2 DEF WalkShape
<1> HIDE DEF new
<1>6. Vouches(t, new)
  BY <1>2, <1>3, <1>4 DEF Vouches
<1>7. OfThisScan(t, new)
  BY <1>2, <1>3, <1>4 DEF OfThisScan
<1> HIDE DEF next
<1>. QED
  BY <1>1, <1>5, <1>6, <1>7, ThreadStep

\* The children come to the end of the queue.
LEMMA ListChildrenStep ==
    ASSUME WalkInv, NEW t \in Target, ListChildren(t)
    PROVE  WalkInv'
<1> DEFINE w == walk[t]
           o == w.at.object
           there == {c \in Children(o) : There(c)}
           below == {[object |-> x, depth |-> w.at.depth + 1] : x \in there}
           enters == o \in Directory /\ w.at.depth < DepthOf[t]
           next == [w EXCEPT !.step = "next", !.at = <<>>,
                      !.warned = @ \/ (enters /\ ~ There(o)),
                      !.queue = IF enters /\ There(o) THEN @ \o Seqs!SetToSeq(below) ELSE @]
<1>1. WalkShape(w) /\ w.step = "list" /\ Walks(t, next)
  BY DEF WalkInv, Shape, ListChildren
<1>2. below \subseteq Place
  BY <1>1 DEF Children, Place, WalkShape
<1>3. IsFiniteSet(below)
  <2>1. there \subseteq Object
    BY DEF Children
  <2>2. IsFiniteSet(there)
    BY <2>1, FS_Subset, CollectionAssumption
  <2> DEFINE f == [x \in there |-> [object |-> x, depth |-> w.at.depth + 1]]
  <2>3. f \in Surjection(there, below)
    BY DEF Surjection
  <2>. QED
    BY <2>2, <2>3, FS_Surjection DEF ExistsSurjection
<1>4. Seqs!SetToSeq(below) \in Seq(Place)
  <2> HIDE DEF below
  <2>1. Seqs!SetToSeq(below) \in Seq(below)
    BY <1>3, ListedChildren
  <2>. QED
    BY <1>2, <2>1
<1>5. w.queue \o Seqs!SetToSeq(below) \in Seq(Place)
  <2> HIDE DEF below
  <2>1. w.queue \in Seq(Place)
    BY <1>1 DEF WalkShape
  <2>. QED
    BY <1>4, <2>1
<1>6. WalkShape(next) /\ next.items = w.items /\ next.step = "next"
  <2> HIDE DEF below, enters
  <2>. QED
    BY <1>1, <1>5 DEF WalkShape
<1> HIDE DEF next
<1>. QED
  BY <1>1, <1>6, ThreadStep

\* A thread at rest adds nothing.
LEMMA AtRest ==
    /\ WalkShape(Resting) /\ Resting.step = "next" /\ Resting.items = {}
    /\ \A o \in Object :
          LET w == [Resting EXCEPT !.queue = <<[object |-> o, depth |-> 0]>>]
          IN  WalkShape(w) /\ w.step = "next" /\ w.items = {}
    /\ LET w == [Resting EXCEPT !.warned = TRUE]
       IN  WalkShape(w) /\ w.step = "next" /\ w.items = {}
<1>1. ASSUME NEW o \in Object
      PROVE  <<[object |-> o, depth |-> 0]>> \in Seq(Place)
  BY DEF Place
<1>. QED
  BY <1>1 DEF Resting, WalkShape

\* A scan begins with what the caches hold and the lists there are.
LEMMA BeginScanStep ==
    ASSUME WalkInv, NEW T \in Selections, BeginScan(T)
    PROVE  WalkInv'
<1> USE DEF WalkInv
<1>1. /\ DOMAIN known' = Target /\ DOMAIN walk' = Target /\ DOMAIN during' = Object
      /\ UNCHANGED <<disk, changes, cache>>
      /\ \A t \in Target : known'[t] \subseteq cache[t]
      /\ \A o \in Object : There(o) => disk[o].acl \in during'[o]
  BY DEF BeginScan, disks
<1>2. ASSUME NEW t \in Target
      PROVE  WalkShape(walk'[t]) /\ walk'[t].step = "next" /\ walk'[t].items = {}
  <2>1. RootOf[t] \in Object
    BY CollectionAssumption
  <2>2. \/ walk'[t] = Resting
        \/ walk'[t] = [Resting EXCEPT !.queue = <<[object |-> RootOf[t], depth |-> 0]>>]
    BY DEF BeginScan
  <2>. QED
    BY <2>1, <2>2, AtRest
<1>3. Shape'
  BY <1>1, <1>2 DEF Shape
<1>4. ASSUME NEW t \in Target, NEW i
      PROVE  Vouches(t, i)' <=> Vouches(t, i)
  BY <1>1 DEF Vouches, There
<1>5. AllVouch'
  BY <1>1, <1>2, <1>4 DEF AllVouch
<1>6. StatHeld' /\ ListsNoted'
  BY <1>1, <1>2 DEF StatHeld, ListsNoted, There
<1>. QED
  BY <1>2, <1>3, <1>5, <1>6

\* A target that cannot be reached has no items.
LEMMA UnreachableStep ==
    ASSUME WalkInv, NEW t \in Target, Unreachable(t)
    PROVE  WalkInv'
<1> DEFINE w == [Resting EXCEPT !.warned = TRUE]
<1> USE DEF WalkInv
<1>1. WalkShape(w) /\ w.step = "next" /\ w.items = {}
  BY AtRest
<1>2. walk' = [walk EXCEPT ![t] = w]
      /\ UNCHANGED <<disk, changes, cache, stage, known, during>>
  BY DEF Unreachable, disks, seen
<1> HIDE DEF w
<1>3. /\ DOMAIN walk' = Target /\ walk'[t] = w
      /\ \A s \in Target : s # t => walk'[s] = walk[s]
  BY <1>2 DEF Shape
<1>4. Shape'
  BY <1>1, <1>2, <1>3 DEF Shape
<1>5. ASSUME NEW s \in Target, NEW i
      PROVE  (Vouches(s, i)' <=> Vouches(s, i)) /\ (OfThisScan(s, i)' <=> OfThisScan(s, i))
  BY <1>2 DEF Vouches, OfThisScan, There
<1>6. \A s \in Target : walk'[s].items \subseteq walk[s].items
  BY <1>1, <1>3
<1>7. AllVouch' /\ \A s \in Target : \A i \in walk'[s].items : OfThisScan(s, i)'
  BY <1>2, <1>5, <1>6 DEF AllVouch
<1>8. StatHeld' /\ ListsNoted'
  BY <1>1, <1>2, <1>3 DEF StatHeld, ListsNoted, There
<1>. QED
  BY <1>4, <1>7, <1>8

\* What a cache is replaced by vouches as well.
LEMMA StoreStep ==
    ASSUME WalkInv, StoreSnapshot \/ StoreCache
    PROVE  WalkInv'
<1> USE DEF WalkInv
<1>1. /\ UNCHANGED <<disk, changes, known, walk, during>>
      /\ stage' # "idle" /\ stage # "idle"
      /\ DOMAIN cache' = Target
      /\ \A t \in Target : cache'[t] = cache[t] \/ cache'[t] = walk[t].items
  BY DEF StoreSnapshot, StoreCache, disks, seen, Shape
<1>2. Shape'
  BY <1>1 DEF Shape
<1>3. ASSUME NEW s \in Target, NEW i
      PROVE  (Vouches(s, i)' <=> Vouches(s, i)) /\ (OfThisScan(s, i)' <=> OfThisScan(s, i))
  BY <1>1 DEF Vouches, OfThisScan, There
<1>4. AllVouch' /\ \A s \in Target : \A i \in walk'[s].items : OfThisScan(s, i)'
  BY <1>1, <1>3 DEF AllVouch
<1>5. StatHeld' /\ ListsNoted'
  BY <1>1 DEF StatHeld, ListsNoted, There
<1>. QED
  BY <1>2, <1>4, <1>5

\* A scan that ends, or fails, leaves the caches as they are.
LEMMA RestedStep ==
    ASSUME WalkInv, Rested
    PROVE  WalkInv'
<1> USE DEF WalkInv
<1>1. /\ UNCHANGED <<disk, changes, cache>> /\ stage' = "idle"
      /\ DOMAIN known' = Target /\ DOMAIN walk' = Target /\ DOMAIN during' = Object
      /\ \A t \in Target : known'[t] = {} /\ walk'[t] = Resting
  BY DEF Rested, disks
<1>2. \A t \in Target :
         WalkShape(walk'[t]) /\ walk'[t].step = "next" /\ walk'[t].items = {}
  BY <1>1, AtRest
<1>3. Shape'
  BY <1>1, <1>2 DEF Shape
<1>4. ASSUME NEW t \in Target, NEW i
      PROVE  Vouches(t, i)' <=> Vouches(t, i)
  BY <1>1 DEF Vouches, There
<1>5. AllVouch'
  BY <1>1, <1>2, <1>4 DEF AllVouch
<1>. QED
  BY <1>1, <1>2, <1>3, <1>5 DEF StatHeld, ListsNoted

\* Every step keeps it.
LEMMA WalkInvStep == WalkInv /\ [Next]_vars => WalkInv'
<1> SUFFICES ASSUME WalkInv, [Next]_vars PROVE WalkInv'
  OBVIOUS
<1>1. ASSUME NEW o \in Object, ChangeAcl(o) \/ CreateObject(o) \/ RemoveObject(o)
      PROVE  WalkInv'
  <2>1. ASSUME NEW acl \in Acl, Write(o, TRUE, acl, {}) PROVE WalkInv'
    BY <2>1, FileStep
  <2>2. ASSUME NEW acl \in Acl, Write(o, TRUE, acl, {Above[o]}) PROVE WalkInv'
    BY <2>2, FileStep
  <2>3. ASSUME Write(o, FALSE, disk[o].acl, {Above[o]}) PROVE WalkInv'
    <3>1. PICK acl \in Acl : acl = disk[o].acl
      BY DEF WalkInv, Shape
    <3>. QED
      BY <2>3, <3>1, FileStep
  <2>. QED
    BY <1>1, <2>1, <2>2, <2>3 DEF ChangeAcl, CreateObject, RemoveObject
<1>2. ASSUME NEW T \in Selections, BeginScan(T) PROVE WalkInv'
  BY <1>2, BeginScanStep
<1>3. ASSUME NEW t \in Target, Visit(t) \/ ReadAcl(t) \/ ListChildren(t) \/ Unreachable(t)
      PROVE  WalkInv'
  BY <1>3, VisitStep, ReadAclStep, ListChildrenStep, UnreachableStep
<1>4. CASE StoreSnapshot \/ StoreCache
  BY <1>4, StoreStep
<1>5. CASE EndScan \/ ScanFails
  BY <1>5, RestedStep DEF EndScan, ScanFails
<1>6. CASE UNCHANGED vars
  <2>1. UNCHANGED <<disk, changes, cache, stage, known, walk, during>>
    BY <1>6 DEF vars, disks, seen, scan
  <2>. QED
    BY <2>1 DEF WalkInv, Shape, AllVouch, Vouches, StatHeld, ListsNoted, OfThisScan, There
<1>. QED
  BY <1>1, <1>2, <1>3, <1>4, <1>5, <1>6 DEF Next

------------------------------------------------------------------------------
(* The theorems.                                                           *)

\* The invariant holds.
LEMMA WalkAlways == Spec => []WalkInv
<1>. QED
  BY InitWalkInv, WalkInvStep, PTL DEF Spec

\* Whatever changes while scans run or fail, a record of the cache that a scan
\* would use instead of reading the object tells the entries the object has.
THEOREM CacheAlwaysVouches == Spec => []CacheVouches
<1>1. WalkInv => CacheVouches
  BY DEF WalkInv, AllVouch, Vouches, CacheVouches
<1>. QED
  BY <1>1, WalkAlways, PTL

\* Every item of a scan tells entries its object had during that scan, although
\* most come from caches that earlier scans have written.
THEOREM ItemsAreOfTheScan == Spec => []ItemsWereThere
<1>1. WalkInv => ItemsWereThere
  BY DEF WalkInv, OfThisScan, ItemsWereThere
<1>. QED
  BY <1>1, WalkAlways, PTL

------------------------------------------------------------------------------
(* What a scan finds: nothing twice, and nothing is overlooked.            *)

Pending(w, o, d) == \E n \in DOMAIN w.queue : w.queue[n].object = o /\ w.queue[n].depth = d
IsAt(w, o, d) == w.step # "next" /\ w.at.object = o /\ w.at.depth = d
FoundIn(w) == {i.object : i \in w.items}
Queued(w) == {w.queue[n].object : n \in DOMAIN w.queue}
Reached(w) == FoundIn(w) \cup Queued(w) \cup (IF w.step = "read" THEN {w.at.object} ELSE {})

\* A path is queued once and read once: whatever a thread has reached hangs below
\* a directory it has found and listed before.
OnceEach(t, w) ==
    /\ \A i, j \in w.items : i.object = j.object => i = j
    /\ \A m, n \in DOMAIN w.queue : w.queue[m].object = w.queue[n].object => m = n
    /\ Queued(w) \cap FoundIn(w) = {}
    /\ w.step = "read" => w.at.object \notin FoundIn(w) \cup Queued(w)
    /\ w.step = "list" => w.at.object \in FoundIn(w)
    /\ \A x \in Reached(w) \ {RootOf[t]} :
          Above[x] # x /\ Above[x] \in FoundIn(w) /\ (w.step = "list" => Above[x] # w.at.object)

Told(i) == \A e \in i.entries : e.permissions \in (SUBSET Permission) \ {{}}

\* What holds of a thread between its steps.
Standing(t, w) ==
    /\ w.step \in {"next", "read", "list"} /\ w.warned \in BOOLEAN
    /\ IsFiniteSet(w.items) /\ Cardinality(w.items) <= MaxItems[t]
    /\ w.step = "read" => Cardinality(w.items) < MaxItems[t]
    /\ w.step = "read" => w.at.acl \in Acl
    /\ \A i \in w.items : Told(i)
    /\ OnceEach(t, w)

\* On the way to an object there is one that is waited for, or it is found.
CoveredBy(w, n, way) ==
    \/ \E k \in 0 .. n : Pending(w, way[k], k) \/ IsAt(w, way[k], k)
    \/ way[n] \in FoundIn(w)

Covers(t, w) ==
    w # Resting /\ ~ w.warned => \A n \in 0 .. DepthOf[t] : \A way \in Ways(t, n) : CoveredBy(w, n, way)

Counters ==
    /\ \A o \in Object : disk[o].stamp \in 0 .. MaxChanges
    /\ changes \in 0 .. MaxChanges /\ scans \in 0 .. MaxScans /\ faults \in 0 .. MaxFaults
    /\ stage \in {"idle", "walk", "store"}
    /\ bundles # <<>> => stage = "store" /\ stored = 0
    /\ stage # "store" => stored = 0
    /\ stored \in 0 .. Cardinality(Target)

CachesRight ==
    \A t \in Target :
        /\ \A i \in cache[t] \cup known[t] : Told(i)
        /\ \A i, j \in cache[t] : i.object = j.object => i = j

Searched ==
    stage # "idle" => /\ \A o \in steady : o \in Object /\ There(o)
                      /\ \A t \in Target : Covers(t, walk[t])

\* When the snapshot is stored, no thread that may still find something has
\* anything waiting.
AllDone == stage = "store" => \A t \in Target : Done(t)

ScanInv ==
    /\ WalkInv /\ Counters /\ CachesRight
    /\ \A t \in Target : Standing(t, walk[t])
    /\ Searched /\ AllDone

\* The children of a directory in an order, each of them once.
LEMMA ListedOnce ==
    ASSUME NEW S, IsFiniteSet(S)
    PROVE  LET s == Seqs!SetToSeq(S)
           IN  /\ s \in Seq(S)
               /\ \A m, n \in DOMAIN s : s[m] = s[n] => m = n
               /\ \A x \in S : \E n \in DOMAIN s : s[n] = x
<1> DEFINE N == Cardinality(S)
           s == Seqs!SetToSeq(S)
<1>1. N \in Nat /\ ExistsBijection(1..N, S)
  BY FS_CardinalityType
<1>2. PICK f \in [1..N -> S] : \A a, b \in DOMAIN f : f[a] = f[b] => a = b
  BY <1>1 DEF ExistsBijection, Bijection, Injection, IsInjective
<1>3. Seqs!Cardinality(S) = N
  BY Zenon DEF Seqs!Cardinality, Cardinality
<1>4. s = CHOOSE g \in [1..N -> S] : Seqs!IsInjective(g)
  BY <1>3 DEF Seqs!SetToSeq
<1>5. Seqs!IsInjective(f)
  BY <1>2 DEF Seqs!IsInjective
<1>6. s \in [1..N -> S] /\ Seqs!IsInjective(s)
  BY <1>4, <1>5
<1> HIDE DEF s, N
<1>7. \A m, n \in 1..N : s[m] = s[n] => m = n
  BY <1>6 DEF Seqs!IsInjective
<1>8. s \in Injection(1..N, S)
  BY <1>6, <1>7, Fun_IsInj
<1>9. Cardinality(1..N) = N
  BY <1>1, FS_Interval
<1>10. s \in Surjection(1..N, S)
  BY <1>8, <1>9, FS_Injection DEF N
<1>11. \A x \in S : \E n \in 1..N : s[n] = x
  BY <1>10 DEF Surjection
<1>12. s \in Seq(S) /\ DOMAIN s = 1..N
  BY <1>1, <1>6
<1>. QED
  BY <1>7, <1>11, <1>12 DEF s

\* One more is at most one more.
LEMMA OneMore ==
    ASSUME NEW S, IsFiniteSet(S), NEW x, NEW T, T = S \cup {x}
    PROVE  IsFiniteSet(T) /\ Cardinality(T) \in Nat /\ Cardinality(T) <= Cardinality(S) + 1
<1>1. /\ IsFiniteSet(T)
      /\ Cardinality(T) = IF x \in S THEN Cardinality(S) ELSE Cardinality(S) + 1
  BY FS_AddElement
<1>2. Cardinality(S) \in Nat
  BY FS_CardinalityType
<1>. QED
  BY <1>1, <1>2

\* What is left of a queue, place by place.
LEMMA TakenFirst ==
    ASSUME NEW q \in Seq(Place), q # <<>>
    PROVE  /\ Head(q) = q[1] /\ 1 \in DOMAIN q
           /\ \A n \in DOMAIN Tail(q) : n + 1 \in DOMAIN q /\ Tail(q)[n] = q[n + 1]
           /\ \A n \in DOMAIN q : n # 1 => n - 1 \in DOMAIN Tail(q) /\ Tail(q)[n - 1] = q[n]
<1>1. Len(q) \in Nat /\ Len(q) # 0 /\ DOMAIN q = 1..Len(q)
  OBVIOUS
<1>2. Tail(q) \in Seq(Place) /\ Len(Tail(q)) = Len(q) - 1
  OBVIOUS
<1>3. DOMAIN Tail(q) = 1..(Len(q) - 1)
  BY <1>2
<1>4. \A n \in 1..(Len(q) - 1) : Tail(q)[n] = q[n + 1]
  OBVIOUS
<1>5. ASSUME NEW n \in DOMAIN q, n # 1
      PROVE  n - 1 \in DOMAIN Tail(q) /\ Tail(q)[n - 1] = q[n]
  <2>1. n - 1 \in 1..(Len(q) - 1) /\ (n - 1) + 1 = n
    BY <1>1, <1>5
  <2>. QED
    BY <1>3, <1>4, <2>1
<1>. QED
  BY <1>1, <1>3, <1>4, <1>5

\* The entries that are written down grant something, of what there is to grant.
LEMMA EntriesTold ==
    ASSUME NEW t, NEW o, NEW listed \in BOOLEAN, NEW acl \in Acl, NEW e \in AccessEntries(t, o, listed, acl)
    PROVE  e.permissions \in (SUBSET Permission) \ {{}}
<1>1. \A x \in acl : x.permissions \subseteq Permission
  BY AclAssumption
<1>2. \A tag : ModeOf(acl, tag) \subseteq Permission
  BY <1>1 DEF ModeOf
<1>3. GroupBits(acl) \subseteq Permission
  BY <1>2 DEF GroupBits
<1>4. CASE e \in AclEntries(acl)
  BY <1>1, <1>4 DEF AclEntries
<1>5. CASE e \in ModeEntries(o, acl)
  BY <1>2, <1>3, <1>5 DEF ModeEntries
<1>. QED
  BY <1>4, <1>5 DEF AccessEntries
\* A step of one thread, if the thread is as it should be after it.
LEMMA ThreadScans ==
    ASSUME ScanInv, NEW t \in Target, NEW w, Walks(t, w), stage = "walk", WalkInv',
           Standing(t, w), Covers(t, w)
    PROVE  ScanInv'
<1>1. /\ DOMAIN walk = Target /\ walk' = [walk EXCEPT ![t] = w]
      /\ UNCHANGED <<disk, changes, cache, stage, stored, known, bundles, scans, faults, steady>>
  BY DEF ScanInv, WalkInv, Shape, Walks, disks, seen
<1>2. walk'[t] = w /\ \A s \in Target : s # t => walk'[s] = walk[s]
  BY <1>1
<1>3. Counters' /\ CachesRight'
  BY <1>1 DEF ScanInv, Counters, CachesRight
<1>4. \A s \in Target : Standing(s, walk'[s])
  BY <1>2 DEF ScanInv
<1>5. \A s \in Target : Covers(s, walk'[s])
  BY <1>2 DEF ScanInv, Searched
<1>6. \A s, n : Ways(s, n)' = Ways(s, n)
  BY <1>1 DEF Ways
<1>7. Searched'
  <2>1. \A s \in Target : Covers(s, walk[s])'
    BY <1>5, <1>6 DEF Covers
  <2>2. \A o \in steady' : o \in Object /\ There(o)'
    BY <1>1 DEF ScanInv, Searched, There
  <2>. QED
    BY <2>1, <2>2 DEF Searched
<1>8. AllDone'
  BY <1>1 DEF AllDone
<1>. QED
  BY <1>3, <1>4, <1>7, <1>8 DEF ScanInv

\* The place that a step takes is the only one that stops being waited for.
LEMMA WaitingOn ==
    ASSUME NEW q \in Seq(Place), q # <<>>, NEW w, w.queue = q, NEW v, v.queue = Tail(q),
           NEW o, NEW d, Pending(w, o, d)
    PROVE  Pending(v, o, d) \/ (o = Head(q).object /\ d = Head(q).depth)
<1>1. PICK n \in DOMAIN q : q[n].object = o /\ q[n].depth = d
  BY DEF Pending
<1>2. CASE n = 1
  BY <1>1, <1>2, TakenFirst
<1>3. CASE n # 1
  <2>1. n - 1 \in DOMAIN Tail(q) /\ Tail(q)[n - 1] = q[n]
    BY <1>3, TakenFirst
  <2>. QED
    BY <1>1, <2>1 DEF Pending
<1>. QED
  BY <1>2, <1>3

\* With the first place taken, the queue still has every path once.
LEMMA QueueTaken ==
    ASSUME NEW q \in Seq(Place), q # <<>>, NEW w, w.queue = q, NEW v, v.queue = Tail(q),
           \A m, n \in DOMAIN q : q[m].object = q[n].object => m = n
    PROVE  /\ \A m, n \in DOMAIN v.queue : v.queue[m].object = v.queue[n].object => m = n
           /\ Queued(v) \subseteq Queued(w) /\ Head(q).object \in Queued(w)
           /\ Head(q).object \notin Queued(v)
<1>1. Head(q) = q[1] /\ 1 \in DOMAIN q
  BY TakenFirst
<1>2. \A n \in DOMAIN Tail(q) : n + 1 \in DOMAIN q /\ Tail(q)[n] = q[n + 1] /\ n \in Nat /\ n + 1 # 1
  <2>1. DOMAIN Tail(q) \subseteq Nat \ {0}
    OBVIOUS
  <2>. QED
    BY <2>1, TakenFirst
<1>3. \A m, n \in DOMAIN Tail(q) : Tail(q)[m].object = Tail(q)[n].object => m = n
  <2> SUFFICES ASSUME NEW m \in DOMAIN Tail(q), NEW n \in DOMAIN Tail(q), Tail(q)[m].object = Tail(q)[n].object
               PROVE  m = n
    OBVIOUS
  <2>1. m + 1 = n + 1
    BY <1>2
  <2>. QED
    BY <1>2, <2>1
<1>4. Head(q).object \notin Queued(v)
  BY <1>1, <1>2 DEF Queued
<1>5. Queued(v) \subseteq Queued(w) /\ Head(q).object \in Queued(w)
  BY <1>1, <1>2 DEF Queued
<1>. QED
  BY <1>3, <1>4, <1>5

\* A place is taken, and not looked into: it is hidden, or gone.
LEMMA LeftOut ==
    ASSUME NEW t \in Target, NEW w, WalkShape(w), Standing(t, w), Covers(t, w),
           w.queue # <<>>, w.step = "next", NEW v,
           v.queue = Tail(w.queue), v.step = "next", v.items = w.items, v.warned \in BOOLEAN,
           v.warned \/ (v.warned = w.warned /\ Skipped(t, Head(w.queue).object))
    PROVE  Standing(t, v) /\ Covers(t, v)
<1>1. w.queue \in Seq(Place)
  BY DEF WalkShape
<1>2. /\ \A m, n \in DOMAIN v.queue : v.queue[m].object = v.queue[n].object => m = n
      /\ Queued(v) \subseteq Queued(w)
  BY <1>1, QueueTaken DEF Standing, OnceEach
<1>3. FoundIn(v) = FoundIn(w) /\ Reached(v) \subseteq Reached(w)
  BY <1>2 DEF FoundIn, Reached
<1>4. OnceEach(t, v)
  BY <1>2, <1>3 DEF Standing, OnceEach
<1>5. Standing(t, v)
  BY <1>4 DEF Standing
<1>6. ASSUME v # Resting, ~ v.warned, NEW n \in 0 .. DepthOf[t], NEW way \in Ways(t, n)
      PROVE  CoveredBy(v, n, way)
  <2>1. CoveredBy(w, n, way)
    BY <1>6 DEF Covers, Resting
  <2>2. CASE way[n] \in FoundIn(w)
    BY <1>3, <2>2 DEF CoveredBy
  <2>3. ASSUME NEW k \in 0 .. n, Pending(w, way[k], k)
        PROVE  CoveredBy(v, n, way)
    <3>1. CASE Pending(v, way[k], k)
      BY <3>1 DEF CoveredBy
    <3>2. CASE way[k] = Head(w.queue).object
      <4>1. way[k] \in Hidden /\ way[k] # RootOf[t]
        BY <1>6, <3>2 DEF Skipped
      <4>2. k # 0 /\ k \in 1 .. n
        BY <4>1 DEF Ways
      <4>. QED
        BY <4>1, <4>2 DEF Ways
    <3>. QED
      BY <1>1, <2>3, <3>1, <3>2, WaitingOn
  <2>4. \A k \in 0 .. n : ~ IsAt(w, way[k], k)
    BY DEF IsAt
  <2>. QED
    BY <2>1, <2>2, <2>3, <2>4 DEF CoveredBy
<1>. QED
  BY <1>5, <1>6 DEF Covers
\* A place is taken, and what is there is looked at.
LEMMA TakenUp ==
    ASSUME NEW t \in Target, NEW w, WalkShape(w), Covers(t, w), w.queue # <<>>, w.step = "next",
           NEW v, v.queue = Tail(w.queue), v.warned = w.warned, FoundIn(w) \subseteq FoundIn(v),
           IsAt(v, Head(w.queue).object, Head(w.queue).depth)
    PROVE  Covers(t, v)
<1>1. w.queue \in Seq(Place)
  BY DEF WalkShape
<1> SUFFICES ASSUME v # Resting, ~ v.warned, NEW n \in 0 .. DepthOf[t], NEW way \in Ways(t, n)
             PROVE  CoveredBy(v, n, way)
  BY DEF Covers
<1>2. CoveredBy(w, n, way)
  BY DEF Covers, Resting
<1>3. ASSUME NEW k \in 0 .. n, Pending(w, way[k], k)
      PROVE  Pending(v, way[k], k) \/ IsAt(v, way[k], k)
  BY <1>1, <1>3, WaitingOn
<1>4. \A k \in 0 .. n : ~ IsAt(w, way[k], k)
  BY DEF IsAt
<1>. QED
  BY <1>2, <1>3, <1>4 DEF CoveredBy

\* It is found in the cache.
LEMMA FoundAtOnce ==
    ASSUME NEW t \in Target, NEW w, WalkShape(w), Standing(t, w), w.queue # <<>>, w.step = "next",
           Cardinality(w.items) # MaxItems[t], NEW new, Told(new), new.object = Head(w.queue).object,
           NEW v, v.queue = Tail(w.queue), v.step = "list", v.at.object = Head(w.queue).object,
           v.items = w.items \cup {new}, v.warned = w.warned
    PROVE  Standing(t, v)
<1>1. w.queue \in Seq(Place)
  BY DEF WalkShape
<1> DEFINE o == Head(w.queue).object
<1>2. /\ \A m, n \in DOMAIN v.queue : v.queue[m].object = v.queue[n].object => m = n
      /\ Queued(v) \subseteq Queued(w) /\ o \in Queued(w) /\ o \notin Queued(v)
  BY <1>1, QueueTaken DEF Standing, OnceEach
<1>3. FoundIn(v) = FoundIn(w) \cup {o} /\ o \notin FoundIn(w)
  BY <1>2 DEF FoundIn, Standing, OnceEach
<1>4. Reached(v) \subseteq Reached(w)
  BY <1>2, <1>3 DEF Reached
<1>5. \A i, j \in v.items : i.object = j.object => i = j
  BY <1>3 DEF FoundIn, Standing, OnceEach
<1>6. \A x \in Reached(v) \ {RootOf[t]} : Above[x] # x /\ Above[x] \in FoundIn(v) /\ Above[x] # o
  BY <1>3, <1>4 DEF Standing, OnceEach
<1> HIDE DEF o
<1>7. OnceEach(t, v)
  BY <1>2, <1>3, <1>5, <1>6 DEF OnceEach, Standing, o
<1>8. /\ IsFiniteSet(v.items)
      /\ Cardinality(v.items) <= Cardinality(w.items) + 1
      /\ Cardinality(w.items) \in Nat
  <2>1. IsFiniteSet(w.items) /\ Cardinality(w.items) \in Nat
    BY FS_CardinalityType DEF Standing
  <2>. QED
    BY <2>1, OneMore
<1>9. MaxItems[t] \in Nat
  BY CollectionAssumption
<1>10. Cardinality(v.items) <= MaxItems[t]
  <2>1. Cardinality(v.items) \in Nat
    BY <1>8, FS_CardinalityType
  <2>. QED
    BY <1>8, <1>9, <2>1 DEF Standing
<1>. QED
  BY <1>7, <1>8, <1>10 DEF Standing

\* It is to be read.
LEMMA ToBeRead ==
    ASSUME NEW t \in Target, NEW w, WalkShape(w), Standing(t, w), w.queue # <<>>, w.step = "next",
           Cardinality(w.items) # MaxItems[t],
           NEW v, v.queue = Tail(w.queue), v.step = "read", v.at.object = Head(w.queue).object,
           v.at.acl \in Acl, v.items = w.items, v.warned = w.warned
    PROVE  Standing(t, v)
<1>1. w.queue \in Seq(Place)
  BY DEF WalkShape
<1> DEFINE o == Head(w.queue).object
<1>2. /\ \A m, n \in DOMAIN v.queue : v.queue[m].object = v.queue[n].object => m = n
      /\ Queued(v) \subseteq Queued(w) /\ o \in Queued(w) /\ o \notin Queued(v)
  BY <1>1, QueueTaken DEF Standing, OnceEach
<1>3. FoundIn(v) = FoundIn(w) /\ o \notin FoundIn(w)
  BY <1>2 DEF FoundIn, Standing, OnceEach
<1>4. Reached(v) \subseteq Reached(w)
  BY <1>2, <1>3 DEF Reached
<1>5. OnceEach(t, v)
  BY <1>2, <1>3, <1>4 DEF OnceEach, Standing
<1>6. MaxItems[t] \in Nat /\ Cardinality(w.items) \in Nat
  BY CollectionAssumption, FS_CardinalityType DEF Standing
<1>7. Cardinality(w.items) < MaxItems[t]
  BY <1>6 DEF Standing
<1>. QED
  BY <1>5, <1>7 DEF Standing

\* Visit
LEMMA VisitScans ==
    ASSUME ScanInv, NEW t \in Target, Visit(t)
    PROVE  ScanInv'
<1> DEFINE w == walk[t]
           here == Head(w.queue)
           o == here.object
           popped == [w EXCEPT !.queue = Tail(@)]
           hits == {i \in known[t] : i.object = o /\ i.stamp = disk[o].stamp}
<1>1. WalkInv' /\ WalkShape(w) /\ Standing(t, w)
  BY VisitStep DEF ScanInv, WalkInv, Shape
<1>2. w.queue # <<>> /\ stage = "walk" /\ w.step = "next" /\ Cardinality(w.items) # MaxItems[t]
  BY DEF Visit, Done, Full
<1>3. Covers(t, w)
  BY <1>2 DEF ScanInv, Searched
<1>4. DOMAIN w = {"queue", "step", "at", "items", "warned"} /\ o \in Object
  BY <1>1, <1>2, Popped DEF WalkShape
<1> HIDE DEF w
<1>5. ASSUME Skipped(t, o), Walks(t, popped) PROVE ScanInv'
  <2>1. /\ popped.queue = Tail(w.queue) /\ popped.step = "next" /\ popped.items = w.items
        /\ popped.warned = w.warned /\ w.warned \in BOOLEAN
    BY <1>1, <1>2, <1>4 DEF Standing
  <2> HIDE DEF popped
  <2>. QED
    BY <1>1, <1>2, <1>3, <1>5, <2>1, LeftOut, ThreadScans
<1>6. ASSUME Walks(t, [popped EXCEPT !.warned = TRUE]) PROVE ScanInv'
  <2> DEFINE v == [popped EXCEPT !.warned = TRUE]
  <2>1. v.queue = Tail(w.queue) /\ v.step = "next" /\ v.items = w.items /\ v.warned = TRUE
    BY <1>2, <1>4
  <2> HIDE DEF v
  <2>. QED
    BY <1>1, <1>2, <1>3, <1>6, <2>1, LeftOut, ThreadScans DEF v
<1>7. ASSUME NEW hit \in hits,
             Walks(t, [popped EXCEPT !.step = "list", !.at = here,
                       !.items = @ \cup {Found(t, o, HitEntries(t, hit), hit.stamp)}])
      PROVE  ScanInv'
  <2> DEFINE new == Found(t, o, HitEntries(t, hit), hit.stamp)
             v == [popped EXCEPT !.step = "list", !.at = here, !.items = @ \cup {new}]
  <2>1. Told(hit)
    BY DEF ScanInv, CachesRight
  <2>2. new.object = o /\ Told(new)
    BY <2>1 DEF Found, HitEntries, Told
  <2>3. Walks(t, v)
    BY <1>7
  <2> HIDE DEF new
  <2>4. /\ v.queue = Tail(w.queue) /\ v.step = "list" /\ v.at = here
        /\ v.items = w.items \cup {new} /\ v.warned = w.warned
    BY <1>4
  <2> HIDE DEF v
  <2>5. Standing(t, v)
    BY <1>1, <1>2, <2>2, <2>4, FoundAtOnce
  <2>6. FoundIn(w) \subseteq FoundIn(v) /\ IsAt(v, o, here.depth)
    BY <2>4 DEF FoundIn, IsAt
  <2>7. Covers(t, v)
    BY <1>1, <1>2, <1>3, <2>4, <2>6, TakenUp
  <2>. QED
    BY <1>1, <1>2, <2>3, <2>5, <2>7, ThreadScans
<1>8. ASSUME Walks(t, [popped EXCEPT !.step = "read",
                       !.at = [object |-> o, depth |-> here.depth,
                               stamp |-> disk[o].stamp, acl |-> disk[o].acl]])
      PROVE  ScanInv'
  <2> DEFINE place == [object |-> o, depth |-> here.depth, stamp |-> disk[o].stamp, acl |-> disk[o].acl]
             v == [popped EXCEPT !.step = "read", !.at = place]
  <2>1. place.object = o /\ place.depth = here.depth /\ place.acl \in Acl
    BY <1>4 DEF ScanInv, WalkInv, Shape
  <2>2. Walks(t, v)
    BY <1>8
  <2> HIDE DEF place
  <2>3. /\ v.queue = Tail(w.queue) /\ v.step = "read" /\ v.at = place
        /\ v.items = w.items /\ v.warned = w.warned
    BY <1>4
  <2> HIDE DEF v
  <2>4. Standing(t, v)
    BY <1>1, <1>2, <2>1, <2>3, ToBeRead
  <2>5. FoundIn(w) \subseteq FoundIn(v) /\ IsAt(v, o, here.depth)
    BY <2>1, <2>3 DEF FoundIn, IsAt
  <2>6. Covers(t, v)
    BY <1>1, <1>2, <1>3, <2>3, <2>5, TakenUp
  <2>. QED
    BY <1>1, <1>2, <2>2, <2>4, <2>6, ThreadScans
<1>. QED
  BY <1>5, <1>6, <1>7, <1>8 DEF Visit, w
\* getfacl has answered: the object is among the items.
LEMMA ReadAclScans ==
    ASSUME ScanInv, NEW t \in Target, ReadAcl(t)
    PROVE  ScanInv'
<1> DEFINE w == walk[t]
           o == w.at.object
           acl == IF There(o) THEN disk[o].acl ELSE w.at.acl
           new == Found(t, o, AccessEntries(t, o, There(o), acl), w.at.stamp)
           at == [object |-> o, depth |-> w.at.depth]
           v == [w EXCEPT !.step = "list", !.at = at, !.items = @ \cup {new}]
<1>1. WalkInv' /\ WalkShape(w) /\ Standing(t, w)
  BY ReadAclStep DEF ScanInv, WalkInv, Shape
<1>2. stage = "walk" /\ w.step = "read" /\ Walks(t, v)
  BY DEF ReadAcl
<1>3. Covers(t, w)
  BY <1>2 DEF ScanInv, Searched
<1>4. o \in Object /\ There(o) \in BOOLEAN /\ acl \in Acl
  BY <1>1, <1>2 DEF WalkShape, ScanInv, WalkInv, Shape, There, Standing
<1>5. Told(new) /\ new.object = o
  BY <1>4, EntriesTold DEF Found, Told
<1> HIDE DEF new
<1>6. /\ v.queue = w.queue /\ v.step = "list" /\ v.at = at
      /\ v.items = w.items \cup {new} /\ v.warned = w.warned
  BY <1>1 DEF WalkShape
<1> HIDE DEF w, v
<1>7. FoundIn(v) = FoundIn(w) \cup {o} /\ o \notin FoundIn(w) \cup Queued(w) /\ Queued(v) = Queued(w)
  BY <1>1, <1>2, <1>5, <1>6 DEF FoundIn, Queued, Standing, OnceEach
<1>8. OnceEach(t, v)
  <2>1. Reached(v) \subseteq Reached(w)
    BY <1>2, <1>6, <1>7 DEF Reached
  <2>2. \A i, j \in v.items : i.object = j.object => i = j
    BY <1>1, <1>5, <1>6, <1>7 DEF FoundIn, Standing, OnceEach
  <2>3. \A x \in Reached(v) \ {RootOf[t]} : Above[x] # x /\ Above[x] \in FoundIn(v) /\ Above[x] # o
    BY <1>1, <1>7, <2>1 DEF Standing, OnceEach
  <2>4. Queued(v) \cap FoundIn(v) = {}
    BY <1>1, <1>7 DEF Standing, OnceEach
  <2>5. \A m, n \in DOMAIN v.queue : v.queue[m].object = v.queue[n].object => m = n
    BY <1>1, <1>6 DEF Standing, OnceEach
  <2>. QED
    BY <1>6, <1>7, <2>2, <2>3, <2>4, <2>5 DEF OnceEach
<1>9. IsFiniteSet(w.items) /\ Cardinality(w.items) \in Nat /\ Cardinality(w.items) < MaxItems[t] /\ MaxItems[t] \in Nat
  BY <1>1, <1>2, FS_CardinalityType, CollectionAssumption DEF Standing
<1>10. IsFiniteSet(v.items) /\ Cardinality(v.items) <= MaxItems[t]
  <2>1. IsFiniteSet(v.items) /\ Cardinality(v.items) \in Nat /\ Cardinality(v.items) <= Cardinality(w.items) + 1
    BY <1>6, <1>9, OneMore
  <2>. QED
    BY <1>9, <2>1
<1>11. Standing(t, v)
  BY <1>1, <1>5, <1>6, <1>8, <1>10 DEF Standing
<1>12. Covers(t, v)
  <2> SUFFICES ASSUME ~ v.warned, NEW n \in 0 .. DepthOf[t], NEW way \in Ways(t, n)
               PROVE  CoveredBy(v, n, way)
    BY DEF Covers
  <2>1. CoveredBy(w, n, way)
    BY <1>2, <1>3, <1>6 DEF Covers, Resting
  <2>2. ASSUME NEW k \in 0 .. n, Pending(w, way[k], k) \/ IsAt(w, way[k], k)
        PROVE  Pending(v, way[k], k) \/ IsAt(v, way[k], k)
    BY <1>6, <2>2 DEF Pending, IsAt
  <2>. QED
    BY <1>7, <2>1, <2>2 DEF CoveredBy
<1>. QED
  BY <1>1, <1>2, <1>11, <1>12, ThreadScans

\* Two queues, one behind the other.
LEMMA Behind ==
    ASSUME NEW q \in Seq(Place), NEW s \in Seq(Place)
    PROVE  /\ \A n \in DOMAIN q : n \in DOMAIN (q \o s) /\ (q \o s)[n] = q[n]
           /\ \A n \in DOMAIN s : n + Len(q) \in DOMAIN (q \o s) /\ (q \o s)[n + Len(q)] = s[n]
           /\ \A n \in DOMAIN (q \o s) : n \in DOMAIN q \/ n - Len(q) \in DOMAIN s
<1>1. Len(q) \in Nat /\ Len(s) \in Nat /\ DOMAIN q = 1..Len(q) /\ DOMAIN s = 1..Len(s)
  OBVIOUS
<1>2. /\ q \o s \in Seq(Place) /\ Len(q \o s) = Len(q) + Len(s)
      /\ \A i \in 1 .. Len(q) + Len(s) : (q \o s)[i] = IF i <= Len(q) THEN q[i] ELSE s[i - Len(q)]
  BY ConcatProperties
<1>3. DOMAIN (q \o s) = 1 .. Len(q) + Len(s)
  BY <1>1, <1>2
<1>4. ASSUME NEW n \in 1..Len(q) PROVE n \in 1 .. Len(q) + Len(s) /\ (q \o s)[n] = q[n]
  BY <1>1, <1>2
<1>5. ASSUME NEW n \in 1..Len(s)
      PROVE  n + Len(q) \in 1 .. Len(q) + Len(s) /\ (q \o s)[n + Len(q)] = s[n]
  <2>1. n + Len(q) \in 1 .. Len(q) + Len(s) /\ ~ (n + Len(q) <= Len(q)) /\ n + Len(q) - Len(q) = n
    BY <1>1
  <2>. QED
    BY <1>2, <2>1
<1>6. \A n \in 1 .. Len(q) + Len(s) : n \in 1..Len(q) \/ n - Len(q) \in 1..Len(s)
  BY <1>1
<1>. QED
  BY <1>1, <1>3, <1>4, <1>5, <1>6

\* The children of a directory were not reached before.
LEMMA NewChildren ==
    ASSUME NEW t \in Target, NEW w, WalkShape(w), Standing(t, w), w.step = "list",
           \A i \in w.items : i.object \in Object,
           NEW x \in Children(w.at.object)
    PROVE  x \notin Reached(w) /\ x # RootOf[t]
<1> DEFINE o == w.at.object
<1>1. x \in Object /\ Above[x] = o /\ x # o /\ o \in FoundIn(w)
  BY DEF Children, Standing, OnceEach
<1>2. x # RootOf[t]
  <2> SUFFICES ASSUME x = RootOf[t] PROVE FALSE
    OBVIOUS
  <2>1. FoundIn(w) \in SUBSET Object /\ FoundIn(w) # {}
    BY <1>1 DEF FoundIn
  <2>2. \A y \in FoundIn(w) : Above[y] # y /\ Above[y] \in FoundIn(w)
    BY <1>1 DEF Standing, OnceEach, Reached
  <2>. QED
    BY <2>1, <2>2, PathAssumption
<1>. QED
  BY <1>1, <1>2 DEF Standing, OnceEach
\* The children of the directory are put behind the others in the queue.
LEMMA ListChildrenScans ==
    ASSUME ScanInv, NEW t \in Target, ListChildren(t)
    PROVE  ScanInv'
<1> DEFINE w == walk[t]
           o == w.at.object
           there == {c \in Children(o) : There(c)}
           below == {[object |-> x, depth |-> w.at.depth + 1] : x \in there}
           more == Seqs!SetToSeq(below)
           enters == o \in Directory /\ w.at.depth < DepthOf[t]
           queue == IF enters /\ There(o) THEN w.queue \o more ELSE w.queue
           warned == w.warned \/ (enters /\ ~ There(o))
           v == [w EXCEPT !.step = "next", !.at = <<>>, !.warned = warned, !.queue = queue]
<1>1. WalkInv' /\ WalkShape(w) /\ Standing(t, w) /\ \A i \in w.items : i.object \in Object
  BY ListChildrenStep DEF ScanInv, WalkInv, Shape, AllVouch, Vouches
<1>2. stage = "walk" /\ w.step = "list" /\ Walks(t, v)
  BY DEF ListChildren
<1>3. Covers(t, w) /\ \A x \in steady : x \in Object /\ There(x)
  BY <1>2 DEF ScanInv, Searched
<1>4. w.queue \in Seq(Place) /\ o \in Object /\ w.at.depth \in Nat
  BY <1>1, <1>2 DEF WalkShape
<1>5. v.queue = queue /\ v.step = "next" /\ v.items = w.items /\ v.warned = warned
  BY <1>1 DEF WalkShape
<1> HIDE DEF v
<1>6. below \subseteq Place
  BY <1>4 DEF Children, Place
<1>7. IsFiniteSet(below)
  <2>1. IsFiniteSet(there)
    BY FS_Subset, CollectionAssumption DEF Children
  <2> DEFINE f == [x \in there |-> [object |-> x, depth |-> w.at.depth + 1]]
  <2>2. f \in Surjection(there, below)
    BY DEF Surjection
  <2>. QED
    BY <2>1, <2>2, FS_Surjection DEF ExistsSurjection
<1>8. /\ \A y \in below : y.object \in Children(o) /\ There(y.object) /\ y.depth = w.at.depth + 1
      /\ \A y, z \in below : y.object = z.object => y = z
      /\ \A x \in there : \E y \in below : y.object = x /\ y.depth = w.at.depth + 1
  <2>1. ASSUME NEW y \in below PROVE \E x \in there : y = [object |-> x, depth |-> w.at.depth + 1]
    OBVIOUS
  <2>2. ASSUME NEW x \in there PROVE \E y \in below : y.object = x /\ y.depth = w.at.depth + 1
    <3>1. [object |-> x, depth |-> w.at.depth + 1] \in below
      OBVIOUS
    <3>. QED
      BY <3>1
  <2>3. \A x \in there : x \in Children(o) /\ There(x)
    OBVIOUS
  <2> HIDE DEF below, there
  <2>4. \A y \in below : y.object \in there /\ y = [object |-> y.object, depth |-> w.at.depth + 1]
    BY <2>1
  <2>5. \A y \in below : y.object \in there /\ y.depth = w.at.depth + 1
    BY <2>4
  <2>6. \A y, z \in below : y.object = z.object => y = z
    BY <2>4
  <2>. QED
    BY <2>2, <2>3, <2>5, <2>6
<1> HIDE DEF below, w
<1>9. /\ more \in Seq(below) /\ more \in Seq(Place)
      /\ \A m, n \in DOMAIN more : more[m] = more[n] => m = n
      /\ \A y \in below : \E n \in DOMAIN more : more[n] = y
      /\ \A n \in DOMAIN more : more[n] \in below
  <2>1. more \in Seq(below)
    BY <1>7, ListedOnce
  <2>2. more \in Seq(Place) /\ \A n \in DOMAIN more : more[n] \in below
    BY <1>6, <2>1
  <2>. QED
    BY <1>7, <2>1, <2>2, ListedOnce
<1> HIDE DEF more
<1>10. \A x \in Children(o) : x \notin Reached(w) /\ x # RootOf[t] /\ Above[x] = o /\ x # o
  BY <1>1, <1>2, NewChildren DEF Children
<1>11. FoundIn(v) = FoundIn(w) /\ o \in FoundIn(w)
  BY <1>1, <1>2, <1>5 DEF FoundIn, Standing, OnceEach
<1>12. CASE ~ (enters /\ There(o))
  <2>1. v.queue = w.queue
    BY <1>5, <1>12
  <2> HIDE DEF queue, warned
  <2>2. Queued(v) = Queued(w) /\ Reached(v) \subseteq Reached(w)
    BY <1>5, <1>11, <2>1 DEF Queued, Reached
  <2>3. Standing(t, v)
    <3>1. OnceEach(t, v)
      BY <1>1, <1>5, <1>11, <2>1, <2>2 DEF Standing, OnceEach
    <3>2. v.warned \in BOOLEAN
      BY <1>1, <1>5 DEF Standing, warned
    <3>. QED
      BY <1>1, <1>5, <3>1, <3>2 DEF Standing
  <2>4. Covers(t, v)
    <3> SUFFICES ASSUME ~ v.warned, NEW n \in 0 .. DepthOf[t], NEW way \in Ways(t, n)
                 PROVE  CoveredBy(v, n, way)
      BY DEF Covers
    <3>1. CoveredBy(w, n, way) /\ ~ enters
      <4>1. ~ w.warned /\ ~ enters
        BY <1>1, <1>5, <1>12 DEF warned, Standing
      <4>2. w # Resting
        BY <1>2 DEF Resting
      <4>. QED
        BY <1>3, <4>1, <4>2 DEF Covers
    <3>2. CASE way[n] \in FoundIn(w)
      BY <1>11, <3>2 DEF CoveredBy
    <3>3. ASSUME NEW k \in 0 .. n, Pending(w, way[k], k)
          PROVE  CoveredBy(v, n, way)
      BY <2>1, <3>3 DEF Pending, CoveredBy
    <3>4. ASSUME NEW k \in 0 .. n, IsAt(w, way[k], k)
          PROVE  CoveredBy(v, n, way)
      <4>1. way[k] = o /\ k = w.at.depth
        BY <3>4 DEF IsAt
      <4>2. CASE k = n
        BY <1>11, <4>1, <4>2 DEF CoveredBy
      <4>3. CASE k # n
        <5>1. DepthOf[t] \in Nat
          BY CollectionAssumption
        <5>2. k + 1 \in 1 .. n /\ k < DepthOf[t] /\ k + 1 - 1 = k /\ k + 1 \in 0 .. n
          BY <4>3, <5>1
        <5>3. way[k + 1] \in Children(o)
          BY <4>1, <5>2 DEF Ways
        <5>4. o \in Directory
          BY <5>3 DEF Directory, Children
        <5>. QED
          BY <3>1, <4>1, <5>2, <5>4
      <4>. QED
        BY <4>2, <4>3
    <3>. QED
      BY <3>1, <3>2, <3>3, <3>4 DEF CoveredBy
  <2>. QED
    BY <1>1, <1>2, <2>3, <2>4, ThreadScans
<1>13. CASE enters /\ There(o)
  <2> DEFINE q == w.queue
  <2>1. v.queue = q \o more /\ v.warned = w.warned
    BY <1>1, <1>5, <1>13 DEF Standing
  <2> HIDE DEF queue, warned, enters
  <2>2. /\ \A n \in DOMAIN q : n \in DOMAIN v.queue /\ v.queue[n] = q[n]
        /\ \A n \in DOMAIN more : n + Len(q) \in DOMAIN v.queue /\ v.queue[n + Len(q)] = more[n]
        /\ \A n \in DOMAIN v.queue : n \in DOMAIN q \/ n - Len(q) \in DOMAIN more
    BY <1>4, <1>9, <2>1, Behind
  <2>3. /\ Len(q) \in Nat /\ DOMAIN v.queue \subseteq Nat
        /\ \A n \in DOMAIN v.queue : n \notin DOMAIN q =>
              n - Len(q) \in DOMAIN more /\ v.queue[n] = more[n - Len(q)]
    <3>1. Len(q) \in Nat /\ q \o more \in Seq(Place)
      BY <1>4, <1>9
    <3>2. DOMAIN v.queue \subseteq Nat
      BY <2>1, <3>1
    <3>3. ASSUME NEW n \in DOMAIN v.queue, n \notin DOMAIN q
          PROVE  n - Len(q) \in DOMAIN more /\ v.queue[n] = more[n - Len(q)]
      <4>1. n - Len(q) \in DOMAIN more
        BY <2>2, <3>3
      <4>2. (n - Len(q)) + Len(q) = n
        BY <3>1, <3>2
      <4>. QED
        BY <2>2, <4>1, <4>2
    <3>. QED
      BY <3>1, <3>2, <3>3
  <2>4. \A n \in DOMAIN more : more[n].object \in Children(o) /\ more[n].object \notin Queued(w) \cup FoundIn(w)
    BY <1>8, <1>9, <1>10 DEF Reached
  <2>5. Queued(v) \subseteq Queued(w) \cup Children(o)
    BY <2>2, <2>3, <2>4 DEF Queued
  <2>6. Reached(v) \subseteq Reached(w) \cup Children(o)
    BY <1>5, <1>11, <2>5 DEF Reached
  <2>7. OnceEach(t, v)
    <3>1. ASSUME NEW m \in DOMAIN v.queue, NEW n \in DOMAIN v.queue, v.queue[m].object = v.queue[n].object
          PROVE  m = n
      <4>1. CASE m \in DOMAIN q /\ n \in DOMAIN q
        BY <1>1, <2>2, <3>1, <4>1 DEF Standing, OnceEach
      <4>2. CASE m \notin DOMAIN q /\ n \notin DOMAIN q
        <5>1. more[m - Len(q)].object = more[n - Len(q)].object
          BY <2>3, <3>1, <4>2
        <5>2. m - Len(q) \in DOMAIN more /\ n - Len(q) \in DOMAIN more
          BY <2>3, <4>2
        <5>3. more[m - Len(q)] = more[n - Len(q)]
          BY <1>8, <1>9, <5>1, <5>2
        <5>4. m - Len(q) = n - Len(q)
          BY <1>9, <5>2, <5>3
        <5>. QED
          BY <2>3, <5>4
      <4>3. CASE m \in DOMAIN q /\ n \notin DOMAIN q
        BY <2>2, <2>3, <2>4, <3>1, <4>3 DEF Queued
      <4>4. CASE m \notin DOMAIN q /\ n \in DOMAIN q
        BY <2>2, <2>3, <2>4, <3>1, <4>4 DEF Queued
      <4>. QED
        BY <4>1, <4>2, <4>3, <4>4
    <3>2. Queued(v) \cap FoundIn(v) = {}
      BY <1>1, <1>10, <1>11, <2>5 DEF Standing, OnceEach, Reached
    <3>3. \A i, j \in v.items : i.object = j.object => i = j
      BY <1>1, <1>5 DEF Standing, OnceEach
    <3>4. \A x \in Reached(v) \ {RootOf[t]} : Above[x] # x /\ Above[x] \in FoundIn(v)
      BY <1>1, <1>10, <1>11, <2>6 DEF Standing, OnceEach
    <3>. QED
      BY <1>5, <3>1, <3>2, <3>3, <3>4 DEF OnceEach
  <2>8. Standing(t, v)
    BY <1>1, <1>5, <2>1, <2>7 DEF Standing
  <2>9. Covers(t, v)
    <3> SUFFICES ASSUME ~ v.warned, NEW n \in 0 .. DepthOf[t], NEW way \in Ways(t, n)
                 PROVE  CoveredBy(v, n, way)
      BY DEF Covers
    <3>1. CoveredBy(w, n, way)
      BY <1>2, <1>3, <2>1 DEF Covers, Resting
    <3>2. CASE way[n] \in FoundIn(w)
      BY <1>11, <3>2 DEF CoveredBy
    <3>3. ASSUME NEW k \in 0 .. n, Pending(w, way[k], k)
          PROVE  CoveredBy(v, n, way)
      BY <2>2, <3>3 DEF Pending, CoveredBy
    <3>4. ASSUME NEW k \in 0 .. n, IsAt(w, way[k], k)
          PROVE  CoveredBy(v, n, way)
      <4>1. way[k] = o /\ k = w.at.depth
        BY <3>4 DEF IsAt
      <4>2. CASE k = n
        BY <1>11, <4>1, <4>2 DEF CoveredBy
      <4>3. CASE k # n
        <5>1. k + 1 \in 1 .. n /\ k + 1 - 1 = k /\ k + 1 \in 0 .. n
          BY <4>3
        <5>2. way[k + 1] \in Children(o) /\ way[k + 1] \in steady
          BY <4>1, <5>1 DEF Ways
        <5>3. way[k + 1] \in there
          BY <1>3, <5>2
        <5>4. PICK y \in below : y.object = way[k + 1] /\ y.depth = k + 1
          BY <1>8, <4>1, <5>3
        <5>5. PICK m \in DOMAIN more : more[m] = y
          BY <1>9
        <5>6. Pending(v, way[k + 1], k + 1)
          BY <2>2, <5>4, <5>5 DEF Pending
        <5>. QED
          BY <5>1, <5>6 DEF CoveredBy
      <4>. QED
        BY <4>2, <4>3
    <3>. QED
      BY <3>1, <3>2, <3>3, <3>4 DEF CoveredBy
  <2>. QED
    BY <1>1, <1>2, <2>8, <2>9, ThreadScans
<1>. QED
  BY <1>12, <1>13
\* A target that cannot be reached is warned of.
LEMMA UnreachableScans ==
    ASSUME ScanInv, NEW t \in Target, Unreachable(t)
    PROVE  ScanInv'
<1> DEFINE w == [Resting EXCEPT !.warned = TRUE]
<1>1. /\ w.step = "next" /\ w.queue = <<>> /\ w.items = {} /\ w.warned = TRUE
  BY DEF Resting
<1>2. /\ DOMAIN walk = Target /\ walk' = [walk EXCEPT ![t] = w] /\ stage = "walk"
      /\ faults' = faults + 1 /\ faults < MaxFaults
      /\ UNCHANGED <<disk, changes, cache, stage, stored, known, bundles, scans, steady>>
  BY DEF ScanInv, WalkInv, Shape, Unreachable, disks, seen
<1> HIDE DEF w
<1>3. walk'[t] = w /\ \A s \in Target : s # t => walk'[s] = walk[s]
  BY <1>2
<1>4. Standing(t, w)
  <2>1. Queued(w) = {} /\ FoundIn(w) = {} /\ Reached(w) = {}
    BY <1>1 DEF Queued, FoundIn, Reached
  <2>2. OnceEach(t, w)
    BY <1>1, <2>1 DEF OnceEach
  <2>3. IsFiniteSet(w.items) /\ Cardinality(w.items) <= MaxItems[t]
    BY <1>1, FS_EmptySet, CollectionAssumption
  <2>. QED
    BY <1>1, <2>2, <2>3 DEF Standing
<1>5. \A s \in Target : Standing(s, walk'[s])
  BY <1>3, <1>4 DEF ScanInv
<1>6. Covers(t, w)
  BY <1>1 DEF Covers
<1>7. \A s \in Target : Covers(s, walk'[s])
  BY <1>2, <1>3, <1>6 DEF ScanInv, Searched
<1>8. \A s, n : Ways(s, n)' = Ways(s, n)
  BY <1>2 DEF Ways
<1>9. Searched'
  <2>1. \A s \in Target : Covers(s, walk[s])'
    BY <1>7, <1>8 DEF Covers
  <2>2. \A o \in steady' : o \in Object /\ There(o)'
    BY <1>2 DEF ScanInv, Searched, There
  <2>. QED
    BY <2>1, <2>2 DEF Searched
<1>10. Counters'
  <2>1. faults' \in 0 .. MaxFaults
    BY <1>2, BoundAssumption DEF ScanInv, Counters
  <2>. QED
    BY <1>2, <2>1 DEF ScanInv, Counters
<1>11. CachesRight' /\ AllDone'
  BY <1>2 DEF ScanInv, CachesRight, AllDone
<1>. QED
  BY <1>5, <1>9, <1>10, <1>11, UnreachableStep DEF ScanInv

\* While files change, an object that stayed is still there, and fewer ways matter.
LEMMA FileScans ==
    ASSUME ScanInv, NEW o \in Object, NEW there \in BOOLEAN, NEW acl \in Acl, NEW touched,
           Write(o, there, acl, touched), o \in steady => There(o), WalkInv'
    PROVE  ScanInv'
<1>1. /\ changes < MaxChanges /\ changes' = changes + 1 /\ steady' \subseteq steady
      /\ UNCHANGED <<cache, stage, stored, known, walk, bundles, scans, faults>>
      /\ ~ there => o \notin steady'
  BY DEF Write, scan
<1>2. \A x \in Object : /\ disk'[x].stamp \in {changes + 1, disk[x].stamp}
                        /\ disk'[x].there = (IF x = o THEN there ELSE disk[x].there)
  BY DEF Write, ScanInv, WalkInv, Shape
<1>3. Counters'
  <2>1. changes + 1 \in 0 .. MaxChanges
    BY <1>1, BoundAssumption DEF ScanInv, Counters
  <2>. QED
    BY <1>1, <1>2, <2>1 DEF ScanInv, Counters
<1>4. CachesRight' /\ AllDone' /\ \A s \in Target : Standing(s, walk[s])'
  <2>1. CachesRight'
    BY <1>1 DEF ScanInv, CachesRight
  <2>2. AllDone'
    BY <1>1 DEF ScanInv, AllDone, Done, Full
  <2>3. \A s \in Target : Standing(s, walk[s])'
    BY <1>1 DEF ScanInv
  <2>. QED
    BY <2>1, <2>2, <2>3
<1>5. \A s, n : Ways(s, n)' \subseteq Ways(s, n)
  <2> SUFFICES ASSUME NEW s, NEW n, NEW way \in Ways(s, n)' PROVE way \in Ways(s, n)
    OBVIOUS
  <2>1. way \in [0 .. n -> steady']
    BY DEF Ways
  <2>2. way \in [0 .. n -> steady]
    BY <1>1, <2>1
  <2>. QED
    BY <2>2 DEF Ways
<1>6. Searched'
  <2> SUFFICES ASSUME stage # "idle" PROVE Searched'
    BY <1>1 DEF Searched
  <2>1. \A s \in Target : Covers(s, walk[s])'
    BY <1>1, <1>5 DEF ScanInv, Searched, Covers, CoveredBy, Pending, IsAt, FoundIn
  <2>2. \A x \in steady' : x \in Object /\ There(x)'
    BY <1>1, <1>2 DEF ScanInv, Searched, There
  <2>. QED
    BY <2>1, <2>2 DEF Searched
<1>. QED
  BY <1>3, <1>4, <1>6 DEF ScanInv

\* A scan begins: the root of each target waits.
LEMMA BeginScanScans ==
    ASSUME ScanInv, NEW T \in Selections, BeginScan(T)
    PROVE  ScanInv'
<1>1. /\ stage' = "walk" /\ stage = "idle" /\ scans' = scans + 1 /\ scans < MaxScans
      /\ steady' = {o \in Object : There(o)}
      /\ UNCHANGED <<disk, changes, cache, stored, bundles, faults>>
      /\ \A t \in Target : known'[t] \subseteq cache[t]
      /\ \A t \in Target : \/ walk'[t] = Resting
                           \/ walk'[t] = [Resting EXCEPT !.queue = <<[object |-> RootOf[t], depth |-> 0]>>]
  BY DEF BeginScan, disks
<1>2. ASSUME NEW t \in Target
      PROVE  /\ walk'[t].items = {} /\ walk'[t].step = "next" /\ walk'[t].warned = FALSE
             /\ walk'[t] # Resting => walk'[t].queue = <<[object |-> RootOf[t], depth |-> 0]>>
             /\ \A n \in DOMAIN walk'[t].queue : n = 1 /\ walk'[t].queue[n].object = RootOf[t]
  <2>1. CASE walk'[t] = Resting
    BY <2>1 DEF Resting
  <2>2. CASE walk'[t] # Resting
    <3> DEFINE q == <<[object |-> RootOf[t], depth |-> 0]>>
    <3>1. walk'[t] = [Resting EXCEPT !.queue = q]
      BY <1>1, <2>2
    <3>2. \A n \in DOMAIN q : n = 1 /\ q[n].object = RootOf[t]
      OBVIOUS
    <3> HIDE DEF q
    <3>3. walk'[t].items = {} /\ walk'[t].step = "next" /\ walk'[t].warned = FALSE /\ walk'[t].queue = q
      BY <3>1 DEF Resting
    <3>. QED
      BY <3>2, <3>3 DEF q
  <2>. QED
    BY <2>1, <2>2
<1>3. ASSUME NEW t \in Target
      PROVE  Standing(t, walk'[t])
  <2>1. PICK w : w = walk'[t]
    OBVIOUS
  <2>2. FoundIn(w) = {} /\ Queued(w) \subseteq {RootOf[t]} /\ Reached(w) \subseteq {RootOf[t]}
    BY <1>2, <2>1 DEF FoundIn, Queued, Reached
  <2>3. \A m, n \in DOMAIN w.queue : m = n
    <3>1. \A n \in DOMAIN w.queue : n = 1
      BY <1>2, <2>1
    <3>. QED
      BY <3>1
  <2>4. OnceEach(t, w)
    BY <1>2, <2>1, <2>2, <2>3 DEF OnceEach
  <2>5. IsFiniteSet(w.items) /\ Cardinality(w.items) <= MaxItems[t]
    <3>1. w.items = {}
      BY <1>2, <2>1
    <3>. QED
      BY <3>1, FS_EmptySet, CollectionAssumption
  <2>. QED
    BY <1>2, <2>1, <2>4, <2>5 DEF Standing
<1>4. ASSUME NEW t \in Target
      PROVE  Covers(t, walk[t])'
  <2> SUFFICES ASSUME walk'[t] # Resting, NEW n \in 0 .. DepthOf[t], NEW way \in Ways(t, n)'
               PROVE  CoveredBy(walk[t], n, way)'
    BY DEF Covers
  <2>1. way[0] = RootOf[t]
    BY DEF Ways
  <2>2. 1 \in DOMAIN walk'[t].queue /\ walk'[t].queue[1] = [object |-> RootOf[t], depth |-> 0]
    <3>1. PICK r : r = [object |-> RootOf[t], depth |-> 0]
      OBVIOUS
    <3>2. walk'[t].queue = <<r>>
      BY <1>2, <3>1
    <3>. QED
      BY <3>1, <3>2
  <2>3. Pending(walk[t], way[0], 0)'
    BY <2>1, <2>2 DEF Pending
  <2>4. 0 \in 0 .. n
    BY CollectionAssumption
  <2>. QED
    BY <2>3, <2>4 DEF CoveredBy
<1>5. Searched'
  BY <1>1, <1>4 DEF Searched, There
<1>6. Counters'
  <2>1. scans' \in 0 .. MaxScans
    BY <1>1, BoundAssumption DEF ScanInv, Counters
  <2>. QED
    BY <1>1, <2>1 DEF ScanInv, Counters
<1>7. CachesRight' /\ AllDone'
  BY <1>1 DEF ScanInv, CachesRight, AllDone
<1>. QED
  BY <1>3, <1>5, <1>6, <1>7, BeginScanStep DEF ScanInv

\* The snapshot is stored when all threads are done, then the caches.
LEMMA StoreScans ==
    ASSUME ScanInv, StoreSnapshot \/ StoreCache
    PROVE  ScanInv'
<1>1. /\ stage' = "store" /\ stage # "idle"
      /\ UNCHANGED <<disk, changes, known, walk, scans, steady>>
  BY DEF StoreSnapshot, StoreCache, disks, seen
<1>2. Searched' /\ \A t \in Target : Standing(t, walk[t])'
  BY <1>1 DEF ScanInv, Searched, There, Ways, Covers, CoveredBy, Standing
<1>3. AllDone'
  BY <1>1 DEF StoreSnapshot, StoreCache, ScanInv, AllDone, Done, Full
<1>4. Counters'
  <2>1. CASE StoreSnapshot
    <3>1. stored' = stored /\ faults' \in 0 .. MaxFaults
      BY <2>1, BoundAssumption DEF StoreSnapshot, ScanInv, Counters
    <3>2. stored = 0
      BY <2>1 DEF StoreSnapshot, ScanInv, AllDone, Counters
    <3>. QED
      BY <1>1, <2>1, <3>1, <3>2 DEF ScanInv, Counters
  <2>2. CASE StoreCache
    <3>1. Cardinality(Target) \in Nat
      BY FS_CardinalityType, CollectionAssumption
    <3>2. stored' \in 0 .. Cardinality(Target) /\ bundles' = <<>> /\ UNCHANGED faults
      BY <2>2, <3>1 DEF StoreCache, ScanInv, Counters
    <3>. QED
      BY <1>1, <3>2 DEF ScanInv, Counters
  <2>. QED
    BY <2>1, <2>2
<1>5. CachesRight'
  <2>1. \A t \in Target : cache'[t] = cache[t] \/ cache'[t] = walk[t].items
    BY DEF StoreSnapshot, StoreCache, ScanInv, WalkInv, Shape
  <2>. QED
    BY <1>1, <2>1 DEF ScanInv, CachesRight, Standing, OnceEach
<1>. QED
  BY <1>2, <1>3, <1>4, <1>5, StoreStep DEF ScanInv
\* A scan that ends or fails leaves nothing to search.
LEMMA RestedScans ==
    ASSUME ScanInv, EndScan \/ ScanFails
    PROVE  ScanInv'
<1>1. /\ stage' = "idle" /\ stored' = 0 /\ bundles' = <<>>
      /\ UNCHANGED <<disk, changes, cache, scans>>
      /\ \A t \in Target : known'[t] = {} /\ walk'[t] = Resting
  BY DEF EndScan, ScanFails, Rested, disks
<1>2. \A t \in Target : Standing(t, Resting)
  <2> SUFFICES ASSUME NEW t \in Target PROVE Standing(t, Resting)
    OBVIOUS
  <2>1. PICK w : w = Resting
    OBVIOUS
  <2>2. w.step = "next" /\ w.queue = <<>> /\ w.items = {} /\ w.warned = FALSE
    BY <2>1 DEF Resting
  <2>3. Queued(w) = {} /\ FoundIn(w) = {} /\ Reached(w) = {}
    BY <2>2 DEF Queued, FoundIn, Reached
  <2>4. OnceEach(t, w)
    BY <2>2, <2>3 DEF OnceEach
  <2>5. IsFiniteSet(w.items) /\ Cardinality(w.items) <= MaxItems[t]
    BY <2>2, FS_EmptySet, CollectionAssumption
  <2>. QED
    BY <2>1, <2>2, <2>4, <2>5 DEF Standing
<1>3. \A t \in Target : Standing(t, walk[t])'
  BY <1>1, <1>2
<1>4. Counters'
  <2>1. faults' \in 0 .. MaxFaults
    BY BoundAssumption DEF EndScan, ScanFails, ScanInv, Counters
  <2>2. 0 \in 0 .. Cardinality(Target)
    BY FS_CardinalityType, CollectionAssumption
  <2>. QED
    BY <1>1, <2>1, <2>2 DEF ScanInv, Counters
<1>5. CachesRight' /\ Searched' /\ AllDone'
  BY <1>1 DEF ScanInv, CachesRight, Searched, AllDone
<1>. QED
  BY <1>3, <1>4, <1>5, RestedStep DEF ScanInv, EndScan, ScanFails

\* It holds before the first scan.
LEMMA InitScans == Init => ScanInv
<1> SUFFICES ASSUME Init PROVE ScanInv
  OBVIOUS
<1>1. /\ stage = "idle" /\ stored = 0 /\ bundles = <<>> /\ changes = 0 /\ scans = 0 /\ faults = 0
      /\ \A t \in Target : cache[t] = {} /\ known[t] = {} /\ walk[t] = Resting
      /\ \A o \in Object : disk[o].stamp = 0
  BY DEF Init
<1>2. \A t \in Target : Standing(t, Resting)
  <2> SUFFICES ASSUME NEW t \in Target PROVE Standing(t, Resting)
    OBVIOUS
  <2>1. PICK w : w = Resting
    OBVIOUS
  <2>2. w.step = "next" /\ w.queue = <<>> /\ w.items = {} /\ w.warned = FALSE
    BY <2>1 DEF Resting
  <2>3. Queued(w) = {} /\ FoundIn(w) = {} /\ Reached(w) = {}
    BY <2>2 DEF Queued, FoundIn, Reached
  <2>4. OnceEach(t, w)
    BY <2>2, <2>3 DEF OnceEach
  <2>5. IsFiniteSet(w.items) /\ Cardinality(w.items) <= MaxItems[t]
    BY <2>2, FS_EmptySet, CollectionAssumption
  <2>. QED
    BY <2>1, <2>2, <2>4, <2>5 DEF Standing
<1>3. Counters
  <2>1. 0 \in 0 .. Cardinality(Target)
    BY FS_CardinalityType, CollectionAssumption
  <2>. QED
    BY <1>1, <2>1, BoundAssumption DEF Counters
<1>4. CachesRight /\ Searched /\ AllDone
  BY <1>1 DEF CachesRight, Searched, AllDone
<1>. QED
  BY <1>1, <1>2, <1>3, <1>4, InitWalkInv DEF ScanInv

\* Every step keeps it.
LEMMA ScanInvStep == ScanInv /\ [Next]_vars => ScanInv'
<1> SUFFICES ASSUME ScanInv, [Next]_vars PROVE ScanInv'
  OBVIOUS
<1>1. WalkInv'
  BY WalkInvStep DEF ScanInv
<1>2. ASSUME NEW o \in Object, ChangeAcl(o) \/ CreateObject(o) \/ RemoveObject(o)
      PROVE  ScanInv'
  <2>1. ASSUME NEW acl \in Acl, There(o), Write(o, TRUE, acl, {}) PROVE ScanInv'
    BY <1>1, <2>1, FileScans
  <2>2. ASSUME NEW acl \in Acl, ~ There(o), Write(o, TRUE, acl, {Above[o]}) PROVE ScanInv'
    <3>1. CASE stage = "idle"
      <4>1. /\ changes < MaxChanges /\ changes' = changes + 1
            /\ UNCHANGED <<cache, stage, stored, known, walk, bundles, scans, faults>>
        BY <2>2 DEF Write, scan
      <4>2. \A x \in Object : disk'[x].stamp \in {changes + 1, disk[x].stamp}
        BY <2>2 DEF Write, ScanInv, WalkInv, Shape
      <4>3. changes + 1 \in 0 .. MaxChanges
        BY <4>1, BoundAssumption DEF ScanInv, Counters
      <4>4. Counters'
        BY <4>1, <4>2, <4>3 DEF ScanInv, Counters
      <4>5. CachesRight' /\ Searched' /\ AllDone' /\ \A s \in Target : Standing(s, walk[s])'
        BY <3>1, <4>1 DEF ScanInv, CachesRight, Searched, AllDone
      <4>. QED
        BY <1>1, <4>4, <4>5 DEF ScanInv
    <3>2. CASE stage # "idle"
      <4>1. o \notin steady
        BY <2>2, <3>2 DEF ScanInv, Searched
      <4>. QED
        BY <1>1, <2>2, <4>1, FileScans
    <3>. QED
      BY <3>1, <3>2
  <2>3. ASSUME There(o), Write(o, FALSE, disk[o].acl, {Above[o]}) PROVE ScanInv'
    <3>1. PICK acl \in Acl : acl = disk[o].acl
      BY DEF ScanInv, WalkInv, Shape
    <3>. QED
      BY <1>1, <2>3, <3>1, FileScans
  <2>. QED
    BY <1>2, <2>1, <2>2, <2>3 DEF ChangeAcl, CreateObject, RemoveObject
<1>3. ASSUME NEW T \in Selections, BeginScan(T) PROVE ScanInv'
  BY <1>3, BeginScanScans
<1>4. ASSUME NEW t \in Target, Visit(t) \/ ReadAcl(t) \/ ListChildren(t) \/ Unreachable(t)
      PROVE  ScanInv'
  BY <1>4, VisitScans, ReadAclScans, ListChildrenScans, UnreachableScans
<1>5. CASE StoreSnapshot \/ StoreCache
  BY <1>5, StoreScans
<1>6. CASE EndScan \/ ScanFails
  BY <1>6, RestedScans
<1>7. CASE UNCHANGED vars
  <2>1. UNCHANGED <<disk, changes, cache, stage, stored, known, walk, bundles, scans, faults, steady>>
    BY <1>7 DEF vars, disks, seen, scan
  <2>2. Counters' /\ CachesRight' /\ \A t \in Target : Standing(t, walk[t])'
    BY <2>1 DEF ScanInv, Counters, CachesRight
  <2>3. Searched' /\ AllDone'
    BY <2>1 DEF ScanInv, Searched, Covers, Ways, There, AllDone, Done, Full
  <2>. QED
    BY <1>1, <2>2, <2>3 DEF ScanInv
<1>. QED
  BY <1>2, <1>3, <1>4, <1>5, <1>6, <1>7 DEF Next

\* The invariant of the search holds.
LEMMA ScansAlways == Spec => []ScanInv
<1>. QED
  BY InitScans, ScanInvStep, PTL DEF Spec

\* A snapshot that is stored without a warning holds every object that stayed,
\* is not hidden and not too deep, for each target that no limit cut short.
THEOREM NothingIsOverlooked == Spec => []NothingOverlooked
<1>1. ScanInv => NothingOverlooked
  <2> SUFFICES ASSUME ScanInv, stage = "store", NEW t \in Target, walk[t] # Resting, ~ walk[t].warned,
                      ~ Full(t), NEW n \in 0 .. DepthOf[t], NEW way \in Ways(t, n)
               PROVE  \E i \in walk[t].items : i.object = way[n]
    BY DEF NothingOverlooked
  <2>1. CoveredBy(walk[t], n, way)
    BY DEF ScanInv, Searched, Covers
  <2>2. walk[t].step = "next" /\ walk[t].queue = <<>>
    BY DEF ScanInv, AllDone, Done
  <2>3. \A o, d : ~ Pending(walk[t], o, d) /\ ~ IsAt(walk[t], o, d)
    BY <2>2 DEF Pending, IsAt
  <2>. QED
    BY <2>1, <2>3 DEF CoveredBy, FoundIn
<1>. QED
  BY <1>1, ScansAlways, PTL

\* The tables and threads have their types, and a target's cache has one record
\* for a path, whatever a scan met.
THEOREM CollectionTypes == Spec => []TypeOK
<1>1. ScanInv => TypeOK
  <2> SUFFICES ASSUME ScanInv PROVE TypeOK
    OBVIOUS
  <2>1. disk \in [Object -> [there : BOOLEAN, acl : Acl, stamp : 0 .. MaxChanges]]
    <3>1. disk \in [Object -> [there : BOOLEAN, acl : Acl, stamp : Nat]]
      BY DEF ScanInv, WalkInv, Shape
    <3>2. ASSUME NEW o \in Object PROVE disk[o] \in [there : BOOLEAN, acl : Acl, stamp : 0 .. MaxChanges]
      <4>1. disk[o] \in [there : BOOLEAN, acl : Acl, stamp : Nat] /\ disk[o].stamp \in 0 .. MaxChanges
        BY <3>1 DEF ScanInv, Counters
      <4>. QED
        BY <4>1
    <3>. QED
      BY <3>1, <3>2
  <2>2. ASSUME NEW t \in Target, NEW i \in cache[t] \cup known[t] \cup walk[t].items
        PROVE  IsItem(i)
    <3>1. Vouches(t, i)
      BY DEF ScanInv, WalkInv, AllVouch
    <3>2. Told(i)
      BY DEF ScanInv, CachesRight, Standing
    <3>3. i.stamp \in 0 .. changes
      BY <3>1 DEF Vouches, ScanInv, WalkInv, Shape
    <3>. QED
      BY <3>1, <3>2, <3>3 DEF Vouches, Told, IsItem
  <2>. QED
    BY <2>1, <2>2 DEF ScanInv, Counters, CachesRight, Standing, TypeOK
<1>. QED
  BY <1>1, ScansAlways, PTL
=============================================================================
