----------------------- MODULE ReviewCampaigns_proofs -----------------------
(***************************************************************************)
(* What campaigns, the rows they are made of and the answers to questions  *)
(* say, for any graphs, any number of snapshots and campaigns and any      *)
(* order of scans, refreshes, requests, decisions and questions.  First    *)
(* the paths behind access, then what is told of them, then the campaigns. *)
(***************************************************************************)
EXTENDS ReviewCampaigns, FiniteSetTheorems, WellFoundedInduction, NaturalsInduction, SequenceTheorems, TLAPS

------------------------------------------------------------------------------
(* Numbers.                                                                *)

\* A set of numbers that has a member has a least one.
LEMMA LeastNumber ==
    ASSUME NEW S \in SUBSET Nat, S # {}
    PROVE  \E m \in S : \A n \in S : m <= n
<1> DEFINE R == OpToRel(<, Nat)
<1>1. IsWellFoundedOn(R, Nat)
  BY NatLessThanWellFounded
<1>2. \A m, n \in Nat : <<n, m>> \in R <=> n < m
  BY DEF OpToRel
<1> HIDE DEF R
<1>3. PICK m \in S : \A n \in S : ~ (<<n, m>> \in R)
  BY <1>1, WFMin
<1>4. ASSUME NEW n \in S PROVE m <= n
  <2>1. ~ (n < m)
    BY <1>2, <1>3
  <2>. QED
    BY <2>1
<1>. QED
  BY <1>4

\* A set that holds nought, and with each number up to N the next, holds all of them.
LEMMA Counting ==
    ASSUME NEW N \in Nat, NEW S, 0 \in S, \A n \in 0 .. N : n < N /\ n \in S => n + 1 \in S
    PROVE  0 .. N \subseteq S
<1> DEFINE T == (0 .. N) \ S
<1>1. SUFFICES ASSUME T # {} PROVE FALSE
  OBVIOUS
<1>2. T \in SUBSET Nat /\ \A n : n \in T <=> n \in 0 .. N /\ n \notin S
  OBVIOUS
<1> HIDE DEF T
<1>3. PICK m \in T : \A n \in T : m <= n
  BY <1>1, <1>2, LeastNumber
<1>4. m \in 1 .. N /\ m \notin S
  BY <1>2, <1>3
<1>5. m - 1 \in 0 .. N /\ m - 1 < N /\ ~ (m <= m - 1) /\ (m - 1) + 1 = m
  BY <1>4
<1>6. m - 1 \in S
  BY <1>2, <1>3, <1>5
<1>. QED
  BY <1>4, <1>5, <1>6

------------------------------------------------------------------------------
(* Finite sets.                                                            *)

\* What a function makes of finitely many is finitely many.
LEMMA ImageFinite ==
    ASSUME NEW S, IsFiniteSet(S), NEW f, DOMAIN f = S, NEW T, \A t \in T : \E s \in S : t = f[s]
    PROVE  IsFiniteSet(T)
<1> DEFINE image == {f[s] : s \in S}
           g == [s \in S |-> f[s]]
<1>1. g \in Surjection(S, image)
  BY DEF Surjection
<1>2. IsFiniteSet(image)
  BY <1>1, FS_Surjection
<1>3. T \subseteq image
  OBVIOUS
<1>. QED
  BY <1>2, <1>3, FS_Subset

------------------------------------------------------------------------------
(* Layers of actors.                                                       *)

\* A graph as it comes from a snapshot.
Graph(G) == WellFormed(G) /\ IsFiniteSet(G.relationships)

\* Widening keeps what it widens, and more gives more.
LEMMA WidenGrows ==
    ASSUME NEW G, NEW S, NEW T, S \subseteq T
    PROVE  S \subseteq Widen(G, S) /\ Widen(G, S) \subseteq Widen(G, T)
  BY DEF Widen

\* Each layer is the one before, widened.
LEMMA LayerStep ==
    ASSUME NEW G, NEW a, NEW k \in 1..8
    PROVE  /\ Layers(G, a)[1] = {a}
           /\ k + 1 \in 1..9
           /\ Layers(G, a)[k + 1] = Widen(G, Layers(G, a)[k])
           /\ Layers(G, a)[k] \subseteq Layers(G, a)[k + 1]
<1> DEFINE l1 == Widen(G, {a})
           l2 == Widen(G, l1)
           l3 == Widen(G, l2)
           l4 == Widen(G, l3)
           l5 == Widen(G, l4)
           l6 == Widen(G, l5)
           l7 == Widen(G, l6)
           l8 == Widen(G, l7)
<1>1. /\ l1 = Widen(G, {a}) /\ l2 = Widen(G, l1) /\ l3 = Widen(G, l2) /\ l4 = Widen(G, l3)
      /\ l5 = Widen(G, l4) /\ l6 = Widen(G, l5) /\ l7 = Widen(G, l6) /\ l8 = Widen(G, l7)
  OBVIOUS
<1> HIDE DEF l1, l2, l3, l4, l5, l6, l7, l8
<1>2. Layers(G, a) = <<{a}, l1, l2, l3, l4, l5, l6, l7, l8>>
  BY DEF Layers, l1, l2, l3, l4, l5, l6, l7, l8
<1>3. k \in {1, 2, 3, 4, 5, 6, 7, 8}
  OBVIOUS
<1>4. Layers(G, a)[k + 1] = Widen(G, Layers(G, a)[k])
  BY <1>1, <1>2, <1>3
<1>. QED
  BY <1>2, <1>4, WidenGrows

\* Later layers hold the earlier ones, and whom they start from.
LEMMA LayersGrow ==
    ASSUME NEW G, NEW a, NEW k \in 1..9, NEW n \in k..9
    PROVE  a \in Layers(G, a)[k] /\ Layers(G, a)[k] \subseteq Layers(G, a)[n]
<1> DEFINE L == Layers(G, a)
<1>1. /\ L[1] = {a}
      /\ L[1] \subseteq L[2] /\ L[2] \subseteq L[3] /\ L[3] \subseteq L[4] /\ L[4] \subseteq L[5]
      /\ L[5] \subseteq L[6] /\ L[6] \subseteq L[7] /\ L[7] \subseteq L[8] /\ L[8] \subseteq L[9]
  <2> HIDE DEF L
  <2>1. ASSUME NEW m \in 1..8 PROVE L[1] = {a} /\ L[m] \subseteq L[m + 1]
    BY LayerStep DEF L
  <2>. QED
    BY <2>1, 1 + 1 = 2, 2 + 1 = 3, 3 + 1 = 4, 4 + 1 = 5, 5 + 1 = 6, 6 + 1 = 7, 7 + 1 = 8, 8 + 1 = 9
<1> HIDE DEF L
<1>2. k \in {1, 2, 3, 4, 5, 6, 7, 8, 9} /\ n \in {1, 2, 3, 4, 5, 6, 7, 8, 9} /\ k <= n
  OBVIOUS
<1>3. a \in L[k]
  BY <1>1, <1>2
<1>4. L[k] \subseteq L[n]
  <2> SUFFICES ASSUME NEW x \in L[k] PROVE x \in L[n]
    OBVIOUS
  <2>. QED
    BY <1>1, <1>2
<1>. QED
  BY <1>3, <1>4 DEF L

\* The eight layers are within the search without a limit.
LEMMA LayersInClosure ==
    ASSUME NEW G, NEW a, NEW k \in 1..9
    PROVE  Layers(G, a)[k] \subseteq ActorClosure(G, a)
<1> DEFINE L == Layers(G, a)
<1>1. /\ L[1] = {a}
      /\ L[2] = Widen(G, L[1]) /\ L[3] = Widen(G, L[2]) /\ L[4] = Widen(G, L[3])
      /\ L[5] = Widen(G, L[4]) /\ L[6] = Widen(G, L[5]) /\ L[7] = Widen(G, L[6])
      /\ L[8] = Widen(G, L[7]) /\ L[9] = Widen(G, L[8])
  <2> HIDE DEF L
  <2>1. ASSUME NEW n \in 1..8 PROVE L[1] = {a} /\ L[n + 1] = Widen(G, L[n])
    BY LayerStep DEF L
  <2>. QED
    BY <2>1, 1 + 1 = 2, 2 + 1 = 3, 3 + 1 = 4, 4 + 1 = 5, 5 + 1 = 6, 6 + 1 = 7, 7 + 1 = 8, 8 + 1 = 9
<1>2. L[k] \subseteq L[9]
  BY LayersGrow
<1> HIDE DEF L
<1>3. ASSUME NEW S PROVE S \subseteq Widen4(G, S)
  BY WidenGrows DEF Widen4
<1>4. L[9] = Widen4(G, Widen4(G, {a}))
  BY <1>1 DEF Widen4
<1>5. L[9] \subseteq Widen4(G, L[9]) /\ Widen4(G, L[9]) \subseteq Widen4(G, Widen4(G, L[9]))
  BY <1>3
<1>. QED
  BY <1>2, <1>4, <1>5 DEF ActorClosure, L

------------------------------------------------------------------------------
(* The paths of an actor.                                                  *)

\* A sequence that has got one element more.
LEMMA OneAppended ==
    ASSUME NEW V, NEW s \in Seq(V), NEW n \in Nat, Len(s) = n, NEW e \in V
    PROVE  /\ Append(s, e) \in Seq(V) /\ Len(Append(s, e)) = n + 1
           /\ Append(s, e)[n + 1] = e
           /\ \A k \in 1..n : Append(s, e)[k] = s[k]
BY AppendProperties

\* The paths of a level are those of the level before with one edge more.
LEMMA LevelStep ==
    ASSUME NEW G, NEW ignored, NEW p, NEW k \in 1..8
    PROVE  /\ Levels(G, ignored, p)[1] = {<<>>}
           /\ k + 1 \in 1..9
           /\ Levels(G, ignored, p)[k + 1] = Longer(G, ignored, p, Levels(G, ignored, p)[k])
<1> DEFINE more(S) == Longer(G, ignored, p, S)
           l0 == {<<>>}
           l1 == more(l0)
           l2 == more(l1)
           l3 == more(l2)
           l4 == more(l3)
           l5 == more(l4)
           l6 == more(l5)
           l7 == more(l6)
           l8 == more(l7)
<1>1. /\ l2 = more(l1) /\ l3 = more(l2) /\ l4 = more(l3) /\ l5 = more(l4) /\ l0 = {<<>>}
      /\ l6 = more(l5) /\ l7 = more(l6) /\ l8 = more(l7) /\ l1 = more(l0)
  OBVIOUS
<1> HIDE DEF l0, l1, l2, l3, l4, l5, l6, l7, l8
<1> DEFINE V == {l0, l1, l2, l3, l4, l5, l6, l7, l8}
           a0 == <<l0>>
           a1 == Append(a0, l1)
           a2 == Append(a1, l2)
           a3 == Append(a2, l3)
           a4 == Append(a3, l4)
           a5 == Append(a4, l5)
           a6 == Append(a5, l6)
           a7 == Append(a6, l7)
           a8 == Append(a7, l8)
<1> DEFINE add(s) == Append(s, more(s[Len(s)]))
<1>2. /\ Levels(G, ignored, p) = add(add(add(add(add(add(add(add(<<{<<>>}>>))))))))
      /\ a0 = <<{<<>>}>>
  <2>1. Levels(G, ignored, p) = add(add(add(add(add(add(add(add(<<{<<>>}>>))))))))
    BY DEF Levels
  <2>2. a0 = <<{<<>>}>>
    BY <1>1
  <2>. QED
    BY <2>1, <2>2
<1>3. /\ a1 = Append(a0, l1)
      /\ a2 = Append(a1, l2)
      /\ a3 = Append(a2, l3)
      /\ a4 = Append(a3, l4)
      /\ a5 = Append(a4, l5)
      /\ a6 = Append(a5, l6)
      /\ a7 = Append(a6, l7)
      /\ a8 = Append(a7, l8)
  OBVIOUS
<1>4. a0 \in Seq(V) /\ Len(a0) = 1 /\ a0[1] = l0
  OBVIOUS
<1>5. l0 \in V /\ l1 \in V /\ l2 \in V /\ l3 \in V /\ l4 \in V /\ l5 \in V /\ l6 \in V /\ l7 \in V /\ l8 \in V
  OBVIOUS
<1> HIDE DEF V, more, a0, a1, a2, a3, a4, a5, a6, a7, a8
<1>6. /\ a1 \in Seq(V) /\ Len(a1) = 2
       /\ a1[1] = l0 /\ a1[2] = l1
  <2>1. /\ Append(a0, l1) \in Seq(V) /\ Len(Append(a0, l1)) = Len(a0) + 1
        /\ Append(a0, l1)[Len(a0) + 1] = l1
        /\ \A n \in 1..Len(a0) : Append(a0, l1)[n] = a0[n]
    <3>1. ASSUME NEW s \in Seq(V), NEW e \in V
          PROVE  /\ Append(s, e) \in Seq(V) /\ Len(Append(s, e)) = Len(s) + 1
                 /\ Append(s, e)[Len(s) + 1] = e
                 /\ \A n \in 1..Len(s) : Append(s, e)[n] = s[n]
      BY AppendProperties
    <3>2. a0 \in Seq(V) /\ l1 \in V
      BY <1>4, <1>5
    <3>. QED
      BY <3>1, <3>2
  <2>2. Append(a0, l1)[1] = l0
    BY <1>4, <2>1
  <2>. QED
    BY <1>3, <1>4, <2>1, <2>2
<1>7. /\ a2 \in Seq(V) /\ Len(a2) = 3
       /\ a2[1] = l0 /\ a2[2] = l1 /\ a2[3] = l2
  BY <1>3, <1>5, <1>6, OneAppended, 2 + 1 = 3
<1>8. /\ a3 \in Seq(V) /\ Len(a3) = 4
       /\ a3[1] = l0 /\ a3[2] = l1 /\ a3[3] = l2 /\ a3[4] = l3
  BY <1>3, <1>5, <1>7, OneAppended, 3 + 1 = 4
<1>9. /\ a4 \in Seq(V) /\ Len(a4) = 5
       /\ a4[1] = l0 /\ a4[2] = l1 /\ a4[3] = l2 /\ a4[4] = l3 /\ a4[5] = l4
  BY <1>3, <1>5, <1>8, OneAppended, 4 + 1 = 5
<1>10. /\ a5 \in Seq(V) /\ Len(a5) = 6
       /\ a5[1] = l0 /\ a5[2] = l1 /\ a5[3] = l2 /\ a5[4] = l3 /\ a5[5] = l4 /\ a5[6] = l5
  BY <1>3, <1>5, <1>9, OneAppended, 5 + 1 = 6
<1>11. /\ a6 \in Seq(V) /\ Len(a6) = 7
       /\ a6[1] = l0 /\ a6[2] = l1 /\ a6[3] = l2 /\ a6[4] = l3 /\ a6[5] = l4 /\ a6[6] = l5 /\ a6[7] = l6
  BY <1>3, <1>5, <1>10, OneAppended, 6 + 1 = 7
<1>12. /\ a7 \in Seq(V) /\ Len(a7) = 8
       /\ a7[1] = l0 /\ a7[2] = l1 /\ a7[3] = l2 /\ a7[4] = l3 /\ a7[5] = l4 /\ a7[6] = l5 /\ a7[7] = l6 /\ a7[8] = l7
  BY <1>3, <1>5, <1>11, OneAppended, 7 + 1 = 8
<1>13. /\ a8 \in Seq(V) /\ Len(a8) = 9
       /\ a8[1] = l0 /\ a8[2] = l1 /\ a8[3] = l2 /\ a8[4] = l3 /\ a8[5] = l4 /\ a8[6] = l5 /\ a8[7] = l6 /\ a8[8] = l7 /\ a8[9] = l8
  BY <1>3, <1>5, <1>12, OneAppended, 8 + 1 = 9
<1>14. /\ add(a0) = a1
       /\ add(a1) = a2
       /\ add(a2) = a3
       /\ add(a3) = a4
       /\ add(a4) = a5
       /\ add(a5) = a6
       /\ add(a6) = a7
       /\ add(a7) = a8
  BY <1>1, <1>3, <1>4, <1>6, <1>7, <1>8, <1>9, <1>10, <1>11, <1>12
<1> HIDE DEF add
<1> DEFINE L == Levels(G, ignored, p)
<1>15. L = a8
  BY <1>2, <1>14
<1>16. /\ L[1] = l0 /\ L[2] = l1 /\ L[3] = l2 /\ L[4] = l3 /\ L[5] = l4
       /\ L[6] = l5 /\ L[7] = l6 /\ L[8] = l7 /\ L[9] = l8
  BY <1>13, <1>15
<1> HIDE DEF L
<1>17. /\ L[2] = more(L[1]) /\ L[3] = more(L[2]) /\ L[4] = more(L[3]) /\ L[5] = more(L[4])
      /\ L[6] = more(L[5]) /\ L[7] = more(L[6]) /\ L[8] = more(L[7]) /\ L[9] = more(L[8])
  BY <1>1, <1>16
<1>18. k \in {1, 2, 3, 4, 5, 6, 7, 8}
  OBVIOUS
<1>19. L[k + 1] = more(L[k])
  <2>1. ASSUME NEW n \in {1, 2, 3, 4, 5, 6, 7, 8}, n = k PROVE L[n + 1] = more(L[n])
    BY <1>17, <2>1, 1 + 1 = 2, 2 + 1 = 3, 3 + 1 = 4, 4 + 1 = 5, 5 + 1 = 6, 6 + 1 = 7, 7 + 1 = 8, 8 + 1 = 9
  <2>. QED
    BY <1>18, <2>1
<1>. QED
  BY <1>1, <1>16, <1>19 DEF L, more

\* A path of n - 1 edges goes from actor to actor within the first n layers of
\* p, and it ends in the first n layers of whomever it passes.
Path(G, ignored, p, path, n) ==
    /\ path \in Seq(G.relationships) /\ Len(path) = n - 1
    /\ End(p, path) \in Layers(G, p)[n]
    /\ \A m \in 1 .. n - 1 :
          /\ path[m].kind \in TRAVERSABLE /\ path[m] \notin ignored
          /\ path[m].source \in Layers(G, p)[n]
          /\ End(p, path) \in Layers(G, path[m].target)[n]

\* One more edge makes a path of a path.
LEMMA LongerPath ==
    ASSUME NEW G, NEW ignored, NEW p, NEW n \in 1..8, NEW path, Path(G, ignored, p, path, n),
           NEW rel \in Leaving(G, ignored, End(p, path))
    PROVE  /\ Path(G, ignored, p, Append(path, rel), n + 1)
           /\ End(p, Append(path, rel)) = rel.target
           /\ Steps(Append(path, rel)) = Steps(path) \cup {rel}
<1> DEFINE longer == Append(path, rel)
<1>1. /\ rel \in G.relationships /\ rel.kind \in TRAVERSABLE /\ rel \notin ignored
      /\ rel.source = End(p, path) /\ path \in Seq(G.relationships) /\ Len(path) = n - 1
  BY DEF Leaving, Path
<1>2. /\ longer \in Seq(G.relationships) /\ longer # <<>> /\ Len(longer) = n /\ longer[n] = rel
      /\ \A m \in 1 .. n - 1 : longer[m] = path[m]
  BY <1>1, AppendProperties
<1>3. DOMAIN longer = 1 .. n /\ DOMAIN path = 1 .. n - 1 /\ 1 .. n = (1 .. n - 1) \cup {n}
  BY <1>1, <1>2
<1> HIDE DEF longer
<1>4. End(p, longer) = rel.target
  BY <1>2 DEF End
<1>5. Steps(longer) = Steps(path) \cup {rel}
  BY <1>2, <1>3 DEF Steps
<1>6. \A a, b : b \in Layers(G, a)[n] /\ b = rel.source => rel.target \in Layers(G, a)[n + 1]
  <2> SUFFICES ASSUME NEW a, rel.source \in Layers(G, a)[n] PROVE rel.target \in Layers(G, a)[n + 1]
    OBVIOUS
  <2>1. Layers(G, a)[n + 1] = Widen(G, Layers(G, a)[n])
    BY LayerStep
  <2>2. rel.target \in Successors(G, rel.source)
    BY <1>1 DEF Successors
  <2>. QED
    BY <2>1, <2>2 DEF Widen
<1>7. rel.target \in Layers(G, p)[n + 1]
  BY <1>1, <1>6 DEF Path
<1>8. ASSUME NEW m \in 1 .. n
      PROVE  /\ longer[m].kind \in TRAVERSABLE /\ longer[m] \notin ignored
             /\ longer[m].source \in Layers(G, p)[n + 1]
             /\ rel.target \in Layers(G, longer[m].target)[n + 1]
  <2>1. Layers(G, p)[n] \subseteq Layers(G, p)[n + 1]
    BY LayerStep
  <2>2. CASE m = n
    <3>1. rel.source \in Layers(G, p)[n + 1]
      BY <1>1, <2>1 DEF Path
    <3>2. rel.target \in Layers(G, rel.target)[n + 1]
      BY LayersGrow
    <3>. QED
      BY <1>1, <1>2, <2>2, <3>1, <3>2
  <2>3. CASE m \in 1 .. n - 1
    <3>1. /\ path[m].kind \in TRAVERSABLE /\ path[m] \notin ignored
          /\ path[m].source \in Layers(G, p)[n] /\ End(p, path) \in Layers(G, path[m].target)[n]
      BY <2>3 DEF Path
    <3>2. rel.target \in Layers(G, path[m].target)[n + 1]
      BY <1>1, <1>6, <3>1
    <3>. QED
      BY <1>2, <2>1, <2>3, <3>1, <3>2
  <2>. QED
    BY <2>2, <2>3
<1>9. Path(G, ignored, p, longer, n + 1)
  BY <1>2, <1>4, <1>7, <1>8 DEF Path
<1>. QED
  BY <1>4, <1>5, <1>9 DEF longer

\* All levels hold paths, finitely many.
LEMMA LevelsOfPaths ==
    ASSUME NEW G, NEW ignored, NEW p, NEW n \in 1..9
    PROVE  /\ \A path \in Levels(G, ignored, p)[n] : Path(G, ignored, p, path, n)
           /\ IsFiniteSet(G.relationships) => IsFiniteSet(Levels(G, ignored, p)[n])
<1> DEFINE L == Levels(G, ignored, p)
           Held(k) == /\ \A path \in L[k + 1] : Path(G, ignored, p, path, k + 1)
                      /\ IsFiniteSet(G.relationships) => IsFiniteSet(L[k + 1])
           S == {k \in 0 .. 8 : Held(k)}
<1>1. 0 \in S
  <2>1. L[1] = {<<>>}
    BY LevelStep, 1 \in 1..8
  <2>2. p \in Layers(G, p)[1]
    BY LayersGrow, 1 \in 1..9
  <2>3. <<>> \in Seq(G.relationships) /\ Len(<<>>) = 1 - 1 /\ End(p, <<>>) = p /\ 1 .. 1 - 1 = {}
    BY EmptySeq DEF End
  <2>4. Path(G, ignored, p, <<>>, 1)
    BY <2>2, <2>3 DEF Path
  <2>5. IsFiniteSet(L[1])
    BY <2>1, FS_Singleton
  <2> HIDE DEF L
  <2>6. Held(0)
    BY <2>1, <2>4, <2>5, 0 + 1 = 1
  <2>. QED
    BY <2>6
<1>2. ASSUME NEW k \in 0 .. 8, k < 8, k \in S PROVE k + 1 \in S
  <2>1. L[k + 2] = Longer(G, ignored, p, L[k + 1])
    <3>1. k + 1 \in 1..8 /\ (k + 1) + 1 = k + 2
      BY <1>2
    <3>. QED
      BY <3>1, LevelStep
  <2>2. (\A path \in L[k + 1] : Path(G, ignored, p, path, k + 1)) /\ (IsFiniteSet(G.relationships) => IsFiniteSet(L[k + 1]))
    BY <1>2
  <2> HIDE DEF L
  <2>3. ASSUME NEW longer \in L[k + 2]
        PROVE  \E path \in L[k + 1] : \E rel \in Leaving(G, ignored, End(p, path)) : longer = Append(path, rel)
    BY <2>1 DEF Longer
  <2>4. ASSUME NEW longer \in L[k + 2] PROVE Path(G, ignored, p, longer, k + 2)
    <3>1. PICK path \in L[k + 1] : \E rel \in Leaving(G, ignored, End(p, path)) : longer = Append(path, rel)
      BY <2>3
    <3>0. PICK rel \in Leaving(G, ignored, End(p, path)) : longer = Append(path, rel)
      BY <3>1
    <3>2. k + 1 \in 1..8 /\ (k + 1) + 1 = k + 2 /\ Path(G, ignored, p, path, k + 1)
      BY <1>2, <2>2
    <3>. QED
      BY <3>0, <3>2, LongerPath
  <2>5. ASSUME IsFiniteSet(G.relationships) PROVE IsFiniteSet(L[k + 2])
    <3> DEFINE D == L[k + 1] \X G.relationships
               f == [pair \in D |-> Append(pair[1], pair[2])]
    <3>1. IsFiniteSet(D)
      BY <2>2, <2>5, FS_Product
    <3>2. ASSUME NEW longer \in L[k + 2] PROVE \E pair \in D : longer = f[pair]
      <4>1. PICK path \in L[k + 1] : \E rel \in Leaving(G, ignored, End(p, path)) : longer = Append(path, rel)
        BY <2>3
      <4>0. PICK rel \in Leaving(G, ignored, End(p, path)) : longer = Append(path, rel)
        BY <4>1
      <4>2. <<path, rel>> \in D
        BY <4>0 DEF Leaving
      <4>. QED
        BY <4>0, <4>2
    <3>3. DOMAIN f = D
      OBVIOUS
    <3> HIDE DEF f, D
    <3>. QED
      BY <3>1, <3>2, <3>3, ImageFinite
  <2>6. Held(k + 1)
    BY <2>4, <2>5, (k + 1) + 1 = k + 2
  <2>. QED
    BY <1>2, <2>6
<1> HIDE DEF S
<1>3. 0 .. 8 \subseteq S
  BY <1>1, <1>2, Counting
<1>4. n - 1 \in S /\ (n - 1) + 1 = n
  BY <1>3
<1> HIDE DEF L
<1>5. Held(n - 1)
  BY <1>4 DEF S
<1>6. Held(n - 1) <=> /\ \A path \in L[n] : Path(G, ignored, p, path, n)
                      /\ IsFiniteSet(G.relationships) => IsFiniteSet(L[n])
  BY <1>4
<1>. QED
  BY <1>5, <1>6 DEF L

\* What is longer is a path and an edge that leaves its end for a new actor.
LEMMA InLonger ==
    ASSUME NEW G, NEW ignored, NEW p, NEW paths, NEW z
    PROVE  z \in Longer(G, ignored, p, paths) <=>
             \E path \in paths : \E rel \in Leaving(G, ignored, End(p, path)) :
                /\ rel.target \notin {p} \cup {y.target : y \in Steps(path)}
                /\ z = Append(path, rel)
  BY DEF Longer

\* Where the same edges leave, paths get longer in the same way.
LEMMA SameLonger ==
    ASSUME NEW G, NEW I, NEW H, NEW J, NEW p, NEW paths, \A a : Leaving(G, I, a) = Leaving(H, J, a)
    PROVE  Longer(G, I, p, paths) = Longer(H, J, p, paths)
<1> SUFFICES ASSUME NEW z PROVE z \in Longer(G, I, p, paths) <=> z \in Longer(H, J, p, paths)
  <2> HIDE DEF Longer
  <2>. QED
    OBVIOUS
<1>1. z \in Longer(G, I, p, paths) <=>
         \E path \in paths : \E rel \in Leaving(G, I, End(p, path)) :
            rel.target \notin {p} \cup {y.target : y \in Steps(path)} /\ z = Append(path, rel)
  BY InLonger
<1>2. z \in Longer(H, J, p, paths) <=>
         \E path \in paths : \E rel \in Leaving(H, J, End(p, path)) :
            rel.target \notin {p} \cup {y.target : y \in Steps(path)} /\ z = Append(path, rel)
  BY InLonger
<1>3. \A path : Leaving(G, I, End(p, path)) = Leaving(H, J, End(p, path))
  OBVIOUS
<1>. QED
  BY <1>1, <1>2, <1>3

\* Where paths get longer in the same way, the levels are the same.
LEMMA SameLevels ==
    ASSUME NEW G, NEW I, NEW H, NEW J, NEW p, \A paths : Longer(G, I, p, paths) = Longer(H, J, p, paths)
    PROVE  Levels(G, I, p) = Levels(H, J, p)
<1> DEFINE more(s) == Append(s, Longer(G, I, p, s[Len(s)]))
           add(s) == Append(s, Longer(H, J, p, s[Len(s)]))
<1>1. Levels(G, I, p) = more(more(more(more(more(more(more(more(<<{<<>>}>>))))))))
  BY DEF Levels
<1>2. Levels(H, J, p) = add(add(add(add(add(add(add(add(<<{<<>>}>>))))))))
  BY DEF Levels
<1>3. \A s : more(s) = add(s)
  OBVIOUS
<1> HIDE DEF more, add
<1>. QED
  BY <1>1, <1>2, <1>3

\* Whoever is in a layer is at the end of a path that is no longer.
LEMMA LayersHavePaths ==
    ASSUME NEW G, NEW p, NEW n \in 1..9, NEW a \in Layers(G, p)[n]
    PROVE  \E m \in 1..n : \E path \in Levels(G, {}, p)[m] : End(p, path) = a
<1> DEFINE Y(k) == Layers(G, p)[k]
           L(k) == Levels(G, {}, p)[k]
           Within(k, b) == \E m \in 1..k : \E path \in L(m) : End(p, path) = b /\ {y.target : y \in Steps(path)} \subseteq Y(m)
           S == {k \in 0 .. 8 : \A b \in Y(k + 1) : Within(k + 1, b)}
<1>1. 0 \in S
  <2>1. L(1) = {<<>>} /\ Y(1) = {p}
    BY LevelStep, LayerStep, 1 \in 1..8
  <2>2. End(p, <<>>) = p /\ {y.target : y \in Steps(<<>>)} = {}
    BY DEF End, Steps
  <2> HIDE DEF L, Y
  <2>3. Within(1, p)
    BY <2>1, <2>2, 1 \in 1..1
  <2>. QED
    BY <2>1, <2>3, 0 + 1 = 1
<1>2. ASSUME NEW k \in 0 .. 8, k < 8, k \in S PROVE k + 1 \in S
  <2>1. k + 1 \in 1..8 /\ (k + 1) + 1 = k + 2 /\ k + 2 \in 1..9
    BY <1>2
  <2>2. Y(k + 2) = Widen(G, Y(k + 1))
    BY <2>1, LayerStep
  <2>3. \A b \in Y(k + 1) : Within(k + 1, b)
    BY <1>2
  <2>4. ASSUME NEW b \in Y(k + 2) PROVE Within(k + 2, b)
    <3>1. CASE b \in Y(k + 1)
      <4> HIDE DEF L, Y
      <4>1. 1..(k + 1) \subseteq 1..(k + 2)
        BY <2>1
      <4>. QED
        BY <2>3, <3>1, <4>1
    <3>2. CASE b \notin Y(k + 1)
      <4>1. PICK c \in Y(k + 1) : b \in Successors(G, c)
        BY <2>2, <3>2 DEF Widen
      <4>2. PICK rel \in G.relationships : rel.kind \in TRAVERSABLE /\ rel.source = c /\ rel.target = b
        BY <4>1 DEF Successors
      <4>3. PICK m \in 1..(k + 1) : \E path \in L(m) : End(p, path) = c /\ {y.target : y \in Steps(path)} \subseteq Y(m)
        BY <2>3, <4>1
      <4>4. PICK path \in L(m) : End(p, path) = c /\ {y.target : y \in Steps(path)} \subseteq Y(m)
        BY <4>3
      <4>5. m \in 1..8 /\ m + 1 \in 1..(k + 2) /\ m \in 1..9 /\ k + 1 \in m..9 /\ m + 1 \in 1..9
        BY <2>1
      <4>6. p \in Y(m) /\ Y(m) \subseteq Y(k + 1)
        BY <4>5, LayersGrow
      <4>7. rel \in Leaving(G, {}, End(p, path)) /\ rel.target \notin {p} \cup {y.target : y \in Steps(path)}
        BY <3>2, <4>2, <4>4, <4>6 DEF Leaving
      <4>8. Append(path, rel) \in L(m + 1)
        <5>1. L(m + 1) = Longer(G, {}, p, L(m))
          BY <4>5, LevelStep
        <5> HIDE DEF L
        <5>2. Append(path, rel) \in Longer(G, {}, p, L(m))
          BY <4>7, InLonger
        <5>. QED
          BY <5>1, <5>2
      <4>9. Path(G, {}, p, path, m)
        BY <4>5, LevelsOfPaths
      <4>10. /\ Path(G, {}, p, Append(path, rel), m + 1)
             /\ End(p, Append(path, rel)) = b /\ Steps(Append(path, rel)) = Steps(path) \cup {rel}
        BY <4>2, <4>5, <4>7, <4>9, LongerPath
      <4>11. {y.target : y \in Steps(Append(path, rel))} \subseteq Y(m + 1)
        <5>1. Y(m) \subseteq Y(m + 1)
          BY <4>5, LayerStep
        <5>2. b \in Y(m + 1)
          BY <4>10 DEF Path
        <5> HIDE DEF Y
        <5>. QED
          BY <4>2, <4>4, <4>10, <5>1, <5>2
      <4> HIDE DEF L, Y
      <4>. QED
        BY <4>5, <4>8, <4>10, <4>11
    <3>. QED
      BY <3>1, <3>2
  <2> HIDE DEF L, Y, Within
  <2>. QED
    BY <2>1, <2>4
<1> HIDE DEF S
<1>3. 0 .. 8 \subseteq S
  BY <1>1, <1>2, Counting
<1>4. n - 1 \in S /\ (n - 1) + 1 = n
  BY <1>3
<1> HIDE DEF Within, Y
<1>5. Within(n, a)
  BY <1>4 DEF S, Y
<1>. QED
  BY <1>5 DEF Within

\* The paths of an actor: they end at those it acts as, pass only such on their
\* way, and end in the surroundings of everyone they pass.
LEMMA ActorPathsGo ==
    ASSUME NEW G, NEW ignored, NEW p
    PROVE  /\ IsFiniteSet(G.relationships) => IsFiniteSet(ActorPaths(G, ignored, p))
           /\ \A via \in ActorPaths(G, ignored, p) :
                 /\ via \in Seq(G.relationships) /\ End(p, via) \in Reach(G, p)
                 /\ \A e \in Steps(via) :
                       /\ e \in G.relationships /\ e.kind \in TRAVERSABLE /\ e \notin ignored
                       /\ e.source \in Reach(G, p) /\ End(p, via) \in ActorClosure(G, e.target)
<1> DEFINE D == ReachDepth + 1
           L == Levels(G, ignored, p)
<1>1. D \in 1..9 /\ 1 .. D \subseteq 1..9 /\ D \in Nat
  BY DepthAssumption
<1>2. ASSUME IsFiniteSet(G.relationships) PROVE IsFiniteSet(ActorPaths(G, ignored, p))
  <2> DEFINE f == [n \in 1 .. D |-> L[n]]
             T == {L[n] : n \in 1 .. D}
  <2>1. IsFiniteSet(1 .. D)
    BY <1>1, FS_Interval
  <2>2. DOMAIN f = 1 .. D /\ \A t \in T : \E n \in 1 .. D : t = f[n]
    OBVIOUS
  <2>3. \A t \in T : IsFiniteSet(t)
    BY <1>1, <1>2, LevelsOfPaths
  <2>4. ActorPaths(G, ignored, p) = UNION T
    BY DEF ActorPaths
  <2> HIDE DEF f, T
  <2>5. IsFiniteSet(T)
    BY <2>1, <2>2, ImageFinite
  <2>. QED
    BY <2>3, <2>4, <2>5, FS_UNION
<1>3. ASSUME NEW via \in ActorPaths(G, ignored, p)
      PROVE  /\ via \in Seq(G.relationships) /\ End(p, via) \in Reach(G, p)
             /\ \A e \in Steps(via) :
                   /\ e \in G.relationships /\ e.kind \in TRAVERSABLE /\ e \notin ignored
                   /\ e.source \in Reach(G, p) /\ End(p, via) \in ActorClosure(G, e.target)
  <2>1. PICK n \in 1 .. D : via \in L[n]
    BY DEF ActorPaths
  <2>2. n \in 1..9 /\ D \in n..9
    BY <1>1
  <2>3. Path(G, ignored, p, via, n)
    BY <2>1, <2>2, LevelsOfPaths
  <2>4. Layers(G, p)[n] \subseteq Reach(G, p)
    BY <2>2, LayersGrow DEF Reach
  <2>5. ASSUME NEW e \in Steps(via)
        PROVE  /\ e \in G.relationships /\ e.kind \in TRAVERSABLE /\ e \notin ignored
               /\ e.source \in Reach(G, p) /\ End(p, via) \in ActorClosure(G, e.target)
    <3>1. via \in Seq(G.relationships) /\ DOMAIN via = 1 .. n - 1
      BY <2>3 DEF Path
    <3>2. PICK m \in 1 .. n - 1 : e = via[m]
      BY <3>1 DEF Steps
    <3>3. e \in G.relationships
      BY <3>1, <3>2
    <3>4. /\ e.kind \in TRAVERSABLE /\ e \notin ignored /\ e.source \in Layers(G, p)[n]
          /\ End(p, via) \in Layers(G, e.target)[n]
      BY <2>3, <3>2 DEF Path
    <3>5. Layers(G, e.target)[n] \subseteq ActorClosure(G, e.target)
      BY <2>2, LayersInClosure
    <3>. QED
      BY <2>4, <3>3, <3>4, <3>5
  <2>. QED
    BY <2>3, <2>4, <2>5 DEF Path
<1>. QED
  BY <1>2, <1>3

\* An actor acts as whoever one of its paths ends at.
LEMMA ReachOfPaths ==
    ASSUME NEW G, NEW p, NEW a
    PROVE  a \in Reach(G, p) <=> \E via \in ActorPaths(G, {}, p) : End(p, via) = a
<1>1. ASSUME a \in Reach(G, p) PROVE \E via \in ActorPaths(G, {}, p) : End(p, via) = a
  <2>1. ReachDepth + 1 \in 1..9
    BY DepthAssumption
  <2>2. PICK m \in 1 .. ReachDepth + 1 : \E path \in Levels(G, {}, p)[m] : End(p, path) = a
    BY <1>1, <2>1, LayersHavePaths DEF Reach
  <2>. QED
    BY <2>2 DEF ActorPaths
<1>. QED
  BY <1>1, ActorPathsGo

\* What a simulation leaves out is left out of the graph.
LEMMA PathsWithout ==
    ASSUME NEW G, NEW e, NEW p
    PROVE  ActorPaths(G, {e}, p) = ActorPaths(Without(G, e), {}, p)
<1>1. Without(G, e).relationships = G.relationships \ {e}
  BY DEF Without
<1>2. \A a : Leaving(G, {e}, a) = Leaving(Without(G, e), {}, a)
  BY <1>1 DEF Leaving
<1>3. \A paths : Longer(G, {e}, p, paths) = Longer(Without(G, e), {}, p, paths)
  BY <1>2, SameLonger
<1>4. Levels(G, {e}, p) = Levels(Without(G, e), {}, p)
  BY <1>3, SameLevels
<1>. QED
  BY <1>4 DEF ActorPaths

------------------------------------------------------------------------------
(* The forest of resources, and the chains along it.                       *)

\* Ancestors are the least set that holds the resource and goes up with it.
LEMMA AncestorsLeast ==
    ASSUME NEW G, WellFormed(G), NEW r \in ResourceIds(G)
    PROVE  /\ r \in Ancestors(G, r) /\ Ancestors(G, r) \subseteq ResourceIds(G)
           /\ \A c \in Contains(G) : c.target \in Ancestors(G, r) => c.source \in Ancestors(G, r)
           /\ \A T : r \in T /\ (\A c \in Contains(G) : c.target \in T => c.source \in T)
                        => Ancestors(G, r) \subseteq T
           /\ IsFiniteSet(Ancestors(G, r)) /\ Cardinality(Ancestors(G, r)) \in Nat
<1> DEFINE R == ResourceIds(G)
<1>1. R \cup {r} = R
  OBVIOUS
<1>2. \A c \in Contains(G) : c.source \in R /\ c.target \in R
  BY DEF WellFormed, Contains, ResourceIds
<1>3. Ancestors(G, r) = {a \in R : \A T \in SUBSET R :
                           (r \in T /\ \A c \in Contains(G) : c.target \in T => c.source \in T) => a \in T}
  BY <1>1 DEF Ancestors
<1>4. r \in Ancestors(G, r) /\ Ancestors(G, r) \subseteq R
  BY <1>3
<1>5. ASSUME NEW c \in Contains(G), c.target \in Ancestors(G, r) PROVE c.source \in Ancestors(G, r)
  BY <1>2, <1>3, <1>5
<1>6. ASSUME NEW T, r \in T, \A c \in Contains(G) : c.target \in T => c.source \in T
      PROVE  Ancestors(G, r) \subseteq T
  <2> DEFINE U == T \cap R
  <2>1. U \in SUBSET R /\ r \in U /\ \A c \in Contains(G) : c.target \in U => c.source \in U
    BY <1>2, <1>6
  <2>2. Ancestors(G, r) \subseteq U
    BY <1>3, <2>1
  <2>. QED
    BY <2>2
<1>7. R \subseteq Entity
  BY DEF WellFormed, ResourceIds
<1>8. IsFiniteSet(Ancestors(G, r))
  BY <1>4, <1>7, FiniteAssumption, FS_Subset
<1>. QED
  BY <1>4, <1>5, <1>6, <1>8, FS_CardinalityType

\* What is in a resource has it and its ancestors as ancestors; nothing is its own.
LEMMA AncestorsOfChild ==
    ASSUME NEW G, WellFormed(G), NEW c \in Contains(G)
    PROVE  /\ c.source \in ResourceIds(G) /\ c.target \in ResourceIds(G)
           /\ Ancestors(G, c.target) = {c.target} \cup Ancestors(G, c.source)
           /\ c.target \notin Ancestors(G, c.source)
           /\ Cardinality(Ancestors(G, c.target)) = Cardinality(Ancestors(G, c.source)) + 1
<1> DEFINE A(x) == Ancestors(G, x)
<1>1. \A d \in Contains(G) : d.source \in ResourceIds(G) /\ d.target \in ResourceIds(G)
  BY DEF WellFormed, Contains, ResourceIds
<1>2. \A d1, d2 \in Contains(G) : d1.target = d2.target => d1 = d2
  BY DEF WellFormed
<1>3. ASSUME NEW d \in Contains(G) PROVE A(d.target) = {d.target} \cup A(d.source)
  <2> DEFINE T == {d.target} \cup A(d.source)
  <2>1. \A x \in Contains(G) : x.target \in T => x.source \in T
    <3>1. ASSUME NEW x \in Contains(G), x.target = d.target PROVE x.source \in T
      BY <1>1, <1>2, <3>1, AncestorsLeast
    <3>2. ASSUME NEW x \in Contains(G), x.target \in A(d.source) PROVE x.source \in T
      BY <1>1, <3>2, AncestorsLeast
    <3>. QED
      BY <3>1, <3>2
  <2>2. A(d.target) \subseteq T
    <3>1. d.target \in T
      OBVIOUS
    <3> HIDE DEF T
    <3>. QED
      BY <1>1, <2>1, <3>1, AncestorsLeast
  <2>3. d.target \in A(d.target) /\ d.source \in A(d.target)
    BY <1>1, AncestorsLeast
  <2>4. \A x \in Contains(G) : x.target \in A(d.target) => x.source \in A(d.target)
    BY <1>1, AncestorsLeast
  <2> HIDE DEF A
  <2>5. A(d.source) \subseteq A(d.target)
    BY <1>1, <2>3, <2>4, AncestorsLeast DEF A
  <2>. QED
    BY <2>2, <2>3, <2>5
<1>4. ASSUME NEW x \in ResourceIds(G), \A d \in Contains(G) : d.target # x PROVE A(x) = {x}
  <2>1. A(x) \subseteq {x}
    BY <1>4, AncestorsLeast
  <2>. QED
    BY <2>1, AncestorsLeast
<1>5. c.target \notin A(c.source)
  <2> SUFFICES ASSUME c.target \in A(c.source) PROVE FALSE
    OBVIOUS
  <2> DEFINE T == {x \in A(c.target) : c.target \in A(x)}
  <2>1. c.target \in T
    BY <1>1, AncestorsLeast
  <2>2. ASSUME NEW x \in T PROVE \E d \in Contains(G) : d.target = x /\ d.source \in T
    <3>1. x \in ResourceIds(G)
      BY <1>1, <2>2, AncestorsLeast
    <3>2. PICK d \in Contains(G) : d.target = x
      <4>1. SUFFICES ASSUME \A d \in Contains(G) : d.target # x PROVE FALSE
        OBVIOUS
      <4>2. A(x) = {x}
        BY <1>4, <3>1, <4>1
      <4>3. c.target = x
        BY <2>2, <4>2
      <4>. QED
        BY <4>1, <4>3
    <3>3. A(x) = {x} \cup A(d.source)
      BY <1>3, <3>2
    <3>4. c.target \in A(d.source)
      <4>1. CASE c.target = x
        BY <1>2, <3>2, <4>1
      <4>2. CASE c.target # x
        BY <2>2, <3>3, <4>2
      <4>. QED
        BY <4>1, <4>2
    <3>5. d.source \in A(c.target)
      BY <1>1, <2>2, <3>2, AncestorsLeast
    <3>. QED
      BY <3>2, <3>4, <3>5
  <2>3. T \in SUBSET {d.target : d \in Contains(G)} /\ T # {} /\ \A x \in T : \E d \in Contains(G) : d.target = x /\ d.source \in T
    BY <2>1, <2>2
  <2> HIDE DEF T
  <2>. QED
    BY <2>3 DEF WellFormed
<1>6. Cardinality(A(c.target)) = Cardinality(A(c.source)) + 1
  <2>1. A(c.target) = A(c.source) \cup {c.target}
    BY <1>3
  <2>2. IsFiniteSet(A(c.source))
    BY <1>1, AncestorsLeast
  <2> HIDE DEF A
  <2>. QED
    BY <1>5, <2>1, <2>2, FS_AddElement
<1>. QED
  BY <1>1, <1>3, <1>5, <1>6

\* Below an ancestor there is an edge into the first level, the next and so on
\* down to the resource.
LEMMA ChainThere ==
    ASSUME NEW G, WellFormed(G), NEW r \in ResourceIds(G), NEW a \in Ancestors(G, r)
    PROVE  /\ Cardinality(Ancestors(G, a)) \in Nat /\ Cardinality(Ancestors(G, r)) \in Nat
           /\ Cardinality(Ancestors(G, a)) <= Cardinality(Ancestors(G, r))
           /\ \A n \in 1 .. Cardinality(Ancestors(G, r)) - Cardinality(Ancestors(G, a)) :
                 \E c \in Contains(G) : /\ c.target \in Ancestors(G, r)
                                        /\ Cardinality(Ancestors(G, c.target)) = Cardinality(Ancestors(G, a)) + n
<1> DEFINE A(x) == Ancestors(G, x)
           size(x) == Cardinality(Ancestors(G, x))
           Good(x) == /\ size(a) <= size(x)
                      /\ \A n \in 1 .. size(x) - size(a) :
                            \E c \in Contains(G) : c.target \in A(x) /\ size(c.target) = size(a) + n
           T == {x \in ResourceIds(G) : a \in A(x) /\ ~ Good(x)}
<1>1. a \in ResourceIds(G)
  BY AncestorsLeast
<1>2. \A x \in ResourceIds(G) : size(x) \in Nat
  BY AncestorsLeast
<1>3. Good(a)
  BY <1>1, <1>2
<1>4. ASSUME NEW x \in T PROVE \E d \in Contains(G) : d.target = x /\ d.source \in T
  <2>1. x # a
    BY <1>3, <1>4
  <2>2. PICK d \in Contains(G) : d.target = x
    <3>1. SUFFICES ASSUME \A d \in Contains(G) : d.target # x PROVE FALSE
      OBVIOUS
    <3>2. A(x) \subseteq {x}
      BY <1>4, <3>1, AncestorsLeast
    <3>. QED
      BY <1>4, <2>1, <3>2
  <2>3. /\ d.source \in ResourceIds(G) /\ A(x) = {x} \cup A(d.source) /\ size(x) = size(d.source) + 1
    BY <2>2, AncestorsOfChild
  <2>4. a \in A(d.source)
    BY <1>4, <2>1, <2>3
  <2>5. SUFFICES ASSUME Good(d.source) PROVE FALSE
    BY <2>2, <2>3, <2>4
  <2>6. size(a) \in Nat /\ size(x) \in Nat /\ size(d.source) \in Nat
    BY <1>1, <1>2, <1>4, <2>3
  <2>7. x \in A(x)
    BY <1>4, AncestorsLeast
  <2> HIDE DEF A, size
  <2>8. size(a) <= size(x)
    BY <2>3, <2>5, <2>6
  <2>9. ASSUME NEW n \in 1 .. size(x) - size(a)
        PROVE  \E c \in Contains(G) : c.target \in A(x) /\ size(c.target) = size(a) + n
    <3>1. CASE n = size(x) - size(a)
      BY <2>2, <2>6, <2>7, <3>1
    <3>2. CASE n # size(x) - size(a)
      <4>1. n \in 1 .. size(d.source) - size(a)
        BY <2>3, <2>6, <3>2
      <4>. QED
        BY <2>3, <2>5, <4>1
    <3>. QED
      BY <3>1, <3>2
  <2>. QED
    BY <1>4, <2>8, <2>9
<1> HIDE DEF Good, A, size
<1>5. T = {}
  <2>1. T \in SUBSET {d.target : d \in Contains(G)} /\ \A x \in T : \E d \in Contains(G) : d.target = x /\ d.source \in T
    BY <1>4
  <2> HIDE DEF T
  <2>. QED
    BY <2>1 DEF WellFormed
<1>6. Good(r)
  BY <1>5 DEF A
<1>. QED
  BY <1>1, <1>2, <1>6 DEF Good, A, size

\* The chain is one of edges of the hierarchy.
LEMMA ChainOfEdges ==
    ASSUME NEW G, WellFormed(G), NEW r \in ResourceIds(G), NEW a \in Ancestors(G, r)
    PROVE  Chain(G, a, r) \in Seq(Contains(G))
<1> DEFINE above == Cardinality(Ancestors(G, a))
           N == Cardinality(Ancestors(G, r)) - above
           At(n) == CHOOSE c \in Contains(G) : /\ c.target \in Ancestors(G, r)
                                               /\ Cardinality(Ancestors(G, c.target)) = above + n
<1>1. N \in Nat
  BY ChainThere
<1>2. \A n \in 1 .. N : At(n) \in Contains(G)
  BY ChainThere
<1>3. Chain(G, a, r) = [n \in 1 .. N |-> At(n)]
  BY DEF Chain
<1> HIDE DEF N, At
<1>4. Chain(G, a, r) \in [1 .. N -> Contains(G)]
  BY <1>2, <1>3
<1>. QED
  BY <1>1, <1>4, SeqDef

\* A grant gives access to resources that it names or that are in one it names.
LEMMA GivenBelow ==
    ASSUME NEW G, WellFormed(G), NEW g \in Grants(G), NEW r \in GrantTargets(G, g)
    PROVE  /\ r \in ResourceIds(G) /\ g.target \in Ancestors(G, r) /\ g.source \in Ids(G)
           /\ g \in G.relationships
<1>1. g.target \in ResourceIds(G) /\ g.source \in Ids(G) /\ g \in G.relationships
  BY DEF WellFormed, Grants
<1>2. CASE g.inherits
  BY <1>1, <1>2 DEF GrantTargets, Descendants
<1>3. CASE ~ g.inherits
  BY <1>1, <1>3, AncestorsLeast DEF GrantTargets
<1>. QED
  BY <1>1, <1>2, <1>3

------------------------------------------------------------------------------
(* The order of paths.                                                     *)

RankKeys == [1 .. 8 -> Int]

\* Lexicographic order is one.
LEMMA PrecedesOrders ==
    ASSUME NEW x \in RankKeys, NEW y \in RankKeys, NEW z \in RankKeys
    PROVE  ~ Precedes(x, x) /\ (Precedes(x, y) /\ Precedes(y, z) => Precedes(x, z))
<1>1. ~ Precedes(x, x)
  BY DEF Precedes, RankKeys
<1>2. ASSUME Precedes(x, y), Precedes(y, z) PROVE Precedes(x, z)
  <2>1. PICK n \in 1 .. 8 : x[n] < y[n] /\ \A m \in 1 .. n - 1 : x[m] = y[m]
    BY <1>2 DEF Precedes, RankKeys
  <2>2. PICK k \in 1 .. 8 : y[k] < z[k] /\ \A m \in 1 .. k - 1 : y[m] = z[m]
    BY <1>2 DEF Precedes, RankKeys
  <2>3. \A m \in 1 .. 8 : x[m] \in Int /\ y[m] \in Int /\ z[m] \in Int
    BY DEF RankKeys
  <2>4. \E l \in 1 .. 8 : x[l] < z[l] /\ \A m \in 1 .. l - 1 : x[m] = z[m]
    <3>1. CASE n <= k
      <4>1. x[n] < z[n]
        BY <2>1, <2>2, <2>3, <3>1
      <4>2. ASSUME NEW m \in 1 .. n - 1 PROVE x[m] = z[m]
        <5>1. m \in 1 .. k - 1
          BY <3>1
        <5>. QED
          BY <2>1, <2>2, <5>1
      <4>. QED
        BY <4>1, <4>2
    <3>2. CASE k < n
      <4>1. x[k] < z[k]
        BY <2>1, <2>2, <2>3, <3>2
      <4>2. ASSUME NEW m \in 1 .. k - 1 PROVE x[m] = z[m]
        <5>1. m \in 1 .. n - 1
          BY <3>2
        <5>. QED
          BY <2>1, <2>2, <5>1
      <4>. QED
        BY <4>1, <4>2
    <3>. QED
      BY <3>1, <3>2
  <2>. QED
    BY <2>4 DEF Precedes, RankKeys
<1>. QED
  BY <1>1, <1>2

\* Of finitely many paths there is one that none precedes.
LEMMA FirstThere ==
    ASSUME NEW G, NEW paths, IsFiniteSet(paths), paths # {}, \A path \in paths : RankKey(G, path) \in RankKeys
    PROVE  \E x \in paths : \A y \in paths : ~ Precedes(RankKey(G, y), RankKey(G, x))
<1> DEFINE K(x) == RankKey(G, x)
           Before(x) == {y \in paths : Precedes(K(y), K(x))}
           sizes == {Cardinality(Before(x)) : x \in paths}
<1>1. \A x \in paths : IsFiniteSet(Before(x)) /\ Cardinality(Before(x)) \in Nat
  BY FS_Subset, FS_CardinalityType
<1>2. sizes \in SUBSET Nat /\ sizes # {}
  BY <1>1
<1>3. PICK least \in sizes : \A n \in sizes : least <= n
  BY <1>2, LeastNumber
<1>4. PICK x \in paths : least = Cardinality(Before(x))
  OBVIOUS
<1>5. ASSUME NEW y \in paths, Precedes(K(y), K(x)) PROVE FALSE
  <2>1. \A z \in paths : K(z) \in RankKeys
    OBVIOUS
  <2> HIDE DEF K
  <2>2. Before(y) \subseteq Before(x)
    BY <1>5, <2>1, PrecedesOrders
  <2>3. y \in Before(x) /\ y \notin Before(y)
    BY <1>5, <2>1, PrecedesOrders
  <2> HIDE DEF Before
  <2>4. Before(y) # Before(x)
    BY <2>3
  <2>5. Cardinality(Before(y)) < Cardinality(Before(x))
    <3>1. Cardinality(Before(y)) <= Cardinality(Before(x)) /\ Cardinality(Before(x)) # Cardinality(Before(y))
      BY <1>1, <2>2, <2>4, FS_Subset
    <3>. QED
      BY <1>1, <3>1
  <2>6. least <= Cardinality(Before(y))
    BY <1>3
  <2>. QED
    BY <1>1, <1>4, <2>5, <2>6
<1>. QED
  BY <1>5

\* So there are as many first ones as there are paths.
LEMMA InOrderThere ==
    ASSUME NEW G, NEW paths, IsFiniteSet(paths), \A path \in paths : RankKey(G, path) \in RankKeys,
           NEW n \in 0 .. Cardinality(paths)
    PROVE  InOrder(G, paths, n) # {}
<1> DEFINE N == Cardinality(paths)
           S == {k \in 0 .. N : InOrder(G, paths, k) # {}}
<1>1. N \in Nat
  BY FS_CardinalityType
<1>2. 0 \in S
  <2>1. [m \in 1 .. 0 |-> m] \in InOrder(G, paths, 0)
    BY DEF InOrder
  <2>. QED
    BY <1>1, <2>1
<1>3. ASSUME NEW k \in 0 .. N, k < N, k \in S PROVE k + 1 \in S
  <2>1. PICK kept : kept \in InOrder(G, paths, k)
    BY <1>3
  <2>2. /\ kept \in [1 .. k -> paths]
        /\ \A m \in 1 .. k : /\ \A l \in 1 .. m - 1 : kept[l] # kept[m]
                             /\ \A path \in paths \ {kept[l] : l \in 1 .. m} :
                                   ~ Precedes(RankKey(G, path), RankKey(G, kept[m]))
    BY <2>1 DEF InOrder
  <2> DEFINE taken == {kept[l] : l \in 1 .. k}
  <2>3. IsFiniteSet(taken) /\ Cardinality(taken) <= k
    <3>1. IsFiniteSet(1 .. k) /\ Cardinality(1 .. k) = k
      BY FS_Interval
    <3>2. kept \in Surjection(1 .. k, taken)
      BY <2>2 DEF Surjection
    <3> HIDE DEF taken
    <3>. QED
      BY <3>1, <3>2, FS_Surjection
  <2>4. paths \ taken # {}
    <3>1. taken \subseteq paths
      BY <2>2
    <3>2. taken # paths
      <4> HIDE DEF taken
      <4>. QED
        BY <1>1, <1>3, <2>3, FS_CardinalityType
    <3>. QED
      BY <3>1, <3>2
  <2>5. IsFiniteSet(paths \ taken)
    BY FS_Difference
  <2>6. PICK x \in paths \ taken : \A y \in paths \ taken : ~ Precedes(RankKey(G, y), RankKey(G, x))
    <3> HIDE DEF taken
    <3>. QED
      BY <2>4, <2>5, FirstThere
  <2> DEFINE more == [m \in 1 .. k + 1 |-> IF m = k + 1 THEN x ELSE kept[m]]
  <2>7. /\ more \in [1 .. k + 1 -> paths] /\ more[k + 1] = x
        /\ \A m \in 1 .. k : more[m] = kept[m]
    BY <2>2, <2>6
  <2> HIDE DEF more
  <2>8. \A m \in 1 .. k : \A l \in 1 .. m : l \in 1 .. k
    OBVIOUS
  <2>9. \A m \in 1 .. k : {more[l] : l \in 1 .. m} = {kept[l] : l \in 1 .. m}
    BY <2>7, <2>8
  <2>10. ASSUME NEW m \in 1 .. k + 1
         PROVE  /\ \A l \in 1 .. m - 1 : more[l] # more[m]
                /\ \A path \in paths \ {more[l] : l \in 1 .. m} :
                      ~ Precedes(RankKey(G, path), RankKey(G, more[m]))
    <3>1. CASE m = k + 1
      <4>1. \A l \in 1 .. m - 1 : more[l] # more[m]
        BY <2>6, <2>7, <3>1
      <4>2. ASSUME NEW path \in paths \ {more[l] : l \in 1 .. m} PROVE path \in paths \ taken
        BY <2>7, <3>1
      <4>. QED
        BY <2>6, <2>7, <3>1, <4>1, <4>2
    <3>2. CASE m \in 1 .. k
      <4>1. \A l \in 1 .. m - 1 : more[l] # more[m]
        BY <2>2, <2>7, <3>2
      <4>. QED
        BY <2>2, <2>7, <2>9, <3>2, <4>1
    <3>. QED
      BY <3>1, <3>2
  <2>11. more \in InOrder(G, paths, k + 1)
    BY <2>7, <2>10 DEF InOrder
  <2>. QED
    BY <1>1, <1>3, <2>11
<1> HIDE DEF S
<1>4. 0 .. N \subseteq S
  BY <1>1, <1>2, <1>3, Counting
<1>. QED
  BY <1>4 DEF S

\* What is kept: some of the paths if there are any, each once, and all of them
\* if they are few.
LEMMA TrimmedKeeps ==
    ASSUME NEW G, NEW paths, IsFiniteSet(paths), \A path \in paths : RankKey(G, path) \in RankKeys
    PROVE  /\ Trimmed(G, paths) \in Seq(paths) /\ Len(Trimmed(G, paths)) <= Kept
           /\ Steps(Trimmed(G, paths)) \subseteq paths
           /\ paths # {} => Len(Trimmed(G, paths)) > 0 /\ Steps(Trimmed(G, paths)) # {}
           /\ Cardinality(paths) <= Kept => Steps(Trimmed(G, paths)) = paths
<1> DEFINE N == Cardinality(paths)
           n == IF N < Kept THEN N ELSE Kept
           kept == Trimmed(G, paths)
<1>1. N \in Nat /\ Kept \in Nat \ {0} /\ n \in 0 .. N /\ n \in Nat /\ n <= Kept /\ (N # 0 => n > 0) /\ (N <= Kept => n = N)
  BY FS_CardinalityType, PathAssumption
<1> HIDE DEF N
<1>2. kept \in InOrder(G, paths, n)
  <2>1. InOrder(G, paths, n) # {}
    <3> HIDE DEF n
    <3>. QED
      BY <1>1, InOrderThere DEF N
  <2>2. kept = CHOOSE x \in InOrder(G, paths, n) : TRUE
    BY DEF Trimmed, N
  <2>. QED
    BY <2>1, <2>2
<1> HIDE DEF n, kept
<1>3. kept \in [1 .. n -> paths] /\ \A m \in 1 .. n : \A l \in 1 .. m - 1 : kept[l] # kept[m]
  BY <1>2 DEF InOrder
<1>4. kept \in Seq(paths) /\ Len(kept) = n /\ DOMAIN kept = 1 .. n
  BY <1>1, <1>3, SeqDef
<1>5. Steps(kept) = {kept[m] : m \in 1 .. n} /\ Steps(kept) \subseteq paths
  BY <1>3, <1>4 DEF Steps
<1>6. ASSUME paths # {} PROVE n > 0 /\ Steps(kept) # {}
  <2>1. N # 0
    BY <1>6, FS_EmptySet DEF N
  <2>2. n > 0 /\ 1 \in 1 .. n
    BY <1>1, <2>1
  <2>. QED
    BY <1>5, <2>2
<1>7. ASSUME N <= Kept PROVE Steps(kept) = paths
  <2>1. kept \in Injection(1 .. n, Steps(kept))
    <3>1. ASSUME NEW l \in 1 .. n, NEW m \in 1 .. n, kept[l] = kept[m] PROVE l = m
      <4>1. ~ (l < m) /\ ~ (m < l)
        BY <1>3, <3>1
      <4>. QED
        BY <4>1
    <3>2. kept \in [1 .. n -> Steps(kept)]
      BY <1>3, <1>5
    <3>. QED
      BY <3>1, <3>2 DEF Injection, IsInjective
  <2>2. IsFiniteSet(Steps(kept)) /\ Cardinality(Steps(kept)) <= N
    BY <1>5, FS_Subset DEF N
  <2>3. Cardinality(1 .. n) = n
    BY <1>1, FS_Interval
  <2>4. n <= Cardinality(Steps(kept))
    BY <2>1, <2>2, <2>3, FS_Injection
  <2>5. Cardinality(Steps(kept)) = N
    BY <1>1, <1>7, <2>2, <2>4, FS_CardinalityType
  <2>. QED
    BY <1>5, <2>5, FS_Subset DEF N
<1>. QED
  BY <1>1, <1>4, <1>5, <1>6, <1>7 DEF kept, N

------------------------------------------------------------------------------
(* The paths of a pair.                                                    *)

Modes == {"Direct", "Inherited", "Direct role", "Role-derived", "Delegated"}

\* A deny takes the same from paths as from access.
LEMMA DeniedByPaths ==
    ASSUME NEW G, NEW p, NEW r
    PROVE  Denied(G, {}, p, r) = DeniedPermissions(G, Reach(G, p), r)
<1>1. \A d : (\E via \in ActorPaths(G, {}, p) : End(p, via) = d.source) <=> d.source \in Reach(G, p)
  BY ReachOfPaths
<1>2. \A d \in Denies(G) : (d.target = r /\ \E via \in ActorPaths(G, {}, p) : End(p, via) = d.source)
                              <=> (d.target = r /\ d.source \in Reach(G, p))
  BY <1>1
<1>3. {d \in Denies(G) \ {} : d.target = r /\ \E via \in ActorPaths(G, {}, p) : End(p, via) = d.source}
         = {d \in Denies(G) : d.target = r /\ d.source \in Reach(G, p)}
  BY <1>2
<1>. QED
  BY <1>3 DEF Denied, DeniedPermissions

\* The definition of the paths of a pair, path by path.
LEMMA InPairPaths ==
    ASSUME NEW G, NEW ignored, NEW p, NEW r, NEW path
    PROVE  path \in PairPaths(G, ignored, p, r) <=>
             \E g \in Grants(G) \ ignored : \E via \in ActorPaths(G, ignored, p) :
                /\ r \in GrantTargets(G, g) /\ g.permissions \ Denied(G, ignored, p, r) # {}
                /\ End(p, via) = g.source
                /\ path = PathBy(G, p, r, Denied(G, ignored, p, r), via, g)
  BY DEF PairPaths

\* The permissions a pair has by a grant.
Left(G, p, r, g) == g.permissions \ DeniedPermissions(G, Reach(G, p), r)

\* A path goes from the principal to the source of a grant and down the chain.
MadeOf(G, p, r, path, via, g) ==
    /\ g \in EffectiveGrants(G, Reach(G, p), r)
    /\ via \in ActorPaths(G, {}, p) /\ End(p, via) = g.source
    /\ path = PathBy(G, p, r, DeniedPermissions(G, Reach(G, p), r), via, g)

\* There are such paths and no others.
LEMMA PathsMade ==
    ASSUME NEW G, NEW p, NEW r, NEW path
    PROVE  path \in PairPaths(G, {}, p, r) <=> \E g : \E via : MadeOf(G, p, r, path, via, g)
<1> DEFINE denied == DeniedPermissions(G, Reach(G, p), r)
           acts == Reach(G, p)
           vias == ActorPaths(G, {}, p)
           grants == {g \in Grants(G) : r \in GrantTargets(G, g) /\ g.permissions \ denied # {}}
           of(via, g) == PathBy(G, p, r, denied, via, g)
<1>1. Denied(G, {}, p, r) = denied /\ Grants(G) \ {} = Grants(G)
  BY DeniedByPaths
<1>2. path \in PairPaths(G, {}, p, r)
        <=> \E g \in grants : \E via \in vias : End(p, via) = g.source /\ path = of(via, g)
  <2>1. path \in PairPaths(G, {}, p, r) <=>
             \E g \in Grants(G) : \E via \in vias :
                /\ r \in GrantTargets(G, g) /\ g.permissions \ denied # {}
                /\ End(p, via) = g.source /\ path = of(via, g)
    <3> HIDE DEF denied
    <3>. QED
      BY <1>1, InPairPaths
  <2> HIDE DEF denied, vias, of
  <2>. QED
    BY <2>1
<1>3. \A g, via : MadeOf(G, p, r, path, via, g)
                    <=> g \in EffectiveGrants(G, acts, r) /\ via \in vias /\ End(p, via) = g.source /\ path = of(via, g)
  BY DEF MadeOf
<1>4. ASSUME NEW g, NEW via \in vias, End(p, via) = g.source
      PROVE  g \in grants <=> g \in EffectiveGrants(G, acts, r)
  <2>1. g.source \in acts
    BY <1>4, ReachOfPaths
  <2>. QED
    BY <2>1 DEF EffectiveGrants
<1> HIDE DEF of, vias, grants, acts, denied
<1>. QED
  BY <1>2, <1>3, <1>4

\* The edges of a path are edges of the graph.
LEMMA EdgesOfPath ==
    ASSUME NEW G, WellFormed(G), NEW p, NEW r, NEW path, NEW via, NEW g, MadeOf(G, p, r, path, via, g)
    PROVE  /\ path.edges \in Seq(G.relationships) /\ path.edges # <<>>
           /\ Steps(path.edges) = Steps(via) \cup {g} \cup Steps(Chain(G, g.target, r))
           /\ Steps(Chain(G, g.target, r)) \subseteq Contains(G)
           /\ g \in Grants(G) /\ g.source \in Reach(G, p) /\ r \in GrantTargets(G, g)
<1> DEFINE chain == Chain(G, g.target, r)
           head == via \o <<g>>
           E == G.relationships
<1>1. g \in Grants(G) /\ g.source \in Reach(G, p) /\ r \in GrantTargets(G, g)
  BY DEF MadeOf, EffectiveGrants
<1>2. chain \in Seq(Contains(G)) /\ g \in E /\ via \in Seq(E)
  BY <1>1, GivenBelow, ChainOfEdges, ActorPathsGo DEF MadeOf
<1>3. chain \in Seq(E) /\ Steps(chain) \subseteq Contains(G)
  <2>1. Contains(G) \subseteq E
    BY DEF Contains
  <2> HIDE DEF chain
  <2>2. chain \in Seq(E)
    BY <1>2, <2>1, SeqMonotonic
  <2>. QED
    BY <1>2, <2>2 DEF Steps
<1>4. path.edges = head \o chain
  BY DEF MadeOf, PathBy
<1> HIDE DEF chain
<1>5. <<g>> \in Seq(E) /\ Len(<<g>>) = 1 /\ <<g>>[1] = g
  <2>1. Len(<<g>>) = 1 /\ <<g>>[1] = g
    OBVIOUS
  <2>2. <<g>> \in Seq(E)
    <3> HIDE DEF E
    <3>. QED
      BY <1>2
  <2>. QED
    BY <2>1, <2>2
<1>6. /\ head \in Seq(E) /\ Len(head) = Len(via) + 1 /\ Len(via) \in Nat
      /\ \A n \in 1 .. Len(via) : head[n] = via[n]
      /\ head[Len(via) + 1] = g
  <2>0. Len(via) \in Nat
    BY <1>2
  <2>1. head \in Seq(E) /\ Len(head) = Len(via) + Len(<<g>>)
        /\ \A n \in 1 .. Len(via) + Len(<<g>>) : head[n] = IF n <= Len(via) THEN via[n] ELSE <<g>>[n - Len(via)]
    BY <1>2, <1>5, ConcatProperties
  <2> HIDE DEF head
  <2>2. head[Len(via) + 1] = g
    BY <1>5, <2>0, <2>1
  <2>3. \A n \in 1 .. Len(via) : head[n] = via[n]
    BY <1>5, <2>0, <2>1
  <2>. QED
    BY <1>5, <2>0, <2>1, <2>2, <2>3
<1> HIDE DEF head
<1>7. Steps(head) = Steps(via) \cup {g}
  <2>1. DOMAIN head = 1 .. Len(via) + 1 /\ DOMAIN via = 1 .. Len(via)
        /\ 1 .. Len(via) + 1 = (1 .. Len(via)) \cup {Len(via) + 1}
    BY <1>2, <1>6
  <2>. QED
    BY <1>6, <2>1 DEF Steps
<1> DEFINE all == head \o chain
<1>8. /\ all \in Seq(E) /\ Len(all) = Len(head) + Len(chain) /\ Len(head) \in Nat /\ Len(chain) \in Nat
      /\ \A n \in 1 .. Len(head) : all[n] = head[n]
      /\ \A n \in 1 .. Len(chain) : all[Len(head) + n] = chain[n]
  <2>0. Len(head) \in Nat /\ Len(chain) \in Nat
    BY <1>3, <1>6
  <2>1. all \in Seq(E) /\ Len(all) = Len(head) + Len(chain)
        /\ \A n \in 1 .. Len(head) + Len(chain) : all[n] = IF n <= Len(head) THEN head[n] ELSE chain[n - Len(head)]
    BY <1>3, <1>6, ConcatProperties
  <2> HIDE DEF all
  <2>2. \A n \in 1 .. Len(head) : all[n] = head[n]
    BY <2>0, <2>1
  <2>3. ASSUME NEW n \in 1 .. Len(chain) PROVE all[Len(head) + n] = chain[n]
    <3>1. Len(head) + n \in 1 .. Len(head) + Len(chain) /\ ~ (Len(head) + n <= Len(head)) /\ (Len(head) + n) - Len(head) = n
      BY <2>0
    <3>. QED
      BY <2>1, <3>1
  <2>. QED
    BY <2>0, <2>1, <2>2, <2>3
<1> HIDE DEF all
<1>9. Steps(all) = Steps(head) \cup Steps(chain)
  <2>1. DOMAIN all = 1 .. Len(head) + Len(chain) /\ DOMAIN head = 1 .. Len(head) /\ DOMAIN chain = 1 .. Len(chain)
    BY <1>3, <1>6, <1>8
  <2>2. ASSUME NEW n \in 1 .. Len(head) + Len(chain)
        PROVE  all[n] \in Steps(head) \cup Steps(chain)
    <3>1. CASE n <= Len(head)
      BY <1>8, <2>1, <3>1 DEF Steps
    <3>2. CASE n > Len(head)
      <4>1. n - Len(head) \in 1 .. Len(chain) /\ Len(head) + (n - Len(head)) = n
        BY <1>8, <3>2
      <4>. QED
        BY <1>8, <2>1, <4>1 DEF Steps
    <3>. QED
      BY <1>8, <3>1, <3>2
  <2>3. ASSUME NEW n \in 1 .. Len(head) PROVE head[n] \in Steps(all)
    <3>1. n \in 1 .. Len(head) + Len(chain)
      BY <1>8
    <3>. QED
      BY <1>8, <2>1, <3>1 DEF Steps
  <2>4. ASSUME NEW n \in 1 .. Len(chain) PROVE chain[n] \in Steps(all)
    <3>1. Len(head) + n \in 1 .. Len(head) + Len(chain)
      BY <1>8
    <3>. QED
      BY <1>8, <2>1, <3>1 DEF Steps
  <2>. QED
    BY <2>1, <2>2, <2>3, <2>4 DEF Steps
<1>10. all # <<>>
  BY <1>6, <1>8
<1>. QED
  BY <1>1, <1>3, <1>4, <1>7, <1>8, <1>9, <1>10 DEF all, chain

\* A pair has finitely many paths.
LEMMA PathsFinite ==
    ASSUME NEW G, Graph(G), NEW p, NEW r
    PROVE  IsFiniteSet(PairPaths(G, {}, p, r)) /\ Cardinality(PairPaths(G, {}, p, r)) \in Nat
<1> DEFINE denied == DeniedPermissions(G, Reach(G, p), r)
           D == ActorPaths(G, {}, p) \X G.relationships
           f == [pair \in D |-> PathBy(G, p, r, denied, pair[1], pair[2])]
<1>1. IsFiniteSet(D)
  BY ActorPathsGo, FS_Product DEF Graph
<1>2. ASSUME NEW path \in PairPaths(G, {}, p, r) PROVE \E pair \in D : path = f[pair]
  <2>1. PICK g, via : MadeOf(G, p, r, path, via, g)
    BY PathsMade
  <2>2. <<via, g>> \in D
    BY <2>1 DEF MadeOf, EffectiveGrants, Grants
  <2>. QED
    BY <2>1, <2>2 DEF MadeOf
<1>3. DOMAIN f = D
  OBVIOUS
<1> HIDE DEF f, D
<1>. QED
  BY <1>1, <1>2, <1>3, ImageFinite, FS_CardinalityType

\* Some of the steps of a path are finitely many.
LEMMA StepsCount ==
    ASSUME NEW E, NEW path \in Seq(E), NEW T \in SUBSET (DOMAIN path)
    PROVE  Cardinality(T) \in Nat
<1>1. DOMAIN path = 1 .. Len(path) /\ Len(path) \in Nat
  OBVIOUS
<1>2. IsFiniteSet(DOMAIN path)
  BY <1>1, FS_Interval
<1>. QED
  BY <1>2, FS_Subset, FS_CardinalityType

\* The mode of a path is one of five.
LEMMA ModeOfPath ==
    ASSUME NEW via, NEW g
    PROVE  AccessMode(via, g) \in Modes
  BY DEF AccessMode, Modes

\* Each of the modes has its rank.
LEMMA RankOfMode ==
    ASSUME NEW m \in Modes
    PROVE  ModeRank(m) \in Int
<1>2. ModeRank("Direct") = 0 /\ ModeRank("Inherited") = 1
  BY DEF ModeRank
<1>3. ModeRank("Direct role") = 2 /\ ModeRank("Role-derived") = 3
  BY DEF ModeRank
<1>4. ModeRank("Delegated") = 4
  BY DEF ModeRank
<1>11. m = "Direct" \/ m = "Inherited" \/ m = "Direct role" \/ m = "Role-derived" \/ m = "Delegated"
  BY DEF Modes
<1>7. 2 \in Int /\ 3 \in Int
  OBVIOUS
<1>12. CASE m = "Direct"
  BY <1>12, <1>2
<1>13. CASE m = "Inherited"
  BY <1>13, <1>2
<1>14. CASE m = "Direct role"
  BY <1>14, <1>7, <1>3
<1>15. CASE m = "Role-derived"
  BY <1>15, <1>7, <1>3
<1>16. CASE m = "Delegated"
  BY <1>16, <1>4
<1>. QED
  BY <1>11, <1>12, <1>13, <1>14, <1>15, <1>16

\* The risk of a path is a number.
LEMMA ScoreIsNumber ==
    ASSUME NEW G, WellFormed(G), NEW p \in Ids(G), NEW r \in Ids(G), NEW permissions, NEW via, NEW g
    PROVE  Score(G, p, r, permissions, via, g) \in Int
<1>1. G.entities[p].label \in Nat /\ G.entities[r].label \in Nat
  <2>1. \A e \in Ids(G) : G.entities[e].label \in Label
    BY DEF WellFormed
  <2>. QED
    BY <2>1, PathAssumption
<1>2. G.entities[r].label \div 2 \in Int /\ G.entities[p].label \div 4 \in Int
  BY <1>1
<1> DEFINE a == IF permissions \cap Privileged # {} THEN 18 ELSE 0
           b == IF AccessMode(via, g) = "Delegated" THEN 12 ELSE 0
           c == IF g.temporary THEN 6 ELSE 0
           x == G.entities[r].label \div 2
           y == G.entities[p].label \div 4
           s == 18 + x + y + a + b + c
<1>3. a \in Int /\ b \in Int /\ c \in Int /\ x \in Int /\ y \in Int
  BY <1>2
<1>4. Score(G, p, r, permissions, via, g) = IF s > 99 THEN 99 ELSE s
  BY DEF Score
<1> HIDE DEF a, b, c, x, y
<1>. QED
  BY <1>3, <1>4

\* A path whose mode and risk are such has a key to be ranked by.
LEMMA RankOf ==
    ASSUME NEW G, IsFiniteSet(G.relationships), NEW E, NEW path, path.edges \in Seq(E),
           path.mode \in Modes, path.risk \in Int
    PROVE  RankKey(G, path) \in RankKeys
<1>2. path.edges \in Seq(E)
  OBVIOUS
<1>5. path.risk \in Int /\ ModeRank(path.mode) \in Int
  BY RankOfMode
<1> DEFINE edges == path.edges
<1>6. Len(edges) \in Int
  BY <1>2
<1> HIDE DEF edges
<1>7. \A kinds : OfKinds(edges, kinds) \in Int
  <2> SUFFICES ASSUME NEW kinds PROVE OfKinds(edges, kinds) \in Int
    OBVIOUS
  <2> DEFINE T == {n \in DOMAIN edges : edges[n].kind \in kinds}
  <2>1. T \in SUBSET (DOMAIN edges)
    OBVIOUS
  <2> HIDE DEF T
  <2>2. Cardinality(T) \in Nat
    BY <1>2, <2>1, StepsCount DEF edges
  <2>. QED
    BY <2>2 DEF OfKinds, T
<1>8. Inheriting(edges) \in Int
  <2> DEFINE T == {n \in DOMAIN edges : edges[n].inherits}
  <2>1. T \in SUBSET (DOMAIN edges)
    OBVIOUS
  <2> HIDE DEF T
  <2>2. Cardinality(T) \in Nat
    BY <1>2, <2>1, StepsCount DEF edges
  <2>. QED
    BY <2>2 DEF Inheriting, T
<1>9. Fanout(G, edges) \in Int
  <2> DEFINE D == (DOMAIN edges) \X G.relationships
             T == UNION {{n} \X Leaving(G, {}, edges[n].source) :
                           n \in {m \in DOMAIN edges : edges[m].kind \in TRAVERSABLE}}
  <2>1. DOMAIN edges = 1 .. Len(edges) /\ Len(edges) \in Nat
    BY <1>2 DEF edges
  <2>2. IsFiniteSet(DOMAIN edges)
    BY <2>1, FS_Interval
  <2>3. IsFiniteSet(D)
    BY <2>2, FS_Product
  <2>4. T \in SUBSET D
    <3> SUFFICES ASSUME NEW z \in T PROVE z \in D
      OBVIOUS
    <3>1. PICK n \in {m \in DOMAIN edges : edges[m].kind \in TRAVERSABLE} :
                 z \in {n} \X Leaving(G, {}, edges[n].source)
      OBVIOUS
    <3>2. Leaving(G, {}, edges[n].source) \subseteq G.relationships
      BY DEF Leaving
    <3>. QED
      BY <3>1, <3>2
  <2> HIDE DEF D
  <2>5. Fanout(G, edges) = Cardinality(T)
    BY DEF Fanout, D
  <2> HIDE DEF T
  <2>6. Cardinality(T) \in Nat
    BY <2>3, <2>4, FS_Subset, FS_CardinalityType
  <2>. QED
    BY <2>5, <2>6
<1> DEFINE k1 == ModeRank(path.mode)
           k2 == Len(edges)
           k3 == OfKinds(edges, {"delegated_access"})
           k4 == OfKinds(edges, GROUP_KINDS)
           k5 == OfKinds(edges, {"assigned_role", "role_grant"})
           k6 == Inheriting(edges)
           k7 == Fanout(G, edges)
           k8 == - path.risk
<1>10. k1 \in Int /\ k2 \in Int /\ k3 \in Int /\ k4 \in Int /\ k5 \in Int /\ k6 \in Int /\ k7 \in Int /\ k8 \in Int
  BY <1>5, <1>6, <1>7, <1>8, <1>9
<1>11. RankKey(G, path) = <<k1, k2, k3, k4, k5, k6, k7, k8>>
  BY DEF RankKey, edges
<1> HIDE DEF k1, k2, k3, k4, k5, k6, k7, k8
<1>12. <<k1, k2, k3, k4, k5, k6, k7, k8>> \in RankKeys
  BY <1>10 DEF RankKeys
<1>. QED
  BY <1>11, <1>12


\* The key by which a path is ranked.
LEMMA KeyOfPath ==
    ASSUME NEW G, Graph(G), NEW p \in Ids(G), NEW r, NEW path \in PairPaths(G, {}, p, r)
    PROVE  RankKey(G, path) \in RankKeys /\ path.risk \in Int /\ path.mode \in Modes
<1>1. PICK g, via : MadeOf(G, p, r, path, via, g)
  BY PathsMade
<1>2. /\ path.edges \in Seq(G.relationships) /\ g \in Grants(G) /\ r \in GrantTargets(G, g)
  BY <1>1, EdgesOfPath DEF Graph
<1>3. r \in Ids(G)
  BY <1>2, GivenBelow DEF Graph, ResourceIds
<1>4. /\ path.mode = AccessMode(via, g)
      /\ path.risk = Score(G, p, r, path.permissions, via, g)
  BY <1>1 DEF MadeOf, PathBy
<1>5. path.risk \in Int /\ path.mode \in Modes
  BY <1>3, <1>4, ScoreIsNumber, ModeOfPath DEF Graph
<1>6. RankKey(G, path) \in RankKeys
  BY <1>2, <1>5, RankOf DEF Graph
<1>. QED
  BY <1>5, <1>6

\* The permissions a pair has, by the definition of access.
Held(G, p, r) ==
    (UNION {g.permissions : g \in EffectiveGrants(G, Reach(G, p), r)}) \ DeniedPermissions(G, Reach(G, p), r)

\* The paths of a pair give what its grants give.
LEMMA PathsGive ==
    ASSUME NEW G, NEW p, NEW r
    PROVE  /\ PairPaths(G, {}, p, r) # {} <=> EffectiveGrants(G, Reach(G, p), r) # {}
           /\ (UNION {path.permissions : path \in PairPaths(G, {}, p, r)}) = Held(G, p, r)
<1> DEFINE acts == Reach(G, p)
           denied == DeniedPermissions(G, acts, r)
           gs == EffectiveGrants(G, acts, r)
           paths == PairPaths(G, {}, p, r)
<1>1. ASSUME NEW g \in gs PROVE \E path \in paths : path.permissions = g.permissions \ denied
  <2>1. g.source \in acts
    BY DEF EffectiveGrants
  <2>2. PICK via \in ActorPaths(G, {}, p) : End(p, via) = g.source
    BY <2>1, ReachOfPaths
  <2>3. MadeOf(G, p, r, PathBy(G, p, r, denied, via, g), via, g)
    BY <2>2 DEF MadeOf
  <2>4. PathBy(G, p, r, denied, via, g) \in paths
    BY <2>3, PathsMade
  <2>. QED
    BY <2>4 DEF PathBy
<1>2. ASSUME NEW path \in paths PROVE \E g \in gs : path.permissions = g.permissions \ denied
  <2>1. PICK g, via : MadeOf(G, p, r, path, via, g)
    BY PathsMade
  <2>. QED
    BY <2>1 DEF MadeOf, PathBy
<1>3. Held(G, p, r) = (UNION {g.permissions : g \in gs}) \ denied
  BY DEF Held
<1> HIDE DEF gs, paths, denied, acts
<1>4. paths # {} <=> gs # {}
  BY <1>1, <1>2
<1>5. (UNION {path.permissions : path \in paths}) = (UNION {g.permissions : g \in gs}) \ denied
  <2> SUFFICES ASSUME NEW x
               PROVE  (\E path \in paths : x \in path.permissions) <=> (\E g \in gs : x \in g.permissions) /\ x \notin denied
    OBVIOUS
  <2>. QED
    BY <1>1, <1>2
<1>. QED
  BY <1>3, <1>4, <1>5 DEF gs, paths, acts

------------------------------------------------------------------------------
(* What is told of a pair.                                                 *)

\* The entry of a pair in the map.
EntryOf(G, p, r) == Entry(G, p, r, PairPaths(G, {}, p, r))

\* Of the paths of a pair some are kept, and all of them if they are few.
LEMMA KeptPaths ==
    ASSUME NEW G, Graph(G), NEW p \in Ids(G), NEW r
    PROVE  LET paths == PairPaths(G, {}, p, r)
               kept == Trimmed(G, paths)
           IN  /\ kept \in Seq(paths) /\ Len(kept) <= Kept /\ Steps(kept) \subseteq paths
               /\ paths # {} => Len(kept) > 0 /\ Steps(kept) # {}
               /\ Cardinality(paths) <= Kept => Steps(kept) = paths
<1> DEFINE paths == PairPaths(G, {}, p, r)
<1>1. IsFiniteSet(paths)
  BY PathsFinite
<1>2. \A path \in paths : RankKey(G, path) \in RankKeys
  BY KeyOfPath
<1> HIDE DEF paths
<1>3. LET kept == Trimmed(G, paths)
      IN  /\ kept \in Seq(paths) /\ Len(kept) <= Kept /\ Steps(kept) \subseteq paths
          /\ paths # {} => Len(kept) > 0 /\ Steps(kept) # {}
          /\ Cardinality(paths) <= Kept => Steps(kept) = paths
  BY <1>1, <1>2, TrimmedKeeps
<1>. QED
  BY <1>3 DEF paths

\* An entry tells permissions the pair has, and all of them if all paths are kept.
LEMMA EntryTells ==
    ASSUME NEW G, Graph(G), NEW p \in Ids(G), NEW r
    PROVE  /\ EntryOf(G, p, r).permissions \subseteq Held(G, p, r)
           /\ EntryOf(G, p, r).count = Cardinality(PairPaths(G, {}, p, r))
           /\ EntryOf(G, p, r).paths = Trimmed(G, PairPaths(G, {}, p, r))
           /\ EntryOf(G, p, r).principal = p /\ EntryOf(G, p, r).resource = r
           /\ EntryOf(G, p, r).count <= Kept => EntryOf(G, p, r).permissions = Held(G, p, r)
<1> DEFINE paths == PairPaths(G, {}, p, r)
           kept == Steps(Trimmed(G, paths))
           entry == EntryOf(G, p, r)
<1>1. /\ entry.permissions = UNION {x.permissions : x \in kept} /\ entry.count = Cardinality(paths)
      /\ entry.paths = Trimmed(G, paths) /\ entry.principal = p /\ entry.resource = r
  BY DEF EntryOf, Entry
<1>2. kept \subseteq paths /\ (Cardinality(paths) <= Kept => kept = paths)
  BY KeptPaths
<1>3. (UNION {x.permissions : x \in paths}) = Held(G, p, r)
  BY PathsGive
<1> HIDE DEF paths, kept, entry
<1>4. entry.permissions \subseteq Held(G, p, r)
  BY <1>1, <1>2, <1>3
<1>5. entry.count <= Kept => entry.permissions = Held(G, p, r)
  BY <1>1, <1>2, <1>3
<1>. QED
  BY <1>1, <1>4, <1>5 DEF entry, paths

\* The entries of a map are those of its pairs.
LEMMA InAccessMap ==
    ASSUME NEW G, NEW ignored, NEW ps, NEW rs, NEW z
    PROVE  z \in AccessMap(G, ignored, ps, rs) <=>
             \E p \in ps : \E r \in rs : /\ PairPaths(G, ignored, p, r) # {}
                                         /\ z = Entry(G, p, r, PairPaths(G, ignored, p, r))
<1> DEFINE Of(pair) == LET paths == PairPaths(G, ignored, pair[1], pair[2])
                       IN  IF paths = {} THEN {} ELSE {Entry(G, pair[1], pair[2], paths)}
<1>1. ASSUME NEW p, NEW r
      PROVE  z \in Of(<<p, r>>) <=> /\ PairPaths(G, ignored, p, r) # {}
                                    /\ z = Entry(G, p, r, PairPaths(G, ignored, p, r))
  OBVIOUS
<1>2. AccessMap(G, ignored, ps, rs) = UNION {Of(pair) : pair \in ps \X rs}
  BY DEF AccessMap
<1> HIDE DEF Of
<1>3. ASSUME NEW p \in ps, NEW r \in rs, z \in Of(<<p, r>>) PROVE z \in AccessMap(G, ignored, ps, rs)
  <2>1. <<p, r>> \in ps \X rs
    OBVIOUS
  <2>. QED
    BY <1>2, <1>3, <2>1
<1>4. ASSUME z \in AccessMap(G, ignored, ps, rs) PROVE \E p \in ps : \E r \in rs : z \in Of(<<p, r>>)
  <2>1. PICK pair \in ps \X rs : z \in Of(pair)
    BY <1>2, <1>4
  <2>2. pair = <<pair[1], pair[2]>> /\ pair[1] \in ps /\ pair[2] \in rs
    OBVIOUS
  <2>. QED
    BY <2>1, <2>2
<1>5. z \in AccessMap(G, ignored, ps, rs) <=> \E p \in ps : \E r \in rs : z \in Of(<<p, r>>)
  BY <1>3, <1>4
<1>. QED
  BY <1>1, <1>5

\* The rows of the access index are those of its pairs, with what they hold.
LEMMA InAccessScope ==
    ASSUME NEW G, NEW ps, NEW rs, NEW z
    PROVE  z \in AccessIndexForScope(G, ps, rs) <=>
             \E p \in ps : \E r \in rs : /\ EffectiveGrants(G, Reach(G, p), r) # {}
                                         /\ z = AccessRow(G, p, Reach(G, p), r)
  BY DEF AccessIndexForScope, RowsOfPrincipal

\* The permissions of a row.
LEMMA RowHolds ==
    ASSUME NEW G, NEW p, NEW r
    PROVE  /\ AccessRow(G, p, Reach(G, p), r).permissions = Held(G, p, r)
           /\ AccessRow(G, p, Reach(G, p), r).principal = p
           /\ AccessRow(G, p, Reach(G, p), r).resource = r
  BY DEF AccessRow, Held

\* An entry of a map of the graph has paths, and its pair access.
LEMMA EntryHasRow ==
    ASSUME NEW G, Graph(G), NEW p \in PrincipalIds(G), NEW r, PairPaths(G, {}, p, r) # {}
    PROVE  /\ AccessRow(G, p, Reach(G, p), r) \in AccessIndexForScope(G, {p}, {r})
           /\ EntryOf(G, p, r).permissions \subseteq AccessRow(G, p, Reach(G, p), r).permissions
<1>1. p \in Ids(G)
  BY DEF PrincipalIds
<1>2. EffectiveGrants(G, Reach(G, p), r) # {}
  BY PathsGive
<1>3. AccessRow(G, p, Reach(G, p), r) \in AccessIndexForScope(G, {p}, {r})
  BY <1>2, InAccessScope
<1>. QED
  BY <1>1, <1>3, RowHolds, EntryTells

\* An edge is on a path that is told of a pair, and can be removed.
OnToldPath(G, e, p, r) ==
    /\ e \in G.relationships /\ e.removable
    /\ \E path \in PairPaths(G, {}, p, r) : e \in Steps(path.edges)
    /\ \E entry \in Explain(G, p, r) : e \in ExplainedEdges(entry)

\* A suggestion is such an edge.
LEMMA SuggestedEdge ==
    ASSUME NEW G, Graph(G), NEW p, NEW r, NEW id \in Suggestions(G, p, r)
    PROVE  \E e \in EdgesById(G, id) : OnToldPath(G, e, p, r)
<1> DEFINE First(path) ==
             {path.edges[n].id : n \in {m \in DOMAIN path.edges :
                 path.edges[m].removable /\ \A l \in 1 .. m - 1 : ~ path.edges[l].removable}}
<1>1. PICK entry \in Explain(G, p, r) : \E n \in DOMAIN entry.paths : id \in First(entry.paths[n])
  BY DEF Suggestions
<1>2. PICK n \in DOMAIN entry.paths : id \in First(entry.paths[n])
  BY <1>1
<1>3. PICK path : path = entry.paths[n]
  OBVIOUS
<1>4. PICK m \in DOMAIN path.edges : path.edges[m].removable /\ path.edges[m].id = id
  BY <1>2, <1>3
<1>5. PICK e : e = path.edges[m]
  OBVIOUS
<1> HIDE DEF First
<1>6. /\ p \in PrincipalIds(G) /\ PairPaths(G, {}, p, r) # {} /\ entry = EntryOf(G, p, r)
  <2>1. PICK q \in {p} \cap PrincipalIds(G), s \in {r} \cap ResourceIds(G) :
           PairPaths(G, {}, q, s) # {} /\ entry = Entry(G, q, s, PairPaths(G, {}, q, s))
    BY <1>1, InAccessMap DEF Explain
  <2>. QED
    BY <2>1 DEF EntryOf
<1>7. p \in Ids(G)
  BY <1>6 DEF PrincipalIds
<1>8. entry.paths = Trimmed(G, PairPaths(G, {}, p, r))
  BY <1>6, <1>7, EntryTells
<1>9. path \in Steps(entry.paths) /\ e \in Steps(path.edges)
  BY <1>2, <1>3, <1>4, <1>5 DEF Steps
<1>10. path \in PairPaths(G, {}, p, r)
  BY <1>7, <1>8, <1>9, KeptPaths
<1>11. e \in G.relationships
  <2>1. PICK g, via : MadeOf(G, p, r, path, via, g)
    BY <1>10, PathsMade
  <2>2. path.edges \in Seq(G.relationships)
    BY <2>1, EdgesOfPath DEF Graph
  <2>. QED
    BY <2>2, <1>4, <1>5
<1>12. e \in ExplainedEdges(entry)
  BY <1>9 DEF ExplainedEdges
<1>13. e \in EdgesById(G, id) /\ e.removable
  BY <1>4, <1>5, <1>11 DEF EdgesById
<1>. QED
  BY <1>1, <1>9, <1>10, <1>11, <1>12, <1>13 DEF OnToldPath

\* Whoever has a path over an edge that is not one of containment is among the
\* principals and the resources that the edge can touch.
LEMMA PathTouched ==
    ASSUME NEW G, Graph(G), NEW p \in PrincipalIds(G), NEW r, NEW path \in PairPaths(G, {}, p, r),
           NEW e \in Steps(path.edges), e.kind # "contains"
    PROVE  p \in ImpactedPrincipals(G, e) /\ r \in ImpactedResources(G, e)
<1>1. PICK g, via : MadeOf(G, p, r, path, via, g)
  BY PathsMade
<1>2. /\ Steps(path.edges) = Steps(via) \cup {g} \cup Steps(Chain(G, g.target, r))
      /\ Steps(Chain(G, g.target, r)) \subseteq Contains(G)
      /\ g \in Grants(G) /\ g.source \in Reach(G, p) /\ r \in GrantTargets(G, g)
  BY <1>1, EdgesOfPath DEF Graph
<1>3. CASE e = g
  BY <1>2, <1>3 DEF ImpactedPrincipals, PrincipalsActingAs, ImpactedResources, Grants
<1>4. CASE e \in Steps(via)
  <2>1. via \in ActorPaths(G, {}, p) /\ End(p, via) = g.source
    BY <1>1 DEF MadeOf
  <2>2. e.kind \in TRAVERSABLE /\ e.source \in Reach(G, p) /\ g.source \in ActorClosure(G, e.target)
    BY <1>4, <2>1, ActorPathsGo
  <2>3. e.kind \notin GRANT_KINDS
    BY <2>2 DEF TRAVERSABLE, GROUP_KINDS, GRANT_KINDS
  <2>4. r \in ImpactSurface(G, e.target)
    BY <1>2, <2>2 DEF ImpactSurface
  <2>. QED
    BY <2>2, <2>3, <2>4 DEF ImpactedPrincipals, PrincipalsActingAs, ImpactedResources
<1>5. e \notin Contains(G)
  BY DEF Contains
<1>. QED
  BY <1>2, <1>3, <1>4, <1>5

------------------------------------------------------------------------------
(* The paths without an edge.                                              *)

\* Actors have the same paths where the same edges leave them.
LEMMA SameActorPaths ==
    ASSUME NEW G, NEW I, NEW H, NEW J, NEW p, \A a : Leaving(G, I, a) = Leaving(H, J, a)
    PROVE  ActorPaths(G, I, p) = ActorPaths(H, J, p)
<1>1. \A paths : Longer(G, I, p, paths) = Longer(H, J, p, paths)
  BY SameLonger
<1>2. Levels(G, I, p) = Levels(H, J, p)
  BY <1>1, SameLevels
<1>. QED
  BY <1>2 DEF ActorPaths

\* The hierarchy is that of all edges: no containment is undone.
LEMMA ContainsIgnored ==
    ASSUME NEW G, NEW e, e.kind = "contains", NEW p, NEW r
    PROVE  PairPaths(G, {e}, p, r) = PairPaths(G, {}, p, r)
<1>1. \A a : Leaving(G, {e}, a) = Leaving(G, {}, a)
  BY DEF Leaving, TRAVERSABLE, GROUP_KINDS
<1>2. ActorPaths(G, {e}, p) = ActorPaths(G, {}, p)
  BY <1>1, SameActorPaths
<1>3. Grants(G) \ {e} = Grants(G) \ {} /\ Denies(G) \ {e} = Denies(G) \ {}
  BY DEF Grants, Denies, GRANT_KINDS
<1>4. Denied(G, {e}, p, r) = Denied(G, {}, p, r)
  BY <1>2, <1>3 DEF Denied
<1>. QED
  BY <1>2, <1>3, <1>4 DEF PairPaths

\* A graph without an edge is a graph.
LEMMA GraphWithout ==
    ASSUME NEW G, Graph(G), NEW e
    PROVE  /\ Graph(Without(G, e)) /\ Without(G, e).entities = G.entities
           /\ Without(G, e).relationships = G.relationships \ {e}
<1>1. PICK H : H = Without(G, e)
  OBVIOUS
<1>2. H.entities = G.entities /\ H.relationships = G.relationships \ {e}
  BY <1>1 DEF Without
<1>3. IsFiniteSet(H.relationships)
  BY <1>2, FS_Subset DEF Graph
<1>4. Ids(H) = Ids(G) /\ ResourceIds(H) = ResourceIds(G)
  BY <1>2 DEF Ids, ResourceIds, KindOf
<1>5. Contains(H) \subseteq Contains(G)
  BY <1>2 DEF Contains
<1>6. WellFormed(G)
  BY DEF Graph
<1>7. ~ \E T \in SUBSET {c.target : c \in Contains(H)} :
           T # {} /\ \A r \in T : \E c \in Contains(H) : c.target = r /\ c.source \in T
  <2> SUFFICES ASSUME NEW T \in SUBSET {c.target : c \in Contains(H)}, T # {},
                      \A r \in T : \E c \in Contains(H) : c.target = r /\ c.source \in T
               PROVE  FALSE
    OBVIOUS
  <2>1. T \in SUBSET {c.target : c \in Contains(G)}
    BY <1>5
  <2>2. \A r \in T : \E c \in Contains(G) : c.target = r /\ c.source \in T
    BY <1>5
  <2>. QED
    BY <1>6, <2>1, <2>2 DEF WellFormed
<1>8. WellFormed(H)
  <2>1. /\ Ids(H) \subseteq Entity
        /\ \A x \in Ids(H) : H.entities[x] \in [kind : EntityKinds, label : Label]
        /\ H.relationships \subseteq Relationship
        /\ \A r1, r2 \in H.relationships : r1.id = r2.id => r1 = r2
    BY <1>2, <1>4, <1>6 DEF WellFormed
  <2>2. \A rel \in H.relationships :
          /\ rel.source \in Ids(H) /\ rel.target \in Ids(H)
          /\ rel.kind \in GRANT_KINDS \cup {"contains", "deny_acl"}
                => rel.target \in ResourceIds(H)
          /\ rel.kind \in GRANT_KINDS => rel.source \notin ResourceIds(H)
          /\ rel.kind = "contains" => rel.source \in ResourceIds(H)
    BY <1>2, <1>4, <1>6 DEF WellFormed
  <2>3. \A c1, c2 \in Contains(H) : c1.target = c2.target => c1 = c2
    BY <1>5, <1>6 DEF WellFormed
  <2>. QED
    BY <1>7, <2>1, <2>2, <2>3 DEF WellFormed
<1>. QED
  BY <1>1, <1>2, <1>3, <1>8 DEF Graph

\* It has the same hierarchy, unless the edge is of the hierarchy.
LEMMA SameHierarchy ==
    ASSUME NEW G, NEW e, e.kind # "contains"
    PROVE  LET H == Without(G, e)
           IN  /\ Ids(H) = Ids(G) /\ ResourceIds(H) = ResourceIds(G) /\ PrincipalIds(H) = PrincipalIds(G)
               /\ \A r : Ancestors(H, r) = Ancestors(G, r)
               /\ \A g : GrantTargets(H, g) = GrantTargets(G, g)
               /\ \A a, r : Chain(H, a, r) = Chain(G, a, r)
<1>1. PICK H : H = Without(G, e)
  OBVIOUS
<1>2. H.entities = G.entities /\ H.relationships = G.relationships \ {e}
  BY <1>1 DEF Without
<1>3. Ids(H) = Ids(G) /\ ResourceIds(H) = ResourceIds(G) /\ PrincipalIds(H) = PrincipalIds(G)
  BY <1>2 DEF Ids, ResourceIds, PrincipalIds, KindOf
<1>4. Contains(H) = Contains(G)
  BY <1>2 DEF Contains
<1>5. \A r : Ancestors(H, r) = Ancestors(G, r)
  BY <1>3, <1>4 DEF Ancestors
<1>6. \A r : Descendants(H, r) = Descendants(G, r)
  BY <1>3, <1>5 DEF Descendants
<1>7. \A g : GrantTargets(H, g) = GrantTargets(G, g)
  BY <1>6 DEF GrantTargets
<1>8. \A a, r : Chain(H, a, r) = Chain(G, a, r)
  BY <1>4, <1>5 DEF Chain
<1>. QED
  BY <1>1, <1>3, <1>5, <1>7, <1>8

\* What a simulation works with are the paths of the graph without the edge.
LEMMA WithoutPaths ==
    ASSUME NEW G, NEW e, e.kind # "contains", NEW p, NEW r
    PROVE  PairPaths(G, {e}, p, r) = PairPaths(Without(G, e), {}, p, r)
<1>1. PICK H : H = Without(G, e)
  OBVIOUS
<1>2. H.entities = G.entities /\ H.relationships = G.relationships \ {e}
  BY <1>1 DEF Without
<1>3. ActorPaths(G, {e}, p) = ActorPaths(H, {}, p)
  BY <1>1, PathsWithout
<1>4. Grants(G) \ {e} = Grants(H) \ {} /\ Denies(G) \ {e} = Denies(H) \ {}
  BY <1>2 DEF Grants, Denies
<1>5. Denied(G, {e}, p, r) = Denied(H, {}, p, r)
  BY <1>3, <1>4 DEF Denied
<1>6. /\ \A g : GrantTargets(H, g) = GrantTargets(G, g)
      /\ \A a : Chain(H, a, r) = Chain(G, a, r)
  BY <1>1, SameHierarchy
<1>7. ASSUME NEW denied, NEW via, NEW g
      PROVE  PathBy(H, p, r, denied, via, g) = PathBy(G, p, r, denied, via, g)
  <2>1. \A permissions : Score(H, p, r, permissions, via, g) = Score(G, p, r, permissions, via, g)
    BY <1>2 DEF Score
  <2>2. Chain(H, g.target, r) = Chain(G, g.target, r)
    BY <1>6
  <2>. QED
    BY <2>1, <2>2 DEF PathBy
<1>8. ASSUME NEW x PROVE x \in PairPaths(G, {e}, p, r) <=> x \in PairPaths(H, {}, p, r)
  BY <1>3, <1>4, <1>5, <1>6, <1>7, InPairPaths
<1>. QED
  BY <1>1, <1>8

\* Of what is left of a pair without an edge, paths are kept in the same way.
LEMMA KeptWithout ==
    ASSUME NEW G, Graph(G), NEW e, NEW p \in Ids(G), NEW r
    PROVE  LET paths == PairPaths(G, {e}, p, r)
               kept == Trimmed(G, paths)
           IN  /\ IsFiniteSet(paths)
               /\ Steps(kept) \subseteq paths
               /\ Cardinality(paths) <= Kept => Steps(kept) = paths
<1>1. CASE e.kind = "contains"
  BY <1>1, ContainsIgnored, PathsFinite, KeptPaths
<1>2. CASE e.kind # "contains"
  <2>1. PICK H : H = Without(G, e)
    OBVIOUS
  <2>2. Graph(H) /\ p \in Ids(H)
    BY <2>1, GraphWithout DEF Ids
  <2>3. PICK paths : paths = PairPaths(H, {}, p, r)
    OBVIOUS
  <2>4. paths = PairPaths(G, {e}, p, r)
    BY <1>2, <2>1, <2>3, WithoutPaths
  <2>5. IsFiniteSet(paths)
    BY <2>2, <2>3, PathsFinite
  <2>6. ASSUME NEW path \in paths PROVE RankKey(G, path) \in RankKeys
    <3>1. path.risk \in Int /\ path.mode \in Modes
      BY <2>2, <2>3, KeyOfPath
    <3>2. PICK g, via : MadeOf(H, p, r, path, via, g)
      BY <2>3, PathsMade
    <3>3. path.edges \in Seq(H.relationships)
      BY <2>2, <3>2, EdgesOfPath DEF Graph
    <3>. QED
      BY <3>1, <3>3, RankOf DEF Graph
  <2>. QED
    BY <2>4, <2>5, <2>6, TrimmedKeeps
<1>. QED
  BY <1>1, <1>2

\* Appending adds one step.
LEMMA StepsOfAppend ==
    ASSUME NEW S, NEW path \in Seq(S), NEW x
    PROVE  Steps(Append(path, x)) = Steps(path) \cup {x}
<1>1. path \in Seq(S \cup {x}) /\ Len(path) \in Nat /\ DOMAIN path = 1 .. Len(path)
  OBVIOUS
<1>2. DOMAIN Append(path, x) = 1 .. Len(path) + 1 /\ Append(path, x)[Len(path) + 1] = x
      /\ \A n \in 1 .. Len(path) : Append(path, x)[n] = path[n]
  BY <1>1
<1>3. 1 .. Len(path) + 1 = (1 .. Len(path)) \cup {Len(path) + 1}
  BY <1>1
<1>. QED
  BY <1>1, <1>2, <1>3 DEF Steps

\* Leaving an edge out leaves out the paths over it and no others.
LEMMA PathsAvoid ==
    ASSUME NEW G, NEW e, NEW p
    PROVE  ActorPaths(G, {e}, p) = {via \in ActorPaths(G, {}, p) : e \notin Steps(via)}
<1> DEFINE L == Levels(G, {}, p)
           M == Levels(G, {e}, p)
           Good(k) == M[k + 1] = {via \in L[k + 1] : e \notin Steps(via)}
           S == {k \in 0 .. 8 : Good(k)}
<1>1. 0 \in S
  <2>1. L[1] = {<<>>} /\ M[1] = {<<>>}
    BY LevelStep, 1 \in 1..8
  <2>2. Steps(<<>>) = {}
    BY DEF Steps
  <2>3. {via \in {<<>>} : e \notin Steps(via)} = {<<>>}
    BY <2>2
  <2>4. 0 + 1 = 1
    OBVIOUS
  <2>5. Good(0)
    BY <2>1, <2>3, <2>4
  <2> HIDE DEF Good
  <2>. QED
    BY <2>5
<1>2. ASSUME NEW k \in 0 .. 8, k < 8, k \in S PROVE k + 1 \in S
  <2>1. PICK j \in 1 .. 8 : j = k + 1
    BY <1>2
  <2>2. L[j + 1] = Longer(G, {}, p, L[j]) /\ M[j + 1] = Longer(G, {e}, p, M[j]) /\ j + 1 \in 1..9
    BY LevelStep
  <2>3. M[j] = {via \in L[j] : e \notin Steps(via)}
    BY <1>2, <2>1
  <2>4. \A path \in L[j] : path \in Seq(G.relationships)
    BY LevelsOfPaths, j \in 1..9 DEF Path
  <2>5. \A a, rel : rel \in Leaving(G, {e}, a) <=> rel \in Leaving(G, {}, a) /\ rel # e
    BY DEF Leaving
  <2> HIDE DEF L, M
  <2>6. ASSUME NEW z PROVE z \in M[j + 1] <=> z \in L[j + 1] /\ e \notin Steps(z)
    <3>1. ASSUME z \in M[j + 1] PROVE z \in L[j + 1] /\ e \notin Steps(z)
      <4>0. PICK path \in M[j] : \E rel \in Leaving(G, {e}, End(p, path)) :
               rel.target \notin {p} \cup {y.target : y \in Steps(path)} /\ z = Append(path, rel)
        BY <2>2, <3>1, InLonger
      <4>1. PICK rel \in Leaving(G, {e}, End(p, path)) :
               rel.target \notin {p} \cup {y.target : y \in Steps(path)} /\ z = Append(path, rel)
        BY <4>0
      <4>2. path \in L[j] /\ e \notin Steps(path) /\ rel \in Leaving(G, {}, End(p, path)) /\ rel # e
        BY <2>3, <2>5, <4>1
      <4>3. z \in Longer(G, {}, p, L[j])
        BY <4>1, <4>2, InLonger
      <4>4. z \in L[j + 1]
        BY <2>2, <4>3
      <4>. QED
        BY <2>4, <4>1, <4>2, <4>4, StepsOfAppend
    <3>2. ASSUME z \in L[j + 1], e \notin Steps(z) PROVE z \in M[j + 1]
      <4>0. PICK path \in L[j] : \E rel \in Leaving(G, {}, End(p, path)) :
               rel.target \notin {p} \cup {y.target : y \in Steps(path)} /\ z = Append(path, rel)
        BY <2>2, <3>2, InLonger
      <4>1. PICK rel \in Leaving(G, {}, End(p, path)) :
               rel.target \notin {p} \cup {y.target : y \in Steps(path)} /\ z = Append(path, rel)
        BY <4>0
      <4>2. Steps(z) = Steps(path) \cup {rel}
        BY <2>4, <4>1, StepsOfAppend
      <4>3. path \in M[j] /\ rel \in Leaving(G, {e}, End(p, path))
        BY <2>3, <2>5, <3>2, <4>1, <4>2
      <4>4. z \in Longer(G, {e}, p, M[j])
        BY <4>1, <4>3, InLonger
      <4>. QED
        BY <2>2, <4>4
    <3>. QED
      BY <3>1, <3>2
  <2>7. Good(j)
    BY <2>6
  <2>. QED
    BY <2>1, <2>7
<1> HIDE DEF Good
<1>3. \A k \in 0 .. 8 : k \in S
  BY <1>1, <1>2, Counting, 8 \in Nat
<1>4. \A n \in 1 .. ReachDepth + 1 : M[n] = {via \in L[n] : e \notin Steps(via)}
  <2> SUFFICES ASSUME NEW n \in 1 .. ReachDepth + 1 PROVE M[n] = {via \in L[n] : e \notin Steps(via)}
    OBVIOUS
  <2>1. PICK k \in 0 .. 8 : n = k + 1
    BY DepthAssumption
  <2>. QED
    BY <1>3, <2>1 DEF Good
<1>5. /\ ActorPaths(G, {}, p) = UNION {L[n] : n \in 1 .. ReachDepth + 1}
      /\ ActorPaths(G, {e}, p) = UNION {M[n] : n \in 1 .. ReachDepth + 1}
  BY DEF ActorPaths
<1> HIDE DEF L, M
<1>6. ASSUME NEW via PROVE via \in ActorPaths(G, {e}, p) <=> via \in ActorPaths(G, {}, p) /\ e \notin Steps(via)
  <2>1. \A n \in 1 .. ReachDepth + 1 : via \in M[n] <=> via \in L[n] /\ e \notin Steps(via)
    BY <1>4
  <2>2. via \in ActorPaths(G, {}, p) <=> \E n \in 1 .. ReachDepth + 1 : via \in L[n]
    BY <1>5
  <2>3. via \in ActorPaths(G, {e}, p) <=> \E n \in 1 .. ReachDepth + 1 : via \in M[n]
    BY <1>5
  <2>. QED
    BY <2>1, <2>2, <2>3
<1>. QED
  BY <1>6

\* What can be matched with different members of a set is no more than it.
LEMMA Matched ==
    ASSUME NEW S, NEW T, IsFiniteSet(T), NEW f, DOMAIN f = S, f = [x \in S |-> f[x]], \A x \in S : f[x] \in T,
           \A x, y \in S : f[x] = f[y] => x = y
    PROVE  IsFiniteSet(S) /\ Cardinality(S) <= Cardinality(T)
<1>1. f \in [S -> T]
  OBVIOUS
<1>2. f \in Injection(S, T)
  BY <1>1 DEF Injection, IsInjective
<1>. QED
  BY <1>2, FS_Injection

\* In a sequence of three parts each member is that of its part.
LEMMA Positions ==
    ASSUME NEW S, NEW via \in Seq(S), NEW g \in S, NEW chain \in Seq(S)
    PROVE  LET edges == via \o <<g>> \o chain
           IN  /\ edges[Len(via) + 1] = g /\ Len(via) \in Nat
               /\ \A n \in 1 .. Len(via) : edges[n] = via[n]
<1>1. Len(<<g>>) = 1 /\ <<g>>[1] = g /\ <<g>> \in Seq(S)
  OBVIOUS
<1> DEFINE one == <<g>>
<1> HIDE DEF one
<1>2. one \in Seq(S) /\ Len(one) = 1 /\ one[1] = g
  BY <1>1 DEF one
<1> DEFINE head == via \o one
<1>3. /\ head \in Seq(S) /\ Len(head) = Len(via) + 1 /\ Len(via) \in Nat /\ head[Len(via) + 1] = g
      /\ \A n \in 1 .. Len(via) : head[n] = via[n]
  <2>0. Len(via) \in Nat
    OBVIOUS
  <2>1. head \in Seq(S) /\ Len(head) = Len(via) + Len(one)
        /\ \A n \in 1 .. Len(via) + Len(one) : head[n] = IF n <= Len(via) THEN via[n] ELSE one[n - Len(via)]
    BY <1>2, ConcatProperties
  <2> HIDE DEF head
  <2>2. head[Len(via) + 1] = g
    BY <1>2, <2>0, <2>1
  <2>. QED
    BY <1>2, <2>0, <2>1, <2>2
<1> HIDE DEF head
<1>4. \A n \in 1 .. Len(head) : (head \o chain)[n] = head[n]
  <2>0. Len(chain) \in Nat /\ Len(head) \in Nat
    BY <1>3
  <2>1. \A n \in 1 .. Len(head) + Len(chain) : (head \o chain)[n] = IF n <= Len(head) THEN head[n] ELSE chain[n - Len(head)]
    BY <1>3, ConcatProperties
  <2>. QED
    BY <2>0, <2>1
<1>. QED
  BY <1>3, <1>4 DEF head, one

\* A path goes over its edges in one way only.
LEMMA EdgesTell ==
    ASSUME NEW G, Graph(G), NEW p, NEW r, NEW x \in PairPaths(G, {}, p, r), NEW y \in PairPaths(G, {}, p, r),
           x.edges = y.edges
    PROVE  x = y
<1>1. PICK g, via : MadeOf(G, p, r, x, via, g)
  BY PathsMade
<1>2. PICK h, way : MadeOf(G, p, r, y, way, h)
  BY PathsMade
<1> DEFINE E == G.relationships
<1>3. ASSUME NEW z, NEW k, NEW v, MadeOf(G, p, r, z, v, k)
      PROVE  /\ v \in Seq(E) /\ k.kind \in GRANT_KINDS /\ Len(v) \in Nat
             /\ \A n \in 1 .. Len(v) : v[n].kind \in TRAVERSABLE /\ z.edges[n] = v[n]
             /\ z.edges[Len(v) + 1] = k
  <2>1. k \in Grants(G) /\ r \in GrantTargets(G, k) /\ v \in ActorPaths(G, {}, p)
    BY <1>3 DEF MadeOf, EffectiveGrants
  <2>2. k \in E /\ v \in Seq(E) /\ \A n \in DOMAIN v : v[n].kind \in TRAVERSABLE
    BY <2>1, GivenBelow, ActorPathsGo DEF Graph, Steps
  <2>3. PICK chain : chain = Chain(G, k.target, r)
    OBVIOUS
  <2>4. chain \in Seq(Contains(G)) /\ Contains(G) \subseteq E
    BY <2>1, <2>3, GivenBelow, ChainOfEdges DEF Graph, Contains
  <2>5. chain \in Seq(E)
    BY <2>4, SeqMonotonic
  <2>6. z.edges = v \o <<k>> \o chain
    BY <1>3, <2>3 DEF MadeOf, PathBy
  <2>7. /\ z.edges[Len(v) + 1] = k /\ Len(v) \in Nat
        /\ \A n \in 1 .. Len(v) : z.edges[n] = v[n]
    BY <2>2, <2>5, <2>6, Positions
  <2>8. DOMAIN v = 1 .. Len(v)
    BY <2>2
  <2>. QED
    BY <2>1, <2>2, <2>7, <2>8 DEF Grants
<1>4. \A kind : ~ (kind \in TRAVERSABLE /\ kind \in GRANT_KINDS)
  BY DEF TRAVERSABLE, GROUP_KINDS, GRANT_KINDS
<1>5. /\ via \in Seq(E) /\ g.kind \in GRANT_KINDS /\ Len(via) \in Nat
      /\ \A n \in 1 .. Len(via) : via[n].kind \in TRAVERSABLE /\ x.edges[n] = via[n]
      /\ x.edges[Len(via) + 1] = g
  BY <1>1, <1>3
<1>6. /\ way \in Seq(E) /\ h.kind \in GRANT_KINDS /\ Len(way) \in Nat
      /\ \A n \in 1 .. Len(way) : way[n].kind \in TRAVERSABLE /\ y.edges[n] = way[n]
      /\ y.edges[Len(way) + 1] = h
  BY <1>2, <1>3
<1>7. ~ Len(via) < Len(way)
  <2> SUFFICES ASSUME Len(via) < Len(way) PROVE FALSE
    OBVIOUS
  <2>1. Len(via) + 1 \in 1 .. Len(way)
    BY <1>5, <1>6
  <2>. QED
    BY <1>4, <1>5, <1>6, <2>1
<1>8. ~ Len(way) < Len(via)
  <2> SUFFICES ASSUME Len(way) < Len(via) PROVE FALSE
    OBVIOUS
  <2>1. Len(way) + 1 \in 1 .. Len(via)
    BY <1>5, <1>6
  <2>. QED
    BY <1>4, <1>5, <1>6, <2>1
<1>9. Len(via) = Len(way)
  BY <1>5, <1>6, <1>7, <1>8
<1>10. g = h /\ \A n \in 1 .. Len(via) : via[n] = way[n]
  BY <1>5, <1>6, <1>9
<1> HIDE DEF E
<1>11. via = way
  BY <1>5, <1>6, <1>9, <1>10, SeqEqual
<1>. QED
  BY <1>1, <1>2, <1>10, <1>11 DEF MadeOf

\* A grant that leaves something gives a path for every way to its source.
LEMMA PathThere ==
    ASSUME NEW G, NEW ignored, NEW p, NEW r, NEW g \in Grants(G) \ ignored, NEW via \in ActorPaths(G, ignored, p),
           r \in GrantTargets(G, g), g.permissions \ Denied(G, ignored, p, r) # {}, End(p, via) = g.source
    PROVE  PathBy(G, p, r, Denied(G, ignored, p, r), via, g) \in PairPaths(G, ignored, p, r)
<1>1. PICK path : path = PathBy(G, p, r, Denied(G, ignored, p, r), via, g)
  OBVIOUS
<1>2. \E h \in Grants(G) \ ignored : \E way \in ActorPaths(G, ignored, p) :
         /\ r \in GrantTargets(G, h) /\ h.permissions \ Denied(G, ignored, p, r) # {}
         /\ End(p, way) = h.source
         /\ path = PathBy(G, p, r, Denied(G, ignored, p, r), way, h)
  BY <1>1
<1>3. path \in PairPaths(G, ignored, p, r)
  BY <1>2, InPairPaths
<1>. QED
  BY <1>1, <1>3

\* Without an edge an actor has fewer paths, and less is denied to it.
LEMMA LessDenied ==
    ASSUME NEW G, NEW e, NEW p, NEW r
    PROVE  Denied(G, {e}, p, r) \subseteq Denied(G, {}, p, r)
<1>1. \A via \in ActorPaths(G, {e}, p) : via \in ActorPaths(G, {}, p)
  BY PathsAvoid
<1>. QED
  BY <1>1 DEF Denied

\* Where an edge is not touched, every path stays, and gives no less.
LEMMA PathsStay ==
    ASSUME NEW G, Graph(G), NEW e, e.kind # "contains", NEW p \in PrincipalIds(G), NEW r,
           ~ (p \in ImpactedPrincipals(G, e) /\ r \in ImpactedResources(G, e)),
           NEW x \in PairPaths(G, {}, p, r)
    PROVE  \E y \in PairPaths(G, {e}, p, r) : y.edges = x.edges /\ x.permissions \subseteq y.permissions
<1>1. PICK g, via : MadeOf(G, p, r, x, via, g)
  BY PathsMade
<1>2. e \notin Steps(x.edges)
  BY PathTouched
<1>3. e \notin Steps(via) /\ g # e /\ g \in Grants(G) /\ r \in GrantTargets(G, g)
  BY <1>1, <1>2, EdgesOfPath DEF Graph
<1>4. via \in ActorPaths(G, {e}, p) /\ End(p, via) = g.source
  BY <1>1, <1>3, PathsAvoid DEF MadeOf
<1> DEFINE denied == Denied(G, {}, p, r)
           rest == Denied(G, {e}, p, r)
           y == PathBy(G, p, r, rest, via, g)
<1>5. g.permissions \ denied # {} /\ x = PathBy(G, p, r, denied, via, g)
  BY <1>1, DeniedByPaths DEF MadeOf, EffectiveGrants
<1>6. rest \subseteq denied
  BY LessDenied
<1>7. y.edges = x.edges /\ x.permissions \subseteq y.permissions
  BY <1>5, <1>6 DEF PathBy
<1>8. g.permissions \ rest # {}
  BY <1>5, <1>6
<1>9. y \in PairPaths(G, {e}, p, r)
  BY <1>3, <1>4, <1>8, PathThere
<1>. QED
  BY <1>7, <1>9

\* Where the edge is not touched and no deny goes with it, nothing changes.
LEMMA PathsSame ==
    ASSUME NEW G, Graph(G), NEW e, e.kind # "contains", NEW p \in PrincipalIds(G), NEW r,
           ~ (p \in ImpactedPrincipals(G, e) /\ r \in ImpactedResources(G, e)),
           Denied(G, {e}, p, r) = Denied(G, {}, p, r)
    PROVE  PairPaths(G, {e}, p, r) = PairPaths(G, {}, p, r)
<1>1. ASSUME NEW x \in PairPaths(G, {e}, p, r) PROVE x \in PairPaths(G, {}, p, r)
  <2>1. PICK g \in Grants(G) \ {e} : \E via \in ActorPaths(G, {e}, p) :
           /\ r \in GrantTargets(G, g) /\ g.permissions \ Denied(G, {e}, p, r) # {}
           /\ End(p, via) = g.source
           /\ x = PathBy(G, p, r, Denied(G, {e}, p, r), via, g)
    BY InPairPaths
  <2>2. PICK via \in ActorPaths(G, {e}, p) :
           /\ r \in GrantTargets(G, g) /\ g.permissions \ Denied(G, {e}, p, r) # {}
           /\ End(p, via) = g.source
           /\ x = PathBy(G, p, r, Denied(G, {e}, p, r), via, g)
    BY <2>1
  <2>3. via \in ActorPaths(G, {}, p) /\ g \in Grants(G) \ {}
    BY PathsAvoid
  <2>4. g.permissions \ Denied(G, {}, p, r) # {}
    BY <2>2
  <2>5. PathBy(G, p, r, Denied(G, {}, p, r), via, g) \in PairPaths(G, {}, p, r)
    BY <2>2, <2>3, <2>4, PathThere
  <2>. QED
    BY <2>2, <2>5
<1>2. ASSUME NEW x \in PairPaths(G, {}, p, r) PROVE x \in PairPaths(G, {e}, p, r)
  <2>1. PICK g, via : MadeOf(G, p, r, x, via, g)
    BY PathsMade
  <2>2. e \notin Steps(x.edges)
    BY PathTouched
  <2>3. e \notin Steps(via) /\ g # e /\ g \in Grants(G) /\ r \in GrantTargets(G, g)
    BY <2>1, <2>2, EdgesOfPath DEF Graph
  <2>4. via \in ActorPaths(G, {e}, p) /\ End(p, via) = g.source
    BY <2>1, <2>3, PathsAvoid DEF MadeOf
  <2>5. /\ g.permissions \ Denied(G, {e}, p, r) # {}
        /\ x = PathBy(G, p, r, Denied(G, {e}, p, r), via, g)
    BY <2>1, DeniedByPaths DEF MadeOf, EffectiveGrants
  <2>6. g \in Grants(G) \ {e}
    BY <2>3
  <2>7. PathBy(G, p, r, Denied(G, {e}, p, r), via, g) \in PairPaths(G, {e}, p, r)
    BY <2>3, <2>4, <2>5, <2>6, PathThere
  <2>. QED
    BY <2>5, <2>7
<1>. QED
  BY <1>1, <1>2

\* No deny goes for a principal that does not act as the source of the edge, nor
\* on a resource that no deny names.
LEMMA DeniedSame ==
    ASSUME NEW G, NEW e, NEW p \in PrincipalIds(G), NEW r,
           p \notin ImpactedPrincipals(G, e) \/ r \in Undenied(G)
    PROVE  Denied(G, {e}, p, r) = Denied(G, {}, p, r)
<1>1. CASE r \in Undenied(G)
  BY <1>1 DEF Denied, Undenied
<1>2. CASE p \notin ImpactedPrincipals(G, e)
  <2>1. e.source \notin Reach(G, p)
    BY <1>2 DEF ImpactedPrincipals, PrincipalsActingAs
  <2>2. \A via \in ActorPaths(G, {}, p) : e \notin Steps(via) /\ End(p, via) # e.source
    BY <2>1, ActorPathsGo
  <2>3. \A via : via \in ActorPaths(G, {}, p) <=> via \in ActorPaths(G, {e}, p)
    BY <2>2, PathsAvoid
  <2>4. \A x \in Denies(G) : (x.target = r /\ \E via \in ActorPaths(G, {}, p) : End(p, via) = x.source)
           <=> (x \in Denies(G) \ {e} /\ x.target = r /\ \E via \in ActorPaths(G, {e}, p) : End(p, via) = x.source)
    BY <2>2, <2>3
  <2>. QED
    BY <2>4 DEF Denied
<1>. QED
  BY <1>1, <1>2

------------------------------------------------------------------------------
(* What-if answers.                                                        *)

\* What is told of a pair, and how many paths it has, when edges are ignored.
PermsAt(G, I, p, r) == IF PairPaths(G, I, p, r) = {} THEN {} ELSE Entry(G, p, r, PairPaths(G, I, p, r)).permissions
CountAt(G, I, p, r) == Cardinality(PairPaths(G, I, p, r))

\* The pairs of a map are those with paths.
LEMMA PairsOfMap ==
    ASSUME NEW G, NEW I, NEW ps, NEW rs, NEW pair
    PROVE  pair \in PairsOf(AccessMap(G, I, ps, rs)) <=>
             \E p \in ps : \E r \in rs : PairPaths(G, I, p, r) # {} /\ pair = <<p, r>>
<1> DEFINE map == AccessMap(G, I, ps, rs)
<1>1. ASSUME NEW p \in ps, NEW r \in rs, PairPaths(G, I, p, r) # {}, pair = <<p, r>>
      PROVE  pair \in PairsOf(map)
  <2>1. PICK z : z = Entry(G, p, r, PairPaths(G, I, p, r))
    OBVIOUS
  <2>2. z \in map
    BY <1>1, <2>1, InAccessMap
  <2>3. z.principal = p /\ z.resource = r
    BY <2>1 DEF Entry
  <2>. QED
    BY <1>1, <2>2, <2>3 DEF PairsOf
<1>2. ASSUME pair \in PairsOf(map)
      PROVE  \E p \in ps : \E r \in rs : PairPaths(G, I, p, r) # {} /\ pair = <<p, r>>
  <2>1. PICK z \in map : pair = <<z.principal, z.resource>>
    BY <1>2 DEF PairsOf
  <2>2. PICK p \in ps, r \in rs : PairPaths(G, I, p, r) # {} /\ z = Entry(G, p, r, PairPaths(G, I, p, r))
    BY <2>1, InAccessMap
  <2>3. z.principal = p /\ z.resource = r
    BY <2>2 DEF Entry
  <2>. QED
    BY <2>1, <2>2, <2>3
<1>. QED
  BY <1>1, <1>2

\* What a map tells of a pair is what is told of the pair.
LEMMA ToldOfPair ==
    ASSUME NEW G, NEW I, NEW ps, NEW rs, NEW p \in ps, NEW r \in rs
    PROVE  /\ PermissionsIn(AccessMap(G, I, ps, rs), <<p, r>>) = PermsAt(G, I, p, r)
           /\ CountIn(AccessMap(G, I, ps, rs), <<p, r>>) = CountAt(G, I, p, r)
<1>1. PICK map : map = AccessMap(G, I, ps, rs)
  OBVIOUS
<1>2. PICK paths : paths = PairPaths(G, I, p, r)
  OBVIOUS
<1>3. PICK z : z = Entry(G, p, r, paths)
  OBVIOUS
<1>4. z.principal = p /\ z.resource = r /\ z.count = Cardinality(paths)
  BY <1>3 DEF Entry
<1>5. ASSUME NEW x PROVE x \in EntryFor(map, <<p, r>>) <=> paths # {} /\ x = z
  <2>1. ASSUME x \in EntryFor(map, <<p, r>>) PROVE paths # {} /\ x = z
    <3>1. x \in map /\ x.principal = p /\ x.resource = r
      BY <2>1 DEF EntryFor
    <3>2. PICK q \in ps, s \in rs : PairPaths(G, I, q, s) # {} /\ x = Entry(G, q, s, PairPaths(G, I, q, s))
      BY <1>1, <3>1, InAccessMap
    <3>3. x.principal = q /\ x.resource = s
      BY <3>2 DEF Entry
    <3>. QED
      BY <1>2, <1>3, <3>1, <3>2, <3>3
  <2>2. ASSUME paths # {}, x = z PROVE x \in EntryFor(map, <<p, r>>)
    <3>1. z \in map
      BY <1>1, <1>2, <1>3, <2>2, InAccessMap
    <3>. QED
      BY <1>4, <2>2, <3>1 DEF EntryFor
  <2>. QED
    BY <2>1, <2>2
<1>6. CASE paths = {}
  <2>1. EntryFor(map, <<p, r>>) = {}
    BY <1>5, <1>6
  <2>2. Cardinality(paths) = 0
    BY <1>6, FS_EmptySet
  <2>. QED
    BY <1>1, <1>2, <1>6, <2>1, <2>2 DEF PermissionsIn, CountIn, PermsAt, CountAt
<1>7. CASE paths # {}
  <2>1. EntryFor(map, <<p, r>>) = {z}
    BY <1>5, <1>7
  <2>2. (UNION {x.permissions : x \in {z}}) = z.permissions
    OBVIOUS
  <2>. QED
    BY <1>1, <1>2, <1>3, <1>4, <1>7, <2>1, <2>2 DEF PermissionsIn, CountIn, PermsAt, CountAt
<1>. QED
  BY <1>6, <1>7

\* What a pair loses in an answer.
LossOf(G, e, p, r) == [principal |-> p, resource |-> r, removed |-> PermsAt(G, {}, p, r) \ PermsAt(G, {e}, p, r)]

\* A loss of a pair in an answer.
IsLoss(G, e, p, r, d) == d = LossOf(G, e, p, r) /\ d.removed # {}

\* The difference of two maps is what their pairs lose.
LEMMA InDiff ==
    ASSUME NEW G, NEW e, NEW ps, NEW rs, NEW d
    PROVE  d \in Diff(AccessMap(G, {}, ps, rs), AccessMap(G, {e}, ps, rs)) <=>
             \E p \in ps : \E r \in rs : IsLoss(G, e, p, r, d)
<1> DEFINE before == AccessMap(G, {}, ps, rs)
           after == AccessMap(G, {e}, ps, rs)
<1>1. ASSUME NEW p \in ps, NEW r \in rs
      PROVE  /\ PermissionsIn(before, <<p, r>>) = PermsAt(G, {}, p, r)
             /\ PermissionsIn(after, <<p, r>>) = PermsAt(G, {e}, p, r)
  BY ToldOfPair
<1>2. \A pair : pair \in PairsOf(before) <=>
             \E p \in ps : \E r \in rs : PairPaths(G, {}, p, r) # {} /\ pair = <<p, r>>
  BY PairsOfMap
<1> HIDE DEF before, after
<1>3. ASSUME NEW p \in ps, NEW r \in rs, IsLoss(G, e, p, r, d)
      PROVE  d \in Diff(before, after)
  <2>1. PermsAt(G, {}, p, r) # {}
    BY <1>3 DEF IsLoss, LossOf
  <2>2. PairPaths(G, {}, p, r) # {}
    BY <2>1 DEF PermsAt
  <2>3. PICK pair \in PairsOf(before) : pair = <<p, r>>
    BY <1>2, <2>2
  <2>4. d = [principal |-> pair[1], resource |-> pair[2],
             removed |-> PermissionsIn(before, pair) \ PermissionsIn(after, pair)]
    BY <1>1, <1>3, <2>3 DEF IsLoss, LossOf
  <2>. QED
    BY <1>3, <2>4 DEF Diff, IsLoss
<1>4. ASSUME d \in Diff(before, after)
      PROVE  \E p \in ps : \E r \in rs : IsLoss(G, e, p, r, d)
  <2>1. d.removed # {} /\ \E pair \in PairsOf(before) :
          d = [principal |-> pair[1], resource |-> pair[2],
               removed |-> PermissionsIn(before, pair) \ PermissionsIn(after, pair)]
    BY <1>4 DEF Diff
  <2>2. PICK pair \in PairsOf(before) :
          d = [principal |-> pair[1], resource |-> pair[2],
               removed |-> PermissionsIn(before, pair) \ PermissionsIn(after, pair)]
    BY <2>1
  <2>3. PICK p \in ps, r \in rs : pair = <<p, r>>
    BY <1>2
  <2>4. d = LossOf(G, e, p, r)
    BY <1>1, <2>2, <2>3 DEF LossOf
  <2>. QED
    BY <2>1, <2>4 DEF IsLoss
<1>. QED
  BY <1>3, <1>4 DEF before, after

\* The paths that are gone, each pair with numbers of its own.
GonePaths(before, after) ==
    UNION {{pair} \X (CountIn(after, pair) + 1 .. CountIn(before, pair)) : pair \in PairsOf(before)}

\* A path that is gone from a pair.
IsGone(G, e, p, r, z) ==
    \E n \in CountAt(G, {e}, p, r) + 1 .. CountAt(G, {}, p, r) : PairPaths(G, {}, p, r) # {} /\ z = <<<<p, r>>, n>>

\* They are those of the pairs that have fewer.
LEMMA InGonePaths ==
    ASSUME NEW G, NEW e, NEW ps, NEW rs, NEW z
    PROVE  z \in GonePaths(AccessMap(G, {}, ps, rs), AccessMap(G, {e}, ps, rs)) <=>
             \E p \in ps : \E r \in rs : IsGone(G, e, p, r, z)
<1> DEFINE before == AccessMap(G, {}, ps, rs)
           after == AccessMap(G, {e}, ps, rs)
<1>1. ASSUME NEW p \in ps, NEW r \in rs
      PROVE  /\ CountIn(before, <<p, r>>) = CountAt(G, {}, p, r)
             /\ CountIn(after, <<p, r>>) = CountAt(G, {e}, p, r)
  BY ToldOfPair
<1>2. \A pair : pair \in PairsOf(before) <=>
             \E p \in ps : \E r \in rs : PairPaths(G, {}, p, r) # {} /\ pair = <<p, r>>
  BY PairsOfMap
<1> HIDE DEF before, after
<1>3. z \in GonePaths(before, after) <=>
        \E pair \in PairsOf(before) : \E n \in CountIn(after, pair) + 1 .. CountIn(before, pair) : z = <<pair, n>>
  BY DEF GonePaths
<1>4. ASSUME NEW p \in ps, NEW r \in rs, IsGone(G, e, p, r, z)
      PROVE  z \in GonePaths(before, after)
  <2>0. PICK n \in CountAt(G, {e}, p, r) + 1 .. CountAt(G, {}, p, r) :
           PairPaths(G, {}, p, r) # {} /\ z = <<<<p, r>>, n>>
    BY <1>4 DEF IsGone
  <2>1. PICK pair \in PairsOf(before) : pair = <<p, r>>
    BY <1>2, <2>0
  <2>2. n \in CountIn(after, pair) + 1 .. CountIn(before, pair) /\ z = <<pair, n>>
    BY <1>1, <2>0, <2>1
  <2>. QED
    BY <1>3, <2>1, <2>2
<1>5. ASSUME z \in GonePaths(before, after)
      PROVE  \E p \in ps : \E r \in rs : IsGone(G, e, p, r, z)
  <2>1. PICK pair \in PairsOf(before) : \E n \in CountIn(after, pair) + 1 .. CountIn(before, pair) : z = <<pair, n>>
    BY <1>3, <1>5
  <2>2. PICK n \in CountIn(after, pair) + 1 .. CountIn(before, pair) : z = <<pair, n>>
    BY <2>1
  <2>3. PICK p \in ps, r \in rs : PairPaths(G, {}, p, r) # {} /\ pair = <<p, r>>
    BY <1>2
  <2>4. n \in CountAt(G, {e}, p, r) + 1 .. CountAt(G, {}, p, r) /\ z = <<<<p, r>>, n>>
    BY <1>1, <2>2, <2>3
  <2>. QED
    BY <2>3, <2>4 DEF IsGone
<1>. QED
  BY <1>4, <1>5 DEF before, after

\* A pair that an edge cannot touch loses nothing, unless a deny goes with the
\* edge and gives the pair more paths than are kept.
LEMMA NothingLost ==
    ASSUME NEW G, Graph(G), NEW e, NEW p \in PrincipalIds(G), NEW r,
           \/ e.kind = "contains"
           \/ p \notin ImpactedPrincipals(G, e)
           \/ r \notin ImpactedResources(G, e) /\ (r \in Undenied(G) \/ CountAt(G, {e}, p, r) <= Kept)
    PROVE  /\ PermsAt(G, {}, p, r) \subseteq PermsAt(G, {e}, p, r)
           /\ CountAt(G, {}, p, r) <= CountAt(G, {e}, p, r)
<1> DEFINE before == PairPaths(G, {}, p, r)
           after == PairPaths(G, {e}, p, r)
<1>1. p \in Ids(G)
  BY DEF PrincipalIds
<1>2. IsFiniteSet(before) /\ Cardinality(before) \in Nat
  BY PathsFinite
<1>3. CASE before = after
  BY <1>2, <1>3 DEF PermsAt, CountAt
<1>4. CASE e.kind = "contains"
  BY <1>3, <1>4, ContainsIgnored
<1>5. CASE e.kind # "contains" /\ (p \notin ImpactedPrincipals(G, e) \/ (r \in Undenied(G) /\ r \notin ImpactedResources(G, e)))
  BY <1>3, <1>5, DeniedSame, PathsSame
<1>6. CASE e.kind # "contains" /\ r \notin ImpactedResources(G, e) /\ CountAt(G, {e}, p, r) <= Kept
  <2>1. ASSUME NEW x \in before PROVE \E y \in after : y.edges = x.edges /\ x.permissions \subseteq y.permissions
    <3>1. e.kind # "contains" /\ ~ (p \in ImpactedPrincipals(G, e) /\ r \in ImpactedResources(G, e))
      BY <1>6
    <3>2. x \in PairPaths(G, {}, p, r)
      OBVIOUS
    <3>3. \E y \in PairPaths(G, {e}, p, r) : y.edges = x.edges /\ x.permissions \subseteq y.permissions
      <4> HIDE DEF before, after
      <4>. QED
        BY <3>1, <3>2, PathsStay
    <3>. QED
      BY <3>3
  <2>2. IsFiniteSet(after) /\ Steps(Trimmed(G, after)) = after
    BY <1>1, <1>6, KeptWithout DEF CountAt
  <2>3. Steps(Trimmed(G, before)) \subseteq before
    BY <1>1, KeptPaths
  <2>4. \A x, y \in before : x.edges = y.edges => x = y
    BY EdgesTell
  <2>5. /\ Entry(G, p, r, before).permissions = UNION {x.permissions : x \in Steps(Trimmed(G, before))}
        /\ Entry(G, p, r, after).permissions = UNION {x.permissions : x \in Steps(Trimmed(G, after))}
    BY DEF Entry
  <2>6. /\ PermsAt(G, {}, p, r) = IF before = {} THEN {} ELSE Entry(G, p, r, before).permissions
        /\ PermsAt(G, {e}, p, r) = IF after = {} THEN {} ELSE Entry(G, p, r, after).permissions
    BY DEF PermsAt
  <2> HIDE DEF before, after
  <2>7. Cardinality(before) <= Cardinality(after)
    <3> DEFINE f == [x \in before |-> CHOOSE y \in after : y.edges = x.edges]
    <3>1. \A x \in before : f[x] \in after /\ f[x].edges = x.edges
      BY <2>1
    <3>2. DOMAIN f = before /\ f = [x \in before |-> f[x]]
      OBVIOUS
    <3> HIDE DEF f
    <3>3. \A x, y \in before : f[x] = f[y] => x = y
      BY <2>4, <3>1
    <3>. QED
      BY <2>2, <3>1, <3>2, <3>3, Matched
  <2>8. PermsAt(G, {}, p, r) \subseteq PermsAt(G, {e}, p, r)
    <3> SUFFICES ASSUME NEW a \in PermsAt(G, {}, p, r) PROVE a \in PermsAt(G, {e}, p, r)
      OBVIOUS
    <3>1. PICK x \in before : a \in x.permissions
      BY <2>3, <2>5, <2>6
    <3>2. PICK y \in after : a \in y.permissions
      BY <2>1, <3>1
    <3>. QED
      BY <2>2, <2>5, <2>6, <3>2
  <2>. QED
    BY <2>7, <2>8 DEF CountAt, before, after
<1> HIDE DEF before, after
<1>7. CASE e.kind # "contains" /\ p \notin ImpactedPrincipals(G, e)
  BY <1>5, <1>7
<1>8. CASE e.kind # "contains" /\ r \notin ImpactedResources(G, e) /\ (r \in Undenied(G) \/ CountAt(G, {e}, p, r) <= Kept)
  <2>1. CASE r \in Undenied(G)
    BY <1>5, <1>8, <2>1
  <2>2. CASE CountAt(G, {e}, p, r) <= Kept
    BY <1>6, <1>8, <2>2
  <2>. QED
    BY <1>8, <2>1, <2>2
<1>. QED
  BY <1>4, <1>7, <1>8

\* What an edge can touch are principals and resources.
LEMMA TouchedIds ==
    ASSUME NEW G, WellFormed(G), NEW e \in G.relationships
    PROVE  ImpactedPrincipals(G, e) \subseteq PrincipalIds(G) /\ ImpactedResources(G, e) \subseteq ResourceIds(G)
<1>1. ImpactedPrincipals(G, e) \subseteq PrincipalIds(G)
  BY DEF ImpactedPrincipals, PrincipalsActingAs
<1>2. \A g \in Grants(G) : GrantTargets(G, g) \subseteq ResourceIds(G)
  BY GivenBelow
<1>3. CASE e.kind \in GRANT_KINDS
  <2>1. ImpactedResources(G, e) = GrantTargets(G, e) /\ e \in Grants(G)
    BY <1>3 DEF ImpactedResources, Grants
  <2>. QED
    BY <1>1, <1>2, <2>1
<1>4. CASE e.kind \notin GRANT_KINDS
  <2>1. ImpactedResources(G, e) = ImpactSurface(G, e.target)
    BY <1>4 DEF ImpactedResources
  <2>2. \A r \in ImpactSurface(G, e.target) : \E g \in Grants(G) : r \in GrantTargets(G, g)
    BY DEF ImpactSurface
  <2>3. ImpactedResources(G, e) \subseteq ResourceIds(G)
    BY <1>2, <2>1, <2>2
  <2>. QED
    BY <1>1, <2>3
<1>. QED
  BY <1>1, <1>3, <1>4

\* Without the edge, no pair on a resource that a deny names has more paths than
\* are kept.
FewAfter(G, e) ==
    \A p \in PrincipalIds(G), r \in ResourceIds(G) : r \in Undenied(G) \/ CountAt(G, {e}, p, r) <= Kept

\* Then only what the edge can touch loses something.
LEMMA LosersTouched ==
    ASSUME NEW G, Graph(G), NEW e, FewAfter(G, e), NEW p \in PrincipalIds(G), NEW r \in ResourceIds(G),
           ~ (p \in ImpactedPrincipals(G, e) /\ r \in ImpactedResources(G, e))
    PROVE  /\ PermsAt(G, {}, p, r) \subseteq PermsAt(G, {e}, p, r)
           /\ CountAt(G, {}, p, r) <= CountAt(G, {e}, p, r)
<1>1. r \in Undenied(G) \/ CountAt(G, {e}, p, r) <= Kept
  BY DEF FewAfter
<1>2. CASE p \notin ImpactedPrincipals(G, e)
  BY <1>2, NothingLost
<1>3. CASE r \notin ImpactedResources(G, e)
  BY <1>1, <1>3, NothingLost
<1>. QED
  BY <1>2, <1>3

\* And the answer is that from all pairs.
LEMMA SameAnswer ==
    ASSUME NEW G, Graph(G), NEW e \in G.relationships, FewAfter(G, e)
    PROVE  Simulate(G, e) = WhatIfOf(FullMap(G, {}), FullMap(G, {e}))
<1> DEFINE P == PrincipalIds(G)
           R == ResourceIds(G)
           ps == ImpactedPrincipals(G, e)
           rs == ImpactedResources(G, e)
           b == AccessMap(G, {}, ps, rs)
           a == AccessMap(G, {e}, ps, rs)
           bb == AccessMap(G, {}, P, R)
           aa == AccessMap(G, {e}, P, R)
<1>1. ps \subseteq P /\ rs \subseteq R
  BY TouchedIds DEF Graph
<1>2. ASSUME NEW d PROVE d \in Diff(b, a) <=> d \in Diff(bb, aa)
  <2>1. d \in Diff(b, a) <=> \E p \in ps : \E r \in rs : IsLoss(G, e, p, r, d)
    BY InDiff
  <2>2. d \in Diff(bb, aa) <=> \E p \in P : \E r \in R : IsLoss(G, e, p, r, d)
    BY InDiff
  <2>3. ASSUME NEW p \in P, NEW r \in R, IsLoss(G, e, p, r, d) PROVE p \in ps /\ r \in rs
    <3> SUFFICES ASSUME ~ (p \in ps /\ r \in rs) PROVE FALSE
      OBVIOUS
    <3>1. PermsAt(G, {}, p, r) \subseteq PermsAt(G, {e}, p, r)
      BY LosersTouched
    <3>. QED
      BY <2>3, <3>1 DEF IsLoss, LossOf
  <2> HIDE DEF P, R, ps, rs, b, a, bb, aa
  <2>. QED
    BY <1>1, <2>1, <2>2, <2>3
<1>3. ASSUME NEW z PROVE z \in GonePaths(b, a) <=> z \in GonePaths(bb, aa)
  <2> DEFINE Is(p, r) == IsGone(G, e, p, r, z)
  <2>1. z \in GonePaths(b, a) <=> \E p \in ps : \E r \in rs : Is(p, r)
    BY InGonePaths
  <2>2. z \in GonePaths(bb, aa) <=> \E p \in P : \E r \in R : Is(p, r)
    BY InGonePaths
  <2>3. ASSUME NEW p \in P, NEW r \in R, Is(p, r) PROVE p \in ps /\ r \in rs
    <3> SUFFICES ASSUME ~ (p \in ps /\ r \in rs) PROVE FALSE
      OBVIOUS
    <3>1. CountAt(G, {}, p, r) <= CountAt(G, {e}, p, r)
      BY LosersTouched
    <3>2. PICK n \in CountAt(G, {e}, p, r) + 1 .. CountAt(G, {}, p, r) : TRUE
      BY <2>3 DEF IsGone
    <3>3. p \in Ids(G)
      BY DEF PrincipalIds
    <3>4. CountAt(G, {}, p, r) \in Nat /\ CountAt(G, {e}, p, r) \in Nat
      BY <3>3, PathsFinite, KeptWithout, FS_CardinalityType DEF CountAt
    <3>. QED
      BY <3>1, <3>2, <3>4
  <2> HIDE DEF P, R, ps, rs, b, a, bb, aa, Is
  <2>. QED
    BY <1>1, <2>1, <2>2, <2>3
<1>4. Simulate(G, e) = WhatIfOf(b, a) /\ WhatIfOf(FullMap(G, {}), FullMap(G, {e})) = WhatIfOf(bb, aa)
  BY DEF Simulate, FullMap
<1> HIDE DEF b, a, bb, aa
<1>5. Diff(b, a) = Diff(bb, aa) /\ GonePaths(b, a) = GonePaths(bb, aa)
  BY <1>2, <1>3
<1>6. RemovedPaths(b, a) = RemovedPaths(bb, aa)
  BY <1>5 DEF RemovedPaths, GonePaths
<1>7. WhatIfOf(b, a) = WhatIfOf(bb, aa)
  BY <1>5, <1>6 DEF WhatIfOf
<1>. QED
  BY <1>4, <1>7

\* The resources in focus are some on which something is lost.
LEMMA FocusLoses ==
    ASSUME NEW diff
    PROVE  Focus(diff) \subseteq {d.resource : d \in diff}
<1>1. TopBlast(diff, 1) \subseteq BlastRadius(diff)
  BY DEF TopBlast, Tops
<1>2. ASSUME NEW impact \in BlastRadius(diff) PROVE impact.resource \in {d.resource : d \in diff}
  <2>1. PICK r \in {d.resource : d \in diff} :
           impact = [resource    |-> r,
                     principals  |-> Cardinality({d \in diff : d.resource = r}),
                     permissions |-> FSets!MapThenSumSet(LAMBDA d : Cardinality(d.removed),
                                                         {x \in diff : x.resource = r})]
    BY DEF BlastRadius
  <2>. QED
    BY <2>1
<1>. QED
  BY <1>1, <1>2 DEF Focus

\* What is shown of a resource in focus, before and after, is what is lost on it.
FocusTells(G, e, focus) ==
    Diff(FocusAccess(G, {}, focus), FocusAccess(G, {e}, focus)) = {d \in Simulate(G, e).diff : d.resource \in focus}

\* It is for the focus of an answer.
LEMMA FocusShown ==
    ASSUME NEW G, Graph(G), NEW e \in G.relationships
    PROVE  FocusTells(G, e, Focus(Simulate(G, e).diff))
<1>0. PICK focus : focus = Focus(Simulate(G, e).diff)
  OBVIOUS
<1> DEFINE P == PrincipalIds(G)
           ps == ImpactedPrincipals(G, e)
           rs == ImpactedResources(G, e)
           diff == Simulate(G, e).diff
           shown == Diff(FocusAccess(G, {}, focus), FocusAccess(G, {e}, focus))
<1>1. ps \subseteq P /\ rs \subseteq ResourceIds(G)
  BY TouchedIds DEF Graph
<1>2. diff = Diff(AccessMap(G, {}, ps, rs), AccessMap(G, {e}, ps, rs))
  BY DEF Simulate, WhatIfOf
<1>3. ASSUME NEW d
      PROVE  d \in diff <=> \E p \in ps : \E r \in rs : IsLoss(G, e, p, r, d)
  <2>1. d \in Diff(AccessMap(G, {}, ps, rs), AccessMap(G, {e}, ps, rs)) <=>
           \E p \in ps : \E r \in rs : IsLoss(G, e, p, r, d)
    BY InDiff
  <2> HIDE DEF ps, rs, diff
  <2>. QED
    BY <1>2, <2>1
<1>4. ASSUME NEW d
      PROVE  d \in shown <=> \E p \in P : \E r \in focus : IsLoss(G, e, p, r, d)
  <2>2. shown = Diff(AccessMap(G, {}, P, focus), AccessMap(G, {e}, P, focus))
    BY DEF FocusAccess
  <2> HIDE DEF P, shown, diff
  <2>1. d \in Diff(AccessMap(G, {}, P, focus), AccessMap(G, {e}, P, focus)) <=>
           \E p \in P : \E r \in focus : IsLoss(G, e, p, r, d)
    BY InDiff
  <2>. QED
    BY <2>1, <2>2
<1>5. \A p, r : LossOf(G, e, p, r).resource = r
  BY DEF LossOf
<1>6. focus \subseteq rs
  <2>1. focus \subseteq {d.resource : d \in diff}
    BY <1>0, FocusLoses
  <2> HIDE DEF diff, rs, ps
  <2>. QED
    BY <1>3, <1>5, <2>1 DEF IsLoss
<1>7. ASSUME NEW p \in P, NEW r, LossOf(G, e, p, r).removed # {} PROVE p \in ps
  <2> SUFFICES ASSUME p \notin ps PROVE FALSE
    OBVIOUS
  <2>1. PermsAt(G, {}, p, r) \subseteq PermsAt(G, {e}, p, r)
    BY NothingLost
  <2>. QED
    BY <1>7, <2>1 DEF LossOf
<1> HIDE DEF P, ps, rs, diff, shown
<1>8. ASSUME NEW d PROVE d \in shown <=> d \in diff /\ d.resource \in focus
  BY <1>1, <1>3, <1>4, <1>5, <1>6, <1>7 DEF IsLoss
<1>9. shown = {d \in diff : d.resource \in focus}
  BY <1>8
<1>10. FocusTells(G, e, focus)
  BY <1>9 DEF shown, diff, FocusTells
<1>. QED
  BY <1>0, <1>10

\* The permissions of a pair by the index of a graph.
LEMMA HeldByIndex ==
    ASSUME NEW G, NEW p \in PrincipalIds(G), NEW r \in ResourceIds(G)
    PROVE  (UNION {x.permissions : x \in {y \in AccessIndex(G) : y.principal = p /\ y.resource = r}}) = Held(G, p, r)
<1> DEFINE rows == {y \in AccessIndex(G) : y.principal = p /\ y.resource = r}
           row == AccessRow(G, p, Reach(G, p), r)
<1>1. ASSUME NEW x PROVE x \in rows <=> x = row /\ EffectiveGrants(G, Reach(G, p), r) # {}
  <2>1. x \in AccessIndex(G) <=> \E q \in PrincipalIds(G) : \E s \in ResourceIds(G) :
           EffectiveGrants(G, Reach(G, q), s) # {} /\ x = AccessRow(G, q, Reach(G, q), s)
    BY InAccessScope DEF AccessIndex
  <2>. QED
    BY <2>1, RowHolds
<1>2. row.permissions = Held(G, p, r)
  BY RowHolds
<1> HIDE DEF rows, row
<1>3. CASE EffectiveGrants(G, Reach(G, p), r) # {}
  <2>1. rows = {row}
    BY <1>1, <1>3
  <2>2. (UNION {x.permissions : x \in {row}}) = row.permissions
    OBVIOUS
  <2>. QED
    BY <1>2, <2>1, <2>2 DEF rows
<1>4. CASE EffectiveGrants(G, Reach(G, p), r) = {}
  <2>1. Held(G, p, r) = {}
    BY <1>4 DEF Held
  <2>2. rows = {}
    BY <1>1, <1>4
  <2>. QED
    BY <2>1, <2>2 DEF rows
<1>. QED
  BY <1>3, <1>4 DEF rows

\* What a pair loses by the definition of access.
LossBy(G, e, p, r) ==
    [principal |-> p, resource |-> r, removed |-> Held(G, p, r) \ Held(Without(G, e), p, r)]
IsLost(G, e, p, r, d) == d = LossBy(G, e, p, r) /\ d.removed # {}

\* What is lost is lost by pairs.
LEMMA InLost ==
    ASSUME NEW G, NEW e, NEW d
    PROVE  d \in Lost(G, e) <=> \E p \in PrincipalIds(G) : \E r \in ResourceIds(G) : IsLost(G, e, p, r, d)
<1> DEFINE H == Without(G, e)
           P == PrincipalIds(G)
           R == ResourceIds(G)
           rest(p, r) == UNION {x.permissions : x \in {y \in AccessIndex(H) : y.principal = p /\ y.resource = r}}
           loss(row) == [principal |-> row.principal, resource |-> row.resource,
                         removed |-> row.permissions \ rest(row.principal, row.resource)]
<1>1. ASSUME NEW p \in P, NEW r \in R PROVE rest(p, r) = Held(H, p, r)
  <2>1. p \in PrincipalIds(H) /\ r \in ResourceIds(H)
    BY DEF Without, PrincipalIds, ResourceIds, Ids, KindOf
  <2>. QED
    BY <2>1, HeldByIndex
<1>2. Lost(G, e) = {x \in {loss(row) : row \in AccessIndex(G)} : x.removed # {}}
  BY DEF Lost
<1>3. ASSUME NEW p \in P, NEW r \in R, NEW row, row = AccessRow(G, p, Reach(G, p), r)
      PROVE  loss(row) = LossBy(G, e, p, r)
  <2>1. row.principal = p /\ row.resource = r /\ row.permissions = Held(G, p, r)
    BY <1>3, RowHolds
  <2> HIDE DEF P, R, rest, H
  <2>. QED
    BY <1>1, <2>1 DEF LossBy, H
<1>4. \A x : x \in AccessIndex(G) <=> \E p \in P : \E r \in R :
                /\ EffectiveGrants(G, Reach(G, p), r) # {}
                /\ x = AccessRow(G, p, Reach(G, p), r)
  BY InAccessScope DEF AccessIndex
<1> HIDE DEF P, R, H, rest, loss
<1>5. ASSUME d \in Lost(G, e) PROVE \E p \in P : \E r \in R : IsLost(G, e, p, r, d)
  <2>1. PICK row \in AccessIndex(G) : d = loss(row) /\ d.removed # {}
    BY <1>2, <1>5
  <2>2. PICK p \in P, r \in R : row = AccessRow(G, p, Reach(G, p), r)
    BY <1>4
  <2>. QED
    BY <1>3, <2>1, <2>2 DEF IsLost
<1>6. ASSUME NEW p \in P, NEW r \in R, IsLost(G, e, p, r, d) PROVE d \in Lost(G, e)
  <2>1. d = LossBy(G, e, p, r) /\ d.removed # {} /\ Held(G, p, r) # {}
    BY <1>6 DEF IsLost, LossBy
  <2>2. EffectiveGrants(G, Reach(G, p), r) # {}
    BY <2>1 DEF Held
  <2>3. PICK row : row = AccessRow(G, p, Reach(G, p), r)
    OBVIOUS
  <2>4. row \in AccessIndex(G)
    BY <1>4, <2>2, <2>3
  <2>5. loss(row) = d
    BY <1>3, <2>1, <2>3
  <2>. QED
    BY <1>2, <2>1, <2>4, <2>5
<1>. QED
  BY <1>5, <1>6 DEF P, R

\* All paths of a pair are kept, with an edge and without it.
FewPaths(G, e, p, r) == CountAt(G, {}, p, r) <= Kept /\ CountAt(G, {e}, p, r) <= Kept

\* Then what it loses in the answer is what it loses.
LEMMA WholeLoss ==
    ASSUME NEW G, Graph(G), NEW e, e.kind # "contains", NEW p \in PrincipalIds(G), NEW r, FewPaths(G, e, p, r)
    PROVE  LossOf(G, e, p, r) = LossBy(G, e, p, r)
<1>1. p \in Ids(G)
  BY DEF PrincipalIds
<1>2. PermsAt(G, {}, p, r) = Held(G, p, r)
  <2>1. CASE PairPaths(G, {}, p, r) = {}
    BY <2>1, PathsGive DEF PermsAt
  <2>2. CASE PairPaths(G, {}, p, r) # {}
    BY <1>1, <2>2, EntryTells DEF PermsAt, EntryOf, CountAt, FewPaths
  <2>. QED
    BY <2>1, <2>2
<1>3. PermsAt(G, {e}, p, r) = Held(Without(G, e), p, r)
  <2>1. PICK paths : paths = PairPaths(G, {e}, p, r)
    OBVIOUS
  <2>2. paths = PairPaths(Without(G, e), {}, p, r)
    BY <2>1, WithoutPaths
  <2>3. (UNION {x.permissions : x \in paths}) = Held(Without(G, e), p, r)
    BY <2>2, PathsGive
  <2>4. Steps(Trimmed(G, paths)) = paths
    BY <1>1, <2>1, KeptWithout DEF CountAt, FewPaths
  <2>5. Entry(G, p, r, paths).permissions = UNION {x.permissions : x \in paths}
    BY <2>4 DEF Entry
  <2>6. CASE paths = {}
    BY <2>1, <2>3, <2>6 DEF PermsAt
  <2>7. CASE paths # {}
    BY <2>1, <2>3, <2>5, <2>7 DEF PermsAt
  <2>. QED
    BY <2>6, <2>7
<1>. QED
  BY <1>2, <1>3 DEF LossOf, LossBy

\* And the answer is what is lost.
LEMMA AnswerLost ==
    ASSUME NEW G, Graph(G), NEW e \in G.relationships, e.kind # "contains",
           \A p \in PrincipalIds(G) : \A r \in ResourceIds(G) : FewPaths(G, e, p, r)
    PROVE  Simulate(G, e).diff = Lost(G, e)
<1>1. FewAfter(G, e)
  BY DEF FewAfter, FewPaths
<1>2. Simulate(G, e) = WhatIfOf(FullMap(G, {}), FullMap(G, {e}))
  BY <1>1, SameAnswer
<1>3. Simulate(G, e).diff = Diff(FullMap(G, {}), FullMap(G, {e}))
  BY <1>2 DEF WhatIfOf
<1>4. ASSUME NEW d PROVE d \in Diff(FullMap(G, {}), FullMap(G, {e})) <=> d \in Lost(G, e)
  <2>1. d \in Diff(FullMap(G, {}), FullMap(G, {e})) <=>
          \E p \in PrincipalIds(G) : \E r \in ResourceIds(G) : IsLoss(G, e, p, r, d)
    BY InDiff DEF FullMap
  <2>2. \A p \in PrincipalIds(G) : \A r \in ResourceIds(G) : IsLoss(G, e, p, r, d) <=> IsLost(G, e, p, r, d)
    BY WholeLoss DEF IsLoss, IsLost
  <2>. QED
    BY <2>1, <2>2, InLost
<1>. QED
  BY <1>3, <1>4

\* What the entries of a map say of the pairs.
LEMMA CountsOfMap ==
    ASSUME NEW G, NEW I, NEW p \in PrincipalIds(G), NEW r \in ResourceIds(G)
    PROVE  \/ CountAt(G, I, p, r) = 0
           \/ \E entry \in FullMap(G, I) : /\ entry.count = CountAt(G, I, p, r)
                                           /\ entry.principal = p /\ entry.resource = r
<1>1. CASE PairPaths(G, I, p, r) = {}
  BY <1>1, FS_EmptySet DEF CountAt
<1>2. CASE PairPaths(G, I, p, r) # {}
  <2>1. PICK entry : entry = Entry(G, p, r, PairPaths(G, I, p, r))
    OBVIOUS
  <2>2. entry \in FullMap(G, I)
    BY <1>2, <2>1, InAccessMap DEF FullMap
  <2>3. entry.count = CountAt(G, I, p, r) /\ entry.principal = p /\ entry.resource = r
    BY <2>1 DEF Entry, CountAt
  <2>. QED
    BY <2>2, <2>3
<1>. QED
  BY <1>1, <1>2

\* A what-if answer and what is shown with it.
LEMMA WhatIfTells ==
    ASSUME NEW G, Graph(G), NEW e \in G.relationships
    PROVE  LET all == FullMap(G, {})
               after == FullMap(G, {e})
           IN  /\ (\A entry \in after : entry.count <= Kept \/ entry.resource \in Undenied(G))
                     => Simulate(G, e) = WhatIfOf(all, after)
               /\ FocusTells(G, e, Focus(Simulate(G, e).diff))
               /\ e.kind # "contains" /\ (\A entry \in all \cup after : entry.count <= Kept)
                     => Simulate(G, e).diff = Lost(G, e)
<1>0. 0 <= Kept
  BY PathAssumption
<1>1. ASSUME \A entry \in FullMap(G, {e}) : entry.count <= Kept \/ entry.resource \in Undenied(G)
      PROVE  Simulate(G, e) = WhatIfOf(FullMap(G, {}), FullMap(G, {e}))
  <2>1. ASSUME NEW p \in PrincipalIds(G), NEW r \in ResourceIds(G)
        PROVE  r \in Undenied(G) \/ CountAt(G, {e}, p, r) <= Kept
    <3>1. CASE CountAt(G, {e}, p, r) = 0
      BY <1>0, <3>1
    <3>2. CASE CountAt(G, {e}, p, r) # 0
      <4>1. PICK entry \in FullMap(G, {e}) : entry.count = CountAt(G, {e}, p, r) /\ entry.resource = r
        BY <3>2, CountsOfMap
      <4>. QED
        BY <1>1, <4>1
    <3>. QED
      BY <3>1, <3>2
  <2>2. FewAfter(G, e)
    BY <2>1 DEF FewAfter
  <2>. QED
    BY <2>2, SameAnswer
<1>2. ASSUME e.kind # "contains", \A entry \in FullMap(G, {}) \cup FullMap(G, {e}) : entry.count <= Kept
      PROVE  Simulate(G, e).diff = Lost(G, e)
  <2>1. ASSUME NEW p \in PrincipalIds(G), NEW r \in ResourceIds(G) PROVE FewPaths(G, e, p, r)
    <3>1. CountAt(G, {}, p, r) <= Kept
      BY <1>0, <1>2, CountsOfMap
    <3>2. CountAt(G, {e}, p, r) <= Kept
      BY <1>0, <1>2, CountsOfMap
    <3>. QED
      BY <3>1, <3>2 DEF FewPaths
  <2>. QED
    BY <1>2, <2>1, AnswerLost
<1>3. FocusTells(G, e, Focus(Simulate(G, e).diff))
  BY FocusShown
<1>. QED
  BY <1>1, <1>2, <1>3

------------------------------------------------------------------------------
(* The first of a set by their keys.                                       *)

\* Keys of two numbers are ordered by the first, then by the second.
LEMMA PairOrder ==
    ASSUME NEW a \in Int, NEW b \in Int, NEW c \in Int, NEW d \in Int
    PROVE  Precedes(<<a, b>>, <<c, d>>) <=> a < c \/ (a = c /\ b < d)
<1> DEFINE k1 == <<a, b>>
           k2 == <<c, d>>
<1>1. DOMAIN k1 = {1, 2} /\ k1[1] = a /\ k1[2] = b /\ k2[1] = c /\ k2[2] = d
  OBVIOUS
<1> HIDE DEF k1, k2
<1>2. Precedes(k1, k2) <=> \E n \in {1, 2} : k1[n] < k2[n] /\ \A m \in 1 .. n - 1 : k1[m] = k2[m]
  BY <1>1 DEF Precedes
<1>3. (\A m \in 1 .. 1 - 1 : k1[m] = k2[m]) /\ ((\A m \in 1 .. 2 - 1 : k1[m] = k2[m]) <=> k1[1] = k2[1])
  OBVIOUS
<1>4. Precedes(k1, k2) <=> a < c \/ (a = c /\ b < d)
  BY <1>1, <1>2, <1>3
<1>. QED
  BY <1>4 DEF k1, k2

\* What comes before x in descending order of keys.
Better(S, k, x) == {y \in S : Precedes(k[x], k[y])}

\* What is not among the n first of a set has n before it, and none of them has
\* a smaller first number in its key.
LEMMA TopsTell ==
    ASSUME NEW S, IsFiniteSet(S), NEW n \in Nat, NEW k, \A x \in S : k[x] \in Int \X Int,
           NEW x \in S, Cardinality(Better(S, k, x)) >= n
    PROVE  LET T == {y \in S : Cardinality(Better(S, k, y)) < n}
           IN  /\ IsFiniteSet(T) /\ Cardinality(T) >= n
               /\ \A s \in T : k[s][1] >= k[x][1]
<1> DEFINE T == {y \in S : Cardinality(Better(S, k, y)) < n}
<1>1. \A y \in S : IsFiniteSet(Better(S, k, y)) /\ Cardinality(Better(S, k, y)) \in Nat
  <2>1. \A y \in S : Better(S, k, y) \in SUBSET S
    BY DEF Better
  <2>. QED
    BY <2>1, FS_Subset, FS_CardinalityType
<1>2. ASSUME NEW y \in S, NEW z \in S
      PROVE  Precedes(k[y], k[z]) <=> k[y][1] < k[z][1] \/ (k[y][1] = k[z][1] /\ k[y][2] < k[z][2])
  <2>1. k[y] = <<k[y][1], k[y][2]>> /\ k[z] = <<k[z][1], k[z][2]>>
    OBVIOUS
  <2>2. k[y][1] \in Int /\ k[y][2] \in Int /\ k[z][1] \in Int /\ k[z][2] \in Int
    OBVIOUS
  <2>3. Precedes(<<k[y][1], k[y][2]>>, <<k[z][1], k[z][2]>>)
          <=> k[y][1] < k[z][1] \/ (k[y][1] = k[z][1] /\ k[y][2] < k[z][2])
    BY <2>2, PairOrder
  <2>. QED
    BY <2>1, <2>3
<1>3. \A y \in S : k[y][1] \in Int /\ k[y][2] \in Int
  OBVIOUS
<1>4. ASSUME NEW y \in S, NEW z \in S, Precedes(k[y], k[z])
      PROVE  Better(S, k, z) \subseteq Better(S, k, y) /\ z \in Better(S, k, y) /\ z \notin Better(S, k, z)
  BY <1>2, <1>3, <1>4 DEF Better
<1>5. IsFiniteSet(T) /\ T \subseteq S /\ Cardinality(T) \in Nat
  <2>1. T \in SUBSET S
    OBVIOUS
  <2> HIDE DEF T
  <2>. QED
    BY <2>1, FS_Subset, FS_CardinalityType
<1>6. Cardinality(T) >= n
  <2> SUFFICES ASSUME Cardinality(T) < n PROVE FALSE
    BY <1>5
  <2> DEFINE Out == S \ T
             sizes == {Cardinality(Better(S, k, y)) : y \in Out}
  <2>1. x \in Out
    BY <1>1
  <2>2. sizes \in SUBSET Nat /\ sizes # {}
    BY <1>1, <2>1
  <2>3. PICK least \in sizes : \A m \in sizes : least <= m
    BY <2>2, LeastNumber
  <2>4. PICK y \in Out : least = Cardinality(Better(S, k, y))
    BY <2>3
  <2>5. Better(S, k, y) \subseteq T
    <3> SUFFICES ASSUME NEW z \in Better(S, k, y), z \in Out PROVE FALSE
      BY DEF Better
    <3>1. z \in S /\ y \in S /\ Precedes(k[y], k[z])
      BY DEF Better
    <3>2. Better(S, k, z) \subseteq Better(S, k, y) /\ Better(S, k, z) # Better(S, k, y)
      BY <1>4, <3>1
    <3>3. /\ Cardinality(Better(S, k, z)) <= Cardinality(Better(S, k, y))
          /\ Cardinality(Better(S, k, y)) # Cardinality(Better(S, k, z))
      BY <1>1, <3>1, <3>2, FS_Subset
    <3>4. least <= Cardinality(Better(S, k, z))
      BY <2>3
    <3>. QED
      BY <1>1, <2>4, <3>1, <3>3, <3>4
  <2>6. Cardinality(Better(S, k, y)) <= Cardinality(T)
    <3> HIDE DEF T
    <3>. QED
      BY <1>5, <2>5, FS_Subset
  <2>7. y \in T
    BY <1>1, <1>5, <2>4, <2>6
  <2>. QED
    BY <2>4, <2>7
<1>7. ASSUME NEW s \in T, k[s][1] < k[x][1] PROVE FALSE
  <2>1. Better(S, k, x) \subseteq Better(S, k, s)
    BY <1>2, <1>4, <1>7
  <2>2. Cardinality(Better(S, k, x)) <= Cardinality(Better(S, k, s))
    BY <1>1, <2>1, FS_Subset
  <2>. QED
    BY <1>1, <2>2
<1>8. \A s \in T : k[s][1] >= k[x][1]
  BY <1>3, <1>7
<1>. QED
  BY <1>5, <1>6, <1>8

------------------------------------------------------------------------------
(* Rows and entries of a pair.                                             *)

\* The map has an entry for each pair that has a path.
LEMMA EntriesOfMap ==
    ASSUME NEW G, Graph(G)
    PROVE  /\ \A e \in FullMap(G, {}) :
                 /\ e.principal \in PrincipalIds(G) /\ e.resource \in ResourceIds(G)
                 /\ PairPaths(G, {}, e.principal, e.resource) # {}
                 /\ e = EntryOf(G, e.principal, e.resource)
           /\ \A p \in PrincipalIds(G), r \in ResourceIds(G) :
                 PairPaths(G, {}, p, r) # {} => EntryOf(G, p, r) \in FullMap(G, {})
<1>1. PrincipalIds(G) \subseteq Ids(G)
  BY DEF PrincipalIds
<1>2. ASSUME NEW e \in FullMap(G, {})
      PROVE  /\ e.principal \in PrincipalIds(G) /\ e.resource \in ResourceIds(G)
             /\ PairPaths(G, {}, e.principal, e.resource) # {}
             /\ e = EntryOf(G, e.principal, e.resource)
  <2>1. PICK p \in PrincipalIds(G), r \in ResourceIds(G) :
               PairPaths(G, {}, p, r) # {} /\ e = Entry(G, p, r, PairPaths(G, {}, p, r))
    BY <1>2, InAccessMap DEF FullMap
  <2>2. e = EntryOf(G, p, r) /\ e.principal = p /\ e.resource = r
    BY <1>1, <2>1, EntryTells DEF EntryOf
  <2>. QED
    BY <2>1, <2>2
<1>3. ASSUME NEW p \in PrincipalIds(G), NEW r \in ResourceIds(G), PairPaths(G, {}, p, r) # {}
      PROVE  EntryOf(G, p, r) \in FullMap(G, {})
  BY <1>3, InAccessMap DEF FullMap, EntryOf
<1>. QED
  BY <1>2, <1>3

\* The row that AccessGraph gives a pair.
RowOf(G, p, r) == AccessRow(G, p, Reach(G, p), r)

\* The index has a row for each pair that has a path.
LEMMA RowsOfIndex ==
    ASSUME NEW G
    PROVE  /\ \A row \in AccessIndex(G) :
                 /\ row.principal \in PrincipalIds(G) /\ row.resource \in ResourceIds(G)
                 /\ PairPaths(G, {}, row.principal, row.resource) # {}
                 /\ row = RowOf(G, row.principal, row.resource)
                 /\ row.permissions = Held(G, row.principal, row.resource)
           /\ \A p \in PrincipalIds(G), r \in ResourceIds(G) :
                 PairPaths(G, {}, p, r) # {} => RowOf(G, p, r) \in AccessIndex(G)
<1>1. ASSUME NEW row \in AccessIndex(G)
      PROVE  /\ row.principal \in PrincipalIds(G) /\ row.resource \in ResourceIds(G)
             /\ PairPaths(G, {}, row.principal, row.resource) # {}
             /\ row = RowOf(G, row.principal, row.resource)
             /\ row.permissions = Held(G, row.principal, row.resource)
  <2>1. PICK p \in PrincipalIds(G), r \in ResourceIds(G) :
               EffectiveGrants(G, Reach(G, p), r) # {} /\ row = AccessRow(G, p, Reach(G, p), r)
    BY <1>1, InAccessScope DEF AccessIndex
  <2>2. row.principal = p /\ row.resource = r /\ row.permissions = Held(G, p, r)
    BY <2>1, RowHolds
  <2>3. PairPaths(G, {}, p, r) # {}
    BY <2>1, PathsGive
  <2>. QED
    BY <2>1, <2>2, <2>3 DEF RowOf
<1>2. ASSUME NEW p \in PrincipalIds(G), NEW r \in ResourceIds(G), PairPaths(G, {}, p, r) # {}
      PROVE  RowOf(G, p, r) \in AccessIndex(G)
  <2>1. EffectiveGrants(G, Reach(G, p), r) # {}
    BY <1>2, PathsGive
  <2>. QED
    BY <2>1, InAccessScope DEF AccessIndex, RowOf
<1>. QED
  BY <1>1, <1>2

\* An entry tells no permission that is not held, and all if all paths are kept.
LEMMA EntryHolds ==
    ASSUME NEW G, Graph(G), NEW p \in PrincipalIds(G), NEW r
    PROVE  /\ EntryOf(G, p, r).permissions \subseteq Held(G, p, r)
           /\ EntryOf(G, p, r).principal = p /\ EntryOf(G, p, r).resource = r
           /\ EntryOf(G, p, r).count = CountAt(G, {}, p, r)
           /\ EntryOf(G, p, r).paths = Trimmed(G, PairPaths(G, {}, p, r))
           /\ CountAt(G, {}, p, r) <= Kept => EntryOf(G, p, r).permissions = Held(G, p, r)
<1>1. p \in Ids(G)
  BY DEF PrincipalIds
<1>. QED
  BY <1>1, EntryTells DEF CountAt

\* The map and the index have the same pairs, and say the same of a pair all of
\* whose paths are kept.
LEMMA MapTellsIndex ==
    ASSUME NEW G, Graph(G)
    PROVE  /\ PairsOf(FullMap(G, {})) = {<<row.principal, row.resource>> : row \in AccessIndex(G)}
           /\ \A entry \in FullMap(G, {}), row \in AccessIndex(G) :
                 entry.principal = row.principal /\ entry.resource = row.resource =>
                    /\ entry.permissions \subseteq row.permissions
                    /\ entry.count <= Kept => entry.permissions = row.permissions
<1>1. ASSUME NEW z PROVE z \in PairsOf(FullMap(G, {})) <=> \E row \in AccessIndex(G) : z = <<row.principal, row.resource>>
  <2>1. z \in PairsOf(FullMap(G, {})) <=> \E e \in FullMap(G, {}) : z = <<e.principal, e.resource>>
    BY DEF PairsOf
  <2>2. ASSUME NEW e \in FullMap(G, {}), z = <<e.principal, e.resource>>
        PROVE  \E row \in AccessIndex(G) : z = <<row.principal, row.resource>>
    <3>1. RowOf(G, e.principal, e.resource) \in AccessIndex(G)
      BY EntriesOfMap, RowsOfIndex
    <3>2. /\ RowOf(G, e.principal, e.resource).principal = e.principal
          /\ RowOf(G, e.principal, e.resource).resource = e.resource
      BY RowHolds DEF RowOf
    <3>. QED
      BY <2>2, <3>1, <3>2
  <2>3. ASSUME NEW row \in AccessIndex(G), z = <<row.principal, row.resource>>
        PROVE  \E e \in FullMap(G, {}) : z = <<e.principal, e.resource>>
    <3>1. EntryOf(G, row.principal, row.resource) \in FullMap(G, {})
      BY EntriesOfMap, RowsOfIndex
    <3>2. /\ EntryOf(G, row.principal, row.resource).principal = row.principal
          /\ EntryOf(G, row.principal, row.resource).resource = row.resource
      BY EntryHolds, RowsOfIndex
    <3>. QED
      BY <2>3, <3>1, <3>2
  <2>. QED
    BY <2>1, <2>2, <2>3
<1>2. ASSUME NEW entry \in FullMap(G, {}), NEW row \in AccessIndex(G),
             entry.principal = row.principal, entry.resource = row.resource
      PROVE  /\ entry.permissions \subseteq row.permissions
             /\ entry.count <= Kept => entry.permissions = row.permissions
  <2>1. /\ row.permissions = Held(G, row.principal, row.resource)
        /\ entry = EntryOf(G, row.principal, row.resource) /\ row.principal \in PrincipalIds(G)
    BY <1>2, EntriesOfMap, RowsOfIndex
  <2>. QED
    BY <2>1, EntryHolds
<1>3. PairsOf(FullMap(G, {})) = {<<row.principal, row.resource>> : row \in AccessIndex(G)}
  BY <1>1
<1>. QED
  BY <1>2, <1>3

\* There are finitely many entries.
LEMMA MapFinite ==
    ASSUME NEW G, Graph(G)
    PROVE  IsFiniteSet(FullMap(G, {})) /\ IsFiniteSet(PrincipalIds(G)) /\ IsFiniteSet(ResourceIds(G))
<1>1. IsFiniteSet(Ids(G))
  BY FiniteAssumption, FS_Subset DEF Graph, WellFormed
<1>2. PrincipalIds(G) \in SUBSET Ids(G) /\ ResourceIds(G) \in SUBSET Ids(G)
  BY DEF PrincipalIds, ResourceIds
<1>3. IsFiniteSet(PrincipalIds(G)) /\ IsFiniteSet(ResourceIds(G))
  BY <1>1, <1>2, FS_Subset
<1> DEFINE S == FullMap(G, {})
           T == PrincipalIds(G) \X ResourceIds(G)
           f == [e \in S |-> <<e.principal, e.resource>>]
<1>4. IsFiniteSet(T)
  BY <1>3, FS_Product
<1>5. \A e \in S : f[e] \in T
  BY EntriesOfMap
<1>6. \A x, y \in S : f[x] = f[y] => x = y
  <2> SUFFICES ASSUME NEW x \in S, NEW y \in S, f[x] = f[y] PROVE x = y
    OBVIOUS
  <2>1. x.principal = y.principal /\ x.resource = y.resource
    OBVIOUS
  <2>2. x = EntryOf(G, x.principal, x.resource) /\ y = EntryOf(G, y.principal, y.resource)
    BY EntriesOfMap
  <2>. QED
    BY <2>1, <2>2
<1>7. DOMAIN f = S /\ f = [x \in S |-> f[x]]
  OBVIOUS
<1> HIDE DEF S, T, f
<1>8. IsFiniteSet(S)
  BY <1>4, <1>5, <1>6, <1>7, Matched
<1>. QED
  BY <1>3, <1>8 DEF S

------------------------------------------------------------------------------
(* The hotspots.                                                           *)

PrivilegedRows(rows, r) == {x \in rows : x.resource = r /\ IsPrivileged(x)}

\* Where all paths are kept, as many entries of a resource are privileged as rows.
LEMMA SameExposure ==
    ASSUME NEW G, Graph(G), NEW r \in ResourceIds(G), \A p \in PrincipalIds(G) : Whole(G, p, r)
    PROVE  Cardinality(PrivilegedRows(AccessIndex(G), r)) = Cardinality(PrivilegedRows(FullMap(G, {}), r))
<1> DEFINE A == PrivilegedRows(AccessIndex(G), r)
           B == PrivilegedRows(FullMap(G, {}), r)
           f == [x \in A |-> EntryOf(G, x.principal, r)]
           g == [e \in B |-> RowOf(G, e.principal, r)]
<1>1. \A p \in PrincipalIds(G) : CountAt(G, {}, p, r) <= Kept
  BY DEF Whole, CountAt
<1>2. ASSUME NEW x \in A
      PROVE  f[x] \in B /\ f[x].principal = x.principal /\ x = RowOf(G, x.principal, r)
  <2>1. x \in AccessIndex(G) /\ x.resource = r /\ IsPrivileged(x)
    BY DEF PrivilegedRows
  <2>2. /\ x.principal \in PrincipalIds(G) /\ PairPaths(G, {}, x.principal, r) # {}
        /\ x = RowOf(G, x.principal, r) /\ x.permissions = Held(G, x.principal, r)
    BY <2>1, RowsOfIndex
  <2>3. EntryOf(G, x.principal, r) \in FullMap(G, {})
    BY <2>2, EntriesOfMap
  <2>4. /\ EntryOf(G, x.principal, r).permissions = Held(G, x.principal, r)
        /\ EntryOf(G, x.principal, r).principal = x.principal /\ EntryOf(G, x.principal, r).resource = r
    BY <1>1, <2>2, EntryHolds
  <2>5. IsPrivileged(EntryOf(G, x.principal, r))
    BY <2>1, <2>2, <2>4 DEF IsPrivileged
  <2>. QED
    BY <2>2, <2>3, <2>4, <2>5 DEF PrivilegedRows
<1>3. ASSUME NEW e \in B
      PROVE  g[e] \in A /\ g[e].principal = e.principal /\ e = EntryOf(G, e.principal, r)
  <2>1. e \in FullMap(G, {}) /\ e.resource = r /\ IsPrivileged(e)
    BY DEF PrivilegedRows
  <2>2. /\ e.principal \in PrincipalIds(G) /\ PairPaths(G, {}, e.principal, r) # {}
        /\ e = EntryOf(G, e.principal, r)
    BY <2>1, EntriesOfMap
  <2>3. e.permissions = Held(G, e.principal, r)
    BY <1>1, <2>2, EntryHolds
  <2>4. RowOf(G, e.principal, r) \in AccessIndex(G)
    BY <2>2, RowsOfIndex
  <2>5. /\ RowOf(G, e.principal, r).permissions = Held(G, e.principal, r)
        /\ RowOf(G, e.principal, r).principal = e.principal /\ RowOf(G, e.principal, r).resource = r
    BY RowHolds DEF RowOf
  <2>6. IsPrivileged(RowOf(G, e.principal, r))
    BY <2>1, <2>3, <2>5 DEF IsPrivileged
  <2>. QED
    BY <2>2, <2>4, <2>5, <2>6 DEF PrivilegedRows
<1>4. DOMAIN f = A /\ f = [x \in A |-> f[x]] /\ DOMAIN g = B /\ g = [e \in B |-> g[e]]
  OBVIOUS
<1>5. B \in SUBSET FullMap(G, {})
  BY DEF PrivilegedRows
<1> HIDE DEF A, B, f, g
<1>6. IsFiniteSet(B)
  BY <1>5, MapFinite, FS_Subset
<1>7. \A x, y \in A : f[x] = f[y] => x = y
  BY <1>2
<1>8. \A x, y \in B : g[x] = g[y] => x = y
  BY <1>3
<1>9. IsFiniteSet(A) /\ Cardinality(A) <= Cardinality(B)
  BY <1>2, <1>4, <1>6, <1>7, Matched
<1>10. Cardinality(B) <= Cardinality(A)
  BY <1>3, <1>4, <1>8, <1>9, Matched
<1>11. Cardinality(A) \in Nat /\ Cardinality(B) \in Nat
  BY <1>6, <1>9, FS_CardinalityType
<1>12. Cardinality(A) = Cardinality(B)
  BY <1>9, <1>10, <1>11
<1>. QED
  BY <1>12 DEF A, B

DelegatedRows(rows, r) == {e \in rows : e.resource = r /\ "Delegated" \in e.modes}
SpotOf(rows, r) ==
    [resource   |-> r, privileged |-> Cardinality(PrivilegedRows(rows, r)),
     delegated  |-> Cardinality(DelegatedRows(rows, r))]

\* The hotspots are spots of resources.
LEMMA HotspotsAre ==
    ASSUME NEW G, Graph(G)
    PROVE  /\ IsFiniteSet(Hotspots(G, FullMap(G, {})))
           /\ \A s \in Hotspots(G, FullMap(G, {})) :
                 /\ s.resource \in ResourceIds(G) /\ s = SpotOf(FullMap(G, {}), s.resource)
                 /\ s.privileged \in Nat /\ s.delegated \in Nat
           /\ \A r \in ResourceIds(G) :
                 SpotOf(FullMap(G, {}), r).privileged > 0 => SpotOf(FullMap(G, {}), r) \in Hotspots(G, FullMap(G, {}))
<1> DEFINE map == FullMap(G, {})
           S == Hotspots(G, map)
<1>1. IsFiniteSet(map)
  BY MapFinite
<1>2. \A r : Cardinality(PrivilegedRows(map, r)) \in Nat /\ Cardinality(DelegatedRows(map, r)) \in Nat
  <2> HIDE DEF map
  <2>1. \A r : PrivilegedRows(map, r) \in SUBSET map /\ DelegatedRows(map, r) \in SUBSET map
    BY DEF PrivilegedRows, DelegatedRows
  <2>. QED
    BY <1>1, <2>1, FS_Subset, FS_CardinalityType
<1>3. ASSUME NEW s
      PROVE  s \in S <=> \E r \in ResourceIds(G) : s = SpotOf(map, r) /\ s.privileged + s.delegated > 0
  <2> HIDE DEF map
  <2>. QED
    BY DEF Hotspots, SpotOf, PrivilegedRows, DelegatedRows
<1>4. \A r : /\ SpotOf(map, r).resource = r /\ SpotOf(map, r).privileged \in Nat
             /\ SpotOf(map, r).delegated \in Nat
  BY <1>2 DEF SpotOf
<1> HIDE DEF map
<1>5. \A s \in S : /\ s.resource \in ResourceIds(G) /\ s = SpotOf(map, s.resource)
                   /\ s.privileged \in Nat /\ s.delegated \in Nat
  BY <1>3, <1>4
<1>6. \A r \in ResourceIds(G) : SpotOf(map, r).privileged > 0 => SpotOf(map, r) \in S
  BY <1>3, <1>4
<1>7. IsFiniteSet(S)
  <2> DEFINE f == [s \in S |-> s.resource]
  <2>1. DOMAIN f = S /\ f = [x \in S |-> f[x]]
    OBVIOUS
  <2>2. (\A s \in S : f[s] \in ResourceIds(G)) /\ \A x, y \in S : f[x] = f[y] => x = y
    BY <1>5
  <2> HIDE DEF f, S
  <2>. QED
    BY <2>1, <2>2, MapFinite, Matched
<1>. QED
  BY <1>5, <1>6, <1>7 DEF map

\* The overview shows the hotspots of the exposure index.
LEMMA HotspotsTell ==
    ASSUME NEW G, Graph(G), NEW row \in ExposureIndex(AccessIndex(G)),
           \A p \in PrincipalIds(G) : Whole(G, p, row.resource)
    PROVE  LET top == TopHotspots(G, FullMap(G, {}))
               shown == {s \in top : s.resource = row.resource}
           IN  IF shown # {} THEN \A s \in shown : s.privileged = row.privileged
               ELSE \/ row.privileged = 0
                    \/ /\ Cardinality(top) >= ShownSpots
                       /\ \A s \in top :
                             Exposure(G, s) >= Exposure(G, [s EXCEPT !.resource = row.resource,
                                                                     !.privileged = row.privileged, !.delegated = 0])
<1> DEFINE map == FullMap(G, {})
           S == Hotspots(G, map)
           r == row.resource
           top == TopHotspots(G, map)
           k == [s \in S |-> <<Exposure(G, s), - NameRank[s.resource]>>]
<1>1. PICK q \in {x.resource : x \in AccessIndex(G)} :
             row = [resource |-> q, principals |-> Cardinality({x \in AccessIndex(G) : x.resource = q}),
                    privileged |-> Cardinality({x \in AccessIndex(G) : x.resource = q /\ IsPrivileged(x)})]
  BY DEF ExposureIndex
<1>2. r \in ResourceIds(G) /\ row.privileged = Cardinality(PrivilegedRows(AccessIndex(G), r))
  BY <1>1, RowsOfIndex DEF PrivilegedRows
<1>3. row.privileged = SpotOf(map, r).privileged
  BY <1>2, SameExposure DEF SpotOf
<1>4. /\ IsFiniteSet(S)
      /\ \A s \in S : /\ s.resource \in ResourceIds(G) /\ s = SpotOf(map, s.resource)
                      /\ s.privileged \in Nat /\ s.delegated \in Nat
      /\ SpotOf(map, r).privileged > 0 => SpotOf(map, r) \in S
  BY <1>2, HotspotsAre
<1>5. \A x \in ResourceIds(G) : NameRank[x] \in Nat /\ G.entities[x].label \in Nat
  BY InsightAssumption, PathAssumption DEF Graph, WellFormed, ResourceIds, Ids
<1>6. \A s \in S : Exposure(G, s) \in Int /\ - NameRank[s.resource] \in Int
  BY <1>4, <1>5 DEF Exposure
<1>7. \A s \in S : k[s] \in Int \X Int /\ k[s][1] = Exposure(G, s)
  BY <1>6
<1>8. top = {y \in S : Cardinality(Better(S, k, y)) < ShownSpots}
  <2>1. \A x \in S : {y \in S : Precedes(<<Exposure(G, x), - NameRank[x.resource]>>,
                                         <<Exposure(G, y), - NameRank[y.resource]>>)} = Better(S, k, x)
    BY DEF Better
  <2>2. top = {x \in S : Cardinality({y \in S : Precedes(<<Exposure(G, x), - NameRank[x.resource]>>,
                                        <<Exposure(G, y), - NameRank[y.resource]>>)}) < ShownSpots}
    BY DEF TopHotspots, Tops
  <2> HIDE DEF S, k, top
  <2>. QED
    BY <2>1, <2>2
<1>9. ASSUME NEW s \in top, s.resource = r PROVE s.privileged = row.privileged
  BY <1>3, <1>4, <1>8, <1>9
<1>10. ASSUME \A s \in top : s.resource # r, row.privileged # 0
       PROVE  /\ Cardinality(top) >= ShownSpots
              /\ \A s \in top : Exposure(G, s) >= Exposure(G, [s EXCEPT !.resource = r,
                                                        !.privileged = row.privileged, !.delegated = 0])
  <2> DEFINE spot == SpotOf(map, r)
  <2>1. spot.privileged \in Nat /\ spot.resource = r
    <3>1. PrivilegedRows(map, r) \in SUBSET map /\ IsFiniteSet(map)
      BY MapFinite DEF PrivilegedRows
    <3>. QED
      BY <3>1, FS_Subset, FS_CardinalityType DEF SpotOf
  <2>2. spot \in S /\ spot \notin top
    BY <1>3, <1>4, <1>10, <2>1
  <2> HIDE DEF spot
  <2>3. Better(S, k, spot) \in SUBSET S
    BY DEF Better
  <2>4. Cardinality(Better(S, k, spot)) \in Nat
    BY <1>4, <2>3, FS_Subset, FS_CardinalityType
  <2>5. ShownSpots \in Nat
    BY InsightAssumption
  <2>6. Cardinality(Better(S, k, spot)) >= ShownSpots
    BY <1>8, <2>2, <2>4, <2>5
  <2> HIDE DEF S, k, top, map
  <2>7. Cardinality(top) >= ShownSpots /\ \A s \in top : k[s][1] >= k[spot][1]
    BY <1>4, <1>7, <1>8, <2>2, <2>5, <2>6, TopsTell
  <2>8. ASSUME NEW s \in top
        PROVE  Exposure(G, s) >= Exposure(G, [s EXCEPT !.resource = r, !.privileged = row.privileged, !.delegated = 0])
    <3>1. s \in S /\ s = SpotOf(map, s.resource)
      BY <1>4, <1>8
    <3> DEFINE other == [s EXCEPT !.resource = r, !.privileged = row.privileged, !.delegated = 0]
    <3>2. other.resource = r /\ other.privileged = row.privileged /\ other.delegated = 0
      BY <3>1 DEF SpotOf
    <3> HIDE DEF other
    <3>3. spot.privileged = row.privileged /\ spot.delegated \in Nat /\ spot.resource = r
      BY <1>3, <1>4, <2>1, <2>2 DEF spot
    <3>4. Exposure(G, spot) >= Exposure(G, other)
      BY <1>2, <1>5, <2>1, <3>2, <3>3 DEF Exposure
    <3>5. Exposure(G, other) \in Int
      BY <1>2, <1>5, <2>1, <3>2, <3>3 DEF Exposure
    <3>6. Exposure(G, s) >= Exposure(G, spot)
      BY <1>7, <2>2, <2>7, <3>1
    <3>7. Exposure(G, s) >= Exposure(G, other)
      BY <1>6, <2>2, <3>1, <3>4, <3>5, <3>6
    <3>. QED
      BY <3>7 DEF other
  <2>. QED
    BY <2>7, <2>8
<1>. QED
  BY <1>9, <1>10

------------------------------------------------------------------------------
(* The scenarios.                                                          *)

\* Who is not among the touched pairs loses nothing.
LEMMA HeldWithout ==
    ASSUME NEW G, Graph(G), NEW e, e.kind # "contains", NEW p \in PrincipalIds(G), NEW r,
           ~ (p \in ImpactedPrincipals(G, e) /\ r \in ImpactedResources(G, e))
    PROVE  Held(G, p, r) \subseteq Held(Without(G, e), p, r)
<1>1. ASSUME NEW x \in PairPaths(G, {}, p, r)
      PROVE  \E y \in PairPaths(G, {e}, p, r) : x.permissions \subseteq y.permissions
  <2>1. \E y \in PairPaths(G, {e}, p, r) : y.edges = x.edges /\ x.permissions \subseteq y.permissions
    BY PathsStay
  <2>. QED
    BY <2>1
<1>2. PairPaths(G, {e}, p, r) = PairPaths(Without(G, e), {}, p, r)
  BY WithoutPaths
<1>3. /\ Held(G, p, r) = UNION {path.permissions : path \in PairPaths(G, {}, p, r)}
      /\ Held(Without(G, e), p, r) = UNION {path.permissions : path \in PairPaths(Without(G, e), {}, p, r)}
  BY PathsGive
<1>. QED
  BY <1>1, <1>2, <1>3

\* Scenarios are of edges.
LEMMA ScenariosAre ==
    ASSUME NEW G, Graph(G)
    PROVE  /\ IsFiniteSet(Scenarios(G))
           /\ \A s \in Scenarios(G) :
                 /\ s.edge \in G.relationships /\ s = Scenario(G, s.edge)
                 /\ Cardinality(s.principals) \in Nat
           /\ \A e \in G.relationships :
                 /\ Scenario(G, e).edge = e /\ Scenario(G, e).principals = ImpactedPrincipals(G, e)
                 /\ Scenario(G, e).resources = ImpactedResources(G, e)
                 /\ e.removable /\ ImpactedPrincipals(G, e) # {} => Scenario(G, e) \in Scenarios(G)
<1> DEFINE S == Scenarios(G)
<1>1. \A e : /\ Scenario(G, e).edge = e /\ Scenario(G, e).principals = ImpactedPrincipals(G, e)
             /\ Scenario(G, e).resources = ImpactedResources(G, e)
  BY DEF Scenario
<1>2. \A s : s \in S <=> \E e \in G.relationships :
                            e.removable /\ ImpactedPrincipals(G, e) # {} /\ s = Scenario(G, e)
  BY DEF Scenarios
<1> HIDE DEF S
<1>3. ASSUME NEW s \in S
      PROVE  s.edge \in G.relationships /\ s = Scenario(G, s.edge) /\ Cardinality(s.principals) \in Nat
  <2>1. PICK e \in G.relationships : s = Scenario(G, e)
    BY <1>2
  <2>2. s.edge = e /\ s.principals = ImpactedPrincipals(G, e)
    BY <1>1, <2>1
  <2>3. ImpactedPrincipals(G, e) \in SUBSET PrincipalIds(G)
    BY TouchedIds DEF Graph
  <2>4. Cardinality(ImpactedPrincipals(G, e)) \in Nat
    BY <2>3, MapFinite, FS_Subset, FS_CardinalityType
  <2>. QED
    BY <2>1, <2>2, <2>4
<1>4. IsFiniteSet(S)
  <2> DEFINE f == [s \in S |-> s.edge]
  <2>1. DOMAIN f = S /\ f = [x \in S |-> f[x]]
    OBVIOUS
  <2>2. (\A s \in S : f[s] \in G.relationships) /\ \A x, y \in S : f[x] = f[y] => x = y
    BY <1>3
  <2> HIDE DEF f
  <2>. QED
    BY <2>1, <2>2, Matched DEF Graph
<1>. QED
  BY <1>1, <1>2, <1>3, <1>4 DEF S

\* A loss is that of a touched pair.
LEMMA LostTouched ==
    ASSUME NEW G, Graph(G), NEW e, e.kind # "contains", NEW d \in Lost(G, e)
    PROVE  d.principal \in ImpactedPrincipals(G, e) /\ d.resource \in ImpactedResources(G, e)
<1>1. PICK p \in PrincipalIds(G), r \in ResourceIds(G) : IsLost(G, e, p, r, d)
  BY InLost
<1>2. d.principal = p /\ d.resource = r /\ Held(G, p, r) \ Held(Without(G, e), p, r) # {}
  BY <1>1 DEF IsLost, LossBy
<1>. QED
  BY <1>2, HeldWithout

\* The overview offers the edges whose removal takes access.
LEMMA ScenariosTell ==
    ASSUME NEW G, Graph(G), NEW e \in G.relationships, e.removable, e.kind # "contains", Lost(G, e) # {}
    PROVE  LET top == TopScenarios(G)
               losers == {d.principal : d \in Lost(G, e)}
               offered == {s \in top : s.edge = e}
           IN  IF offered # {}
               THEN \A s \in offered : losers \subseteq s.principals /\ {d.resource : d \in Lost(G, e)} \subseteq s.resources
               ELSE /\ Cardinality(top) >= ShownScenarios
                    /\ \A s \in top : Cardinality(s.principals) >= Cardinality(losers)
<1> DEFINE S == Scenarios(G)
           top == TopScenarios(G)
           losers == {d.principal : d \in Lost(G, e)}
           k == [s \in S |-> <<Cardinality(s.principals), - s.edge.id>>]
           own == Scenario(G, e)
<1>1. losers \subseteq ImpactedPrincipals(G, e) /\ {d.resource : d \in Lost(G, e)} \subseteq ImpactedResources(G, e)
  BY LostTouched
<1>2. /\ IsFiniteSet(S)
      /\ \A s \in S : s.edge \in G.relationships /\ s = Scenario(G, s.edge) /\ Cardinality(s.principals) \in Nat
  BY ScenariosAre
<1>3. /\ own \in S /\ own.edge = e /\ own.principals = ImpactedPrincipals(G, e)
      /\ own.resources = ImpactedResources(G, e)
  <2>1. losers # {}
    OBVIOUS
  <2>2. ImpactedPrincipals(G, e) # {}
    BY <1>1, <2>1
  <2>. QED
    BY <2>2, ScenariosAre
<1>4. \A rel \in G.relationships : rel.id \in Nat
  BY WorldAssumption DEF Graph, WellFormed
<1>5. \A s \in S : k[s] \in Int \X Int /\ k[s][1] = Cardinality(s.principals)
  BY <1>2, <1>4
<1>6. top = {y \in S : Cardinality(Better(S, k, y)) < ShownScenarios}
  <2>1. \A x \in S : {y \in S : Precedes(<<Cardinality(x.principals), - x.edge.id>>,
                                         <<Cardinality(y.principals), - y.edge.id>>)} = Better(S, k, x)
    BY DEF Better
  <2>2. top = {x \in S : Cardinality({y \in S : Precedes(<<Cardinality(x.principals), - x.edge.id>>,
                                         <<Cardinality(y.principals), - y.edge.id>>)}) < ShownScenarios}
    BY DEF TopScenarios, Tops
  <2> HIDE DEF S, k, top
  <2>. QED
    BY <2>1, <2>2
<1>7. ASSUME NEW s \in top, s.edge = e
      PROVE  losers \subseteq s.principals /\ {d.resource : d \in Lost(G, e)} \subseteq s.resources
  <2>1. s = own
    BY <1>2, <1>6, <1>7
  <2>. QED
    BY <1>1, <1>3, <2>1
<1>8. ASSUME \A s \in top : s.edge # e
      PROVE  /\ Cardinality(top) >= ShownScenarios
             /\ \A s \in top : Cardinality(s.principals) >= Cardinality(losers)
  <2>1. own \notin top
    BY <1>3, <1>8
  <2>2. ShownScenarios \in Nat
    BY InsightAssumption
  <2> HIDE DEF S, k, top, own, losers
  <2>3. Better(S, k, own) \in SUBSET S
    BY DEF Better
  <2>4. Cardinality(Better(S, k, own)) \in Nat
    BY <1>2, <2>3, FS_Subset, FS_CardinalityType
  <2>5. Cardinality(Better(S, k, own)) >= ShownScenarios
    BY <1>3, <1>6, <2>1, <2>2, <2>4
  <2>6. Cardinality(top) >= ShownScenarios /\ \A s \in top : k[s][1] >= k[own][1]
    BY <1>2, <1>3, <1>5, <1>6, <2>2, <2>5, TopsTell
  <2>7. Cardinality(losers) <= Cardinality(own.principals) /\ Cardinality(losers) \in Nat
    <3>1. ImpactedPrincipals(G, e) \in SUBSET PrincipalIds(G)
      BY TouchedIds DEF Graph
    <3>2. IsFiniteSet(ImpactedPrincipals(G, e))
      BY <3>1, MapFinite, FS_Subset
    <3>3. losers \in SUBSET ImpactedPrincipals(G, e)
      BY <1>1
    <3>. QED
      BY <1>3, <3>2, <3>3, FS_Subset, FS_CardinalityType
  <2>8. \A s \in top : Cardinality(s.principals) >= Cardinality(own.principals)
    BY <1>3, <1>5, <1>6, <2>6
  <2>9. \A s \in top : Cardinality(s.principals) \in Nat
    BY <1>2, <1>6
  <2>10. Cardinality(own.principals) \in Nat
    BY <1>2, <1>3
  <2>. QED
    BY <2>6, <2>7, <2>8, <2>9, <2>10
<1>. QED
  BY <1>7, <1>8

------------------------------------------------------------------------------
(* Groups that are nested.                                                 *)

\* The groups of a layer of the closure are those of the one before and of one
\* edge more.
LEMMA GroupLayerStep ==
    ASSUME NEW G, NEW a, NEW k \in 1..8
    PROVE  /\ GroupLayers(G, a)[1] = {a}
           /\ k + 1 \in 1..9
           /\ GroupLayers(G, a)[k + 1] = GroupWiden(G, GroupLayers(G, a)[k])
           /\ GroupLayers(G, a)[k] \subseteq GroupLayers(G, a)[k + 1]
<1> DEFINE l1 == GroupWiden(G, {a})
           l2 == GroupWiden(G, l1)
           l3 == GroupWiden(G, l2)
           l4 == GroupWiden(G, l3)
           l5 == GroupWiden(G, l4)
           l6 == GroupWiden(G, l5)
           l7 == GroupWiden(G, l6)
           l8 == GroupWiden(G, l7)
<1>1. /\ l1 = GroupWiden(G, {a}) /\ l2 = GroupWiden(G, l1) /\ l3 = GroupWiden(G, l2) /\ l4 = GroupWiden(G, l3)
      /\ l5 = GroupWiden(G, l4) /\ l6 = GroupWiden(G, l5) /\ l7 = GroupWiden(G, l6) /\ l8 = GroupWiden(G, l7)
  OBVIOUS
<1> HIDE DEF l1, l2, l3, l4, l5, l6, l7, l8
<1>2. GroupLayers(G, a) = <<{a}, l1, l2, l3, l4, l5, l6, l7, l8>>
  BY DEF GroupLayers, l1, l2, l3, l4, l5, l6, l7, l8
<1>3. k \in {1, 2, 3, 4, 5, 6, 7, 8}
  OBVIOUS
<1>4. GroupLayers(G, a)[k + 1] = GroupWiden(G, GroupLayers(G, a)[k])
  BY <1>1, <1>2, <1>3
<1>5. \A S : S \subseteq GroupWiden(G, S)
  BY DEF GroupWiden
<1>. QED
  BY <1>2, <1>4, <1>5

\* Later layers hold the earlier ones.
LEMMA GroupLayersGrow ==
    ASSUME NEW G, NEW a, NEW k \in 1..9, NEW n \in k..9
    PROVE  GroupLayers(G, a)[k] \subseteq GroupLayers(G, a)[n]
<1> DEFINE L == GroupLayers(G, a)
<1>1. /\ L[1] \subseteq L[2] /\ L[2] \subseteq L[3] /\ L[3] \subseteq L[4] /\ L[4] \subseteq L[5]
      /\ L[5] \subseteq L[6] /\ L[6] \subseteq L[7] /\ L[7] \subseteq L[8] /\ L[8] \subseteq L[9]
  <2> HIDE DEF L
  <2>1. ASSUME NEW m \in 1..8 PROVE L[m] \subseteq L[m + 1]
    BY GroupLayerStep DEF L
  <2>. QED
    BY <2>1, 1 + 1 = 2, 2 + 1 = 3, 3 + 1 = 4, 4 + 1 = 5, 5 + 1 = 6, 6 + 1 = 7, 7 + 1 = 8, 8 + 1 = 9
<1> HIDE DEF L
<1>2. k \in {1, 2, 3, 4, 5, 6, 7, 8, 9} /\ n \in {1, 2, 3, 4, 5, 6, 7, 8, 9} /\ k <= n
  OBVIOUS
<1>3. L[k] \subseteq L[n]
  <2> SUFFICES ASSUME NEW x \in L[k] PROVE x \in L[n]
    OBVIOUS
  <2>. QED
    BY <1>1, <1>2
<1>. QED
  BY <1>3 DEF L

\* A path of k edges from group to group that stays within the layers.
GroupVia(G, p, via, k) ==
    /\ via \in Seq(G.relationships) /\ Len(via) = k
    /\ \A n \in 1 .. k : via[n].kind \in GROUP_KINDS
    /\ {p} \cup {y.target : y \in Steps(via)} \subseteq GroupLayers(G, p)[k + 1]

\* A group that is k steps away, and no less.
Away(G, p, g, k) == g \in GroupLayers(G, p)[k + 1] /\ (k > 0 => g \notin GroupLayers(G, p)[k])
HasVia(G, p, g, k) == \E via \in Levels(G, {}, p)[k + 1] : GroupVia(G, p, via, k) /\ End(p, via) = g

\* A path to a group gets longer by a group that is one step further away.
LEMMA LongerVia ==
    ASSUME NEW G, NEW p, NEW k \in 0 .. 7, \A a : Away(G, p, a, k) => HasVia(G, p, a, k),
           NEW g, Away(G, p, g, k + 1)
    PROVE  HasVia(G, p, g, k + 1)
<1> DEFINE L == GroupLayers(G, p)
<1>1. k + 1 \in 1 .. 8 /\ (k + 1) + 1 = k + 2
  OBVIOUS
<1>2. L[k + 2] = GroupWiden(G, L[k + 1]) /\ L[k + 1] \subseteq L[k + 2]
  BY <1>1, GroupLayerStep
<1>3. g \in L[k + 2] /\ g \notin L[k + 1]
  BY <1>1 DEF Away
<1>4. PICK a \in L[k + 1] : g \in {a} \cup GroupSuccessors(G, a)
  BY <1>2, <1>3 DEF GroupWiden
<1>5. g \in GroupSuccessors(G, a)
  BY <1>3, <1>4
<1>6. PICK rel \in G.relationships : rel.kind \in GROUP_KINDS /\ rel.source = a /\ rel.target = g
  BY <1>5 DEF GroupSuccessors
<1>7. ASSUME k > 0, a \in L[k] PROVE FALSE
  <2>1. k \in 1 .. 8
    BY <1>7
  <2>2. L[k + 1] = GroupWiden(G, L[k])
    BY <2>1, GroupLayerStep
  <2>3. g \in GroupWiden(G, L[k])
    BY <1>5, <1>7 DEF GroupWiden
  <2>. QED
    BY <1>3, <2>2, <2>3
<1>8. HasVia(G, p, a, k)
  BY <1>4, <1>7 DEF Away
<1>9. PICK via \in Levels(G, {}, p)[k + 1] : GroupVia(G, p, via, k) /\ End(p, via) = a
  BY <1>8 DEF HasVia
<1>10. rel \in Leaving(G, {}, End(p, via))
  BY <1>6, <1>9 DEF Leaving, TRAVERSABLE
<1>11. rel.target \notin {p} \cup {y.target : y \in Steps(via)}
  BY <1>3, <1>6, <1>9 DEF GroupVia
<1> DEFINE longer == Append(via, rel)
<1>12. longer \in Levels(G, {}, p)[k + 2]
  <2>1. longer \in Longer(G, {}, p, Levels(G, {}, p)[k + 1])
    BY <1>9, <1>10, <1>11, InLonger
  <2>2. Levels(G, {}, p)[(k + 1) + 1] = Longer(G, {}, p, Levels(G, {}, p)[k + 1])
    BY <1>1, LevelStep
  <2>. QED
    BY <1>1, <2>1, <2>2
<1>13. via \in Seq(G.relationships) /\ Len(via) = k /\ k \in Nat
  BY <1>9 DEF GroupVia
<1>14. /\ longer \in Seq(G.relationships) /\ Len(longer) = k + 1 /\ longer[k + 1] = rel
       /\ \A n \in 1 .. k : longer[n] = via[n]
  BY <1>13, OneAppended
<1>15. Steps(longer) = Steps(via) \cup {rel}
  BY <1>13, StepsOfAppend
<1> HIDE DEF longer
<1>16. \A n \in 1 .. k + 1 : longer[n].kind \in GROUP_KINDS
  BY <1>6, <1>9, <1>13, <1>14 DEF GroupVia
<1>17. {p} \cup {y.target : y \in Steps(longer)} \subseteq L[k + 2]
  BY <1>2, <1>3, <1>6, <1>9, <1>15 DEF GroupVia
<1>18. End(p, longer) = g
  <2>1. longer # <<>>
    BY <1>13, <1>14
  <2>. QED
    BY <1>6, <1>14, <2>1 DEF End
<1>19. GroupVia(G, p, longer, k + 1)
  BY <1>1, <1>14, <1>16, <1>17 DEF GroupVia
<1>. QED
  BY <1>1, <1>12, <1>18, <1>19 DEF HasVia

\* A path of k edges leads to each group that is k steps away.
LEMMA GroupsHaveVia ==
    ASSUME NEW G, NEW p, NEW k \in 0 .. 8, NEW g, Away(G, p, g, k)
    PROVE  HasVia(G, p, g, k)
<1> DEFINE S == {n \in 0 .. 8 : \A a : Away(G, p, a, n) => HasVia(G, p, a, n)}
<1>1. 0 \in S
  <2> SUFFICES ASSUME NEW a, Away(G, p, a, 0) PROVE HasVia(G, p, a, 0)
    OBVIOUS
  <2>1. GroupLayers(G, p)[1] = {p} /\ Levels(G, {}, p)[1] = {<<>>}
    BY GroupLayerStep, LevelStep, 1 \in 1 .. 8
  <2>2. a = p
    BY <2>1 DEF Away
  <2>3. End(p, <<>>) = a
    BY <2>2 DEF End
  <2>4. <<>> \in Seq(G.relationships) /\ Len(<<>>) = 0 /\ Steps(<<>>) = {}
    BY DEF Steps
  <2>5. GroupVia(G, p, <<>>, 0)
    BY <2>1, <2>4 DEF GroupVia
  <2>. QED
    BY <2>1, <2>3, <2>5 DEF HasVia
<1>2. ASSUME NEW n \in 0 .. 8, n < 8, n \in S PROVE n + 1 \in S
  <2>1. n \in 0 .. 7 /\ n + 1 \in 0 .. 8
    BY <1>2
  <2>2. \A a : Away(G, p, a, n) => HasVia(G, p, a, n)
    BY <1>2
  <2>3. ASSUME NEW a, Away(G, p, a, n + 1) PROVE HasVia(G, p, a, n + 1)
    BY <2>1, <2>2, <2>3, LongerVia
  <2>. QED
    BY <2>1, <2>3
<1> HIDE DEF S
<1>3. 0 .. 8 \subseteq S
  BY <1>1, <1>2, Counting
<1>. QED
  BY <1>3 DEF S

\* A group has one depth below a principal.
LEMMA DepthsAre ==
    ASSUME NEW G, NEW p, NEW g
    PROVE  /\ \A k \in DepthsTo(G, p, g) : k \in 1 .. 8 /\ Away(G, p, g, k)
           /\ \A k, n \in DepthsTo(G, p, g) : k = n
<1>1. ASSUME NEW k \in DepthsTo(G, p, g) PROVE k \in 1 .. 8 /\ Away(G, p, g, k)
  <2>1. PICK row \in GroupClosureRows(G, p) : row.group = g /\ row.depth = k
    BY DEF DepthsTo
  <2>2. PICK n \in 1 .. ClosureDepth :
               row \in {[principal |-> p, group |-> x, depth |-> n] :
                          x \in GroupLayers(G, p)[n + 1] \ GroupLayers(G, p)[n]}
    BY DEF GroupClosureRows
  <2>3. n = k /\ g \in GroupLayers(G, p)[n + 1] \ GroupLayers(G, p)[n]
    BY <2>1, <2>2
  <2>4. n \in 1 .. 8
    BY <2>2, DepthAssumption
  <2>. QED
    BY <2>3, <2>4 DEF Away
<1>2. ASSUME NEW k \in 1 .. 8, NEW n \in 1 .. 8, Away(G, p, g, k), Away(G, p, g, n), k < n PROVE FALSE
  <2>1. k + 1 \in 1 .. 9 /\ n \in (k + 1) .. 9
    BY <1>2
  <2>2. GroupLayers(G, p)[k + 1] \subseteq GroupLayers(G, p)[n]
    BY <2>1, GroupLayersGrow
  <2>. QED
    BY <1>2, <2>2 DEF Away
<1>3. ASSUME NEW k \in DepthsTo(G, p, g), NEW n \in DepthsTo(G, p, g) PROVE k = n
  <2>1. k \in 1 .. 8 /\ n \in 1 .. 8 /\ Away(G, p, g, k) /\ Away(G, p, g, n)
    BY <1>1
  <2>2. ~ (k < n) /\ ~ (n < k)
    BY <1>2, <2>1
  <2>. QED
    BY <2>1, <2>2
<1>. QED
  BY <1>1, <1>3

\* The groups on the way count among the groups of the whole path.
LEMMA GroupsOnPath ==
    ASSUME NEW S, NEW via \in Seq(S), NEW g \in S, NEW chain \in Seq(S), NEW kinds,
           \A n \in 1 .. Len(via) : via[n].kind \in kinds
    PROVE  OfKinds(via \o <<g>> \o chain, kinds) \in Nat /\ OfKinds(via \o <<g>> \o chain, kinds) >= Len(via)
<1> DEFINE one == <<g>>
           head == via \o one
           edges == head \o chain
           T == {n \in DOMAIN edges : edges[n].kind \in kinds}
<1>1. one \in Seq(S) /\ Len(one) = 1
  OBVIOUS
<1>2. Len(via) \in Nat /\ Len(chain) \in Nat
  OBVIOUS
<1>3. \A n \in 1 .. Len(via) : edges[n] = via[n]
  BY Positions
<1> HIDE DEF one
<1>4. head \in Seq(S) /\ Len(head) = Len(via) + 1
  <2>1. head \in Seq(S) /\ Len(head) = Len(via) + Len(one)
    BY <1>1, ConcatProperties
  <2>. QED
    BY <1>1, <2>1
<1> HIDE DEF head
<1>5. edges \in Seq(S) /\ Len(edges) = Len(head) + Len(chain)
  BY <1>4, ConcatProperties
<1> HIDE DEF edges
<1>6. DOMAIN edges = 1 .. Len(edges) /\ Len(edges) \in Nat
  BY <1>5
<1>7. 1 .. Len(via) \subseteq T
  BY <1>2, <1>3, <1>4, <1>5, <1>6
<1>8. T \in SUBSET (DOMAIN edges)
  OBVIOUS
<1>9. IsFiniteSet(DOMAIN edges)
  BY <1>6, FS_Interval
<1> HIDE DEF T
<1>10. IsFiniteSet(T) /\ Cardinality(T) \in Nat
  BY <1>8, <1>9, FS_Subset, FS_CardinalityType
<1>11. Cardinality(1 .. Len(via)) = Len(via)
  <2>1. 1 \in Int /\ Len(via) \in Int
    BY <1>2
  <2>2. Cardinality(1 .. Len(via)) = IF 1 > Len(via) THEN 0 ELSE Len(via) - 1 + 1
    BY <2>1, FS_Interval
  <2>. QED
    BY <1>2, <2>2
<1>12. Cardinality(1 .. Len(via)) <= Cardinality(T)
  BY <1>7, <1>10, FS_Subset
<1>13. OfKinds(edges, kinds) = Cardinality(T)
  BY DEF OfKinds, T
<1>. QED
  BY <1>10, <1>11, <1>12, <1>13 DEF edges, head, one

------------------------------------------------------------------------------
(* The findings.                                                           *)

\* Whoever is granted something only through deeply nested groups has a path
\* that nests as deep.
LEMMA DeepPathThere ==
    ASSUME NEW G, Graph(G), NEW p \in PrincipalIds(G), NEW r, DeepOnly(G, p, r)
    PROVE  \E path \in PairPaths(G, {}, p, r) : OfKinds(path.edges, GROUP_KINDS) >= Floor.nesting
<1>1. PICK g \in GrantedBy(G, p, r) : \E k \in DepthsTo(G, p, g) : k <= ReachDepth
  BY DEF DeepOnly
<1>2. PICK k \in DepthsTo(G, p, g) : k <= ReachDepth
  BY <1>1
<1>3. PICK n \in DepthsTo(G, p, g) : n >= Floor.nesting
  BY DEF DeepOnly
<1>4. k = n /\ k \in 1 .. 8 /\ Away(G, p, g, k)
  BY DepthsAre
<1>5. HasVia(G, p, g, k)
  BY <1>4, GroupsHaveVia
<1>6. PICK via \in Levels(G, {}, p)[k + 1] : GroupVia(G, p, via, k) /\ End(p, via) = g
  BY <1>5 DEF HasVia
<1>7. via \in ActorPaths(G, {}, p)
  <2>1. k + 1 \in 1 .. ReachDepth + 1
    BY <1>2, <1>4, DepthAssumption
  <2>. QED
    BY <1>6, <2>1 DEF ActorPaths
<1>8. PICK x \in EffectiveGrants(G, Reach(G, p), r) : g = x.source
  BY DEF GrantedBy
<1> DEFINE path == PathBy(G, p, r, DeniedPermissions(G, Reach(G, p), r), via, x)
<1>9. MadeOf(G, p, r, path, via, x)
  BY <1>6, <1>7, <1>8 DEF MadeOf
<1>10. path \in PairPaths(G, {}, p, r)
  BY <1>9, PathsMade
<1>11. path.edges = via \o <<x>> \o Chain(G, x.target, r)
  BY DEF PathBy
<1>12. x \in Grants(G) /\ r \in GrantTargets(G, x)
  BY <1>8 DEF EffectiveGrants
<1>13. r \in ResourceIds(G) /\ x.target \in Ancestors(G, r) /\ x \in G.relationships
  BY <1>12, GivenBelow DEF Graph
<1>14. Chain(G, x.target, r) \in Seq(G.relationships)
  <2>1. Chain(G, x.target, r) \in Seq(Contains(G))
    BY <1>13, ChainOfEdges DEF Graph
  <2>2. Contains(G) \subseteq G.relationships
    BY DEF Contains
  <2>. QED
    BY <2>1, <2>2
<1>15. via \in Seq(G.relationships) /\ Len(via) = k /\ \A m \in 1 .. Len(via) : via[m].kind \in GROUP_KINDS
  BY <1>6 DEF GroupVia
<1> HIDE DEF path
<1>16. OfKinds(path.edges, GROUP_KINDS) \in Nat /\ OfKinds(path.edges, GROUP_KINDS) >= k
  BY <1>11, <1>13, <1>14, <1>15, GroupsOnPath
<1>17. Floor.nesting \in Nat
  BY InsightAssumption
<1>18. OfKinds(path.edges, GROUP_KINDS) >= Floor.nesting
  BY <1>3, <1>4, <1>16, <1>17
<1>. QED
  BY <1>10, <1>18

\* If all of his paths are kept, that is found.
LEMMA NestingFound ==
    ASSUME NEW G, Graph(G), NEW p \in PrincipalIds(G), NEW r \in ResourceIds(G), Whole(G, p, r), DeepOnly(G, p, r)
    PROVE  \E f \in NestingFindings(FullMap(G, {})) : f.category = "nesting" /\ f.subject = <<p, r>>
<1>1. PICK path \in PairPaths(G, {}, p, r) : OfKinds(path.edges, GROUP_KINDS) >= Floor.nesting
  BY DeepPathThere
<1> DEFINE e == EntryOf(G, p, r)
           Depth(z) == OfKinds(z.edges, GROUP_KINDS)
           Deep(x) == {n \in DOMAIN x.paths : Depth(x.paths[n]) >= Floor.nesting}
<1>2. e \in FullMap(G, {}) /\ e.principal = p /\ e.resource = r /\ e.paths = Trimmed(G, PairPaths(G, {}, p, r))
  BY <1>1, EntriesOfMap, EntryHolds
<1>3. Steps(Trimmed(G, PairPaths(G, {}, p, r))) = PairPaths(G, {}, p, r)
  <2>1. p \in Ids(G)
    BY DEF PrincipalIds
  <2>. QED
    BY <2>1, KeptPaths DEF Whole
<1>4. PICK n \in DOMAIN e.paths : path = e.paths[n]
  BY <1>1, <1>2, <1>3 DEF Steps
<1> HIDE DEF e
<1>5. n \in Deep(e)
  BY <1>1, <1>4
<1> DEFINE f == Finding("nesting", <<e.principal, e.resource>>, Depth(e.paths[FSets!Min(Deep(e))]) > Floor.nesting)
<1>6. f \in NestingFindings(FullMap(G, {}))
  <2>1. e \in {x \in FullMap(G, {}) : Deep(x) # {}}
    BY <1>2, <1>5
  <2>. QED
    BY <2>1 DEF NestingFindings
<1>7. f.category = "nesting" /\ f.subject = <<p, r>>
  BY <1>2 DEF Finding
<1>. QED
  BY <1>6, <1>7

\* The rows of the paths are those of the entries.
LEMMA RowsOfPaths ==
    ASSUME NEW G, Graph(G)
    PROVE  /\ IsFiniteSet(PathRows(G))
           /\ \A row \in PathRows(G) : <<row.principal, row.resource>> \in PairsOf(FullMap(G, {}))
           /\ \A e \in FullMap(G, {}) :
                 \E row \in PathRows(G) : /\ row.principal = e.principal /\ row.resource = e.resource
                                          /\ row.permissions = e.permissions
<1>1. \A row : row \in PathRows(G) <=> \E e \in FullMap(G, {}) : row = Row(e)
  BY DEF PathRows
<1>2. \A e : Row(e).principal = e.principal /\ Row(e).resource = e.resource /\ Row(e).permissions = e.permissions
  BY DEF Row
<1> DEFINE S == FullMap(G, {})
           f == [e \in S |-> Row(e)]
<1>3. IsFiniteSet(S)
  BY MapFinite
<1>4. DOMAIN f = S /\ \A row \in PathRows(G) : \E e \in S : row = f[e]
  BY <1>1
<1> HIDE DEF f, S
<1>5. IsFiniteSet(PathRows(G))
  BY <1>3, <1>4, ImageFinite
<1>6. \A row \in PathRows(G) : <<row.principal, row.resource>> \in PairsOf(S)
  BY <1>1, <1>2 DEF PairsOf, S
<1>. QED
  BY <1>1, <1>2, <1>5, <1>6 DEF S

\* What is told of access is told of a pair that has a row.
LEMMA AccessFindingsAre ==
    ASSUME NEW rows
    PROVE  /\ \A f \in AccessFindings(rows) :
                 /\ f.category \in {"direct", "indirect", "opaque"}
                 /\ \E row \in rows : f.subject = <<row.principal, row.resource>>
           /\ \A row \in rows : IsPrivileged(row) =>
                 \E f \in AccessFindings(rows) : /\ f.category \in {"direct", "indirect"}
                                                 /\ f.subject = <<row.principal, row.resource>>
           /\ IsFiniteSet(rows) => IsFiniteSet(AccessFindings(rows))
<1> DEFINE risky == {row \in rows : Risky(row)}
           dense == {x \in risky : x.complexity >= Floor.complexity}
           F(row) == Finding(IF row.count > 1 THEN "indirect" ELSE "direct", <<row.principal, row.resource>>,
                             row.risk >= Floor.grave)
           O(row) == Finding("opaque", <<row.principal, row.resource>>, row.complexity >= Floor.opaque)
<1>1. AccessFindings(rows) = {F(row) : row \in risky} \cup {O(row) : row \in dense}
  BY DEF AccessFindings
<1>2. \A row : /\ F(row).category \in {"direct", "indirect"} /\ F(row).subject = <<row.principal, row.resource>>
               /\ O(row).category = "opaque" /\ O(row).subject = <<row.principal, row.resource>>
  BY DEF Finding
<1>3. \A row \in rows : IsPrivileged(row) => row \in risky
  BY DEF Risky
<1>4. dense \subseteq risky /\ risky \subseteq rows
  OBVIOUS
<1>5. ASSUME IsFiniteSet(rows) PROVE IsFiniteSet(AccessFindings(rows))
  <2>1. IsFiniteSet(risky) /\ IsFiniteSet(dense)
    BY <1>4, <1>5, FS_Subset
  <2> DEFINE A == {F(row) : row \in risky}
             B == {O(row) : row \in dense}
             f == [row \in risky |-> F(row)]
             g == [row \in dense |-> O(row)]
  <2>2. (DOMAIN f = risky /\ \A t \in A : \E s \in risky : t = f[s]) /\ (DOMAIN g = dense /\ \A t \in B : \E s \in dense : t = g[s])
    OBVIOUS
  <2>3. AccessFindings(rows) = A \cup B
    BY <1>1
  <2> HIDE DEF A, B, f, g, risky, dense
  <2>4. IsFiniteSet(A) /\ IsFiniteSet(B)
    BY <2>1, <2>2, ImageFinite
  <2>. QED
    BY <2>3, <2>4, FS_Union
<1> HIDE DEF F, O
<1>6. \A f \in AccessFindings(rows) :
         /\ f.category \in {"direct", "indirect", "opaque"}
         /\ \E row \in rows : f.subject = <<row.principal, row.resource>>
  BY <1>1, <1>2, <1>4
<1>7. \A row \in rows : IsPrivileged(row) =>
         \E f \in AccessFindings(rows) : /\ f.category \in {"direct", "indirect"}
                                         /\ f.subject = <<row.principal, row.resource>>
  BY <1>1, <1>2, <1>3
<1>. QED
  BY <1>5, <1>6, <1>7

\* The other findings have categories of their own, and there are finitely many.
LEMMA OtherFindings ==
    ASSUME NEW G, Graph(G)
    PROVE  /\ \A f \in HotFindings(G) : f.category = "overexposed"
           /\ \A f \in GroupFindings(G) : f.category = "broad"
           /\ \A f \in NestingFindings(FullMap(G, {})) :
                 f.category = "nesting" /\ f.subject \in PairsOf(FullMap(G, {}))
           /\ IsFiniteSet(HotFindings(G)) /\ IsFiniteSet(GroupFindings(G))
           /\ IsFiniteSet(NestingFindings(FullMap(G, {})))
<1> DEFINE top == TopHotspots(G, FullMap(G, {}))
           H(s) == Finding("overexposed", <<s.resource>>, Exposure(G, s) >= Floor.hot)
<1>1. HotFindings(G) = {H(s) : s \in top} /\ \A s : H(s).category = "overexposed"
  BY DEF HotFindings, Finding
<1>2. IsFiniteSet(top)
  <2>1. top \in SUBSET Hotspots(G, FullMap(G, {}))
    BY DEF TopHotspots, Tops
  <2>2. IsFiniteSet(Hotspots(G, FullMap(G, {})))
    BY HotspotsAre
  <2>. QED
    BY <2>1, <2>2, FS_Subset
<1>3. IsFiniteSet(HotFindings(G))
  <2> DEFINE f == [s \in top |-> H(s)]
  <2>1. DOMAIN f = top /\ \A t \in HotFindings(G) : \E s \in top : t = f[s]
    BY <1>1
  <2> HIDE DEF f, top, H
  <2>. QED
    BY <1>2, <2>1, ImageFinite
<1> DEFINE Members(g) == {rel.source : rel \in {x \in G.relationships : x.kind \in GROUP_KINDS /\ x.target = g}}
           B(g) == Finding("broad", <<g>>, Cardinality(Members(g)) >= Floor.crowd)
<1>4. (\A f \in GroupFindings(G) : \E g \in PrincipalIds(G) : f = B(g)) /\ \A g : B(g).category = "broad"
  BY DEF GroupFindings, Finding
<1>5. IsFiniteSet(GroupFindings(G))
  <2> DEFINE f == [g \in PrincipalIds(G) |-> B(g)]
  <2>1. DOMAIN f = PrincipalIds(G) /\ \A t \in GroupFindings(G) : \E s \in PrincipalIds(G) : t = f[s]
    BY <1>4
  <2> HIDE DEF f
  <2>. QED
    BY <2>1, MapFinite, ImageFinite
<1> DEFINE Depth(z) == OfKinds(z.edges, GROUP_KINDS)
           Deep(x) == {n \in DOMAIN x.paths : Depth(x.paths[n]) >= Floor.nesting}
           N(e) == Finding("nesting", <<e.principal, e.resource>>, Depth(e.paths[FSets!Min(Deep(e))]) > Floor.nesting)
<1>6. /\ \A f \in NestingFindings(FullMap(G, {})) : \E e \in FullMap(G, {}) : f = N(e)
      /\ \A e : N(e).category = "nesting" /\ N(e).subject = <<e.principal, e.resource>>
  BY DEF NestingFindings, Finding
<1>7. IsFiniteSet(NestingFindings(FullMap(G, {})))
  <2> DEFINE f == [e \in FullMap(G, {}) |-> N(e)]
  <2>1. DOMAIN f = FullMap(G, {}) /\ \A t \in NestingFindings(FullMap(G, {})) : \E s \in FullMap(G, {}) : t = f[s]
    BY <1>6
  <2> HIDE DEF f
  <2>. QED
    BY <2>1, MapFinite, ImageFinite
<1> HIDE DEF H, B, N, top
<1>8. \A f \in HotFindings(G) : f.category = "overexposed"
  BY <1>1
<1>9. \A f \in GroupFindings(G) : f.category = "broad"
  BY <1>4
<1>10. \A f \in NestingFindings(FullMap(G, {})) : f.category = "nesting" /\ f.subject \in PairsOf(FullMap(G, {}))
  BY <1>6 DEF PairsOf
<1>. QED
  BY <1>3, <1>5, <1>7, <1>8, <1>9, <1>10

\* FiniteSetsExt counts as FiniteSets does.
LEMMA SameCardinality == ASSUME NEW S PROVE FSets!Cardinality(S) = Cardinality(S)
BY DEF FSets!Cardinality, Cardinality

\* A subset of so many members.
LEMMA KSubsets ==
    ASSUME NEW k, NEW T, NEW S \in FSets!kSubset(k, T)
    PROVE  S \subseteq T /\ Cardinality(S) = k
<1>1. S \in SUBSET T
  BY DEF FSets!kSubset
<1>2. FSets!Cardinality(S) = k
  BY DEF FSets!kSubset
<1>. QED
  BY <1>1, <1>2, SameCardinality

\* What is reported is of some category, and all of all categories unless the
\* list is as long as it may be.
LEMMA FindingsAre ==
    ASSUME NEW G, Graph(G), NEW limit \in Nat, NEW told \in Findings(G, PathRows(G), limit)
    PROVE  LET all == HotFindings(G) \cup AccessFindings(PathRows(G)) \cup GroupFindings(G)
                        \cup NestingFindings(FullMap(G, {}))
           IN  told \subseteq all /\ (Cardinality(told) < limit => told = all)
<1> DEFINE c1 == HotFindings(G)
           c2 == AccessFindings(PathRows(G))
           c3 == GroupFindings(G)
           c4 == NestingFindings(FullMap(G, {}))
           all == c1 \cup c2 \cup c3 \cup c4
           C == Categories(G, PathRows(G))
           UpTo(n) == UNION {C[m] : m \in 1 .. n}
           cut == {n \in DOMAIN C : Cardinality(UpTo(n)) > limit}
<1>1. /\ \A f \in c1 : f.category = "overexposed"
      /\ \A f \in c2 : f.category \in {"direct", "indirect", "opaque"}
      /\ \A f \in c3 : f.category = "broad"
      /\ \A f \in c4 : f.category = "nesting"
  BY OtherFindings, AccessFindingsAre
<1>2. IsFiniteSet(c1) /\ IsFiniteSet(c2) /\ IsFiniteSet(c3) /\ IsFiniteSet(c4)
  BY OtherFindings, AccessFindingsAre, RowsOfPaths
<1>3. C = <<c1, c2, c3, c4>>
  BY DEF Categories
<1>4. DOMAIN C = 1 .. 4 /\ Len(C) = 4 /\ C[1] = c1 /\ C[2] = c2 /\ C[3] = c3 /\ C[4] = c4
  <2> HIDE DEF c1, c2, c3, c4, C
  <2>. QED
    BY <1>3
<1>5. told \in (IF cut = {} THEN {UpTo(Len(C))}
                ELSE {UpTo(FSets!Min(cut) - 1) \cup S : S \in FSets!kSubset(limit - Cardinality(UpTo(FSets!Min(cut) - 1)), C[FSets!Min(cut)])})
  BY DEF Findings
<1> HIDE DEF C, c1, c2, c3, c4
<1>6. UpTo(4) = all
  <2>1. \A m \in 1 .. 4 : m \in {1, 2, 3, 4}
    OBVIOUS
  <2>2. {C[m] : m \in 1 .. 4} = {c1, c2, c3, c4}
    BY <1>4, <2>1
  <2>. QED
    BY <2>2
<1>7. ASSUME cut = {} PROVE told \subseteq all /\ (Cardinality(told) < limit => told = all)
  BY <1>4, <1>5, <1>6, <1>7
<1>8. ASSUME cut # {} PROVE told \subseteq all /\ (Cardinality(told) < limit => told = all)
  <2> DEFINE least == FSets!Min(cut)
  <2>1. least \in cut
    <3>1. cut \in SUBSET Nat
      BY <1>4
    <3> HIDE DEF cut
    <3>2. \E m \in cut : \A n \in cut : m <= n
      BY <1>8, <3>1, LeastNumber
    <3>. QED
      BY <3>2 DEF FSets!Min
  <2>2. PICK n : n = least
    OBVIOUS
  <2>3. n \in 1 .. 4 /\ n - 1 \in 0 .. 3 /\ (n - 1) + 1 = n
    BY <1>4, <2>1, <2>2
  <2> DEFINE first == UpTo(n - 1)
  <2>4. PICK S \in FSets!kSubset(limit - Cardinality(first), C[n]) : told = first \cup S
    <3>1. told \in {UpTo(n - 1) \cup S : S \in FSets!kSubset(limit - Cardinality(UpTo(n - 1)), C[n])}
      BY <1>5, <1>8, <2>2
    <3>. QED
      BY <3>1
  <2>5. S \subseteq C[n] /\ Cardinality(S) = limit - Cardinality(first)
    <3> HIDE DEF first
    <3>. QED
      BY <2>4, KSubsets
  <2>6. first \subseteq all /\ C[n] \subseteq all
    <3>1. \A m \in 1 .. 4 : C[m] \subseteq all
      <4>1. \A m \in 1 .. 4 : m \in {1, 2, 3, 4}
        OBVIOUS
      <4>. QED
        BY <1>4, <4>1
    <3>2. \A m \in 1 .. n - 1 : m \in 1 .. 4
      BY <2>3
    <3>. QED
      BY <2>3, <3>1, <3>2
  <2>7. IsFiniteSet(all)
    BY <1>2, FS_Union
  <2>8. IsFiniteSet(first) /\ IsFiniteSet(S)
    <3> HIDE DEF all, first
    <3>1. S \subseteq all
      BY <2>5, <2>6
    <3>. QED
      BY <2>6, <2>7, <3>1, FS_Subset
  <2>9. first \cap S = {}
    <3> SUFFICES ASSUME NEW f \in first, f \in C[n] PROVE FALSE
      BY <2>5
    <3>1. PICK m \in 1 .. n - 1 : f \in C[m]
      OBVIOUS
    <3>2. m \in {1, 2, 3} /\ n \in {1, 2, 3, 4} /\ m < n
      BY <2>3
    <3>3. CASE n = 2
      BY <1>1, <1>4, <3>1, <3>2, <3>3
    <3>4. CASE n = 3
      BY <1>1, <1>4, <3>1, <3>2, <3>4
    <3>5. CASE n = 4
      BY <1>1, <1>4, <3>1, <3>2, <3>5
    <3>. QED
      BY <3>2, <3>3, <3>4, <3>5
  <2> HIDE DEF first, all, least, cut
  <2>10. Cardinality(told) = limit
    <3>1. Cardinality(first) \in Nat /\ Cardinality(S) \in Nat
      BY <2>8, FS_CardinalityType
    <3>2. Cardinality(told) = Cardinality(first) + Cardinality(S) - Cardinality({})
      BY <2>4, <2>8, <2>9, FS_Union
    <3>3. Cardinality({}) = 0
      BY FS_EmptySet
    <3>. QED
      BY <2>5, <3>1, <3>2, <3>3
  <2>11. told \subseteq all
    BY <2>4, <2>5, <2>6
  <2>. QED
    BY <2>10, <2>11
<1>9. told \subseteq all /\ (Cardinality(told) < limit => told = all)
  <2> HIDE DEF cut, all
  <2>. QED
    BY <1>7, <1>8
<1>. QED
  BY <1>9 DEF c1, c2, c3, c4

\* The subjects of the findings of some categories.
ToldOf(told, categories) == {f.subject : f \in {x \in told : x.category \in categories}}

\* The findings tell of access that is there, and unless the list is full of all
\* privileged access and all that is had through deeply nested groups alone.
LEMMA FindingsTell ==
    ASSUME NEW G, Graph(G), NEW limit \in Nat, NEW told \in Findings(G, PathRows(G), limit)
    PROVE  /\ ToldOf(told, {"direct", "indirect", "opaque", "nesting"})
                 \subseteq {<<row.principal, row.resource>> : row \in AccessIndex(G)}
           /\ Cardinality(told) < limit =>
                 \A row \in AccessIndex(G) : Whole(G, row.principal, row.resource) =>
                    /\ IsPrivileged(row) => <<row.principal, row.resource>> \in ToldOf(told, {"direct", "indirect"})
                    /\ DeepOnly(G, row.principal, row.resource)
                          => <<row.principal, row.resource>> \in ToldOf(told, {"nesting"})
<1> DEFINE c1 == HotFindings(G)
           c2 == AccessFindings(PathRows(G))
           c3 == GroupFindings(G)
           c4 == NestingFindings(FullMap(G, {}))
           pairs == PairsOf(FullMap(G, {}))
<1>1. told \subseteq c1 \cup c2 \cup c3 \cup c4 /\ (Cardinality(told) < limit => told = c1 \cup c2 \cup c3 \cup c4)
  BY FindingsAre
<1>2. pairs = {<<row.principal, row.resource>> : row \in AccessIndex(G)}
  BY MapTellsIndex
<1>3. /\ \A f \in c1 : f.category = "overexposed"
      /\ \A f \in c3 : f.category = "broad"
      /\ \A f \in c4 : f.subject \in pairs
  BY OtherFindings
<1>4. ASSUME NEW f \in c2 PROVE f.subject \in pairs
  <2>1. PICK row \in PathRows(G) : f.subject = <<row.principal, row.resource>>
    BY AccessFindingsAre
  <2>. QED
    BY <2>1, RowsOfPaths
<1>5. ASSUME NEW row \in AccessIndex(G), Whole(G, row.principal, row.resource), IsPrivileged(row)
      PROVE  \E f \in c2 : f.category \in {"direct", "indirect"} /\ f.subject = <<row.principal, row.resource>>
  <2> DEFINE p == row.principal
             r == row.resource
             e == EntryOf(G, p, r)
  <2>1. p \in PrincipalIds(G) /\ r \in ResourceIds(G) /\ PairPaths(G, {}, p, r) # {} /\ row.permissions = Held(G, p, r)
    BY RowsOfIndex
  <2>2. e \in FullMap(G, {})
    BY <2>1, EntriesOfMap
  <2>3. CountAt(G, {}, p, r) <= Kept
    BY <1>5 DEF Whole, CountAt
  <2>4. e.principal = p /\ e.resource = r /\ e.permissions = Held(G, p, r)
    BY <2>1, <2>3, EntryHolds
  <2> HIDE DEF e
  <2>5. PICK other \in PathRows(G) : /\ other.principal = e.principal /\ other.resource = e.resource
                                     /\ other.permissions = e.permissions
    BY <2>2, RowsOfPaths
  <2>6. IsPrivileged(other)
    BY <1>5, <2>1, <2>4, <2>5 DEF IsPrivileged
  <2>7. \E f \in c2 : f.category \in {"direct", "indirect"} /\ f.subject = <<other.principal, other.resource>>
    BY <2>6, AccessFindingsAre
  <2>. QED
    BY <2>4, <2>5, <2>7
<1>6. ASSUME NEW row \in AccessIndex(G), Whole(G, row.principal, row.resource),
             DeepOnly(G, row.principal, row.resource)
      PROVE  \E f \in c4 : f.category = "nesting" /\ f.subject = <<row.principal, row.resource>>
  <2>1. row.principal \in PrincipalIds(G) /\ row.resource \in ResourceIds(G)
    BY RowsOfIndex
  <2>. QED
    BY <1>6, <2>1, NestingFound
<1> HIDE DEF c1, c2, c3, c4, pairs
<1>7. ToldOf(told, {"direct", "indirect", "opaque", "nesting"}) \subseteq pairs
  BY <1>1, <1>3, <1>4 DEF ToldOf
<1>8. ASSUME Cardinality(told) < limit, NEW row \in AccessIndex(G), Whole(G, row.principal, row.resource)
      PROVE  /\ IsPrivileged(row) => <<row.principal, row.resource>> \in ToldOf(told, {"direct", "indirect"})
             /\ DeepOnly(G, row.principal, row.resource)
                   => <<row.principal, row.resource>> \in ToldOf(told, {"nesting"})
  <2>1. told = c1 \cup c2 \cup c3 \cup c4
    BY <1>1, <1>8
  <2>. QED
    BY <1>5, <1>6, <1>8, <2>1 DEF ToldOf
<1>. QED
  BY <1>2, <1>7, <1>8

------------------------------------------------------------------------------
(* The invariant.                                                          *)

Fields == {"principal", "resource", "permissions", "edge", "decision"}
World == FirstWorlds \cup NextWorlds

\* What is made of rows: finitely many items, no two of them of one pair.
Items(items) ==
    /\ IsFiniteSet(items) /\ items # {}
    /\ \A i \in items : DOMAIN i = Fields
    /\ \A i, j \in items : i.principal = j.principal /\ i.resource = j.resource => i = j

\* An item is told of a graph: its permissions are of the access of its pair, and
\* the edge it suggests is on a path that is told of the pair, and removable.
Told(G, i) ==
    /\ i.principal \in PrincipalIds(G) /\ i.resource \in ResourceIds(G)
    /\ \E row \in AccessIndexForScope(G, {i.principal}, {i.resource}) : i.permissions \subseteq row.permissions
    /\ i.edge # NONE => \E e \in EdgesById(G, i.edge) : OnToldPath(G, e, i.principal, i.resource)

Within(G, items) == \A i \in items : Told(G, i)

Tables ==
    /\ snapshots \in Seq(World) /\ Newest \in 1 .. MaxSnapshots
    /\ index \in [1 .. MaxSnapshots -> 0 .. Newest]
    /\ refreshed \subseteq 1 .. Newest /\ raced \in BOOLEAN

\* A request that no scan has met has the rows and items of the engine.
RequestHeld ==
    /\ DOMAIN request = {"step", "payload", "rows", "items", "met"}
    /\ request.step \in {"none", "compute", "save", "build", "store"}
    /\ request.rows \in 0 .. Newest /\ request.met \in BOOLEAN
    /\ request.step \in {"save", "build"} =>
          request.rows # NONE /\ (~ request.met => request.rows = Newest)
    /\ request.step = "store" =>
          /\ Items(request.items) /\ (\A i \in request.items : i.decision = "pending")
          /\ ~ request.met => Within(Engine, request.items)

\* A campaign names a snapshot, and unless a scan met its request, its items are
\* of the access of that one.
CampaignHeld(c) ==
    /\ DOMAIN c = {"stamp", "status", "items", "met"}
    /\ c.stamp \in 1 .. Newest /\ c.met \in BOOLEAN
    /\ Items(c.items) /\ c.status = StatusOf(c.items)
    /\ ~ c.met => Within(snapshots[c.stamp], c.items)

CampaignsHeld ==
    /\ \E S : campaigns \in Seq(S)
    /\ \A n \in DOMAIN campaigns : CampaignHeld(campaigns[n])

\* A list that is being read has the status the campaigns still have, and what
\* has been counted fits it, unless it has met a decision.
ListHeld(a) ==
    /\ a \in [kind : {"list"}, status : Seq({"open", "completed"}), pending : Seq(Nat), met : BOOLEAN]
    /\ Len(a.status) <= Len(campaigns)
    /\ ~ a.met =>
          /\ Len(a.pending) <= Len(a.status)
          /\ \A c \in DOMAIN a.pending : a.status[c] = "completed" <=> a.pending[c] = 0
          /\ Unfinished(a) => /\ Len(a.status) = Len(campaigns)
                              /\ \A c \in DOMAIN a.status : a.status[c] = campaigns[c].status

\* A campaign is told as it is.
DetailHeld(a) ==
    /\ a.status = "completed" <=> a.pending = 0
    /\ campaigns[a.id].stamp = Newest /\ ~ campaigns[a.id].met =>
          \A id \in DOMAIN a.sources : a.sources[id] = "engine"

AnswersHeld ==
    /\ \A a \in asked : a.kind = "list" => ListHeld(a)
    /\ \A a \in asked : a.kind = "campaign" => DetailHeld(a)

ReviewInv ==
    Tables /\ RequestHeld /\ CampaignsHeld /\ AnswersHeld /\ IndexOfItsSnapshot

------------------------------------------------------------------------------
(* Rows and items.                                                         *)

\* Entities of a graph are finitely many, principals and resources among them.
LEMMA WorldShape ==
    ASSUME NEW G \in World
    PROVE  /\ IsFiniteSet(Ids(G)) /\ PrincipalIds(G) \subseteq Ids(G) /\ ResourceIds(G) \subseteq Ids(G)
           /\ Graph(G)
<1>1. WellFormed(G) /\ IsFiniteSet(G.relationships)
  BY WorldAssumption DEF World
<1>2. Ids(G) \subseteq Entity
  BY <1>1 DEF WellFormed
<1>. QED
  BY <1>1, <1>2, FiniteAssumption, FS_Subset DEF PrincipalIds, ResourceIds, Graph

\* The rows of a graph are of its pairs, one at most of each.
LEMMA RowsOfPairs ==
    ASSUME NEW G \in World
    PROVE  /\ IsFiniteSet(PathRows(G))
           /\ \A row \in PathRows(G) : row.principal \in Ids(G) /\ row.resource \in Ids(G)
           /\ \A row, other \in PathRows(G) :
                 row.principal = other.principal /\ row.resource = other.resource => row = other
<1> DEFINE P == PrincipalIds(G)
           R == ResourceIds(G)
           of == [pair \in P \X R |-> Row(Entry(G, pair[1], pair[2], PairPaths(G, {}, pair[1], pair[2])))]
<1>1. \A row \in PathRows(G) : \E pair \in P \X R : row = of[pair]
  BY DEF PathRows, FullMap, AccessMap
<1>2. \A pair \in P \X R : of[pair].principal = pair[1] /\ of[pair].resource = pair[2]
  BY DEF Row, Entry
<1>3. IsFiniteSet(P \X R)
  BY WorldShape, FS_Subset, FS_Product
<1>4. of \in Surjection(P \X R, {of[pair] : pair \in P \X R})
  BY DEF Surjection
<1>5. PathRows(G) \subseteq {of[pair] : pair \in P \X R}
  BY <1>1
<1>6. IsFiniteSet({of[pair] : pair \in P \X R})
  BY <1>3, <1>4, FS_Surjection
<1>7. IsFiniteSet(PathRows(G))
  BY <1>5, <1>6, FS_Subset
<1> HIDE DEF of
<1>8. ASSUME NEW row \in PathRows(G)
      PROVE  row.principal \in P /\ row.resource \in R /\ row = of[<<row.principal, row.resource>>]
  <2>1. PICK pair \in P \X R : row = of[pair]
    BY <1>1
  <2>2. pair = <<row.principal, row.resource>>
    BY <1>2, <2>1
  <2>. QED
    BY <2>1, <2>2
<1>. QED
  BY <1>7, <1>8, WorldShape

\* An item that is made of a row of a graph and of that graph is told of it.
LEMMA ItemTold ==
    ASSUME NEW G \in World, NEW row \in PathRows(G)
    PROVE  Told(G, Item(G, row))
<1>1. PICK p \in PrincipalIds(G), r \in ResourceIds(G) :
         PairPaths(G, {}, p, r) # {} /\ row = Row(EntryOf(G, p, r))
  <2>1. PICK entry \in FullMap(G, {}) : row = Row(entry)
    BY DEF PathRows
  <2>. QED
    BY <2>1, InAccessMap DEF FullMap, EntryOf
<1>2. p \in Ids(G) /\ Graph(G)
  BY WorldShape
<1>3. row.principal = p /\ row.resource = r /\ row.permissions = EntryOf(G, p, r).permissions
  BY <1>1, <1>2, EntryTells DEF Row
<1>4. \E t \in AccessIndexForScope(G, {p}, {r}) : row.permissions \subseteq t.permissions
  BY <1>1, <1>2, <1>3, EntryHasRow
<1>5. PICK ids : ids = Suggestions(G, p, r)
  OBVIOUS
<1>6. PICK edge : edge = IF ids = {} THEN NONE ELSE CHOOSE id \in ids : TRUE
  OBVIOUS
<1>7. edge # NONE => edge \in ids
  BY <1>6
<1>8. edge # NONE => \E e \in EdgesById(G, edge) : OnToldPath(G, e, p, r)
  BY <1>2, <1>5, <1>7, SuggestedEdge
<1>9. PICK i : i = Item(G, row)
  OBVIOUS
<1>10. i.principal = p /\ i.resource = r /\ i.permissions = row.permissions /\ i.edge = edge
  BY <1>3, <1>5, <1>6, <1>9 DEF Item
<1>11. Told(G, i)
  BY <1>1, <1>4, <1>8, <1>10 DEF Told
<1>. QED
  BY <1>9, <1>11

\* What a campaign is made of are items.
LEMMA ItemsOfRows ==
    ASSUME NEW G \in World, NEW H, NEW S \in SUBSET PathRows(G), S # {}
    PROVE  /\ Items({Item(H, row) : row \in S}) /\ (G = H => Within(G, {Item(H, row) : row \in S}))
           /\ \A i \in {Item(H, row) : row \in S} : i.decision = "pending"
<1> DEFINE of == [row \in S |-> Item(H, row)]
           items == {Item(H, row) : row \in S}
<1>1. IsFiniteSet(S)
  BY RowsOfPairs, FS_Subset
<1>2. of \in Surjection(S, items)
  BY DEF Surjection
<1>3. IsFiniteSet(items)
  BY <1>1, <1>2, FS_Surjection
<1>4. \A row \in S : /\ DOMAIN of[row] = Fields
                     /\ of[row].principal = row.principal /\ of[row].resource = row.resource
                     /\ of[row].decision = "pending"
  BY DEF Item, Fields
<1>5. items = {of[row] : row \in S}
  OBVIOUS
<1>8. G = H => Within(G, items)
  BY ItemTold DEF Within
<1> HIDE DEF of, items
<1>6. items # {} /\ \A i \in items : DOMAIN i = Fields /\ i.decision = "pending"
  BY <1>4, <1>5
<1>7. \A i, j \in items : i.principal = j.principal /\ i.resource = j.resource => i = j
  BY <1>4, <1>5, RowsOfPairs
<1>. QED
  BY <1>3, <1>6, <1>7, <1>8 DEF Items, items

\* Nothing is pending exactly if the status says so.
LEMMA NothingPending ==
    ASSUME NEW items, Items(items)
    PROVE  /\ PendingOf(items) \in Nat
           /\ StatusOf(items) = "completed" <=> PendingOf(items) = 0
           /\ StatusOf(items) \in {"open", "completed"}
<1> DEFINE pending == {i \in items : i.decision = "pending"}
<1>1. IsFiniteSet(pending)
  BY FS_Subset DEF Items
<1>2. Cardinality(pending) \in Nat /\ (Cardinality(pending) = 0 <=> pending = {})
  BY <1>1, FS_CardinalityType, FS_EmptySet
<1>3. StatusOf(items) = "completed" <=> pending = {}
  BY DEF StatusOf, Items
<1>. QED
  BY <1>2, <1>3 DEF PendingOf, StatusOf

\* A decision leaves the pairs as they are.
LEMMA DecidedItems ==
    ASSUME NEW items, Items(items), NEW item \in items,
           NEW new, DOMAIN new = Fields, new.principal = item.principal, new.resource = item.resource,
           new.permissions = item.permissions, new.edge = item.edge
    PROVE  /\ Items((items \ {item}) \cup {new})
           /\ \A G : Within(G, items) => Within(G, (items \ {item}) \cup {new})
<1>1. PICK after : after = (items \ {item}) \cup {new}
  OBVIOUS
<1>2. IsFiniteSet(after)
  <2>1. IsFiniteSet(items)
    BY DEF Items
  <2>2. IsFiniteSet(items \ {item})
    BY <2>1, FS_Subset
  <2>. QED
    BY <1>1, <2>2, FS_AddElement
<1>3. Items(after)
  BY <1>1, <1>2 DEF Items
<1>4. ASSUME NEW G, Within(G, items) PROVE Within(G, after)
  <2>1. Told(G, item)
    BY <1>4 DEF Within
  <2>2. Told(G, new)
    BY <2>1 DEF Told
  <2>. QED
    BY <1>1, <1>4, <2>2 DEF Within
<1>. QED
  BY <1>1, <1>3, <1>4

\* One more element makes a sequence longer and leaves the others in place.
LEMMA OneMore ==
    ASSUME NEW S, NEW s \in Seq(S), NEW x
    PROVE  /\ Append(s, x) \in Seq(S \cup {x}) /\ Len(s) \in Nat /\ DOMAIN s = 1 .. Len(s)
           /\ Len(Append(s, x)) = Len(s) + 1 /\ Append(s, x)[Len(s) + 1] = x
           /\ \A n \in 1 .. Len(s) : Append(s, x)[n] = s[n]
<1>1. s \in Seq(S \cup {x})
  OBVIOUS
<1>. QED
  BY <1>1

------------------------------------------------------------------------------
(* It holds, and every step keeps it.                                      *)

\* At first there is one snapshot and nothing else.
LEMMA InitReviewInv == Init => ReviewInv
<1> SUFFICES ASSUME Init PROVE ReviewInv
  OBVIOUS
<1>1. PICK G \in FirstWorlds : snapshots = <<G>>
  BY DEF Init
<1>2. Tables
  <2>1. Newest = 1 /\ snapshots \in Seq(World)
    BY <1>1 DEF World, Newest
  <2>2. index \in [1 .. MaxSnapshots -> 0 .. 1] /\ 1 \in 1 .. MaxSnapshots
    BY BoundAssumption DEF Init, NONE
  <2>. QED
    BY <2>1, <2>2 DEF Init, Tables
<1>3. RequestHeld
  BY <1>1, <1>2 DEF Init, RequestHeld, NoRequest, Tables, NONE
<1>4. CampaignsHeld
  <2>1. campaigns \in Seq({}) /\ DOMAIN campaigns = {}
    BY DEF Init
  <2>. QED
    BY <2>1 DEF CampaignsHeld
<1>5. AnswersHeld
  BY DEF Init, AnswersHeld
<1>6. IndexOfItsSnapshot
  BY DEF Init, IndexOfItsSnapshot
<1>. QED
  BY <1>2, <1>3, <1>4, <1>5, <1>6 DEF ReviewInv

\* Steps that leave snapshots, tables, request and campaigns alone need only
\* answer rightly.
LEMMA OnlyAnswers ==
    ReviewInv /\ UNCHANGED <<snapshots, index, refreshed, request, campaigns, raced>> /\ AnswersHeld'
        => ReviewInv'
<1> SUFFICES ASSUME ReviewInv, UNCHANGED <<snapshots, index, refreshed, request, campaigns, raced>>, AnswersHeld'
             PROVE  ReviewInv'
  OBVIOUS
<1>1. Tables' /\ RequestHeld' /\ IndexOfItsSnapshot'
  BY DEF ReviewInv, Tables, RequestHeld, IndexOfItsSnapshot, Newest, Engine
<1>2. CampaignsHeld'
  BY DEF ReviewInv, CampaignsHeld, CampaignHeld, Newest
<1>. QED
  BY <1>1, <1>2 DEF ReviewInv

\* A scan leaves behind what a request has of the engine before, and marks it.
LEMMA ScanKeeps == ReviewInv /\ Scan => ReviewInv'
<1> SUFFICES ASSUME ReviewInv, Scan PROVE ReviewInv'
  OBVIOUS
<1>1. PICK G \in NextWorlds : snapshots' = Append(snapshots, G)
  BY DEF Scan
<1>2. /\ snapshots' \in Seq(World) /\ Newest \in Nat /\ Newest' = Newest + 1
      /\ \A n \in 1 .. Newest : snapshots'[n] = snapshots[n]
  BY <1>1 DEF ReviewInv, Tables, Newest, World
<1>3. Tables'
  <2>1. Newest < MaxSnapshots /\ MaxSnapshots \in Nat
    BY BoundAssumption DEF Scan
  <2>2. index' \in [1 .. MaxSnapshots -> 0 .. Newest']
    BY <1>2 DEF ReviewInv, Tables, Scan
  <2>. QED
    BY <1>2, <2>1, <2>2 DEF ReviewInv, Tables, Scan
<1>4. RequestHeld'
  <2>1. CASE request.step = "none"
    BY <1>2, <2>1 DEF ReviewInv, RequestHeld, Scan
  <2>2. CASE request.step # "none"
    BY <1>2, <2>2 DEF ReviewInv, RequestHeld, Scan
  <2>. QED
    BY <2>1, <2>2
<1>5. CampaignsHeld'
  <2>1. ASSUME NEW c, CampaignHeld(c) PROVE CampaignHeld(c)'
    BY <1>2, <2>1 DEF CampaignHeld
  <2>2. campaigns' = campaigns
    BY DEF Scan
  <2>. QED
    BY <2>1, <2>2 DEF ReviewInv, CampaignsHeld
<1>6. AnswersHeld'
  BY DEF AnswersHeld, Scan
<1>7. IndexOfItsSnapshot'
  BY DEF ReviewInv, IndexOfItsSnapshot, Scan
<1>. QED
  BY <1>3, <1>4, <1>5, <1>6, <1>7 DEF ReviewInv

\* A refresh files the rows of the engine under the engine's snapshot.
LEMMA RefreshKeeps == ReviewInv /\ RefreshIndex => ReviewInv'
<1> SUFFICES ASSUME ReviewInv, RefreshIndex PROVE ReviewInv'
  OBVIOUS
<1>1. Tables' /\ IndexOfItsSnapshot'
  <2>1. snapshots' = snapshots /\ Newest' = Newest /\ Newest \in 1 .. MaxSnapshots
    BY DEF ReviewInv, Tables, RefreshIndex, Newest
  <2>2. index' = [index EXCEPT ![Newest] = Newest] /\ refreshed' = refreshed \cup {Newest} /\ raced' = raced
    BY DEF RefreshIndex
  <2>3. index' \in [1 .. MaxSnapshots -> 0 .. Newest]
    BY <2>1, <2>2 DEF ReviewInv, Tables
  <2>4. refreshed' \subseteq 1 .. Newest
    BY <2>1, <2>2 DEF ReviewInv, Tables
  <2>5. Tables'
    BY <2>1, <2>2, <2>3, <2>4 DEF ReviewInv, Tables
  <2>6. IndexOfItsSnapshot'
    BY <2>1, <2>2 DEF ReviewInv, Tables, IndexOfItsSnapshot
  <2>. QED
    BY <2>5, <2>6
<1>2. RequestHeld'
  BY DEF ReviewInv, RequestHeld, RefreshIndex, Newest, Engine
<1>3. CampaignsHeld'
  BY DEF ReviewInv, CampaignsHeld, CampaignHeld, RefreshIndex, Newest
<1>4. AnswersHeld'
  BY DEF AnswersHeld, RefreshIndex
<1>. QED
  BY <1>1, <1>2, <1>3, <1>4 DEF ReviewInv

\* What a request does to the tables of campaigns and snapshots: nothing, until
\* it stores its campaign.
LEMMA RequestLeaves ==
    ASSUME ReviewInv, NEW r, Requests(r)
    PROVE  /\ CampaignsHeld' /\ AnswersHeld' /\ request' = r
           /\ Newest' = Newest /\ Engine' = Engine /\ snapshots' = snapshots /\ refreshed' = refreshed
<1>1. CampaignsHeld'
  BY DEF ReviewInv, CampaignsHeld, CampaignHeld, Requests, Newest
<1>. QED
  BY <1>1 DEF Requests, AnswersHeld, Newest, Engine

\* The rows read are of the engine, or the request counts as met.
LEMMA ReadKeeps == ReviewInv /\ ReadRows => ReviewInv'
<1> SUFFICES ASSUME ReviewInv, ReadRows PROVE ReviewInv'
  OBVIOUS
<1>1. PICK q \in Payloads :
         Requests([NoRequest EXCEPT !.payload = q, !.rows = index[Newest],
                                    !.met = index[Newest] \notin {NONE, Newest},
                                    !.step = IF index[Newest] = NONE THEN "compute" ELSE "build"])
  BY DEF ReadRows
<1>2. /\ DOMAIN request' = {"step", "payload", "rows", "items", "met"}
      /\ request'.rows = index[Newest]
      /\ request'.met = (index[Newest] \notin {NONE, Newest})
      /\ request'.step = IF index[Newest] = NONE THEN "compute" ELSE "build"
  BY <1>1 DEF Requests, NoRequest
<1>3. CampaignsHeld' /\ AnswersHeld' /\ Newest' = Newest /\ Engine' = Engine
      /\ snapshots' = snapshots /\ refreshed' = refreshed
  BY <1>1, RequestLeaves
<1>4. index[Newest] \in 0 .. Newest
  BY DEF ReviewInv, Tables
<1>5. RequestHeld'
  BY <1>2, <1>3, <1>4 DEF RequestHeld
<1>6. Tables' /\ IndexOfItsSnapshot'
  BY <1>3 DEF ReviewInv, Tables, IndexOfItsSnapshot, ReadRows
<1>. QED
  BY <1>3, <1>5, <1>6 DEF ReviewInv

\* Rows are computed of the engine of the moment.
LEMMA ComputeKeeps == ReviewInv /\ ComputeRows => ReviewInv'
<1> SUFFICES ASSUME ReviewInv, ComputeRows PROVE ReviewInv'
  OBVIOUS
<1>1. Requests([request EXCEPT !.rows = Newest, !.step = "save"])
  BY DEF ComputeRows
<1>2. CampaignsHeld' /\ AnswersHeld' /\ Newest' = Newest /\ Engine' = Engine
      /\ snapshots' = snapshots /\ refreshed' = refreshed
  BY <1>1, RequestLeaves
<1>3. /\ DOMAIN request' = {"step", "payload", "rows", "items", "met"}
      /\ request'.rows = Newest /\ request'.met = request.met /\ request'.step = "save"
  BY <1>1 DEF ReviewInv, RequestHeld, Requests
<1>4. RequestHeld'
  BY <1>2, <1>3 DEF ReviewInv, RequestHeld, Tables, NONE
<1>5. Tables' /\ IndexOfItsSnapshot'
  BY <1>2 DEF ReviewInv, Tables, IndexOfItsSnapshot, ComputeRows
<1>. QED
  BY <1>2, <1>4, <1>5 DEF ReviewInv

\* Rows that are filed are the snapshot's own, or the race is noted.
LEMMA SaveKeeps == ReviewInv /\ SaveRows => ReviewInv'
<1> SUFFICES ASSUME ReviewInv, SaveRows PROVE ReviewInv'
  OBVIOUS
<1>1. Requests([request EXCEPT !.step = "build"])
  BY DEF SaveRows
<1>2. CampaignsHeld' /\ AnswersHeld' /\ Newest' = Newest /\ Engine' = Engine
      /\ snapshots' = snapshots /\ refreshed' = refreshed
  BY <1>1, RequestLeaves
<1>3. /\ DOMAIN request' = {"step", "payload", "rows", "items", "met"}
      /\ request'.rows = request.rows /\ request'.met = request.met /\ request'.step = "build"
  BY <1>1 DEF ReviewInv, RequestHeld, Requests
<1>4. RequestHeld'
  BY <1>2, <1>3 DEF ReviewInv, RequestHeld, SaveRows
<1>5. request.rows \in 0 .. Newest /\ request.met \in BOOLEAN /\ (~ request.met => request.rows = Newest)
  BY DEF ReviewInv, RequestHeld, SaveRows
<1>6. Tables'
  BY <1>2, <1>5 DEF ReviewInv, Tables, SaveRows
<1>7. IndexOfItsSnapshot'
  BY <1>2, <1>5 DEF ReviewInv, Tables, IndexOfItsSnapshot, SaveRows
<1>. QED
  BY <1>2, <1>4, <1>6, <1>7 DEF ReviewInv

\* Items are made of the rows of the engine, or the request has been met.
LEMMA BuildKeeps == ReviewInv /\ BuildCandidates => ReviewInv'
<1> SUFFICES ASSUME ReviewInv, BuildCandidates PROVE ReviewInv'
  OBVIOUS
<1>1. request.rows \in 1 .. Newest /\ (~ request.met => request.rows = Newest)
  BY DEF ReviewInv, RequestHeld, BuildCandidates, Tables, NONE
<1>2. PICK G \in World : G = snapshots[request.rows]
  BY <1>1 DEF ReviewInv, Tables, Newest
<1>3. PICK S \in Cut(Matching(PathRows(G), request.payload), request.payload.maxItems) :
         Requests(IF S = {} THEN NoRequest
                  ELSE [request EXCEPT !.step = "store", !.items = {Item(Engine, row) : row \in S}])
  BY <1>2 DEF BuildCandidates
<1>4. S \in SUBSET PathRows(G)
  BY <1>3 DEF Cut, Matching
<1>5. CampaignsHeld' /\ AnswersHeld' /\ Newest' = Newest /\ Engine' = Engine
      /\ snapshots' = snapshots /\ refreshed' = refreshed
  BY <1>3, RequestLeaves
<1>6. RequestHeld'
  <2>1. CASE S = {}
    <3>1. request' = NoRequest
      BY <1>3, <2>1 DEF Requests
    <3>. QED
      BY <1>5, <3>1 DEF ReviewInv, Tables, RequestHeld, NoRequest, NONE
  <2>2. CASE S # {}
    <3>1. PICK H : H = Engine
      OBVIOUS
    <3>2. PICK items : items = {Item(H, row) : row \in S}
      OBVIOUS
    <3>3. Items(items) /\ (G = H => Within(G, items)) /\ \A i \in items : i.decision = "pending"
      BY <1>4, <2>2, <3>2, ItemsOfRows
    <3>4. request' = [request EXCEPT !.step = "store", !.items = items]
      BY <1>3, <2>2, <3>1, <3>2 DEF Requests
    <3>5. /\ DOMAIN request' = {"step", "payload", "rows", "items", "met"} /\ request'.step = "store"
          /\ request'.rows = request.rows /\ request'.items = items /\ request'.met = request.met
      BY <3>4 DEF ReviewInv, RequestHeld
    <3>6. ~ request.met => G = Engine
      BY <1>1, <1>2 DEF Engine
    <3>. QED
      BY <1>5, <3>1, <3>3, <3>5, <3>6 DEF ReviewInv, RequestHeld
  <2>. QED
    BY <2>1, <2>2
<1>7. Tables' /\ IndexOfItsSnapshot'
  BY <1>5 DEF ReviewInv, Tables, IndexOfItsSnapshot, BuildCandidates
<1>. QED
  BY <1>5, <1>6, <1>7 DEF ReviewInv

\* A campaign takes the items of the request and the number of the engine.
LEMMA StoreKeeps == ReviewInv /\ StoreCampaign => ReviewInv'
<1> SUFFICES ASSUME ReviewInv, StoreCampaign PROVE ReviewInv'
  OBVIOUS
<1>1. PICK new : new = [stamp |-> Newest, status |-> "open", items |-> request.items, met |-> request.met]
  OBVIOUS
<1>2. campaigns' = Append(campaigns, new) /\ snapshots' = snapshots /\ Newest' = Newest /\ Engine' = Engine
  BY <1>1 DEF StoreCampaign, Newest, Engine
<1>3. CampaignsHeld'
  <2>1. ASSUME NEW c, CampaignHeld(c) PROVE CampaignHeld(c)'
    BY <1>2, <2>1 DEF CampaignHeld
  <2>2. CampaignHeld(new)
    <3>1. /\ Items(request.items) /\ \A i \in request.items : i.decision = "pending"
          /\ ~ request.met => Within(Engine, request.items)
          /\ request.met \in BOOLEAN /\ Newest \in 1 .. Newest
      BY DEF ReviewInv, RequestHeld, Tables, StoreCampaign
    <3>2. StatusOf(request.items) = "open"
      BY <3>1 DEF StatusOf, Items
    <3>. QED
      BY <1>1, <3>1, <3>2 DEF CampaignHeld, Engine
  <2>3. PICK S : campaigns \in Seq(S)
    BY DEF ReviewInv, CampaignsHeld
  <2>4. PICK n \in Nat : n = Len(campaigns)
    BY <2>3
  <2>5. /\ campaigns' \in Seq(S \cup {new}) /\ DOMAIN campaigns' = 1 .. n + 1
        /\ campaigns'[n + 1] = new /\ \A m \in 1 .. n : campaigns'[m] = campaigns[m]
    BY <1>2, <2>3, <2>4, OneMore
  <2>6. \A m \in 1 .. n : CampaignHeld(campaigns[m])
    BY <2>3, <2>4 DEF ReviewInv, CampaignsHeld
  <2>7. ASSUME NEW m \in 1 .. n + 1, NEW c, c = campaigns'[m] PROVE CampaignHeld(c)
    BY <2>2, <2>5, <2>6, <2>7
  <2>. QED
    BY <2>1, <2>5, <2>7 DEF CampaignsHeld
<1>4. Tables' /\ IndexOfItsSnapshot'
  BY <1>2 DEF ReviewInv, Tables, IndexOfItsSnapshot, StoreCampaign
<1>5. RequestHeld'
  BY <1>2 DEF ReviewInv, Tables, RequestHeld, StoreCampaign, NoRequest, NONE
<1>6. AnswersHeld'
  BY DEF AnswersHeld, StoreCampaign
<1>. QED
  BY <1>3, <1>4, <1>5, <1>6 DEF ReviewInv

\* Lists that have met a decision promise no more than their shape.
LEMMA MetListsHeld ==
    ASSUME ReviewInv, asked' = MetLists, Len(campaigns') = Len(campaigns)
    PROVE  AnswersHeld'
<1> SUFFICES ASSUME NEW a \in MetLists
             PROVE  a.kind = "list" /\ ListHeld(a)'
  BY DEF AnswersHeld
<1>1. PICK b \in asked : Unfinished(b) /\ a = [b EXCEPT !.met = TRUE]
  BY DEF MetLists
<1>2. /\ b \in [kind : {"list"}, status : Seq({"open", "completed"}), pending : Seq(Nat), met : BOOLEAN]
      /\ Len(b.status) <= Len(campaigns)
  BY <1>1 DEF ReviewInv, AnswersHeld, ListHeld, Unfinished
<1>3. /\ a \in [kind : {"list"}, status : Seq({"open", "completed"}), pending : Seq(Nat), met : BOOLEAN]
      /\ a.met /\ Len(a.status) <= Len(campaigns)
  BY <1>1, <1>2
<1>. QED
  BY <1>3 DEF ListHeld

\* The status is worked out anew with every decision.
LEMMA DecideKeeps ==
    ASSUME ReviewInv, NEW c \in DOMAIN campaigns, NEW item \in campaigns[c].items, NEW decision,
           Decide(c, item, decision)
    PROVE  ReviewInv'
<1>1. PICK before : before = campaigns[c]
  OBVIOUS
<1>2. PICK after : after = (before.items \ {item}) \cup {[item EXCEPT !.decision = decision]}
  OBVIOUS
<1>3. CampaignHeld(before) /\ item \in before.items
  BY <1>1 DEF ReviewInv, CampaignsHeld
<1>4. Items(after) /\ \A G : Within(G, before.items) => Within(G, after)
  <2>1. PICK items : items = before.items
    OBVIOUS
  <2>2. PICK decided : decided = [item EXCEPT !.decision = decision]
    OBVIOUS
  <2>3. Items(items) /\ item \in items
    BY <1>3, <2>1 DEF CampaignHeld
  <2>4. /\ DOMAIN decided = Fields /\ decided.principal = item.principal /\ decided.resource = item.resource
        /\ decided.permissions = item.permissions /\ decided.edge = item.edge
    BY <2>2, <2>3 DEF Items, Fields
  <2>5. after = (items \ {item}) \cup {decided}
    BY <1>2, <2>1, <2>2
  <2>6. Items((items \ {item}) \cup {decided})
        /\ \A G : Within(G, items) => Within(G, (items \ {item}) \cup {decided})
    BY <2>3, <2>4, DecidedItems
  <2>. QED
    BY <2>1, <2>5, <2>6
<1>5. PICK new : new = [before EXCEPT !.items = after, !.status = StatusOf(after)]
  OBVIOUS
<1>6. DOMAIN new = {"stamp", "status", "items", "met"} /\ new.stamp = before.stamp /\ new.met = before.met
      /\ new.items = after /\ new.status = StatusOf(after)
  BY <1>3, <1>5 DEF CampaignHeld
<1>7. CampaignHeld(new)
  BY <1>3, <1>4, <1>6 DEF CampaignHeld
<1>8. PICK S : campaigns \in Seq(S)
  BY DEF ReviewInv, CampaignsHeld
<1>9. campaigns' = [campaigns EXCEPT ![c] = new]
  BY <1>1, <1>2, <1>5, <1>8 DEF Decide
<1>10. snapshots' = snapshots /\ Newest' = Newest /\ Engine' = Engine
  BY DEF Decide, Newest, Engine
<1>11. CampaignsHeld'
  <2>1. ASSUME NEW d, CampaignHeld(d) PROVE CampaignHeld(d)'
    BY <1>10, <2>1 DEF CampaignHeld
  <2>2. campaigns \in Seq(S \cup {new})
    BY <1>8
  <2>3. campaigns' \in Seq(S \cup {new}) /\ DOMAIN campaigns' = DOMAIN campaigns
    BY <1>9, <2>2
  <2>4. ASSUME NEW m \in DOMAIN campaigns, NEW d, d = campaigns'[m] PROVE CampaignHeld(d)
    BY <1>7, <1>9, <2>4 DEF ReviewInv, CampaignsHeld
  <2>. QED
    BY <2>1, <2>3, <2>4 DEF CampaignsHeld
<1>12. Tables' /\ IndexOfItsSnapshot'
  BY <1>10 DEF ReviewInv, Tables, IndexOfItsSnapshot, Decide
<1>13. RequestHeld'
  BY <1>10 DEF ReviewInv, RequestHeld, Decide
<1>14. AnswersHeld'
  <2>1. Len(campaigns') = Len(campaigns)
    BY <1>8, <1>9
  <2>. QED
    BY <2>1, MetListsHeld DEF Decide
<1>. QED
  BY <1>11, <1>12, <1>13, <1>14 DEF ReviewInv

\* Questions about the graph are none about campaigns.
LEMMA AskKeeps ==
    ASSUME ReviewInv, NEW question, question.kind \notin {"list", "campaign"}, Ask(question)
    PROVE  ReviewInv'
<1>1. AnswersHeld'
  BY DEF AnswersHeld, Ask
<1>. QED
  BY <1>1, OnlyAnswers DEF Ask

\* A campaign is read with its items, under the lock.
LEMMA AskCampaignKeeps ==
    ASSUME ReviewInv, NEW c \in DOMAIN campaigns, AskCampaign(c)
    PROVE  ReviewInv'
<1>1. PICK camp : camp = campaigns[c]
  OBVIOUS
<1>2. CampaignHeld(camp)
  BY <1>1 DEF ReviewInv, CampaignsHeld
<1>3. PICK told : told = [id \in {i.principal : i \in camp.items} \cup {i.resource : i \in camp.items} |-> Resolved(id)]
  OBVIOUS
<1>4. PICK a : a = [kind |-> "campaign", id |-> c, status |-> camp.status,
                    pending |-> PendingOf(camp.items), sources |-> told]
  OBVIOUS
<1>5. asked' = {a} /\ UNCHANGED <<snapshots, index, refreshed, request, campaigns, raced>>
  BY <1>1, <1>3, <1>4 DEF AskCampaign
<1>6. a.kind = "campaign" /\ a.id = c /\ a.status = camp.status /\ a.pending = PendingOf(camp.items) /\ a.sources = told
  BY <1>4
<1>7. a.status = "completed" <=> a.pending = 0
  BY <1>2, <1>6, NothingPending DEF CampaignHeld
<1>8. ASSUME camp.stamp = Newest, ~ camp.met, NEW id \in DOMAIN told
      PROVE  told[id] = "engine"
  <2>1. Within(Engine, camp.items)
    BY <1>2, <1>8 DEF CampaignHeld, Engine
  <2>2. id \in DOMAIN Engine.entities
    BY <1>3, <1>8, <2>1 DEF Within, Told, PrincipalIds, ResourceIds, Ids
  <2>. QED
    BY <1>3, <1>8, <2>2 DEF Resolved
<1>9. DetailHeld(a)'
  BY <1>1, <1>5, <1>6, <1>7, <1>8 DEF DetailHeld, Newest
<1>10. AnswersHeld'
  BY <1>5, <1>6, <1>9 DEF AnswersHeld
<1>. QED
  BY <1>5, <1>10, OnlyAnswers

\* A list begins with what the campaigns say.
LEMMA AskListKeeps == ReviewInv /\ AskList => ReviewInv'
<1> SUFFICES ASSUME ReviewInv, AskList PROVE ReviewInv'
  OBVIOUS
<1>1. PICK stat : stat = [c \in DOMAIN campaigns |-> campaigns[c].status]
  OBVIOUS
<1>2. PICK a : a = [kind |-> "list", status |-> stat, pending |-> <<>>, met |-> FALSE]
  OBVIOUS
<1>3. asked' = {a} /\ UNCHANGED <<snapshots, index, refreshed, request, campaigns, raced>>
  BY <1>1, <1>2 DEF AskList
<1>4. PICK n \in Nat : DOMAIN campaigns = 1 .. n /\ Len(campaigns) = n
  BY DEF ReviewInv, CampaignsHeld
<1>5. \A c \in 1 .. n : stat[c] = campaigns[c].status /\ stat[c] \in {"open", "completed"}
  BY <1>1, <1>4, NothingPending DEF ReviewInv, CampaignsHeld, CampaignHeld
<1>6. stat \in Seq({"open", "completed"}) /\ Len(stat) = n
  BY <1>1, <1>4, <1>5
<1>7. /\ a \in [kind : {"list"}, status : Seq({"open", "completed"}), pending : Seq(Nat), met : BOOLEAN]
      /\ a.status = stat /\ a.pending = <<>> /\ a.kind = "list"
  BY <1>2, <1>6
<1>8. ListHeld(a)'
  BY <1>3, <1>4, <1>5, <1>6, <1>7 DEF ListHeld
<1>9. AnswersHeld'
  BY <1>3, <1>7, <1>8 DEF AnswersHeld
<1>. QED
  BY <1>3, <1>9, OnlyAnswers

\* While no decision has come in between, the next campaign counted still has
\* the status the list tells.
LEMMA CountKeeps == ReviewInv /\ CountPending => ReviewInv'
<1> SUFFICES ASSUME ReviewInv, CountPending PROVE ReviewInv'
  OBVIOUS
<1>1. PICK a \in asked :
         /\ Unfinished(a)
         /\ asked' = {[a EXCEPT !.pending = Append(@, PendingOf(campaigns[Len(@) + 1].items))]}
         /\ UNCHANGED <<snapshots, index, refreshed, request, campaigns, raced>>
  BY DEF CountPending
<1>2. ListHeld(a)
  BY <1>1 DEF ReviewInv, AnswersHeld, Unfinished
<1>3. PICK k \in Nat : k = Len(a.pending) /\ DOMAIN a.pending = 1 .. k
  BY <1>2 DEF ListHeld
<1>4. PICK camp : camp = campaigns[k + 1]
  OBVIOUS
<1>5. PICK b : b = [a EXCEPT !.pending = Append(a.pending, PendingOf(camp.items))]
  OBVIOUS
<1>6. asked' = {b}
  BY <1>1, <1>3, <1>4, <1>5
<1>7. b.kind = "list" /\ b.status = a.status /\ b.met = a.met /\ b.pending = Append(a.pending, PendingOf(camp.items))
  BY <1>2, <1>5 DEF ListHeld
<1>8. ListHeld(b)
  <2>1. k + 1 \in DOMAIN campaigns
    BY <1>1, <1>2, <1>3 DEF ListHeld, Unfinished, ReviewInv, CampaignsHeld
  <2>2. PICK n : n = PendingOf(camp.items)
    OBVIOUS
  <2>3. n \in Nat /\ (camp.status = "completed" <=> n = 0)
    BY <1>4, <2>1, <2>2, NothingPending DEF ReviewInv, CampaignsHeld, CampaignHeld
  <2>4. b.pending = Append(a.pending, n) /\ a.pending \in Seq(Nat)
    BY <1>2, <1>7, <2>2 DEF ListHeld
  <2>5. /\ b.pending \in Seq(Nat) /\ DOMAIN b.pending = 1 .. k + 1 /\ Len(b.pending) = k + 1
        /\ b.pending[k + 1] = n /\ \A c \in 1 .. k : b.pending[c] = a.pending[c]
    BY <1>3, <2>3, <2>4
  <2>6. b \in [kind : {"list"}, status : Seq({"open", "completed"}), pending : Seq(Nat), met : BOOLEAN]
    <3>1. PICK counted : counted = Append(a.pending, n)
      OBVIOUS
    <3>2. b = [a EXCEPT !.pending = counted] /\ counted \in Seq(Nat)
      BY <1>5, <1>7, <2>2, <2>4, <2>5, <3>1
    <3>. QED
      BY <1>2, <3>2 DEF ListHeld
  <2>7. ASSUME ~ b.met
        PROVE  /\ k + 1 <= Len(b.status)
               /\ \A c \in 1 .. k + 1 : b.status[c] = "completed" <=> b.pending[c] = 0
               /\ Len(b.status) = Len(campaigns)
               /\ \A c \in DOMAIN b.status : b.status[c] = campaigns[c].status
    <3>1. /\ ~ a.met /\ k < Len(a.status) /\ Len(a.status) \in Nat /\ DOMAIN a.status = 1 .. Len(a.status)
          /\ Len(a.status) = Len(campaigns)
          /\ \A c \in DOMAIN a.status : a.status[c] = campaigns[c].status
          /\ \A c \in 1 .. k : a.status[c] = "completed" <=> a.pending[c] = 0
      BY <1>1, <1>2, <1>3, <1>7, <2>7 DEF ListHeld, Unfinished
    <3>2. a.status[k + 1] = camp.status
      BY <1>3, <1>4, <3>1
    <3>. QED
      BY <1>3, <1>7, <2>3, <2>5, <3>1, <3>2
  <2>. QED
    BY <1>2, <1>7, <2>5, <2>6, <2>7 DEF ListHeld
<1>9. ListHeld(b)'
  BY <1>1, <1>8 DEF ListHeld
<1>10. AnswersHeld'
  BY <1>6, <1>7, <1>9 DEF AnswersHeld
<1>. QED
  BY <1>1, <1>10, OnlyAnswers

\* Every step.
LEMMA ReviewInvStep == ReviewInv /\ [Next]_vars => ReviewInv'
<1> SUFFICES ASSUME ReviewInv, [Next]_vars PROVE ReviewInv'
  OBVIOUS
<1>1. CASE UNCHANGED vars
  <2>1. AnswersHeld'
    BY <1>1 DEF vars, ReviewInv, AnswersHeld, ListHeld, DetailHeld, Newest
  <2>. QED
    BY <1>1, <2>1, OnlyAnswers DEF vars
<1>2. CASE Scan \/ RefreshIndex \/ ReadRows \/ ComputeRows \/ SaveRows \/ BuildCandidates \/ StoreCampaign
  BY <1>2, ScanKeeps, RefreshKeeps, ReadKeeps, ComputeKeeps, SaveKeeps, BuildKeeps, StoreKeeps
<1>3. CASE \E c \in DOMAIN campaigns : \E item \in campaigns[c].items :
              \E decision \in DECISIONS \ {item.decision} : Decide(c, item, decision)
  BY <1>3, DecideKeeps
<1>4. CASE \E e \in Engine.relationships : AskWhatIf(e)
  <2>1. PICK e \in Engine.relationships : AskWhatIf(e)
    BY <1>4
  <2>2. PICK question : question.kind = "whatif" /\ Ask(question)
    BY <2>1 DEF AskWhatIf, AskOfGraph
  <2>. QED
    BY <2>2, AskKeeps
<1>5. CASE AskOverview
  <2>1. PICK question : question.kind = "overview" /\ Ask(question)
    BY <1>5 DEF AskOverview, AskOfGraph
  <2>. QED
    BY <2>1, AskKeeps
<1>6. CASE \E limit \in Limits : AskRisks(limit)
  <2>1. PICK question : question.kind = "risks" /\ Ask(question)
    BY <1>6 DEF AskRisks
  <2>. QED
    BY <2>1, AskKeeps
<1>7. CASE \E account \in AccountNames : AskClusters(account)
  <2>1. PICK question : question.kind = "clusters" /\ Ask(question)
    BY <1>7 DEF AskClusters, AskOfGraph
  <2>. QED
    BY <2>1, AskKeeps
<1>8. CASE \E c \in DOMAIN campaigns : AskCampaign(c)
  BY <1>8, AskCampaignKeeps
<1>9. CASE AskList \/ CountPending
  BY <1>9, AskListKeeps, CountKeeps
<1>. QED
  BY <1>1, <1>2, <1>3, <1>4, <1>5, <1>6, <1>7, <1>8, <1>9 DEF Next

\* It always holds.
LEMMA ReviewAlways == Spec => []ReviewInv
  BY InitReviewInv, ReviewInvStep, PTL DEF Spec

------------------------------------------------------------------------------
(* The questions.                                                          *)

\* An answer is of the engine of the moment, and so are the findings unless
\* a request has stored rows under the wrong snapshot.
WhatIfHeld(a) ==
    /\ a.edge \in Engine.relationships /\ a.answer = Simulate(Engine, a.edge)
    /\ a.focus = Focus(a.answer.diff)
    /\ a.before = FocusAccess(Engine, {}, a.focus) /\ a.after = FocusAccess(Engine, {a.edge}, a.focus)
RisksHeld(a) ==
    /\ a.limit \in Nat
    /\ ~ raced => a.findings \in Findings(Engine, PathRows(Engine), a.limit)

QuestionHeld(a) ==
    /\ a.kind = "whatif" => WhatIfHeld(a)
    /\ a.kind = "overview" => a.answer = Overview(Engine)
    /\ a.kind = "risks" => RisksHeld(a)

QuestionsHeld == \A a \in asked : QuestionHeld(a)

\* A question is answered at once.
LEMMA AskedRightly ==
    ASSUME NEW question, Ask(question), QuestionHeld(question)'
    PROVE  QuestionsHeld'
  BY DEF Ask, QuestionsHeld

\* No question is pending while anything changes but the campaigns.
LEMMA QuestionsStep == ReviewInv /\ QuestionsHeld /\ [Next]_vars => QuestionsHeld'
<1> SUFFICES ASSUME ReviewInv, QuestionsHeld, [Next]_vars PROVE QuestionsHeld'
  OBVIOUS
<1>1. CASE UNCHANGED vars
  BY <1>1 DEF vars, QuestionsHeld, QuestionHeld, WhatIfHeld, RisksHeld, Engine, Newest
<1>2. CASE asked' = {}
  BY <1>2 DEF QuestionsHeld
<1>3. CASE Scan \/ RefreshIndex \/ ReadRows \/ ComputeRows \/ SaveRows \/ BuildCandidates \/ StoreCampaign
  <2>1. asked' = {}
    BY <1>3 DEF Scan, RefreshIndex, ReadRows, ComputeRows, SaveRows, BuildCandidates, StoreCampaign, Requests
  <2>. QED
    BY <1>2, <2>1
<1>4. CASE \A a \in asked' : a.kind \in {"list", "campaign"}
  BY <1>4 DEF QuestionsHeld, QuestionHeld
<1>5. CASE \E c \in DOMAIN campaigns : \E item \in campaigns[c].items :
              \E decision \in DECISIONS \ {item.decision} : Decide(c, item, decision)
  <2>1. asked' = MetLists
    BY <1>5 DEF Decide
  <2>2. ASSUME NEW b \in asked' PROVE b.kind = "list"
    <3>1. PICK a \in asked : Unfinished(a) /\ b = [a EXCEPT !.met = TRUE]
      BY <2>1 DEF MetLists
    <3>2. a \in [kind : {"list"}, status : Seq({"open", "completed"}), pending : Seq(Nat), met : BOOLEAN]
      BY <3>1 DEF ReviewInv, AnswersHeld, Unfinished, ListHeld
    <3>. QED
      BY <3>1, <3>2
  <2>. QED
    BY <1>4, <2>2
<1>6. CASE (\E c \in DOMAIN campaigns : AskCampaign(c)) \/ AskList
  <2>1. ASSUME NEW c \in DOMAIN campaigns, AskCampaign(c) PROVE \E a : a.kind = "campaign" /\ asked' = {a}
    <3>1. PICK told : told = [id \in {i.principal : i \in campaigns[c].items} \cup {i.resource : i \in campaigns[c].items}
                                |-> Resolved(id)]
      OBVIOUS
    <3>2. PICK a : a = [kind |-> "campaign", id |-> c, status |-> campaigns[c].status,
                        pending |-> PendingOf(campaigns[c].items), sources |-> told]
      OBVIOUS
    <3>3. asked' = {a} /\ a.kind = "campaign"
      BY <2>1, <3>1, <3>2 DEF AskCampaign
    <3>. QED
      BY <3>3
  <2>2. ASSUME AskList PROVE \E a : a.kind = "list" /\ asked' = {a}
    <3>1. PICK stat : stat = [c \in DOMAIN campaigns |-> campaigns[c].status]
      OBVIOUS
    <3>2. PICK a : a = [kind |-> "list", status |-> stat, pending |-> <<>>, met |-> FALSE]
      OBVIOUS
    <3>3. asked' = {a} /\ a.kind = "list"
      BY <2>2, <3>1, <3>2 DEF AskList
    <3>. QED
      BY <3>3
  <2>3. \E a : a.kind \in {"list", "campaign"} /\ asked' = {a}
    BY <1>6, <2>1, <2>2
  <2>. QED
    BY <1>4, <2>3
<1>7. CASE CountPending
  <2>1. PICK a \in asked : Unfinished(a) /\ \E n : asked' = {[a EXCEPT !.pending = n]}
    BY <1>7 DEF CountPending
  <2>2. PICK n : asked' = {[a EXCEPT !.pending = n]}
    BY <2>1
  <2>3. a \in [kind : {"list"}, status : Seq({"open", "completed"}), pending : Seq(Nat), met : BOOLEAN]
    BY <2>1 DEF ReviewInv, AnswersHeld, Unfinished, ListHeld
  <2>. QED
    BY <1>4, <2>2, <2>3
<1>8. ASSUME NEW question, Ask(question) PROVE Engine' = Engine /\ raced' = raced
  BY <1>8 DEF Ask, Engine, Newest
<1>9. CASE \E e \in Engine.relationships : AskWhatIf(e)
  <2>1. PICK e \in Engine.relationships : AskWhatIf(e)
    BY <1>9
  <2>2. PICK answer : answer = Simulate(Engine, e)
    OBVIOUS
  <2>3. PICK focus : focus = Focus(answer.diff)
    OBVIOUS
  <2>4. PICK question : question = [kind |-> "whatif", edge |-> e, answer |-> answer,
           blast |-> TopBlast(answer.diff, ShownImpacts), focus |-> focus,
           before |-> FocusAccess(Engine, {}, focus), after |-> FocusAccess(Engine, {e}, focus)]
    OBVIOUS
  <2>5. Ask(question)
    BY <2>1, <2>2, <2>3, <2>4 DEF AskWhatIf, AskOfGraph
  <2>6. /\ question.kind = "whatif" /\ question.edge = e /\ question.answer = answer /\ question.focus = focus
        /\ question.before = FocusAccess(Engine, {}, focus) /\ question.after = FocusAccess(Engine, {e}, focus)
    BY <2>4
  <2>7. QuestionHeld(question)'
    BY <1>8, <2>2, <2>3, <2>5, <2>6 DEF QuestionHeld, WhatIfHeld
  <2>. QED
    BY <2>5, <2>7, AskedRightly
<1>10. CASE AskOverview
  <2>1. PICK question : question = [kind |-> "overview", answer |-> Overview(Engine)]
    OBVIOUS
  <2>2. Ask(question) /\ question.kind = "overview" /\ question.answer = Overview(Engine)
    BY <1>10, <2>1 DEF AskOverview, AskOfGraph
  <2>3. QuestionHeld(question)'
    BY <1>8, <2>2 DEF QuestionHeld
  <2>. QED
    BY <2>2, <2>3, AskedRightly
<1>11. CASE \E limit \in Limits : AskRisks(limit)
  <2>1. PICK limit \in Limits : AskRisks(limit)
    BY <1>11
  <2>a. limit \in Nat
    BY WorldAssumption
  <2>2. PICK n : n = IF index[Newest] = NONE THEN Newest ELSE index[Newest]
    OBVIOUS
  <2>3. PICK findings \in Findings(Engine, PathRows(snapshots[n]), limit) :
           Ask([kind |-> "risks", limit |-> limit, findings |-> findings])
    BY <2>1, <2>2 DEF AskRisks
  <2>4. PICK question : question = [kind |-> "risks", limit |-> limit, findings |-> findings]
    OBVIOUS
  <2>5. Ask(question) /\ question.kind = "risks" /\ question.limit = limit /\ question.findings = findings
    BY <2>3, <2>4
  <2>6. ~ raced => n = Newest
    BY <2>2 DEF ReviewInv, Tables, IndexOfItsSnapshot
  <2>7. ~ raced => findings \in Findings(Engine, PathRows(Engine), limit)
    BY <2>3, <2>6 DEF Engine
  <2>8. QuestionHeld(question)'
    BY <1>8, <2>a, <2>5, <2>7 DEF QuestionHeld, RisksHeld
  <2>. QED
    BY <2>5, <2>8, AskedRightly
<1>12. CASE \E account \in AccountNames : AskClusters(account)
  <2>1. PICK question : question.kind = "clusters" /\ Ask(question)
    BY <1>12 DEF AskClusters, AskOfGraph
  <2>2. QuestionHeld(question)'
    BY <2>1 DEF QuestionHeld
  <2>. QED
    BY <2>1, <2>2, AskedRightly
<1>. QED
  BY <1>1, <1>3, <1>5, <1>6, <1>7, <1>9, <1>10, <1>11, <1>12 DEF Next

\* All answers are right at all times.
LEMMA QuestionsAlways == Spec => [](ReviewInv /\ QuestionsHeld)
<1>1. Init => QuestionsHeld
  BY DEF Init, QuestionsHeld
<1>. QED
  BY <1>1, InitReviewInv, ReviewInvStep, QuestionsStep, PTL DEF Spec

------------------------------------------------------------------------------
(* What follows.                                                           *)

\* Whatever order reviewers decide in, take decisions back and meet each other
\* in, a campaign is completed exactly while all of its items are decided, and
\* a pair has one item in it, whatever rows it was made of.
THEOREM StatusAlwaysFollows == Spec => []CampaignsInv
<1>1. ReviewInv => CampaignsInv
  <2> SUFFICES ASSUME ReviewInv PROVE CampaignsInv
    OBVIOUS
  <2>1. StatusFollowsDecisions
    BY DEF ReviewInv, CampaignsHeld, CampaignHeld, StatusFollowsDecisions
  <2>2. ASSUME NEW c \in DOMAIN campaigns
        PROVE  /\ campaigns[c].status \in {"open", "completed"} /\ campaigns[c].stamp \in 1 .. Newest
               /\ campaigns[c].items # {}
               /\ \A i, j \in campaigns[c].items :
                     i.principal = j.principal /\ i.resource = j.resource => i = j
    BY NothingPending DEF ReviewInv, CampaignsHeld, CampaignHeld, Items
  <2>3. TypeOK
    BY <2>2 DEF ReviewInv, Tables, RequestHeld, TypeOK
  <2>. QED
    BY <2>1, <2>3 DEF CampaignsInv
<1>. QED
  BY <1>1, ReviewAlways, PTL

\* The rows stored under a snapshot are its own, as long as no request that a
\* scan had met between its computation and its write has stored any.
THEOREM RowsAreTheirSnapshots == Spec => []IndexOfItsSnapshot
<1>1. ReviewInv => IndexOfItsSnapshot
  BY DEF ReviewInv
<1>. QED
  BY <1>1, ReviewAlways, PTL

\* What a review creates is of the snapshot it is filed under: the rows it stores
\* on the way, and in its campaign the permissions of every item and the edge that
\* is suggested for it, which can be removed and is on a path told of the pair.
THEOREM ReviewsAlwaysOfOneSnapshot == Spec => []ReviewsOfOneSnapshot
<1>1. ReviewInv => ReviewsOfOneSnapshot
  <2> SUFFICES ASSUME ReviewInv PROVE CampaignOfOneSnapshot
    BY DEF ReviewInv, ReviewsOfOneSnapshot
  <2> SUFFICES ASSUME NEW c \in DOMAIN campaigns, NEW G, G = snapshots[campaigns[c].stamp],
                      ~ campaigns[c].met, NEW i \in campaigns[c].items
               PROVE  /\ \E row \in AccessIndexForScope(G, {i.principal}, {i.resource}) :
                            i.permissions \subseteq row.permissions
                      /\ i.edge # NONE =>
                            \E e \in EdgesById(G, i.edge) : \E entry \in Explain(G, i.principal, i.resource) :
                               e.removable /\ e \in ExplainedEdges(entry)
    BY DEF CampaignOfOneSnapshot
  <2>1. Told(G, i)
    BY DEF ReviewInv, CampaignsHeld, CampaignHeld, Within
  <2>. QED
    BY <2>1 DEF Told, OnToldPath
<1>. QED
  BY <1>1, ReviewAlways, PTL

\* As long as the snapshot of a campaign is the engine's, there is a plan for
\* every suggestion, and the pair is among those it works out: a path of the
\* pair has the edge.
THEOREM PlansAlwaysStand == Spec => []PlanStands
<1>1. ReviewInv => PlanStands
  <2> SUFFICES ASSUME ReviewInv, NEW c \in DOMAIN campaigns, ~ campaigns[c].met, campaigns[c].stamp = Newest,
                      NEW i \in campaigns[c].items, i.edge # NONE
               PROVE  /\ Plan(i) # {}
                      /\ \A e \in EdgesById(Engine, i.edge) : e.kind # "contains" =>
                            /\ i.principal \in ImpactedPrincipals(Engine, e)
                            /\ i.resource \in ImpactedResources(Engine, e)
                            /\ \E path \in PairPaths(Engine, {}, i.principal, i.resource) :
                                  e \in Steps(path.edges)
    BY DEF PlanStands
  <2>1. PICK G \in World : G = Engine
    BY DEF ReviewInv, Tables, Engine, Newest
  <2>2. Told(G, i)
    BY <2>1 DEF ReviewInv, CampaignsHeld, CampaignHeld, Within, Engine
  <2>3. PICK d \in EdgesById(G, i.edge) : OnToldPath(G, d, i.principal, i.resource)
    BY <2>2 DEF Told
  <2>4. Plan(i) # {}
    BY <2>1, <2>3 DEF Plan, OnToldPath
  <2>5. Graph(G) /\ i.principal \in PrincipalIds(G)
    BY <2>2, WorldShape DEF Told
  <2>6. ASSUME NEW e \in EdgesById(G, i.edge) PROVE e = d
    BY <2>5 DEF EdgesById, Graph, WellFormed
  <2>7. PICK path \in PairPaths(G, {}, i.principal, i.resource) : d \in Steps(path.edges)
    BY <2>3 DEF OnToldPath
  <2>8. d.kind # "contains" => i.principal \in ImpactedPrincipals(G, d) /\ i.resource \in ImpactedResources(G, d)
    BY <2>5, <2>7, PathTouched
  <2>. QED
    BY <2>1, <2>4, <2>6, <2>7, <2>8
<1>. QED
  BY <1>1, ReviewAlways, PTL

\* A what-if answer is worked out from the pairs an edge can touch alone, and it
\* is the answer from all pairs: nobody else loses a permission or a path.  What is
\* shown with it is that difference on one resource, and where all paths are kept it
\* is exactly what the definition of access loses with the edge.
THEOREM WhatIfAlwaysExact == Spec => []WhatIfExact
<1>1. ReviewInv /\ QuestionsHeld => WhatIfExact
  <2> SUFFICES ASSUME ReviewInv, QuestionsHeld, NEW a \in Asked("whatif"), NEW all, NEW after,
                      all = FullMap(Engine, {}), after = FullMap(Engine, {a.edge})
               PROVE  /\ (\A entry \in after : entry.count <= Kept \/ entry.resource \in Undenied(Engine))
                            => a.answer = WhatIfOf(all, after)
                      /\ Diff(a.before, a.after) = {d \in a.answer.diff : d.resource \in a.focus}
                      /\ a.edge.kind # "contains" /\ (\A entry \in all \cup after : entry.count <= Kept)
                            => a.answer.diff = Lost(Engine, a.edge)
    BY DEF WhatIfExact
  <2>1. PICK G \in World : G = Engine
    BY DEF ReviewInv, Tables, Engine, Newest
  <2>2. WhatIfHeld(a)
    BY DEF Asked, QuestionsHeld, QuestionHeld
  <2>3. PICK e \in G.relationships : e = a.edge
    BY <2>1, <2>2 DEF WhatIfHeld
  <2>4. Graph(G)
    BY WorldShape
  <2>5. FocusTells(G, e, a.focus)
    BY <2>1, <2>2, <2>3, <2>4, WhatIfTells DEF WhatIfHeld
  <2>6. Diff(a.before, a.after) = {d \in a.answer.diff : d.resource \in a.focus}
    BY <2>1, <2>2, <2>3, <2>5 DEF WhatIfHeld, FocusTells
  <2>7. a.answer = Simulate(G, e)
    BY <2>1, <2>2, <2>3 DEF WhatIfHeld
  <2>8. /\ (\A entry \in after : entry.count <= Kept \/ entry.resource \in Undenied(G)) => a.answer = WhatIfOf(all, after)
        /\ e.kind # "contains" /\ (\A entry \in all \cup after : entry.count <= Kept) => a.answer.diff = Lost(G, e)
    BY <2>1, <2>3, <2>4, <2>7, WhatIfTells
  <2>. QED
    BY <2>1, <2>3, <2>6, <2>8
<1>. QED
  BY <1>1, QuestionsAlways, PTL

\* What is told from the paths that are kept is the access that the definition
\* gives: the pairs and the permissions of the map, the most exposed resources and
\* the scenarios of the overview, each unless those that are shown are as much or
\* more, and the findings, all of them if they are fewer than the limit.
THEOREM InsightsAlwaysTell == Spec => []InsightsTellAccess
<1>1. ReviewInv /\ QuestionsHeld => InsightsTellAccess
  <2> SUFFICES ASSUME ReviewInv, QuestionsHeld PROVE InsightsTellAccess
    OBVIOUS
  <2>1. PICK G \in World : G = Engine
    BY DEF ReviewInv, Tables, Engine, Newest
  <2>2. Graph(G)
    BY WorldShape
  <2>3. PathsTellAccess
    BY <2>1, <2>2, MapTellsIndex DEF PathsTellAccess
  <2>4. ASSUME NEW a \in Asked("overview")
        PROVE  a.answer.hotspots = TopHotspots(G, FullMap(G, {})) /\ a.answer.scenarios = TopScenarios(G)
    <3>1. a.answer = Overview(G)
      BY <2>1 DEF Asked, QuestionsHeld, QuestionHeld
    <3>. QED
      BY <3>1 DEF Overview
  <2>5. HotspotsTellExposure
    <3> SUFFICES ASSUME NEW a \in Asked("overview"), NEW row \in ExposureIndex(AccessIndex(G)),
                        \A p \in PrincipalIds(G) : Whole(G, p, row.resource)
                 PROVE  LET shown == {s \in a.answer.hotspots : s.resource = row.resource}
                        IN  IF shown # {} THEN \A s \in shown : s.privileged = row.privileged
                            ELSE \/ row.privileged = 0
                                 \/ /\ Cardinality(a.answer.hotspots) >= ShownSpots
                                    /\ \A s \in a.answer.hotspots :
                                          Exposure(G, s) >= Exposure(G, [s EXCEPT !.resource = row.resource,
                                                                !.privileged = row.privileged, !.delegated = 0])
      BY <2>1 DEF HotspotsTellExposure
    <3>. QED
      BY <2>2, <2>4, HotspotsTell
  <2>6. ScenariosTellLosses
    <3> SUFFICES ASSUME NEW a \in Asked("overview"), NEW e \in G.relationships,
                        e.removable, e.kind # "contains", Lost(G, e) # {}
                 PROVE  LET losers == {d.principal : d \in Lost(G, e)}
                            offered == {s \in a.answer.scenarios : s.edge = e}
                        IN  IF offered # {}
                            THEN \A s \in offered : /\ losers \subseteq s.principals
                                                    /\ {d.resource : d \in Lost(G, e)} \subseteq s.resources
                            ELSE /\ Cardinality(a.answer.scenarios) >= ShownScenarios
                                 /\ \A s \in a.answer.scenarios : Cardinality(s.principals) >= Cardinality(losers)
      BY <2>1 DEF ScenariosTellLosses
    <3>. QED
      BY <2>2, <2>4, ScenariosTell
  <2>7. RisksTellAccess
    <3>1. ASSUME ~ raced, NEW a \in Asked("risks")
          PROVE  a.limit \in Nat /\ a.findings \in Findings(G, PathRows(G), a.limit)
      BY <2>1, <3>1 DEF Asked, QuestionsHeld, QuestionHeld, RisksHeld
    <3>. QED
      BY <2>1, <2>2, <3>1, FindingsTell DEF RisksTellAccess, ToldOf
  <2>. QED
    BY <2>3, <2>5, <2>6, <2>7 DEF InsightsTellAccess
<1>. QED
  BY <1>1, QuestionsAlways, PTL

\* A list shows a campaign as completed exactly if it counts nothing as pending
\* in it, although it counts after it has read the status and without the lock,
\* unless a decision came in between; and a campaign whose snapshot is the
\* engine's shows nothing as of the past.
THEOREM ReviewsAlwaysTold == Spec => []ReviewsAreTold
<1>1. ReviewInv => ReviewsAreTold
  BY DEF ReviewInv, AnswersHeld, ListHeld, DetailHeld, ReviewsAreTold, Asked
<1>. QED
  BY <1>1, ReviewAlways, PTL
=============================================================================
