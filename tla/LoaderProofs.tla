----------------------------- MODULE LoaderProofs -----------------------------
(***************************************************************************)
(* For every volume, every drive and every number of polls.                *)
(*                                                                         *)
(* FAT16: traverse_chain returns a chain exactly where the table has one,  *)
(* strsplit cuts every string right.                                       *)
(*                                                                         *)
(* The driver: words are taken only while the drive offers some, a read    *)
(* that reports success delivered what was asked for (SectorReader), and   *)
(* after a read that left an error bit set no read succeeds any more.      *)
(*                                                                         *)
(* The loader: driver and loader keep their types; the kernel that is      *)
(* started is the whole kernel, and what the loader does to memory that is *)
(* not its own has the causes it says it has.                              *)
(***************************************************************************)
EXTENDS Loader, FiniteSetTheorems, SequenceTheorems, TLAPS

-----------------------------------------------------------------------------
(* Induction.  The theorems of the library take the property to be proved  *)
(* as an operator; here it is a set, and that a set of numbers has a least *)
(* element comes from the well-foundedness of the finite sets 0 .. n - 1.  *)
Below(n) == 0 .. n - 1

LEMMA Least ==
  ASSUME NEW T, T \subseteq Nat, T # {}
  PROVE  \E x \in T : \A y \in T : x <= y
<1> DEFINE D == {Below(n) : n \in T}
           R == StrictSubsetOrdering(Nat)
<1>1. D \subseteq FiniteSubsetsOf(Nat) /\ D # {}
  <2>1. \A n \in T : IsFiniteSet(Below(n)) /\ Below(n) \subseteq Nat
    BY FS_Interval DEF Below
  <2>2. \A n \in T : Below(n) \in FiniteSubsetsOf(Nat)
    BY <2>1 DEF FiniteSubsetsOf
  <2> QED  BY <2>2
<1>2. PICK X \in D : \A Y \in D : ~ (<<Y, X>> \in R)
  <2> HIDE DEF D, R
  <2>1. IsWellFoundedOn(R, FiniteSubsetsOf(Nat))
    BY FS_StrictSubsetOrderingWellFounded DEF R
  <2> QED  BY <1>1, <2>1, WFMin
<1>3. PICK x \in T : X = Below(x)
  BY <1>2
<1>4. ASSUME NEW y \in T, ~ (x <= y)
      PROVE  FALSE
  <2>1. Below(y) \in D
    OBVIOUS
  <2>2. Below(y) \subseteq Below(x) /\ Below(y) # Below(x) /\ Below(x) \subseteq Nat
    <3>1. x \in Nat /\ y \in Nat /\ y < x
      BY <1>4
    <3>2. y \in Below(x) /\ y \notin Below(y)
      BY <3>1 DEF Below
    <3> QED  BY <3>1, <3>2 DEF Below
  <2>3. <<Below(y), Below(x)>> \in R
    BY <2>2 DEF StrictSubsetOrdering
  <2> QED  BY <1>2, <1>3, <2>1, <2>3
<1> QED  BY <1>4

LEMMA SetInduction ==
  ASSUME NEW S, 0 \in S, \A n \in Nat : n \in S => n + 1 \in S
  PROVE  Nat \subseteq S
<1> DEFINE T == Nat \ S
<1> SUFFICES ASSUME T # {} PROVE FALSE
  OBVIOUS
<1>1. PICK x \in T : \A y \in T : x <= y
  BY Least
<1>2. x \in Nat /\ x # 0 /\ x - 1 \in Nat /\ ~ (x <= x - 1)
  BY <1>1
<1>3. x - 1 \in S
  BY <1>1, <1>2
<1> QED  BY <1>1, <1>2, <1>3

-----------------------------------------------------------------------------
(* The loop of traverse_chain does what its body says: the recursive       *)
(* function Walk exists.                                                   *)
LEMMA WalkSteps ==
  ASSUME NEW fat, IsFiniteSet(DOMAIN fat), NEW start
  PROVE  /\ Walk(fat, start)[0] = [chain |-> NULL, current |-> start]
         /\ \A i \in 0 .. Cardinality(DOMAIN fat) - 1 :
              Walk(fat, start)[i + 1] = Follow(fat, Walk(fat, start)[i])
<1> DEFINE first == [chain |-> NULL, current |-> start]
           Body(g, i) == IF i = 0 THEN first ELSE Follow(fat, g[i - 1])
           N == Cardinality(DOMAIN fat)
           Good == {m \in Nat : \E g : g = [i \in 0 .. m |-> Body(g, i)]}
<1>1. 0 \in Good
  <2>1. [i \in 0 .. 0 |-> first] = [i \in 0 .. 0 |-> Body([j \in 0 .. 0 |-> first], i)]
    OBVIOUS
  <2> QED  BY <2>1
<1>2. ASSUME NEW m \in Nat, m \in Good PROVE m + 1 \in Good
  <2>1. PICK g : g = [i \in 0 .. m |-> Body(g, i)]
    BY <1>2
  <2> DEFINE h == [i \in 0 .. m + 1 |-> IF i <= m THEN g[i] ELSE Follow(fat, g[m])]
  <2>2. ASSUME NEW i \in 0 .. m + 1 PROVE h[i] = Body(h, i)
    <3>1. CASE i = 0
      BY <2>1, <3>1
    <3>2. CASE i \in 1 .. m
      <4>1. g[i] = Follow(fat, g[i - 1]) /\ h[i - 1] = g[i - 1] /\ h[i] = g[i]
        BY <2>1, <3>2
      <4> QED  BY <4>1, <3>2
    <3>3. CASE i = m + 1
      <4>1. h[i] = Follow(fat, g[m]) /\ h[m] = g[m] /\ i - 1 = m /\ i # 0
        BY <3>3
      <4> QED  BY <4>1
    <3> QED  BY <3>1, <3>2, <3>3
  <2>3. h = [i \in 0 .. m + 1 |-> Body(h, i)]
    <3>1. h = [i \in 0 .. m + 1 |-> h[i]]
      OBVIOUS
    <3> QED  BY <2>2, <3>1
  <2> HIDE DEF h, Body
  <2>4. \E g2 : g2 = [i \in 0 .. m + 1 |-> Body(g2, i)]
    BY <2>3
  <2> QED  BY <2>4
<1>3. N \in Good
  <2>1. N \in Nat
    BY FS_CardinalityType
  <2> HIDE DEF Good
  <2> QED  BY <1>1, <1>2, <2>1, SetInduction
<1>4. Walk(fat, start) = [i \in 0 .. N |-> Body(Walk(fat, start), i)]
  <2>1. Walk(fat, start) = CHOOSE g : g = [i \in 0 .. N |-> Body(g, i)]
    BY DEF Walk
  <2>2. \E g : g = [i \in 0 .. N |-> Body(g, i)]
    BY <1>3
  <2> HIDE DEF Body, N
  <2> QED  BY <2>1, <2>2
<1>5. N \in Nat
  BY FS_CardinalityType
<1> QED  BY <1>4, <1>5

(* What the loop has after i times: a way through the table from start,    *)
(* which has gone on i times or has come to a value that ends it.          *)
Clusters(fat) == DOMAIN fat \ {FAT_FREE_SECTOR, FAT_BAD_SECTOR}

Linked(fat, c) == \A k \in 1 .. Len(c) - 1 : c[k + 1] = fat[c[k]]

Reached(fat, start, i, w) ==
  /\ w.chain \in Seq(Clusters(fat)) /\ w.current \in Nat
  /\ Len(w.chain) <= i
  /\ Len(w.chain) = i \/ ~ Usable(fat, w.current)
  /\ Len(w.chain) = 0 => w.current = start
  /\ Len(w.chain) > 0 => w.chain[1] = start /\ w.current = fat[w.chain[Len(w.chain)]]
  /\ Linked(fat, w.chain)

LEMMA FollowReaches ==
  ASSUME NEW n \in Nat, NEW fat \in [0 .. n - 1 -> Nat], NEW start \in Nat,
         NEW i \in Nat, NEW w, Reached(fat, start, i, w)
  PROVE  Reached(fat, start, i + 1, Follow(fat, w))
<1> DEFINE c == w.chain
           l == Len(c)
<1>1. c \in Seq(Clusters(fat)) /\ l \in Nat /\ l <= i
  BY DEF Reached
<1>2. CASE ~ Usable(fat, w.current)
  <2>1. Follow(fat, w) = w
    BY <1>2 DEF Follow
  <2> QED  BY <1>1, <1>2, <2>1 DEF Reached
<1>3. CASE Usable(fat, w.current)
  <2> DEFINE d == Append(c, w.current)
  <2>1. Follow(fat, w) = [chain |-> d, current |-> fat[w.current]]
    BY <1>3 DEF Follow
  <2>2. w.current \in Clusters(fat) /\ fat[w.current] \in Nat
    BY <1>3 DEF Usable, Clusters
  <2>3. /\ d \in Seq(Clusters(fat)) /\ Len(d) = l + 1 /\ d[l + 1] = w.current
        /\ \A k \in 1 .. l : d[k] = c[k]
    BY <1>1, <2>2
  <2>4. l = i
    BY <1>3 DEF Reached
  <2>5. d[1] = start
    <3>1. CASE l = 0
      BY <2>3, <3>1 DEF Reached
    <3>2. CASE l > 0
      BY <1>1, <2>3, <3>2 DEF Reached
    <3> QED  BY <1>1, <3>1, <3>2
  <2>6. Linked(fat, d)
    <3> SUFFICES ASSUME NEW k \in 1 .. l PROVE d[k + 1] = fat[d[k]]
      BY <2>3 DEF Linked
    <3>1. CASE k = l
      BY <1>1, <2>3, <3>1 DEF Reached
    <3>2. CASE k < l
      <4>1. d[k + 1] = c[k + 1] /\ d[k] = c[k]
        BY <1>1, <2>3, <3>2
      <4> QED  BY <1>1, <3>2, <4>1 DEF Reached, Linked
    <3> QED  BY <1>1, <3>1, <3>2
  <2> HIDE DEF c, l, d
  <2>7. Reached(fat, start, i + 1, [chain |-> d, current |-> fat[w.current]])
    BY <1>1, <2>2, <2>3, <2>4, <2>5, <2>6 DEF Reached
  <2> QED  BY <2>1, <2>7
<1> QED  BY <1>2, <1>3

LEMMA WalkReaches ==
  ASSUME NEW n \in Nat, NEW fat \in [0 .. n - 1 -> Nat], NEW start \in Nat
  PROVE  /\ Cardinality(DOMAIN fat) = n /\ IsFiniteSet(DOMAIN fat)
         /\ \A i \in 0 .. n : Reached(fat, start, i, Walk(fat, start)[i])
<1>1. DOMAIN fat = 0 .. n - 1 /\ Cardinality(DOMAIN fat) = n /\ IsFiniteSet(DOMAIN fat)
  <2>1. IsFiniteSet(0 .. n - 1) /\ Cardinality(0 .. n - 1) = IF 0 > n - 1 THEN 0 ELSE n - 1 - 0 + 1
    BY FS_Interval
  <2>2. Cardinality(0 .. n - 1) = n
    BY <2>1
  <2> QED  BY <2>1, <2>2
<1>5. /\ Walk(fat, start)[0] = [chain |-> NULL, current |-> start]
      /\ \A i \in 0 .. n - 1 : Walk(fat, start)[i + 1] = Follow(fat, Walk(fat, start)[i])
  <2>1. /\ Walk(fat, start)[0] = [chain |-> NULL, current |-> start]
        /\ \A i \in 0 .. Cardinality(DOMAIN fat) - 1 :
             Walk(fat, start)[i + 1] = Follow(fat, Walk(fat, start)[i])
    BY <1>1, WalkSteps
  <2> QED  BY <1>1, <2>1
<1> DEFINE Good == {i \in Nat : i <= n => Reached(fat, start, i, Walk(fat, start)[i])}
<1>2. 0 \in Good
  <2>2. Reached(fat, start, 0, [chain |-> NULL, current |-> start])
    BY DEF Reached, Linked, NULL
  <2> QED  BY <1>5, <2>2
<1>3. ASSUME NEW i \in Nat, i \in Good PROVE i + 1 \in Good
  <2> SUFFICES ASSUME i + 1 <= n PROVE Reached(fat, start, i + 1, Walk(fat, start)[i + 1])
    OBVIOUS
  <2>1. i \in 0 .. n - 1 /\ Reached(fat, start, i, Walk(fat, start)[i])
    BY <1>3
  <2>2. Walk(fat, start)[i + 1] = Follow(fat, Walk(fat, start)[i])
    BY <1>5, <2>1
  <2> QED  BY <2>1, <2>2, FollowReaches
<1>4. Nat \subseteq Good
  <2> HIDE DEF Good
  <2> QED  BY <1>2, <1>3, SetInduction
<1> QED  BY <1>1, <1>4

(* A way that comes to a cluster twice goes round from there on.           *)
LEMMA GoesRound ==
  ASSUME NEW fat, NEW D, NEW c \in Seq(D), Linked(fat, c),
         NEW a \in 1 .. Len(c), NEW b \in 1 .. Len(c), a < b, c[a] = c[b]
  PROVE  \E k \in 1 .. Len(c) : fat[c[Len(c)]] = c[k]
<1> DEFINE l == Len(c)
           Good == {m \in Nat : b + m <= l => c[b + m] = c[a + m]}
<1>1. l \in Nat /\ a \in Nat /\ b \in Nat
  OBVIOUS
<1>2. 0 \in Good
  OBVIOUS
<1>3. ASSUME NEW m \in Nat, m \in Good PROVE m + 1 \in Good
  <2> SUFFICES ASSUME b + (m + 1) <= l PROVE c[b + (m + 1)] = c[a + (m + 1)]
    OBVIOUS
  <2>1. c[b + m] = c[a + m]
    BY <1>3
  <2>2. b + m \in 1 .. l - 1 /\ a + m \in 1 .. l - 1
    OBVIOUS
  <2>3. c[(b + m) + 1] = fat[c[b + m]] /\ c[(a + m) + 1] = fat[c[a + m]]
    BY <2>2 DEF Linked
  <2>4. (b + m) + 1 = b + (m + 1) /\ (a + m) + 1 = a + (m + 1)
    OBVIOUS
  <2> QED  BY <2>1, <2>3, <2>4
<1>4. l - b \in Good
  <2>1. l - b \in Nat
    OBVIOUS
  <2> HIDE DEF Good
  <2> QED  BY <1>2, <1>3, <2>1, SetInduction
<1>5. c[l] = c[l - b + a]
  <2>1. c[b + (l - b)] = c[a + (l - b)]
    BY <1>1, <1>4
  <2>2. b + (l - b) = l /\ a + (l - b) = l - b + a
    BY <1>1
  <2> QED  BY <2>1, <2>2
<1>6. l - b + a \in 1 .. l - 1 /\ (l - b + a) + 1 \in 1 .. l
  OBVIOUS
<1>7. c[(l - b + a) + 1] = fat[c[l - b + a]]
  BY <1>6 DEF Linked
<1> QED  BY <1>5, <1>6, <1>7

(* traverse_chain, for every table of fewer entries than FAT_EOC_START and *)
(* every start: it returns a chain exactly where the table has one, and    *)
(* the chain it returns is that one.                                       *)
LEMMA ChainCorrect ==
  ASSUME NEW n \in Nat, n <= FAT_EOC_START, NEW fat \in [0 .. n - 1 -> Nat], NEW start \in Nat
  PROVE  LET c == traverse_chain(fat, start)
         IN  /\ c \in Seq(Clusters(fat))
             /\ c # NULL <=> start < FAT_EOC_START /\ Sane(fat, start)
             /\ c # NULL => IsChain(c, fat, start)
<1> DEFINE w == Walk(fat, start)[n]
           c == w.chain
           l == Len(c)
           EOC == FAT_EOC_START
           Result == traverse_chain(fat, start)
<1>1. /\ Cardinality(DOMAIN fat) = n /\ DOMAIN fat = 0 .. n - 1 /\ IsFiniteSet(DOMAIN fat)
      /\ \A i \in 0 .. n : Reached(fat, start, i, Walk(fat, start)[i])
  BY WalkReaches
<1>2. Result = IF l = n \/ w.current >= EOC THEN c ELSE NULL
  BY <1>1 DEF traverse_chain
<1>3. Reached(fat, start, n, w) /\ EOC \in Nat \ {0}
  BY <1>1, Fat16Assumption
<1>4. c \in Seq(Clusters(fat)) /\ l \in Nat /\ w.current \in Nat /\ (c # NULL <=> l > 0)
  <2>1. c \in Seq(Clusters(fat))
    BY <1>3 DEF Reached
  <2>2. c # NULL <=> l > 0
    BY <2>1 DEF NULL
  <2> QED  BY <1>3, <2>1, <2>2 DEF Reached
<1>5. /\ \A k \in 1 .. l : c[k] \in Clusters(fat) /\ c[k] < n /\ c[k] \in Nat
      /\ Clusters(fat) \subseteq 0 .. n - 1
  BY <1>1, <1>4 DEF Clusters
<1>6. l > 0 => /\ c[1] = start /\ w.current = fat[c[l]] /\ Linked(fat, c)
               /\ start \in Clusters(fat) /\ start < EOC
  BY <1>3, <1>4, <1>5 DEF Reached
<1>7. ~ Usable(fat, w.current) \/ l = n
  BY <1>3 DEF Reached
<1> HIDE DEF w, c, l, Result
(* A way of as many clusters as the table has entries goes round, because  *)
(* the free and the bad cluster are not among them.                        *)
<1>8. ASSUME l = n, l > 0
      PROVE  \E k \in 1 .. l : fat[c[l]] = c[k]
  <2>1. IsFiniteSet(Clusters(fat)) /\ Cardinality(Clusters(fat)) < n
    <3>1. IsFiniteSet(DOMAIN fat \ {0}) /\ Cardinality(DOMAIN fat \ {0}) = n - 1
      <4>1. 0 \in DOMAIN fat
        BY <1>1, <1>8
      <4>2. /\ IsFiniteSet(DOMAIN fat \ {0})
            /\ Cardinality(DOMAIN fat \ {0}) = IF 0 \in DOMAIN fat THEN Cardinality(DOMAIN fat) - 1
                                               ELSE Cardinality(DOMAIN fat)
        BY <1>1, FS_RemoveElement
      <4> QED  BY <1>1, <4>1, <4>2
    <3>2. Clusters(fat) \subseteq DOMAIN fat \ {0}
      BY DEF Clusters, FAT_FREE_SECTOR
    <3>3. IsFiniteSet(Clusters(fat)) /\ Cardinality(Clusters(fat)) <= Cardinality(DOMAIN fat \ {0})
      BY <3>1, <3>2, FS_Subset
    <3>4. Cardinality(Clusters(fat)) \in Nat
      BY <3>3, FS_CardinalityType
    <3> QED  BY <3>1, <3>3, <3>4
  <2>2. IsFiniteSet(1 .. l) /\ Cardinality(1 .. l) = l
    BY <1>4, <1>8, FS_Interval
  <2>3. c \in [1 .. l -> Clusters(fat)]
    BY <1>4 DEF l
  <2>4. PICK a, b \in 1 .. l : a # b /\ c[a] = c[b]
    BY <1>8, <2>1, <2>2, <2>3, FS_PigeonHole
  <2>5. Linked(fat, c)
    BY <1>6, <1>8
  <2>6. CASE a < b
    BY <1>4, <2>4, <2>5, <2>6, GoesRound DEF l
  <2>7. CASE b < a
    BY <1>4, <2>4, <2>5, <2>7, GoesRound DEF l
  <2> QED  BY <1>4, <2>4, <2>6, <2>7
<1>9. ASSUME Result # NULL
      PROVE  start < EOC /\ Sane(fat, start) /\ IsChain(Result, fat, start)
  <2>1. Result = c /\ l > 0 /\ (l = n \/ w.current >= EOC)
    BY <1>2, <1>4, <1>9
  <2> DEFINE way == {c[k] : k \in 1 .. l}
  <2>2. way \subseteq Clusters(fat) /\ start \in way
    BY <1>4, <1>5, <1>6, <2>1
  <2>3. ASSUME NEW k \in 1 .. l PROVE fat[c[k]] \in way \/ fat[c[k]] >= EOC
    <3>1. CASE k < l
      <4>1. k \in 1 .. l - 1 /\ k + 1 \in 1 .. l
        BY <1>4, <3>1
      <4>2. fat[c[k]] = c[k + 1]
        BY <1>6, <2>1, <4>1 DEF Linked, l
      <4> QED  BY <4>1, <4>2
    <3>2. CASE k = l
      BY <1>6, <1>8, <2>1, <3>2
    <3> QED  BY <1>4, <3>1, <3>2
  <2>4. Sane(fat, start)
    <3>1. \A x \in way : fat[x] \in way \/ fat[x] >= EOC
      BY <2>3
    <3> HIDE DEF way
    <3> QED  BY <2>2, <3>1 DEF Sane, Clusters
  <2>5. IsChain(c, fat, start)
    <3>1. c[1] = start /\ \A k \in 1 .. Len(c) - 1 : c[k + 1] = fat[c[k]]
      BY <1>6, <2>1 DEF Linked
    <3>2. CASE fat[Last(c)] >= EOC
      <4>1. ASSUME NEW a \in 1 .. l, NEW b \in 1 .. l, a < b, c[a] = c[b]
            PROVE  FALSE
        <5>1. PICK k \in 1 .. l : fat[c[l]] = c[k]
          BY <1>4, <1>6, <2>1, <4>1, GoesRound DEF l
        <5>2. c[k] < n
          BY <1>5
        <5> QED  BY <1>3, <1>5, <3>2, <5>1, <5>2 DEF Last, l
      <4>2. DOMAIN c = 1 .. l
        BY <1>4 DEF l
      <4>3. IsInjective(c)
        <5> SUFFICES ASSUME NEW a \in 1 .. l, NEW b \in 1 .. l, c[a] = c[b], a # b
                     PROVE  FALSE
          BY <4>2 DEF IsInjective
        <5> QED  BY <1>4, <4>1
      <4> QED  BY <3>1, <3>2, <4>3 DEF IsChain
    <3>3. CASE ~ (fat[Last(c)] >= EOC)
      <4>1. Len(c) = Cardinality(DOMAIN fat)
        BY <1>1, <1>6, <2>1, <3>3 DEF Last, l
      <4> QED  BY <3>1, <3>3, <4>1 DEF IsChain
    <3> QED  BY <3>2, <3>3
  <2> QED  BY <1>6, <2>1, <2>4, <2>5
(* A way that stays among the clusters to follow is never given up.        *)
<1>10. ASSUME start < EOC, Sane(fat, start)
       PROVE  Result # NULL
  <2>1. PICK way \in SUBSET Clusters(fat) :
               start \in way /\ \A x \in way : fat[x] \in way \/ fat[x] >= EOC
    BY <1>10 DEF Sane, Clusters
  <2>2. n > 0 /\ \A x \in way : Usable(fat, x) /\ x \in Nat
    BY <1>1, <1>5, <2>1 DEF Usable, Clusters
  <2>3. \A k \in 1 .. l : c[k] \in way
    <3> DEFINE Good == {k \in Nat : k + 1 <= l => c[k + 1] \in way}
    <3>1. 0 \in Good
      BY <1>4, <1>6, <2>1
    <3>2. ASSUME NEW k \in Nat, k \in Good PROVE k + 1 \in Good
      <4> SUFFICES ASSUME (k + 1) + 1 <= l PROVE c[(k + 1) + 1] \in way
        OBVIOUS
      <4>1. k + 1 \in 1 .. l - 1 /\ (k + 1) + 1 \in 1 .. l /\ c[k + 1] \in way
        BY <1>4, <3>2
      <4>2. c[(k + 1) + 1] = fat[c[k + 1]]
        BY <1>4, <1>6, <4>1 DEF Linked, l
      <4>3. c[(k + 1) + 1] < n /\ c[(k + 1) + 1] \in Nat
        BY <1>5, <4>1
      <4>4. ~ (c[(k + 1) + 1] >= EOC)
        BY <1>3, <4>3
      <4>5. fat[c[k + 1]] \in way \/ fat[c[k + 1]] >= EOC
        BY <2>1, <4>1
      <4> QED  BY <4>2, <4>4, <4>5
    <3>3. Nat \subseteq Good
      <4> HIDE DEF Good
      <4> QED  BY <3>1, <3>2, SetInduction
    <3>4. ASSUME NEW k \in 1 .. l PROVE c[k] \in way
      <4>1. k - 1 \in Nat /\ (k - 1) + 1 = k /\ (k - 1) + 1 <= l
        BY <1>4
      <4>2. c[(k - 1) + 1] \in way
        BY <3>3, <4>1
      <4> QED  BY <4>1, <4>2
    <3> QED  BY <3>4
  <2>4. w.current \in way \/ w.current >= EOC
    <3>1. CASE l = 0
      BY <1>3, <2>1, <3>1 DEF Reached, l, c
    <3>2. CASE l > 0
      <4>1. c[l] \in way
        BY <1>4, <2>3, <3>2
      <4> QED  BY <1>6, <2>1, <3>2, <4>1
    <3> QED  BY <1>4, <3>1, <3>2
  <2>5. l > 0
    <3>1. CASE l = n
      BY <2>2, <3>1
    <3>2. CASE ~ Usable(fat, w.current)
      <4>1. w.current \notin way
        BY <2>2, <3>2
      <4>2. l = 0 => w.current = start
        BY <1>3 DEF Reached, l, c
      <4> QED  BY <1>4, <2>1, <4>1, <4>2
    <3> QED  BY <1>7, <3>1, <3>2
  <2>6. l = n \/ w.current >= EOC
    BY <1>7, <2>2, <2>4
  <2> QED  BY <1>2, <1>4, <2>5, <2>6
<1>11. Result \in Seq(Clusters(fat))
  <2>1. NULL \in Seq(Clusters(fat))
    BY DEF NULL
  <2> QED  BY <1>2, <1>4, <2>1
<1> QED  BY <1>9, <1>10, <1>11 DEF Result

-----------------------------------------------------------------------------
(* The types of the driver, and how far the current call has come.         *)
Commands == [op : {"none", "reset", "identify", "read"}, lba : Int, left : Int]

Before == {"busy", "check", "command"}
During == {"delay", "drq", "data", "words"}
Probes == {"detect", "reset", "init", "identify", "id_busy", "id_signature", "id_drq", "id_words"}

CallKind ==
  /\ dpc \in {"done", "read"} \cup Before \cup During \cup Probes
  /\ dpc \in {"read"} \cup Before \cup During => request.op = "read"
  /\ dpc \in {"detect", "reset"} => request.op = "detect"
  /\ dpc = "init" => request.op = "init"
  /\ dpc \in {"identify", "id_busy", "id_signature", "id_drq", "id_words"} => request.op = "identify"

Progress ==
  /\ got \in Seq(Int) /\ Len(got) <= request.n
  /\ request.op # "read" => got = <<>>
  /\ dpc \in {"read"} \cup Before => got = <<>>
  /\ dpc \in Before => 0 < request.n
  /\ dpc \in During => Len(got) < request.n

DriveTypes == /\ drive \in {"ata", "atapi", "none"}
              /\ status \subseteq Floating /\ shown \subseteq Floating
              /\ command \in Commands
CallTypes  == tries \in 1 .. Polls /\ request.n \in Nat /\ request.lba \in Int
AtaInv     == DriveTypes /\ CallTypes /\ CallKind /\ Progress

LEMMA AtaInvInit == AtaInit => AtaInv
<1> SUFFICES ASSUME AtaInit PROVE AtaInv
  OBVIOUS
<1> USE AtaAssumption DEF AtaInit
<1>1. DriveTypes
  BY DEF DriveTypes, Floating, NoCommand, Commands
<1>2. CallTypes
  BY DEF CallTypes, NoRequest
<1>3. CallKind /\ Progress
  BY DEF CallKind, Progress, Before, During, Probes, NoRequest
<1> QED  BY <1>1, <1>2, <1>3 DEF AtaInv

LEMMA AtaInvFrame ==
  ASSUME AtaInv, UNCHANGED driverVars, DriveTypes'
  PROVE  AtaInv'
<1>1. CallTypes' /\ CallKind' /\ Progress'
  BY DEF AtaInv, CallTypes, CallKind, Progress, driverVars
<1> QED  BY <1>1 DEF AtaInv

LEMMA AtaInvDrive ==
  ASSUME AtaInv, Drive
  PROVE  AtaInv'
<1>1. UNCHANGED driverVars /\ DriveTypes'
  <2> USE DEF AtaInv, DriveTypes, Floating, Show, Commands, NoCommand
  <2>1. CASE DriveReady
    BY <2>1 DEF DriveReady
  <2>2. CASE DriveFails
    BY <2>2 DEF DriveFails
  <2>3. CASE ResetDone
    BY <2>3 DEF ResetDone
  <2>4. CASE Settle
    BY <2>4 DEF Settle
  <2> QED  BY <2>1, <2>2, <2>3, <2>4 DEF Drive
<1> QED  BY <1>1, AtaInvFrame

(* The drive starts a command, and hands over a sector.                    *)
LEMMA WriteTypes ==
  ASSUME DriveTypes, NEW c \in Commands, Write(c), UNCHANGED drive
  PROVE  DriveTypes'
<1>1. command' = command \/ command' = c
  BY DEF Write
<1>2. status' = status \/ status' = {"DRDY", "BSY"}
  BY DEF Write
<1>3. shown' = status
  BY DEF Write
<1> QED  BY <1>1, <1>2, <1>3 DEF DriveTypes, Floating

LEMMA HandedOverTypes ==
  ASSUME command \in Commands
  PROVE  [command EXCEPT !.lba = @ + 1, !.left = @ - 1] \in Commands
<1> DEFINE a == command.lba + 1
           b == command.left - 1
<1>1. a \in Int /\ b \in Int
  BY DEF Commands
<1> HIDE DEF a, b
<1>2. [command EXCEPT !.lba = a, !.left = b] \in Commands
  BY <1>1, Zenon DEF Commands
<1> QED  BY <1>2 DEF a, b

LEMMA HandOverTypes ==
  ASSUME DriveTypes, HandOver, UNCHANGED drive
  PROVE  DriveTypes'
<1>1. shown' = shown
  BY DEF HandOver, driveVars
<1>2. status' \in {status, {"DRDY"}, {"DRDY", "BSY"}}
  BY DEF HandOver, driveVars
<1>3. command' \in {command, NoCommand, [command EXCEPT !.lba = @ + 1, !.left = @ - 1]}
  BY DEF HandOver, driveVars
<1>4. NoCommand \in Commands
  BY DEF NoCommand, Commands
<1>5. command \in Commands => [command EXCEPT !.lba = @ + 1, !.left = @ - 1] \in Commands
  BY HandedOverTypes
<1> QED  BY <1>1, <1>2, <1>3, <1>4, <1>5 DEF DriveTypes, Floating

(* A wait or a test: nothing but the place in the program changes.         *)
Moved(p, q) == /\ dpc = p /\ dpc' = q /\ tries' \in 1 .. Polls
               /\ UNCHANGED <<drive, driveVars, request, got>>

LEMMA PollMoves ==
  ASSUME AtaInv, NEW p, NEW q, NEW good, NEW timeout, Poll(p, q, good, timeout)
  PROVE  Moved(p, p) \/ Moved(p, q) \/ Moved(p, "done")
<1>1. Polls \in 1 .. Polls /\ (tries > 1 => tries - 1 \in 1 .. Polls)
  BY AtaAssumption DEF AtaInv, CallTypes
<1> QED  BY <1>1 DEF Poll, Return, Proceed, Again, GiveUp, Goto, Moved

LEMMA DoneKeeps ==
  ASSUME AtaInv, NEW p, Moved(p, p) \/ Moved(p, "done")
  PROVE  AtaInv'
<1> USE DEF Moved, AtaInv
<1>1. DriveTypes' /\ CallTypes'
  BY DEF driveVars, DriveTypes, CallTypes
<1>2. CallKind' /\ Progress'
  BY DEF CallKind, Progress, Before, During, Probes
<1> QED  BY <1>1, <1>2

LEMMA MovedKeeps ==
  ASSUME AtaInv, NEW p, NEW q, Moved(p, q),
         \/ <<p, q>> \in {<<"detect", "reset">>, <<"identify", "id_busy">>,
                          <<"id_busy", "id_signature">>, <<"id_signature", "id_drq">>,
                          <<"id_drq", "id_words">>, <<"busy", "check">>, <<"check", "command">>,
                          <<"drq", "data">>, <<"data", "words">>}
         \/ <<p, q>> = <<"read", "busy">> /\ 0 < request.n
  PROVE  AtaInv'
<1> USE DEF Moved, AtaInv
<1>1. DriveTypes' /\ CallTypes'
  BY DEF driveVars, DriveTypes, CallTypes
<1>2. CallKind'
  BY DEF CallKind, Before, During, Probes
<1>3. Progress'
  BY DEF Progress, Before, During, Probes
<1> QED  BY <1>1, <1>2, <1>3

LEMMA AtaInvDriver ==
  ASSUME AtaInv, Driver
  PROVE  AtaInv'
<1>0. Polls \in 1 .. Polls
  BY AtaAssumption
<1>1. CASE detect_devtype
  <2>1. CASE SoftReset
    <3>1. DriveTypes'
      <4>1. command' \in Commands
        BY <2>1 DEF SoftReset, driveVars, AtaInv, DriveTypes, Commands
      <4>2. status' \subseteq Floating /\ shown' \subseteq Floating
        BY <2>1 DEF SoftReset, driveVars, AtaInv, DriveTypes, Floating
      <4>3. drive' = drive
        BY <2>1 DEF SoftReset, Goto
      <4> QED  BY <4>1, <4>2, <4>3 DEF AtaInv, DriveTypes
    <3>2. /\ dpc = "detect" /\ dpc' = "reset" /\ tries' = Polls
          /\ UNCHANGED <<request, got>>
      BY <2>1 DEF SoftReset, Goto
    <3>3. CallTypes' /\ CallKind' /\ Progress'
      BY <1>0, <3>2 DEF AtaInv, CallTypes, CallKind, Progress, Before, During, Probes
    <3> QED  BY <3>1, <3>3 DEF AtaInv
  <2>2. CASE AwaitReset
    <3>1. Moved("reset", "reset") \/ Moved("reset", "done")
      BY <1>0, <2>2 DEF AwaitReset, Return, Again, GiveUp, Goto, Moved, AtaInv, CallTypes
    <3> QED  BY <3>1, DoneKeeps
  <2> QED  BY <1>1, <2>1, <2>2 DEF detect_devtype
<1>2. CASE ata_init
  <2>1. Moved("init", "done")
    BY <1>0, <1>2 DEF ata_init, Return, Goto, Moved
  <2> QED  BY <2>1, DoneKeeps
<1>3. CASE IdentifyCommand
  <2>1. DriveTypes'
    <3>1. [op |-> "identify", lba |-> 0, left |-> 1] \in Commands
      BY DEF Commands
    <3> QED  BY <1>3, <3>1, WriteTypes DEF IdentifyCommand, Goto, AtaInv
  <2>2. /\ dpc = "identify" /\ dpc' = "id_busy" /\ tries' = Polls
        /\ UNCHANGED <<request, got>>
    BY <1>3 DEF IdentifyCommand, Goto
  <2>3. CallTypes' /\ CallKind' /\ Progress'
    BY <1>0, <2>2 DEF AtaInv, CallTypes, CallKind, Progress, Before, During, Probes
  <2> QED  BY <2>1, <2>3 DEF AtaInv
<1>4. CASE ata_wait_not_bsy("id_busy", "id_signature")
  BY <1>4, PollMoves, DoneKeeps, MovedKeeps DEF ata_wait_not_bsy
<1>5. CASE IdentifySignature
  <2>1. Moved("id_signature", "id_drq") \/ Moved("id_signature", "done")
    BY <1>0, <1>5 DEF IdentifySignature, Proceed, Return, Goto, Moved
  <2> QED  BY <2>1, DoneKeeps, MovedKeeps
<1>6. CASE ata_wait_drq("id_drq", "id_words")
  BY <1>6, PollMoves, DoneKeeps, MovedKeeps DEF ata_wait_drq
<1>7. CASE IdentifyWords
  <2>1. DriveTypes'
    BY <1>7, HandOverTypes DEF IdentifyWords, Goto, AtaInv
  <2>2. /\ dpc = "id_words" /\ dpc' = "done" /\ tries' = Polls
        /\ UNCHANGED <<request, got>>
    BY <1>7 DEF IdentifyWords, Goto
  <2>3. CallTypes' /\ CallKind' /\ Progress'
    BY <1>0, <2>2 DEF AtaInv, CallTypes, CallKind, Progress, Before, During, Probes
  <2> QED  BY <2>1, <2>3 DEF AtaInv
<1>8. CASE CheckArguments
  <2>1. Moved("read", "done") \/ (Moved("read", "busy") /\ 0 < request.n)
    <3>1. request.n \in Nat
      BY DEF AtaInv, CallTypes
    <3> QED  BY <1>0, <1>8, <3>1 DEF CheckArguments, Proceed, Return, Goto, Moved
  <2> QED  BY <2>1, DoneKeeps, MovedKeeps
<1>9. CASE ata_wait_not_bsy("busy", "check")
  BY <1>9, PollMoves, DoneKeeps, MovedKeeps DEF ata_wait_not_bsy
<1>10. CASE CheckStatus
  <2>1. Moved("check", "command") \/ Moved("check", "done")
    BY <1>0, <1>10 DEF CheckStatus, Proceed, Return, Goto, Moved
  <2> QED  BY <2>1, DoneKeeps, MovedKeeps
<1>11. CASE ReadCommand
  <2>1. DriveTypes'
    <3>1. [op |-> "read", lba |-> request.lba, left |-> request.n] \in Commands
      BY DEF AtaInv, CallTypes, Commands
    <3> QED  BY <1>11, <3>1, WriteTypes DEF ReadCommand, Goto, AtaInv
  <2>2. /\ dpc = "command" /\ dpc' = "delay" /\ tries' = Polls
        /\ UNCHANGED <<request, got>>
    BY <1>11 DEF ReadCommand, Goto
  <2>3. CallTypes' /\ CallKind' /\ Progress'
    BY <1>0, <2>2 DEF AtaInv, CallTypes, CallKind, Progress, Before, During, Probes
  <2> QED  BY <2>1, <2>3 DEF AtaInv
<1>12. CASE Delay
  <2>1. DriveTypes'
    BY <1>12 DEF Delay, ata_wait_400ns, Goto, AtaInv, DriveTypes
  <2>2. /\ dpc = "delay" /\ dpc' = "drq" /\ tries' = Polls
        /\ UNCHANGED <<request, got>>
    BY <1>12 DEF Delay, Goto
  <2>3. CallTypes' /\ CallKind' /\ Progress'
    BY <1>0, <2>2 DEF AtaInv, CallTypes, CallKind, Progress, Before, During, Probes
  <2> QED  BY <2>1, <2>3 DEF AtaInv
<1>13. CASE ata_wait_drq("drq", "data")
  BY <1>13, PollMoves, DoneKeeps, MovedKeeps DEF ata_wait_drq
<1>14. CASE CheckData
  <2>1. Moved("data", "words") \/ Moved("data", "done")
    BY <1>0, <1>14 DEF CheckData, Proceed, Return, Goto, Moved
  <2> QED  BY <2>1, DoneKeeps, MovedKeeps
<1>15. CASE StoreWords
  <2>1. DriveTypes'
    BY <1>15, HandOverTypes DEF StoreWords, Goto, AtaInv
  <2>2. /\ dpc = "words" /\ dpc' = IF Len(got) + 1 < request.n THEN "delay" ELSE "done"
        /\ tries' = Polls /\ request' = request /\ got' = Append(got, Word)
    BY <1>15 DEF StoreWords, Goto
  <2>3. /\ request.op = "read" /\ request.n \in Nat /\ Len(got) < request.n /\ got \in Seq(Int)
        /\ Word \in Int
    BY <2>2 DEF AtaInv, CallTypes, CallKind, Progress, During, DriveTypes, Commands, Word, Garbage
  <2>4. got' \in Seq(Int) /\ Len(got') = Len(got) + 1 /\ Len(got) \in Nat
    BY <2>2, <2>3
  <2>5. CallTypes' /\ CallKind'
    BY <1>0, <2>2, <2>3 DEF AtaInv, CallTypes, CallKind, Before, During, Probes
  <2>6. Progress'
    BY <2>2, <2>3, <2>4 DEF Progress, Before, During
  <2> QED  BY <2>1, <2>5, <2>6 DEF AtaInv
<1> QED
  BY <1>1, <1>2, <1>3, <1>4, <1>5, <1>6, <1>7, <1>8, <1>9, <1>10, <1>11, <1>12, <1>13, <1>14, <1>15
  DEF Driver, ata_identify, pio28_read

(* The program starts a call.                                              *)
LEMMA AtaInvCall ==
  ASSUME AtaInv, NEW op \in {"detect", "init", "identify", "read"}, NEW dest,
         NEW n \in Nat, NEW lba \in Int, Call(op, dest, n, lba)
  PROVE  AtaInv'
<1>1. DriveTypes'
  BY DEF Call, driveVars, AtaInv, DriveTypes
<1>2. CallTypes'
  BY AtaAssumption DEF Call, CallTypes
<1>3. /\ request'.op = op /\ request'.n = n /\ dpc' = op /\ got' = <<>>
  BY DEF Call
<1>4. CallKind' /\ Progress'
  BY <1>3 DEF CallKind, Progress, Before, During, Probes
<1> QED  BY <1>1, <1>2, <1>4 DEF AtaInv

-----------------------------------------------------------------------------
(* From the command on until the words are taken, the status register may  *)
(* hide a DRQ and never shows one that is over.                            *)
Looking == {"id_busy", "id_signature", "id_drq", "id_words", "drq", "data", "words"}

(* A drive that offers words is not busy, so that it does nothing until    *)
(* they are taken.  Without a drive both bits are read as 1.               *)
Offering == {"BSY", "DRQ"} \subseteq status => drive = "none" /\ command.op = "none"
Honest   == dpc \in Looking => ("DRQ" \in shown => "DRQ" \in status)
DrqInv   == Offering /\ Honest /\ WordsOffered

LEMMA DrqInit == Init => DrqInv
  BY DEF Init, AtaInit, DrqInv, Offering, Honest, WordsOffered, Looking, NoCommand, Floating

(* What the program does to the driver: nothing, or a call.                *)
Probing  == {"load_sectors", "detect", "init", "identify"}
NewRead  == \E dest, n, lba : Call("read", dest, n, lba)
NewProbe == \E op \in {"detect", "init", "identify"} : Call(op, TRUE, 0, 0)

LEMMA ProgramCalls ==
  ASSUME Program
  PROVE  \/ UNCHANGED ataVars /\ (pc' \in Probing => pc \in Probing)
         \/ dpc = "done" /\ NewRead /\ pc' \notin Probing
         \/ /\ dpc = "done" /\ NewProbe /\ pc \in Probing
            /\ request'.op = "identify" => pc' \notin Probing
<1> USE DEF Probing, NewRead, NewProbe, Step, NoCall, Read, AfterRead
<1>1. CASE load_sectors
  BY <1>1 DEF load_sectors, Retry
<1>2. CASE Probe
  BY <1>2 DEF Probe, Call
<1>3. CASE \E p \in {"fat_init", "root", "open", "store"} : Misread(p)
  BY <1>3 DEF Misread
<1>4. CASE BootSectorBad
  BY <1>4 DEF BootSectorBad
<1>5. CASE load_fat \/ load_root_directory
  BY <1>5 DEF load_fat, load_root_directory
<1>6. CASE LoadedRoot
  BY <1>6 DEF LoadedRoot
<1>7. CASE ParseRoot
  BY <1>7 DEF ParseRoot, Parse
<1>8. CASE LookUpFails
  BY <1>8 DEF LookUpFails, NotFound
<1>9. CASE load_clustered_entry
  BY <1>9 DEF load_clustered_entry, NotFound
<1>10. CASE SkipCluster
  BY <1>10 DEF SkipCluster
<1>11. CASE read_cluster
  BY <1>11 DEF read_cluster
<1>12. CASE StoreCluster
  BY <1>12 DEF StoreCluster
<1>13. CASE LoadedDirectory
  BY <1>13 DEF LoadedDirectory, Parse
<1>14. CASE LoadedFile \/ memcpy
  BY <1>14 DEF LoadedFile, memcpy
<1> QED
  BY <1>1, <1>2, <1>3, <1>4, <1>5, <1>6, <1>7, <1>8, <1>9, <1>10, <1>11, <1>12, <1>13, <1>14
  DEF Program

LEMMA DrqDrive ==
  ASSUME DrqInv, Drive
  PROVE  DrqInv'
<1> USE DEF DrqInv, Offering, Honest, WordsOffered, driverVars
<1>1. CASE DriveReady
  BY <1>1 DEF DriveReady, Show
<1>2. CASE DriveFails
  BY <1>2 DEF DriveFails, Show, NoCommand
<1>3. CASE ResetDone
  BY <1>3 DEF ResetDone, Show, NoCommand
<1>4. CASE Settle
  BY <1>4 DEF Settle
<1> QED  BY <1>1, <1>2, <1>3, <1>4 DEF Drive

LEMMA DrqDriver ==
  ASSUME DrqInv, Driver
  PROVE  DrqInv'
<1> USE DEF DrqInv, Offering, Honest, WordsOffered, Looking, Goto, Return, Proceed, GiveUp, Again,
            driveVars
<1>1. CASE detect_devtype
  BY <1>1 DEF detect_devtype, SoftReset, AwaitReset
<1>2. CASE ata_init
  BY <1>2 DEF ata_init
<1>3. CASE IdentifyCommand
  BY <1>3 DEF IdentifyCommand, Write
<1>4. CASE ata_wait_not_bsy("id_busy", "id_signature")
  BY <1>4 DEF ata_wait_not_bsy, Poll
<1>5. CASE IdentifySignature
  BY <1>5 DEF IdentifySignature
<1>6. CASE ata_wait_drq("id_drq", "id_words")
  BY <1>6 DEF ata_wait_drq, Poll
<1>7. CASE IdentifyWords
  BY <1>7 DEF IdentifyWords, HandOver, NoCommand
<1>8. CASE CheckArguments
  BY <1>8 DEF CheckArguments
<1>9. CASE ata_wait_not_bsy("busy", "check")
  BY <1>9 DEF ata_wait_not_bsy, Poll
<1>10. CASE CheckStatus
  BY <1>10 DEF CheckStatus
<1>11. CASE ReadCommand
  BY <1>11 DEF ReadCommand, Write
<1>12. CASE Delay
  BY <1>12 DEF Delay, ata_wait_400ns
<1>13. CASE ata_wait_drq("drq", "data")
  BY <1>13 DEF ata_wait_drq, Poll
<1>14. CASE CheckData
  BY <1>14 DEF CheckData
<1>15. CASE StoreWords
  BY <1>15 DEF StoreWords, HandOver, NoCommand
<1> QED
  BY <1>1, <1>2, <1>3, <1>4, <1>5, <1>6, <1>7, <1>8, <1>9, <1>10, <1>11, <1>12, <1>13, <1>14, <1>15
  DEF Driver, ata_identify, pio28_read

LEMMA DrqStep == DrqInv /\ [Next]_vars => DrqInv'
<1> SUFFICES ASSUME DrqInv, [Next]_vars PROVE DrqInv'
  OBVIOUS
<1>1. CASE UNCHANGED ataVars
  BY <1>1 DEF ataVars, driveVars, driverVars, DrqInv, Offering, Honest, WordsOffered
<1>2. CASE NewRead \/ NewProbe
  BY <1>2 DEF NewRead, NewProbe, Call, driveVars, DrqInv, Offering, Honest, WordsOffered, Looking
<1> QED
  BY <1>1, <1>2, ProgramCalls, DrqDrive, DrqDriver DEF Next, Run, Ended, vars

(* The driver takes words only while the drive offers some.                *)
THEOREM WordsInTime == Spec => []WordsOffered
<1>1. DrqInv => WordsOffered
  BY DEF DrqInv
<1> QED  BY <1>1, DrqInit, DrqStep, PTL DEF Spec

-----------------------------------------------------------------------------
(* An error bit is seen at once, and a drive that shows one does nothing.  *)
(* Without a drive every bit is 1 and no poll lets the driver pass.  The   *)
(* program has done its probing when it reads.                             *)
Error  == {"ERR", "DF"} \cap status # {}
AtRest == Error => /\ shown = status
                   /\ drive # "none" => "BSY" \notin status /\ "DRQ" \notin status
Absent == drive = "none" =>
            /\ status = Floating /\ shown = Floating /\ command.op = "none"
            /\ dpc \in {"done", "detect", "reset", "init", "identify", "id_busy", "read", "busy"}
Order  == request.op \in {"read", "identify"} => pc \notin Probing
ErrInv == AtRest /\ Absent /\ Order

LEMMA ErrInit == Init => ErrInv
  BY DEF Init, AtaInit, ErrInv, AtRest, Error, Absent, Order, NoCommand, NoRequest

LEMMA ErrDrive ==
  ASSUME ErrInv, Drive, UNCHANGED loaderVars
  PROVE  ErrInv'
<1> USE DEF ErrInv, AtRest, Error, Absent, Order, driverVars, loaderVars
<1>1. CASE DriveReady
  BY <1>1 DEF DriveReady, Show
<1>2. CASE DriveFails
  BY <1>2 DEF DriveFails, Show
<1>3. CASE ResetDone
  BY <1>3 DEF ResetDone, Show
<1>4. CASE Settle
  BY <1>4 DEF Settle
<1> QED  BY <1>1, <1>2, <1>3, <1>4 DEF Drive

LEMMA ErrDriver ==
  ASSUME ErrInv, Driver, UNCHANGED loaderVars
  PROVE  ErrInv'
<1> USE DEF ErrInv, AtRest, Error, Absent, Order, loaderVars, Goto, Return, Proceed, GiveUp, Again,
            driveVars
<1>1. CASE detect_devtype
  BY <1>1 DEF detect_devtype, SoftReset, AwaitReset
<1>2. CASE ata_init
  BY <1>2 DEF ata_init
<1>3. CASE IdentifyCommand
  BY <1>3 DEF IdentifyCommand, Write
<1>4. CASE ata_wait_not_bsy("id_busy", "id_signature")
  BY <1>4 DEF ata_wait_not_bsy, Poll
<1>5. CASE IdentifySignature
  BY <1>5 DEF IdentifySignature
<1>6. CASE ata_wait_drq("id_drq", "id_words")
  BY <1>6 DEF ata_wait_drq, Poll
<1>7. CASE IdentifyWords
  BY <1>7 DEF IdentifyWords, HandOver
<1>8. CASE CheckArguments
  BY <1>8 DEF CheckArguments
<1>9. CASE ata_wait_not_bsy("busy", "check")
  BY <1>9 DEF ata_wait_not_bsy, Poll
<1>10. CASE CheckStatus
  BY <1>10 DEF CheckStatus
<1>11. CASE ReadCommand
  BY <1>11 DEF ReadCommand, Write
<1>12. CASE Delay
  BY <1>12 DEF Delay, ata_wait_400ns
<1>13. CASE ata_wait_drq("drq", "data")
  BY <1>13 DEF ata_wait_drq, Poll
<1>14. CASE CheckData
  BY <1>14 DEF CheckData
<1>15. CASE StoreWords
  BY <1>15 DEF StoreWords, HandOver
<1> QED
  BY <1>1, <1>2, <1>3, <1>4, <1>5, <1>6, <1>7, <1>8, <1>9, <1>10, <1>11, <1>12, <1>13, <1>14, <1>15
  DEF Driver, ata_identify, pio28_read

LEMMA ErrStep == ErrInv /\ [Next]_vars => ErrInv'
<1> SUFFICES ASSUME ErrInv, [Next]_vars PROVE ErrInv'
  OBVIOUS
<1> USE DEF ErrInv, AtRest, Error, Absent, Order
<1>1. CASE Program
  <2>1. CASE UNCHANGED ataVars /\ (pc' \in Probing => pc \in Probing)
    BY <2>1 DEF ataVars, driveVars, driverVars
  <2>2. CASE NewRead /\ pc' \notin Probing
    BY <2>2 DEF NewRead, Call, driveVars
  <2>3. CASE NewProbe /\ pc \in Probing /\ (request'.op = "identify" => pc' \notin Probing)
    BY <2>3 DEF NewProbe, Call, driveVars
  <2> QED  BY <1>1, <2>1, <2>2, <2>3, ProgramCalls
<1>2. CASE UNCHANGED vars
  BY <1>2 DEF vars, ataVars, driveVars, driverVars, loaderVars
<1> QED  BY <1>1, <1>2, ErrDrive, ErrDriver DEF Next, Run, Ended

(* From the return of a read that left an error bit on: the program calls  *)
(* for reads only, and each of them ends before its command.               *)
Stuck ==
  /\ request.op = "read" /\ Error
  /\ dpc \in {"done", "read", "busy", "check"}
  /\ dpc = "done" => ata_last_error # "ok"

LEMMA StuckStep == ErrInv /\ Stuck /\ [Next]_vars => Stuck'
<1> SUFFICES ASSUME ErrInv, Stuck, [Next]_vars PROVE Stuck'
  OBVIOUS
<1>1. /\ shown = status /\ Error /\ request.op = "read" /\ pc \notin Probing
      /\ "BSY" \in status => drive = "none" /\ command.op = "none"
  BY DEF ErrInv, AtRest, Absent, Order, Stuck
<1>2. CASE Program
  <2>1. CASE UNCHANGED ataVars
    BY <2>1 DEF ataVars, driveVars, driverVars, Stuck, Error
  <2>2. CASE NewRead
    BY <2>2 DEF NewRead, Call, driveVars, Stuck, Error
  <2> QED  BY <1>1, <1>2, <2>1, <2>2, ProgramCalls
<1>3. CASE Drive
  BY <1>1, <1>3 DEF Drive, DriveReady, DriveFails, ResetDone, Settle, driverVars, Stuck, Error
<1>4. CASE Driver
  <2>1. dpc \in {"read", "busy", "check"}
    BY <1>4 DEF Stuck, Driver, detect_devtype, SoftReset, AwaitReset, ata_init, ata_identify,
       IdentifyCommand, IdentifySignature, IdentifyWords, pio28_read, CheckArguments, CheckStatus,
       ReadCommand, Delay, CheckData, StoreWords, ata_wait_not_bsy, ata_wait_drq, Poll, Goto, Return,
       Proceed, GiveUp, Again
  <2>2. CASE CheckArguments
    BY <2>2 DEF CheckArguments, Goto, Return, Proceed, driveVars, Stuck, Error
  <2>3. CASE ata_wait_not_bsy("busy", "check")
    BY <2>3 DEF ata_wait_not_bsy, Poll, Reported, Goto, Return, Proceed, GiveUp, Again, driveVars,
       Stuck, Error
  <2>4. CASE CheckStatus
    BY <1>1, <2>4 DEF CheckStatus, Faulty, Goto, Return, Proceed, driveVars, Stuck, Error
  <2> QED
    BY <1>4, <2>1, <2>2, <2>3, <2>4 DEF Driver, detect_devtype, SoftReset, AwaitReset, ata_init,
       ata_identify, IdentifyCommand, IdentifySignature, IdentifyWords, pio28_read, ReadCommand,
       Delay, CheckData, StoreWords, ata_wait_not_bsy, ata_wait_drq, Poll, Goto, Return, Proceed,
       GiveUp, Again
<1>5. CASE UNCHANGED vars
  BY <1>5 DEF vars, ataVars, driveVars, driverVars, Stuck, Error
<1> QED  BY <1>2, <1>3, <1>4, <1>5 DEF Next, Run, Ended

(* After one read that left an error bit no read succeeds any more.        *)
THEOREM ErrorsStay == Spec => ErrorsStick
<1>1. ReadHitError => Stuck
  BY DEF ReadHitError, ReadReturned, Stuck, Error
<1>2. Stuck => ~ ReadSucceeds
  BY DEF Stuck, ReadSucceeds, ReadReturned
<1> QED  BY <1>1, <1>2, ErrInit, ErrStep, StuckStep, PTL DEF Spec, ErrorsStick

-----------------------------------------------------------------------------
(* The volume stays in the drive, and what is in memory of its table is a  *)
(* table.                                                                  *)
InDrive == disk \in Disks

LEMMA DiskStays == InDrive /\ [Next]_vars => InDrive'
  BY DEF InDrive, Next, Run, Program, Ended, vars, loaderVars, load_sectors, Probe, Misread, BootSectorBad,
     load_fat, load_root_directory, LoadedRoot, ParseRoot, LookUpFails, load_clustered_entry,
     SkipCluster, read_cluster, StoreCluster, LoadedDirectory, LoadedFile, memcpy

LEMMA FatIsTable ==
  ASSUME InDrive
  PROVE  /\ fat_bytes(disk) \in Nat /\ fat_bytes(disk) \div 2 \in Nat
         /\ Fat \in [0 .. fat_bytes(disk) \div 2 - 1 -> Nat]
<1>1. disk.fat_sectors \in Nat /\ BytesPerSector \in Nat
  BY LoaderAssumption DEF InDrive
<1>2. fat_bytes(disk) \in Nat
  BY <1>1 DEF fat_bytes
<1>3. \A c \in 0 .. fat_bytes(disk) \div 2 - 1 : disk.fat[c] \in Nat
  BY LoaderAssumption DEF fat_bytes, InDrive
<1> HIDE DEF fat_bytes
<1> QED  BY <1>2, <1>3 DEF Fat, Table, FAT_FREE_SECTOR

(* What traverse_chain returns is right for every table, damaged or read   *)
(* in part.                                                                *)
THEOREM ChainsAlwaysRight == Spec => []ChainsRight
<1>1. Init => InDrive
  BY DEF Init, InDrive
<1>2. InDrive => ChainsRight
  <2> SUFFICES ASSUME InDrive, fat_bytes(disk) < Width, NEW start \in 0 .. FAT_EOC_START
               PROVE  LET c == traverse_chain(Fat, start)
                      IN  /\ c # NULL <=> start < FAT_EOC_START /\ Sane(Fat, start)
                          /\ c # NULL => IsChain(c, Fat, start)
    BY DEF ChainsRight
  <2> DEFINE n == fat_bytes(disk) \div 2
  <2>1. n \in Nat /\ Fat \in [0 .. n - 1 -> Nat] /\ start \in Nat
    BY FatIsTable, Fat16Assumption
  <2>2. n <= FAT_EOC_START
    BY LoaderAssumption DEF fat_bytes, InDrive
  <2> HIDE DEF n
  <2> QED  BY <2>1, <2>2, ChainCorrect
<1> QED  BY <1>1, <1>2, DiskStays, PTL DEF Spec

-----------------------------------------------------------------------------
(* The buffer of the entry being loaded holds whole clusters, and not all  *)
(* of them while one is being read.                                        *)
LEMMA ChainOfClusters ==
  ASSUME NEW fat, IsFiniteSet(DOMAIN fat), NEW start
  PROVE  traverse_chain(fat, start) \in Seq(Clusters(fat))
<1> DEFINE N == Cardinality(DOMAIN fat)
           Good == {i \in Nat : i <= N => Walk(fat, start)[i].chain \in Seq(Clusters(fat))}
<1>1. N \in Nat
  BY FS_CardinalityType
<1>2. /\ Walk(fat, start)[0] = [chain |-> NULL, current |-> start]
      /\ \A i \in 0 .. N - 1 : Walk(fat, start)[i + 1] = Follow(fat, Walk(fat, start)[i])
  BY WalkSteps
<1>3. 0 \in Good
  <2>1. Walk(fat, start)[0].chain = <<>> /\ <<>> \in Seq(Clusters(fat))
    BY <1>2 DEF NULL
  <2> QED  BY <2>1
<1>4. ASSUME NEW i \in Nat, i \in Good PROVE i + 1 \in Good
  <2> SUFFICES ASSUME i + 1 <= N PROVE Walk(fat, start)[i + 1].chain \in Seq(Clusters(fat))
    OBVIOUS
  <2> DEFINE w == Walk(fat, start)[i]
  <2>1. w.chain \in Seq(Clusters(fat)) /\ Walk(fat, start)[i + 1] = Follow(fat, w)
    BY <1>1, <1>2, <1>4
  <2> HIDE DEF w
  <2>2. CASE Usable(fat, w.current)
    <3>1. w.current \in Clusters(fat)
      BY <2>2 DEF Usable, Clusters
    <3>2. Append(w.chain, w.current) \in Seq(Clusters(fat))
      BY <2>1, <3>1
    <3> QED  BY <2>1, <2>2, <3>2 DEF Follow
  <2>3. CASE ~ Usable(fat, w.current)
    BY <2>1, <2>3 DEF Follow
  <2> QED  BY <2>2, <2>3
<1>5. Walk(fat, start)[N].chain \in Seq(Clusters(fat))
  <2> HIDE DEF Good
  <2>1. N \in Good
    BY <1>1, <1>3, <1>4, SetInduction
  <2> USE DEF Good
  <2> QED  BY <2>1
<1>6. NULL \in Seq(Clusters(fat))
  BY DEF NULL
<1> HIDE DEF N
<1> QED  BY <1>5, <1>6 DEF traverse_chain, N

Whole(k) == /\ k \in 0 .. Len(chain) /\ Len(buffer) = k * SectorsPerCluster
            /\ pc = "store" => k < Len(chain)

Buffered ==
  /\ chain \in Seq(Nat) /\ buffer \in Seq(Int) /\ \E k \in 0 .. Len(chain) : Whole(k)
  /\ pc = "store" => request.op = "read" /\ request.n = SectorsPerCluster

LEMMA Product ==
  ASSUME NEW k \in Nat, NEW s \in Nat \ {0}
  PROVE  /\ k * s \in Nat /\ (k + 1) * s = k * s + s /\ (k * s) \div s = k
         /\ \A m \in Nat : m * s = k * s <=> m = k
<1>1. k * s \in Nat /\ (k + 1) * s = k * s + s
  OBVIOUS
<1>2. (k * s) \div s = k
  OBVIOUS
<1>3. \A m \in Nat : m * s = k * s <=> m = k
  OBVIOUS
<1> QED  BY <1>1, <1>2, <1>3

(* The program asks for a number of sectors from some sector on.           *)
TypedRead == \E dest : \E n \in Nat, lba \in Int : Call("read", dest, n, lba)

LEMMA NextCluster ==
  ASSUME Buffered, ~ AllClusters
  PROVE  /\ Next1 \in Nat
         /\ \A k \in Nat : Whole(k) => k < Len(chain)
<1>1. PICK k \in Nat : Whole(k)
  BY DEF Buffered
<1>2. SectorsPerCluster \in Nat \ {0} /\ Len(chain) \in Nat /\ chain \in Seq(Nat)
  BY LoaderAssumption DEF Buffered
<1>3. \A m \in Nat : Whole(m) => m < Len(chain) /\ Len(buffer) \div SectorsPerCluster = m
  <2> SUFFICES ASSUME NEW m \in Nat, Whole(m)
               PROVE  m < Len(chain) /\ Len(buffer) \div SectorsPerCluster = m
    OBVIOUS
  <2>1. (m * SectorsPerCluster) \div SectorsPerCluster = m
    BY <1>2, Product
  <2>2. m # Len(chain) /\ m <= Len(chain) /\ Len(buffer) = m * SectorsPerCluster
    BY DEF Whole, AllClusters
  <2> QED  BY <1>2, <2>1, <2>2
<1>4. Len(buffer) \div SectorsPerCluster = k /\ k + 1 \in 1 .. Len(chain)
  BY <1>1, <1>2, <1>3
<1>5. Next1 \in Nat
  BY <1>2, <1>4 DEF Next1
<1> QED  BY <1>3, <1>5

LEMMA ReadsTyped ==
  ASSUME InDrive, Buffered, Program
  PROVE  UNCHANGED ataVars \/ NewProbe \/ TypedRead
<1>1. /\ {disk.fat_sectors, disk.root_sectors, disk.reserved_sectors, disk.FAT_count} \subseteq Nat
      /\ SectorsPerCluster \in Nat
  BY LoaderAssumption DEF InDrive
<1>2. /\ fat_start_lba(disk) \in Int /\ root_dir_start_lba(disk) \in Int
      /\ Next1 \in Int => cluster_to_lba(disk, Next1) \in Int
  BY <1>1 DEF fat_start_lba, root_dir_start_lba, cluster_to_lba, data_start_lba
<1>3. CASE Probe
  <2>1. 1 \in Nat /\ 0 \in Int
    OBVIOUS
  <2> QED  BY <1>3, <2>1 DEF Probe, NewProbe, TypedRead, Read
<1>4. CASE load_fat
  BY <1>1, <1>2, <1>4 DEF load_fat, Read, TypedRead
<1>5. CASE load_root_directory
  BY <1>1, <1>2, <1>5 DEF load_root_directory, Read, TypedRead
<1>6. CASE read_cluster
  <2>1. Next1 \in Int
    BY <1>6, NextCluster DEF read_cluster
  <2> QED  BY <1>1, <1>2, <1>6, <2>1 DEF read_cluster, Read, TypedRead
<1> QED
  BY <1>3, <1>4, <1>5, <1>6 DEF Program, NoCall, load_sectors, Misread, BootSectorBad, LoadedRoot,
     ParseRoot, LookUpFails, load_clustered_entry, SkipCluster, StoreCluster, LoadedDirectory,
     LoadedFile, memcpy

LEMMA RequestStays ==
  ASSUME Driver \/ Drive
  PROVE  request' = request
  BY DEF Drive, DriveReady, DriveFails, ResetDone, Settle, Show, driverVars, Driver,
     detect_devtype, SoftReset, AwaitReset, ata_init, ata_identify,
     IdentifyCommand, IdentifySignature, IdentifyWords, pio28_read, CheckArguments, CheckStatus,
     ReadCommand, Delay, CheckData, StoreWords, ata_wait_not_bsy, ata_wait_drq, Poll, Goto, Return,
     Proceed, GiveUp, Again

LEMMA BufferedInit == Init => Buffered
<1> SUFFICES ASSUME Init PROVE Buffered
  OBVIOUS
<1>1. chain = <<>> /\ buffer = <<>> /\ pc = "load_sectors"
  BY DEF Init, NULL
<1>2. Whole(0)
  BY <1>1, LoaderAssumption DEF Whole
<1> QED  BY <1>1, <1>2 DEF Buffered

(* One more cluster in the buffer.                                         *)
LEMMA ClusterMore ==
  ASSUME Buffered, buffer' \in Seq(Int), Len(buffer') = Len(buffer) + SectorsPerCluster,
         \A k \in Nat : Whole(k) => k < Len(chain), chain' = chain, pc' = "cluster"
  PROVE  Buffered'
<1>1. PICK k \in Nat : Whole(k)
  BY DEF Buffered
<1>2. SectorsPerCluster \in Nat \ {0} /\ Len(chain) \in Nat /\ chain \in Seq(Nat)
  BY LoaderAssumption DEF Buffered
<1>3. k + 1 \in 0 .. Len(chain) /\ Len(buffer) = k * SectorsPerCluster
  BY <1>1, <1>2 DEF Whole
<1>5. (k + 1) * SectorsPerCluster = k * SectorsPerCluster + SectorsPerCluster
  BY <1>2, Product
<1>6. Whole(k + 1)'
  BY <1>3, <1>5 DEF Whole
<1> QED  BY <1>2, <1>6 DEF Buffered, Whole

(* A directory or a file has been loaded, or not.                          *)
LEMMA BufferEmpty ==
  ASSUME chain' \in Seq(Nat), buffer' = <<>>, pc' # "store"
  PROVE  Buffered'
<1>1. Whole(0)'
  BY LoaderAssumption DEF Whole
<1> QED  BY <1>1 DEF Buffered

LEMMA BufferKept ==
  ASSUME Buffered, chain' = chain, buffer' = buffer, pc' # "store"
  PROVE  Buffered'
<1>1. PICK k \in Nat : Whole(k)
  BY DEF Buffered
<1>2. Whole(k)'
  BY <1>1 DEF Whole
<1> QED  BY <1>2 DEF Buffered, Whole

LEMMA BufferedStep ==
  ASSUME InDrive, AtaInv, Buffered, [Next]_vars
  PROVE  Buffered'
<1>1. CASE UNCHANGED <<loaderVars, request>>
  <2>1. UNCHANGED <<chain, buffer, pc, request>>
    BY <1>1 DEF loaderVars, loadVars
  <2>2. PICK k \in Nat : Whole(k)
    BY DEF Buffered
  <2>3. Whole(k)'
    BY <2>1, <2>2 DEF Whole
  <2> QED  BY <2>1, <2>3 DEF Buffered, Whole
<1>2. CASE UNCHANGED vars
  <2>1. UNCHANGED <<loaderVars, request>>
    BY <1>2 DEF vars, ataVars, driverVars
  <2> QED  BY <1>1, <2>1
<1>3. CASE Program
  <2>1. CASE UNCHANGED loadVars /\ pc' # "store"
    BY <2>1, BufferKept DEF loadVars
  <2>2. CASE load_clustered_entry
    <3>1. CASE UNCHANGED loadVars
      BY <2>1, <2>2, <3>1 DEF load_clustered_entry, NotFound
    <3>2. CASE chain' = traverse_chain(Fat, Found.cluster) /\ buffer' = <<>>
      <4>1. DOMAIN Fat \subseteq Nat /\ IsFiniteSet(DOMAIN Fat)
        <5>1. Fat \in [0 .. fat_bytes(disk) \div 2 - 1 -> Nat] /\ fat_bytes(disk) \div 2 \in Nat
          BY FatIsTable
        <5>2. DOMAIN Fat = 0 .. fat_bytes(disk) \div 2 - 1
          BY <5>1
        <5>3. IsFiniteSet(0 .. fat_bytes(disk) \div 2 - 1)
          BY <5>1, FS_Interval
        <5> QED  BY <5>1, <5>2, <5>3
      <4>2. chain' \in Seq(Clusters(Fat)) /\ Clusters(Fat) \subseteq Nat
        BY <3>2, <4>1, ChainOfClusters DEF Clusters
      <4>3. chain' \in Seq(Nat)
        BY <4>2
      <4>4. pc' # "store"
        BY <2>2 DEF load_clustered_entry, NotFound
      <4> QED  BY <3>2, <4>3, <4>4, BufferEmpty
    <3> QED  BY <2>2, <3>1, <3>2 DEF load_clustered_entry
  <2>3. CASE SkipCluster
    <3> DEFINE more == Blanks(SectorsPerCluster)
    <3>1. more \in Seq(Int) /\ Len(more) = SectorsPerCluster
      BY LoaderAssumption DEF Blanks, Blank
    <3>2. pc' = "cluster" /\ buffer' = buffer \o more /\ chain' = chain
      BY <2>3 DEF SkipCluster
    <3> HIDE DEF more
    <3>3. buffer \o more \in Seq(Int) /\ Len(buffer \o more) = Len(buffer) + Len(more)
      BY <3>1, ConcatProperties DEF Buffered
    <3>4. \A k \in Nat : Whole(k) => k < Len(chain)
      BY <2>3, NextCluster DEF SkipCluster
    <3> QED  BY <3>1, <3>2, <3>3, <3>4, ClusterMore
  <2>4. CASE read_cluster
    <3>1. PICK k \in Nat : Whole(k)
      BY DEF Buffered
    <3>2. k < Len(chain)
      BY <2>4, <3>1, NextCluster DEF read_cluster
    <3>3. /\ UNCHANGED <<chain, buffer>>
          /\ request'.op = "read" /\ request'.n = SectorsPerCluster
      BY <2>4 DEF read_cluster, Read, Call, loadVars
    <3>4. Whole(k)'
      BY <3>1, <3>2, <3>3 DEF Whole
    <3> QED  BY <3>3, <3>4 DEF Buffered, Whole
  <2>5. CASE StoreCluster
    <3> DEFINE rest == Blanks(SectorsPerCluster - Len(got))
    <3>1. /\ pc = "store" /\ pc' = "cluster" /\ chain' = chain
          /\ buffer' = buffer \o got \o rest
      BY <2>5 DEF StoreCluster, AfterRead, Step
    <3>2. got \in Seq(Int) /\ Len(got) \in Nat /\ Len(got) <= SectorsPerCluster
          /\ SectorsPerCluster \in Nat /\ buffer \in Seq(Int)
      BY <3>1, LoaderAssumption DEF Buffered, AtaInv, Progress
    <3>3. rest \in Seq(Int) /\ Len(rest) = SectorsPerCluster - Len(got)
      BY <3>2 DEF Blanks, Blank
    <3> HIDE DEF rest
    <3>4. buffer \o got \in Seq(Int) /\ Len(buffer \o got) = Len(buffer) + Len(got)
      BY <3>2, ConcatProperties
    <3>5. buffer' \in Seq(Int) /\ Len(buffer') = Len(buffer) + SectorsPerCluster
      <4> DEFINE front == buffer \o got
      <4>1. front \in Seq(Int) /\ rest \in Seq(Int)
        BY <3>3, <3>4
      <4>2. buffer' = front \o rest
        BY <3>1
      <4>3. Len(front) = Len(buffer) + Len(got) /\ Len(buffer) \in Nat
        BY <3>2, <3>4
      <4> HIDE DEF front
      <4>4. front \o rest \in Seq(Int) /\ Len(front \o rest) = Len(front) + Len(rest)
        BY <4>1, ConcatProperties
      <4> QED  BY <3>2, <3>3, <4>2, <4>3, <4>4
    <3>6. \A k \in Nat : Whole(k) => k < Len(chain)
      BY <3>1 DEF Whole
    <3> QED  BY <3>1, <3>5, <3>6, ClusterMore
  <2>6. CASE LoadedDirectory
    <3>1. chain' = <<>> /\ buffer' = <<>> /\ pc' # "store"
      BY <2>6 DEF LoadedDirectory, Parse, NULL
    <3> QED  BY <3>1, BufferEmpty
  <2>7. CASE LoadedFile
    <3>1. chain' = <<>> /\ buffer' = <<>> /\ pc' # "store"
      BY <2>7 DEF LoadedFile, NULL
    <3> QED  BY <3>1, BufferEmpty
  <2>8. (UNCHANGED loadVars /\ pc' # "store") \/ load_clustered_entry \/ SkipCluster \/ read_cluster
        \/ StoreCluster \/ LoadedDirectory \/ LoadedFile
    BY <1>3 DEF Program, load_sectors, Retry, Probe, Misread, BootSectorBad, load_fat,
       load_root_directory, LoadedRoot, ParseRoot, Parse, LookUpFails, NotFound, memcpy, Step, AfterRead
  <2> QED  BY <2>1, <2>2, <2>3, <2>4, <2>5, <2>6, <2>7, <2>8
<1>4. CASE (Driver \/ Drive) /\ UNCHANGED loaderVars
  BY <1>1, <1>4, RequestStays
<1> QED  BY <1>2, <1>3, <1>4 DEF Next, Run, Ended

LEMMA AtaInvStep ==
  ASSUME InDrive, Buffered, AtaInv, [Next]_vars
  PROVE  AtaInv'
<1>1. CASE UNCHANGED ataVars
  <2>1. UNCHANGED driverVars /\ DriveTypes'
    BY <1>1 DEF ataVars, driveVars, AtaInv, DriveTypes
  <2> QED  BY <2>1, AtaInvFrame
<1>2. CASE NewProbe
  <2>1. 0 \in Nat /\ 0 \in Int
    OBVIOUS
  <2> QED  BY <1>2, <2>1, AtaInvCall DEF NewProbe
<1>3. CASE TypedRead
  BY <1>3, AtaInvCall DEF TypedRead
<1> QED  BY <1>1, <1>2, <1>3, ReadsTyped, AtaInvDrive, AtaInvDriver DEF Next, Run, Ended, vars

-----------------------------------------------------------------------------
(* The refinement.  A drive with a command left to do is busy or offers    *)
(* words, and no other; a packet device offers none.                       *)
Working == drive = "ata" => (command.op = "none" <=> status \cap {"BSY", "DRQ"} = {})
NoWords == drive = "atapi" => "DRQ" \notin status

(* The register never shows a drive busy that offers words, and shows what *)
(* there is once the driver has waited for it.                             *)
Seen  == drive # "none" => ~ ({"BSY", "DRQ"} \subseteq shown)
Fresh == drive = "ata" /\ dpc \in {"reset", "drq", "data", "words"} => shown = status

(* The drive has had nothing to do, and nothing to fail at, before it is   *)
(* asked to identify itself.                                               *)
Unused == ~ Error /\ command.op \notin {"read", "identify"}
Late   == drive # "none" /\ pc \in Probing => Unused
Unhurt == /\ drive # "none" /\ dpc = "identify" => Unused
          /\ drive = "ata" /\ dpc \in Looking /\ request.op = "identify" =>
               ("ERR" \in shown => "ERR" \in status)

DriveInv == Working /\ NoWords /\ Seen /\ Fresh /\ Late /\ Unhurt

LEMMA DriveInit == Init => DriveInv
  BY DEF Init, AtaInit, DriveInv, Working, NoWords, Seen, Fresh, Unused, Late, Unhurt, Error,
     NoCommand, NoRequest, Floating, Looking

LEMMA DriveDrive ==
  ASSUME AtaInv, DrqInv, ErrInv, DriveInv, Drive, UNCHANGED loaderVars
  PROVE  DriveInv'
<1> USE DEF DriveInv, Working, NoWords, Seen, Fresh, Unused, Late, Unhurt, Error, NoCommand,
            driverVars, loaderVars, Show
<1>1. CASE DriveReady
  BY <1>1 DEF DriveReady
<1>2. CASE DriveFails
  BY <1>2 DEF DriveFails
<1>3. CASE ResetDone
  BY <1>3 DEF ResetDone
<1>4. CASE Settle
  BY <1>4 DEF Settle, DrqInv, Offering
<1> QED  BY <1>1, <1>2, <1>3, <1>4 DEF Drive

LEMMA DriveProgram ==
  ASSUME AtaInv, DriveInv, Program
  PROVE  DriveInv'
<1> USE DEF DriveInv, Working, NoWords, Seen, Fresh, Unused, Late, Unhurt, Error, Looking
<1>1. CASE UNCHANGED ataVars /\ (pc' \in Probing => pc \in Probing)
  BY <1>1 DEF ataVars, driveVars, driverVars
<1>2. CASE NewRead /\ pc' \notin Probing
  BY <1>2 DEF NewRead, Call, driveVars
<1>3. CASE NewProbe /\ pc \in Probing
  BY <1>3 DEF NewProbe, Call, driveVars
<1> QED  BY <1>1, <1>2, <1>3, ProgramCalls

LEMMA HandsOver ==
  ASSUME AtaInv, HandOver, "DRQ" \in status
  PROVE  /\ shown' = shown
         /\ \/ command.left = 1 /\ command' = NoCommand /\ status' = {"DRDY"}
            \/ /\ command.left # 1 /\ status' = {"DRDY", "BSY"}
               /\ command' = [op |-> command.op, lba |-> command.lba + 1, left |-> command.left - 1]
<1>1. command \in Commands
  BY DEF AtaInv, DriveTypes
<1>2. [command EXCEPT !.lba = @ + 1, !.left = @ - 1]
        = [op |-> command.op, lba |-> command.lba + 1, left |-> command.left - 1]
  <2> DEFINE next == [command EXCEPT !.lba = @ + 1, !.left = @ - 1]
  <2>1. command.lba + 1 \in Int /\ command.left - 1 \in Int
    BY <1>1 DEF Commands
  <2>2. next \in Commands
    BY <2>1, <1>1, HandedOverTypes
  <2>3. next.op = command.op /\ next.lba = command.lba + 1 /\ next.left = command.left - 1
    BY <1>1, <2>1, SMT DEF Commands
  <2> HIDE DEF next
  <2>4. next = [op |-> next.op, lba |-> next.lba, left |-> next.left]
    BY <2>2 DEF Commands
  <2>5. next = [op |-> command.op, lba |-> command.lba + 1, left |-> command.left - 1]
    BY <2>3, <2>4
  <2> QED  BY <2>5 DEF next
<1>3. /\ shown' = shown
      /\ IF command.left = 1
         THEN command' = NoCommand /\ status' = {"DRDY"}
         ELSE /\ command' = [command EXCEPT !.lba = @ + 1, !.left = @ - 1]
              /\ status' = {"DRDY", "BSY"}
  BY DEF HandOver
<1> QED  BY <1>2, <1>3

LEMMA DriveDriver ==
  ASSUME AtaInv, DrqInv, ErrInv, DriveInv, Driver, UNCHANGED loaderVars
  PROVE  DriveInv'
<1> USE DEF DriveInv, Working, NoWords, Seen, Fresh, Unused, Late, Unhurt, Error, Looking,
            loaderVars, Goto, Return, Proceed, GiveUp, Again, driveVars
<1>0. /\ request.op \in {"read", "identify"} => pc \notin Probing
      /\ drive # "none" => ~ ({"BSY", "DRQ"} \subseteq status)
      /\ drive \in {"ata", "atapi", "none"}
      /\ dpc \in {"words", "id_words"} => "DRQ" \in status
  BY DEF ErrInv, Order, DrqInv, Offering, WordsOffered, AtaInv, DriveTypes
<1>a. /\ dpc \in {"command", "words"} => request.op = "read"
      /\ dpc \in {"identify", "id_words"} => request.op = "identify"
      /\ dpc = "detect" => request.op = "detect"
  BY DEF AtaInv, CallKind, Before, During
<1>1. CASE detect_devtype
  <2>1. CASE SoftReset
    BY <1>0, <1>a, <2>1 DEF SoftReset
  <2>2. CASE AwaitReset
    BY <2>2 DEF AwaitReset
  <2> QED  BY <1>1, <2>1, <2>2 DEF detect_devtype
<1>2. CASE ata_init
  BY <1>2 DEF ata_init
<1>3. CASE IdentifyCommand
  BY <1>0, <1>a, <1>3 DEF IdentifyCommand, Write
<1>4. CASE ata_wait_not_bsy("id_busy", "id_signature")
  BY <1>4 DEF ata_wait_not_bsy, Poll
<1>5. CASE IdentifySignature
  BY <1>5 DEF IdentifySignature
<1>6. CASE ata_wait_drq("id_drq", "id_words")
  BY <1>6 DEF ata_wait_drq, Poll
<1>7. CASE IdentifyWords
  <2>1. dpc = "id_words" /\ dpc' = "done" /\ UNCHANGED <<drive, request>> /\ HandOver
    BY <1>7 DEF IdentifyWords
  <2>2. \/ command' = NoCommand /\ status' = {"DRDY"}
        \/ status' = {"DRDY", "BSY"} /\ command'.op = command.op
    BY <1>0, <2>1, HandsOver
  <2>3. shown' = shown
    BY <1>0, <2>1, HandsOver
  <2> QED  BY <1>0, <1>a, <2>1, <2>2, <2>3 DEF NoCommand
<1>8. CASE CheckArguments
  BY <1>8 DEF CheckArguments
<1>9. CASE ata_wait_not_bsy("busy", "check")
  BY <1>9 DEF ata_wait_not_bsy, Poll
<1>10. CASE CheckStatus
  BY <1>10 DEF CheckStatus
<1>11. CASE ReadCommand
  BY <1>0, <1>a, <1>11 DEF ReadCommand, Write
<1>12. CASE Delay
  BY <1>0, <1>12 DEF Delay, ata_wait_400ns
<1>13. CASE ata_wait_drq("drq", "data")
  BY <1>13 DEF ata_wait_drq, Poll
<1>14. CASE CheckData
  BY <1>14 DEF CheckData
<1>15. CASE StoreWords
  <2>1. dpc = "words" /\ dpc' \in {"delay", "done"} /\ UNCHANGED <<drive, request>> /\ HandOver
    BY <1>15 DEF StoreWords
  <2>2. \/ command' = NoCommand /\ status' = {"DRDY"}
        \/ status' = {"DRDY", "BSY"} /\ command'.op = command.op
    BY <1>0, <2>1, HandsOver
  <2>3. shown' = shown
    BY <1>0, <2>1, HandsOver
  <2> QED  BY <1>0, <1>a, <2>1, <2>2, <2>3 DEF NoCommand
<1> QED
  BY <1>1, <1>2, <1>3, <1>4, <1>5, <1>6, <1>7, <1>8, <1>9, <1>10, <1>11, <1>12, <1>13, <1>14, <1>15
  DEF Driver, ata_identify, pio28_read

(* As long as no wait was given up: a disk is idle between the calls, does *)
(* what the call in progress has asked for, or has failed at it.           *)
Idle    == command.op = "none"
Failed  == command.op = "none" /\ Error
AtWork == command = [op |-> "read", lba |-> request.lba + Len(got), left |-> request.n - Len(got)]

Serving ==
  drive = "ata" /\ ~ gaveup =>
    /\ dpc \in {"done", "detect", "init", "identify", "read"} \cup Before => Idle
    /\ dpc = "reset" => Idle \/ (command.op = "reset" /\ "BSY" \in status)
    /\ dpc \in {"id_busy", "id_signature", "id_drq", "id_words"} =>
         Failed \/ (command.op = "identify" /\ command.left = 1)
    /\ dpc \in During => Failed \/ AtWork
    /\ dpc = "data" => "DRQ" \in status

(* What a read has stored so far is what it was asked for.                 *)
InOrder == ~ gaveup => \A i \in 1 .. Len(got) : got[i] = request.lba + i - 1

ServeInv == Serving /\ InOrder

LEMMA ServeInit == Init => ServeInv
<1> SUFFICES ASSUME Init PROVE ServeInv
  OBVIOUS
<1>1. dpc = "done" /\ command.op = "none" /\ got = <<>>
  BY DEF Init, AtaInit, NoCommand
<1> QED  BY <1>1 DEF ServeInv, Serving, InOrder, Idle, Before, During

LEMMA ServeDrive ==
  ASSUME DrqInv, DriveInv, ServeInv, Drive
  PROVE  ServeInv'
<1>1. UNCHANGED <<drive, dpc, request, got, gaveup>>
  BY DEF Drive, DriveReady, DriveFails, ResetDone, Settle, Show, driverVars
<1>2. InOrder'
  BY <1>1 DEF ServeInv, InOrder
<1>3. Serving'
  <2> USE <1>1 DEF ServeInv, Serving, Idle, Before, During, DriveInv, Working, Error, Show
  <2> SUFFICES ASSUME drive = "ata", ~ gaveup
               PROVE  Serving'
    OBVIOUS
  <2>1. CASE DriveReady
    <3>1. command.op \in {"identify", "read"} /\ status' = {"DRDY", "DRQ"} /\ command' = command
      BY <2>1 DEF DriveReady
    <3> QED  BY <3>1 DEF Failed, AtWork
  <2>2. CASE DriveFails
    <3>1. command.op \in {"identify", "read"} /\ command'.op = "none"
      BY <2>2 DEF DriveFails, NoCommand
    <3>2. PICK bit \in {"ERR", "DF"} : status' = {"DRDY", bit}
      BY <2>2 DEF DriveFails
    <3>3. Failed'
      BY <3>1, <3>2 DEF Failed
    <3>4. dpc # "data"
      BY <2>2 DEF DriveFails, DrqInv, Offering
    <3> QED  BY <3>1, <3>3, <3>4
  <2>3. CASE ResetDone
    <3>1. command.op = "reset" /\ command'.op = "none"
      BY <2>3 DEF ResetDone, NoCommand
    <3> QED  BY <3>1 DEF Failed, AtWork
  <2>4. CASE Settle
    <3>1. UNCHANGED <<status, command>>
      BY <2>4 DEF Settle
    <3>2. (Failed' <=> Failed) /\ (AtWork' <=> AtWork)
      BY <3>1 DEF Failed, AtWork
    <3> QED  BY <3>1, <3>2
  <2> QED  BY <2>1, <2>2, <2>3, <2>4 DEF Drive
<1> QED  BY <1>2, <1>3 DEF ServeInv

LEMMA ServeProgram ==
  ASSUME ServeInv, Program
  PROVE  ServeInv'
<1>1. CASE UNCHANGED ataVars
  BY <1>1 DEF ataVars, driveVars, driverVars, ServeInv, Serving, InOrder, Idle, Failed, AtWork,
     Before, During, Error
<1>2. CASE dpc = "done" /\ (NewRead \/ NewProbe)
  <2>1. /\ dpc = "done" /\ dpc' \in {"read", "detect", "init", "identify"} /\ got' = <<>>
        /\ UNCHANGED <<drive, command, status, gaveup>>
    BY <1>2 DEF NewRead, NewProbe, Call, driveVars
  <2> QED  BY <2>1 DEF ServeInv, Serving, InOrder, Idle, Before, During
<1> QED  BY <1>1, <1>2, ProgramCalls

(* The driver looks at the status, and leaves the drive as it is.          *)
Group(p) ==
  IF p = "reset" THEN 1
  ELSE IF p \in {"id_busy", "id_signature", "id_drq", "id_words"} THEN 2
  ELSE IF p \in During THEN 3 ELSE 0

LEMMA ServeMoves ==
  ASSUME ServeInv, AtaInv, NEW p, NEW q, Moved(p, q), gaveup' = gaveup,
         \/ Group(q) = Group(p) /\ q # "reset"
         \/ p = q
         \/ q = "done" /\ (drive = "ata" => Idle),
         q \in {"done", "read", "reset"} \cup Before \cup During
               \cup {"id_busy", "id_signature", "id_drq", "id_words"},
         p # "data" /\ q = "data" /\ drive = "ata" => "DRQ" \in status
  PROVE  ServeInv'
<1>1. /\ dpc = p /\ dpc' = q
      /\ UNCHANGED <<drive, status, command, request, got>>
  BY DEF Moved, driveVars
<1>2. InOrder'
  BY <1>1 DEF ServeInv, InOrder
<1>3. (Failed' <=> Failed) /\ (AtWork' <=> AtWork) /\ (Idle' <=> Idle)
  BY <1>1 DEF Failed, AtWork, Idle, Error
<1>4. dpc \in {"done", "read"} \cup Before \cup During \cup Probes
  BY DEF AtaInv, CallKind
<1>5. Serving'
  <2> SUFFICES ASSUME drive = "ata", ~ gaveup
               PROVE  Serving'
    BY <1>1 DEF Serving
  <2>1. CASE p = q
    BY <1>1, <1>3, <2>1 DEF ServeInv, Serving
  <2>2. CASE q = "done" /\ Idle
    BY <1>1, <1>3, <2>2 DEF Serving, Before, During
  <2>3. CASE Group(q) = Group(p) /\ q # "reset"
    BY <1>1, <1>3, <1>4, <2>3 DEF ServeInv, Serving, Before, During, Probes, Group
  <2> QED  BY <2>1, <2>2, <2>3
<1> QED  BY <1>2, <1>5 DEF ServeInv

LEMMA Polled ==
  ASSUME AtaInv, NEW p, NEW q, NEW good, NEW timeout, Poll(p, q, good, timeout)
  PROVE  \/ Moved(p, p) /\ gaveup' = gaveup
         \/ Moved(p, q) /\ gaveup' = gaveup /\ good
         \/ Moved(p, "done") /\ gaveup' = gaveup /\ (shown = Floating \/ "ERR" \in shown)
         \/ Moved(p, "done") /\ gaveup'
<1>1. Polls \in 1 .. Polls /\ (tries > 1 => tries - 1 \in 1 .. Polls)
  BY AtaAssumption DEF AtaInv, CallTypes
<1> QED  BY <1>1 DEF Poll, Return, Proceed, Again, GiveUp, Goto, Moved

LEMMA Resigned ==
  ASSUME gaveup'
  PROVE  ServeInv'
  BY DEF ServeInv, Serving, InOrder

(* An error bit in the status, and the drive is idle.                      *)
LEMMA ErrorIdle ==
  ASSUME ErrInv, DriveInv, drive = "ata", Error
  PROVE  Idle
  BY DEF ErrInv, AtRest, DriveInv, Working, Idle

LEMMA ServeDriver ==
  ASSUME AtaInv, DrqInv, ErrInv, DriveInv, ServeInv, Driver
  PROVE  ServeInv'
<1>0. Polls \in 1 .. Polls
  BY AtaAssumption
<1>1. shown # Floating \/ drive # "ata"
  BY DEF DriveInv, Seen, Floating
<1>2. CASE SoftReset
  <2>1. /\ dpc = "detect" /\ dpc' = "reset" /\ UNCHANGED <<drive, request, got, gaveup>>
        /\ drive = "ata" => command'.op = "reset" /\ status' = {"BSY"}
    BY <1>2 DEF SoftReset, Goto
  <2> QED  BY <2>1 DEF ServeInv, Serving, InOrder, Before, During
<1>3. CASE AwaitReset
  <2>1. \/ Moved("reset", "reset") /\ gaveup' = gaveup
        \/ Moved("reset", "done") /\ gaveup'
        \/ Moved("reset", "done") /\ gaveup' = gaveup /\ (shown = Floating \/ "BSY" \notin shown)
    BY <1>0, <1>3 DEF AwaitReset, Return, Again, GiveUp, Goto, Moved, AtaInv, CallTypes
  <2>2. CASE Moved("reset", "reset") /\ gaveup' = gaveup
    BY <2>2, ServeMoves
  <2>3. CASE Moved("reset", "done") /\ gaveup' = gaveup /\ (shown = Floating \/ "BSY" \notin shown)
    <3>1. drive = "ata" /\ gaveup => gaveup'
      BY <2>3
    <3>2. drive = "ata" /\ ~ gaveup => Idle
      BY <1>1, <2>3 DEF Moved, DriveInv, Fresh, ServeInv, Serving
    <3>3. CASE gaveup
      BY <2>3, <3>3, Resigned
    <3>4. CASE ~ gaveup
      BY <2>3, <3>2, <3>4, ServeMoves
    <3> QED  BY <3>3, <3>4
  <2> QED  BY <2>1, <2>2, <2>3, Resigned
<1>4. CASE ata_init
  <2>1. Moved("init", "done") /\ gaveup' = gaveup
    BY <1>0, <1>4 DEF ata_init, Return, Goto, Moved
  <2> QED  BY <2>1, ServeMoves DEF Group, During
<1>5. CASE IdentifyCommand
  <2>1. /\ dpc = "identify" /\ dpc' = "id_busy" /\ UNCHANGED <<drive, request, got, gaveup>>
        /\ Write([op |-> "identify", lba |-> 0, left |-> 1])
    BY <1>5 DEF IdentifyCommand, Goto
  <2>2. drive = "ata" /\ ~ gaveup => command'.op = "identify" /\ command'.left = 1
    <3>1. drive = "ata" /\ ~ gaveup => status \cap {"BSY", "DRQ"} = {}
      BY <2>1 DEF ServeInv, Serving, DriveInv, Working, Idle
    <3> QED  BY <2>1, <3>1 DEF Write
  <2> QED  BY <2>1, <2>2 DEF ServeInv, Serving, InOrder, Before, During
<1>6. ASSUME NEW p \in {"id_busy", "id_drq", "drq", "busy"}, NEW q, NEW good, NEW timeout,
             Poll(p, q, good, timeout),
             \/ <<p, q>> \in {<<"id_busy", "id_signature">>, <<"id_drq", "id_words">>, <<"busy", "check">>}
             \/ <<p, q>> = <<"drq", "data">> /\ (good => "DRQ" \in shown)
      PROVE  ServeInv'
  <2>1. CASE Moved(p, p) /\ gaveup' = gaveup
    BY <2>1, ServeMoves DEF Before, During
  <2>2. CASE Moved(p, q) /\ gaveup' = gaveup /\ good
    <3>1. p = "drq" /\ drive = "ata" => "DRQ" \in status
      BY <1>6, <2>2 DEF Moved, DriveInv, Fresh
    <3>2. Group(p) = Group(q) /\ q \in Before \cup During \cup {"id_signature", "id_words"}
      BY <1>6 DEF Group, During, Before
    <3>3. q # "reset" /\ (q = "data" => p = "drq")
      BY <1>6
    <3> QED  BY <2>2, <3>1, <3>2, <3>3, ServeMoves
  <2>3. CASE Moved(p, "done") /\ gaveup' = gaveup /\ (shown = Floating \/ "ERR" \in shown)
    <3>1. CASE p = "busy"
      BY <2>3, <3>1, ServeMoves DEF Group, During
    <3>2. CASE p # "busy"
      <4>1. drive = "ata" => Error
        <5>1. dpc = p /\ (p \in {"id_busy", "id_drq"} => request.op = "identify")
          BY <2>3 DEF Moved, AtaInv, CallKind
        <5> QED  BY <1>1, <2>3, <3>2, <5>1 DEF DriveInv, Fresh, Unhurt, Looking, Error
      <4> QED  BY <2>3, <4>1, ServeMoves, ErrorIdle
    <3> QED  BY <3>1, <3>2
  <2> QED  BY <1>6, <2>1, <2>2, <2>3, Polled, Resigned
<1>7. CASE IdentifySignature
  <2>1. \/ Moved("id_signature", "id_drq") /\ gaveup' = gaveup
        \/ Moved("id_signature", "done") /\ gaveup' = gaveup /\ drive # "ata"
    BY <1>0, <1>7 DEF IdentifySignature, Proceed, Return, Goto, Moved
  <2> QED  BY <2>1, ServeMoves DEF Group, During
<1>8. CASE IdentifyWords
  <2>1. /\ dpc = "id_words" /\ dpc' = "done" /\ UNCHANGED <<drive, request, got, gaveup>> /\ HandOver
    BY <1>8 DEF IdentifyWords, Goto
  <2>2. "DRQ" \in status
    BY <2>1 DEF DrqInv, WordsOffered
  <2>3. drive = "ata" /\ ~ gaveup => command.left = 1
    BY <2>1, <2>2 DEF ServeInv, Serving, Failed, DriveInv, Working
  <2>4. drive = "ata" /\ ~ gaveup => command' = NoCommand
    BY <2>1, <2>2, <2>3, HandsOver
  <2> QED  BY <2>1, <2>4 DEF ServeInv, Serving, InOrder, Before, During, Idle, NoCommand
<1>9. CASE CheckArguments
  <2>1. \E q \in {"busy", "done"} : Moved("read", q) /\ gaveup' = gaveup
    BY <1>0, <1>9 DEF CheckArguments, Proceed, Return, Goto, Moved
  <2> QED  BY <2>1, ServeMoves DEF Group, During, Before
<1>10. CASE CheckStatus
  <2>1. \E q \in {"command", "done"} : Moved("check", q) /\ gaveup' = gaveup
    BY <1>0, <1>10 DEF CheckStatus, Proceed, Return, Goto, Moved
  <2> QED  BY <2>1, ServeMoves DEF Group, During, Before
<1>11. CASE ReadCommand
  <2>1. /\ dpc = "command" /\ dpc' = "delay" /\ UNCHANGED <<drive, request, got, gaveup>>
        /\ Write([op |-> "read", lba |-> request.lba, left |-> request.n])
    BY <1>11 DEF ReadCommand, Goto
  <2>2. drive = "ata" /\ ~ gaveup => command' = [op |-> "read", lba |-> request.lba, left |-> request.n]
    <3>1. drive = "ata" /\ ~ gaveup => status \cap {"BSY", "DRQ"} = {}
      BY <2>1 DEF ServeInv, Serving, DriveInv, Working, Idle, Before
    <3> QED  BY <2>1, <3>1 DEF Write
  <2>3. request.lba + Len(got) = request.lba /\ request.n - Len(got) = request.n
    <3>1. got = <<>> /\ request.lba \in Int /\ request.n \in Nat
      BY <2>1 DEF AtaInv, Progress, CallTypes, Before
    <3> QED  BY <3>1
  <2>4. drive = "ata" /\ ~ gaveup => AtWork'
    BY <2>1, <2>2, <2>3 DEF AtWork
  <2> QED  BY <2>1, <2>4 DEF ServeInv, Serving, InOrder, Before, During
<1>12. CASE Delay
  <2>1. /\ dpc = "delay" /\ dpc' = "drq"
        /\ UNCHANGED <<drive, status, command, request, got, gaveup>>
    BY <1>12 DEF Delay, Goto, ata_wait_400ns
  <2>2. (Failed' <=> Failed) /\ (AtWork' <=> AtWork)
    BY <2>1 DEF Failed, AtWork, Error
  <2> QED  BY <2>1, <2>2 DEF ServeInv, Serving, InOrder, Before, During
<1>13. CASE CheckData
  <2>1. \/ Moved("data", "done") /\ gaveup' = gaveup /\ ("ERR" \in shown \/ "DF" \in shown \/ "DRQ" \notin shown)
        \/ Moved("data", "words") /\ gaveup' = gaveup
    BY <1>0, <1>13 DEF CheckData, Faulty, Proceed, Return, Goto, Moved
  <2>2. CASE Moved("data", "words") /\ gaveup' = gaveup
    BY <2>2, ServeMoves DEF Group, During
  <2>3. CASE /\ Moved("data", "done") /\ gaveup' = gaveup
             /\ "ERR" \in shown \/ "DF" \in shown \/ "DRQ" \notin shown
    <3>1. drive = "ata" /\ ~ gaveup => Error
      BY <2>3 DEF Moved, DriveInv, Fresh, ServeInv, Serving, Error
    <3>2. CASE gaveup
      BY <2>3, <3>2, Resigned
    <3>3. CASE ~ gaveup
      BY <2>3, <3>1, <3>3, ErrorIdle, ServeMoves
    <3> QED  BY <3>2, <3>3
  <2> QED  BY <2>1, <2>2, <2>3
<1>14. CASE StoreWords
  <2>1. /\ dpc = "words" /\ dpc' = IF Len(got) + 1 < request.n THEN "delay" ELSE "done"
        /\ UNCHANGED <<drive, request, gaveup>> /\ HandOver /\ got' = Append(got, Word)
    BY <1>14 DEF StoreWords, Goto
  <2> SUFFICES ASSUME ~ gaveup PROVE ServeInv'
    BY <2>1, Resigned
  <2>2. "DRQ" \in status /\ drive = "ata"
    BY <2>1 DEF DrqInv, WordsOffered, DriveInv, NoWords, ErrInv, Absent, AtaInv, DriveTypes
  <2>3. AtWork
    BY <2>1, <2>2 DEF ServeInv, Serving, Failed, DriveInv, Working, During
  <2>4. /\ got \in Seq(Int) /\ Len(got) \in Nat /\ Len(got) < request.n
        /\ request.n \in Nat /\ request.lba \in Int
    BY <2>1 DEF AtaInv, Progress, CallTypes, During
  <2>5. Word = request.lba + Len(got) /\ command.op = "read" /\ command.lba = request.lba + Len(got)
        /\ command.left = request.n - Len(got)
    BY <2>2, <2>3 DEF Word, AtWork
  <2>6. /\ Len(got') = Len(got) + 1 /\ got'[Len(got) + 1] = request.lba + Len(got)
        /\ \A i \in 1 .. Len(got) : got'[i] = got[i]
    BY <2>1, <2>4, <2>5
  <2>7. InOrder'
    <3> SUFFICES ASSUME NEW i \in 1 .. Len(got) + 1 PROVE got'[i] = request.lba + i - 1
      BY <2>1, <2>6 DEF InOrder
    <3>1. CASE i = Len(got) + 1
      BY <2>4, <2>6, <3>1
    <3>2. CASE i \in 1 .. Len(got)
      BY <2>6, <3>2 DEF ServeInv, InOrder
    <3> QED  BY <2>4, <3>1, <3>2
  <2>8. CASE command.left = 1
    <3>1. command' = NoCommand
      BY <2>1, <2>2, <2>8, HandsOver
    <3>2. dpc' = "done"
      BY <2>1, <2>4, <2>5, <2>8
    <3> QED  BY <2>7, <3>1, <3>2 DEF ServeInv, Serving, Before, During, Idle, NoCommand
  <2>9. CASE command.left # 1
    <3>1. command' = [op |-> command.op, lba |-> command.lba + 1, left |-> command.left - 1]
      BY <2>1, <2>2, <2>9, HandsOver
    <3>2. dpc' = "delay"
      BY <2>1, <2>4, <2>5, <2>9
    <3>3. /\ command.lba + 1 = request.lba + (Len(got) + 1)
          /\ command.left - 1 = request.n - (Len(got) + 1)
      BY <2>4, <2>5
    <3>4. AtWork'
      BY <2>1, <2>5, <2>6, <3>1, <3>3 DEF AtWork
    <3> QED  BY <2>7, <3>2, <3>4 DEF ServeInv, Serving, Before, During
  <2> QED  BY <2>8, <2>9
<1>15. CASE \/ ata_wait_not_bsy("id_busy", "id_signature") \/ ata_wait_drq("id_drq", "id_words")
            \/ ata_wait_not_bsy("busy", "check")
  BY <1>6, <1>15 DEF ata_wait_not_bsy, ata_wait_drq
<1>16. CASE ata_wait_drq("drq", "data")
  BY <1>6, <1>16 DEF ata_wait_drq
<1> QED
  BY <1>2, <1>3, <1>4, <1>5, <1>7, <1>8, <1>9, <1>10, <1>11, <1>12, <1>13, <1>14, <1>15, <1>16
  DEF Driver, detect_devtype, ata_identify, pio28_read

(* A step of a call stores words, goes on, or ends the call; a read that   *)
(* ends without having stored the last words has failed.                   *)
GoesOn == dpc' # "done" /\ gaveup' = gaveup
EndsNow ==
  /\ dpc' = "done" /\ (gaveup => gaveup') /\ gaveup' \in {gaveup, TRUE}
  /\ request.op = "read" => ata_last_error' # "ok"

LEMMA DriverSteps ==
  ASSUME AtaInv, Driver
  PROVE  /\ request' = request /\ dpc # "done"
         /\ StoreWords \/ (got' = got /\ (GoesOn \/ EndsNow))
<1> USE DEF GoesOn, EndsNow, Goto, Return, Proceed, GiveUp, Again, Reported
<1>a. /\ dpc \in {"detect", "reset"} => request.op = "detect"
      /\ dpc = "init" => request.op = "init"
      /\ dpc \in {"identify", "id_busy", "id_signature", "id_drq", "id_words"} => request.op = "identify"
  BY DEF AtaInv, CallKind
<1>1. CASE detect_devtype
  BY <1>1, <1>a DEF detect_devtype, SoftReset, AwaitReset
<1>2. CASE ata_init
  BY <1>2, <1>a DEF ata_init
<1>3. CASE IdentifyCommand
  BY <1>3, <1>a DEF IdentifyCommand
<1>4. CASE ata_wait_not_bsy("id_busy", "id_signature")
  BY <1>4, <1>a DEF ata_wait_not_bsy, Poll
<1>5. CASE IdentifySignature
  BY <1>5, <1>a DEF IdentifySignature
<1>6. CASE ata_wait_drq("id_drq", "id_words")
  BY <1>6, <1>a DEF ata_wait_drq, Poll
<1>7. CASE IdentifyWords
  BY <1>7, <1>a DEF IdentifyWords
<1>8. CASE CheckArguments
  BY <1>8 DEF CheckArguments
<1>9. CASE ata_wait_not_bsy("busy", "check")
  BY <1>9 DEF ata_wait_not_bsy, Poll
<1>10. CASE CheckStatus
  BY <1>10 DEF CheckStatus
<1>11. CASE ReadCommand
  BY <1>11 DEF ReadCommand
<1>12. CASE Delay
  BY <1>12 DEF Delay
<1>13. CASE ata_wait_drq("drq", "data")
  BY <1>13 DEF ata_wait_drq, Poll
<1>14. CASE CheckData
  BY <1>14 DEF CheckData
<1>15. CASE StoreWords
  BY <1>15 DEF StoreWords
<1> QED
  BY <1>1, <1>2, <1>3, <1>4, <1>5, <1>6, <1>7, <1>8, <1>9, <1>10, <1>11, <1>12, <1>13, <1>14, <1>15
  DEF Driver, ata_identify, pio28_read

(* What a step does to the promise.                                        *)
LEMMA ReaderInit == Init => Reader!Init
<1> SUFFICES ASSUME Init PROVE Reader!Init
  OBVIOUS
<1>1. request.op = "none" /\ got = <<>> /\ dpc = "done" /\ gaveup = FALSE
  BY DEF Init, AtaInit, NoRequest
<1>2. ~ ReadSucceeds /\ gaveup \in BOOLEAN
  BY <1>1 DEF ReadSucceeds, ReadReturned
<1> QED  BY <1>1, <1>2 DEF Reader!Init

Reading == IF request.op = "read" THEN Asked ELSE <<>>

LEMMA ReaderDelivers ==
  ASSUME AtaInv, DrqInv, ErrInv, DriveInv, ServeInv, ~ gaveup, StoreWords
  PROVE  Reader!Deliver
<1>1. /\ dpc = "words" /\ dpc' = IF Len(got) + 1 < request.n THEN "delay" ELSE "done"
      /\ UNCHANGED <<drive, request, gaveup>> /\ got' = Append(got, Word) /\ ata_last_error' = "ok"
  BY DEF StoreWords, Goto
<1>2. /\ got \in Seq(Int) /\ Len(got) \in Nat /\ Len(got) < request.n
      /\ request.n \in Nat /\ request.lba \in Int /\ request.op = "read"
  BY <1>1 DEF AtaInv, Progress, CallTypes, During, CallKind
<1>3. "DRQ" \in status /\ drive = "ata"
  BY <1>1 DEF DrqInv, WordsOffered, DriveInv, NoWords, ErrInv, Absent, AtaInv, DriveTypes
<1>4. Word = request.lba + Len(got)
  <2>1. AtWork
    BY <1>1, <1>3 DEF ServeInv, Serving, Failed, DriveInv, Working, During
  <2> QED  BY <1>3, <2>1 DEF Word, AtWork
<1>5. /\ Len(Asked) = request.n /\ DOMAIN Asked = 1 .. request.n
      /\ \A i \in 1 .. request.n : Asked[i] = request.lba + i - 1
      /\ Asked \in Seq(Int)
  <2>1. \A i \in 1 .. request.n : request.lba + i - 1 \in Int
    BY <1>2
  <2>2. Asked \in [1 .. request.n -> Int]
    BY <2>1 DEF Asked
  <2>3. Asked \in Seq(Int)
    BY <1>2, <2>2, SeqDef
  <2>4. Len(Asked) = request.n /\ DOMAIN Asked = 1 .. request.n
    BY <1>2, <2>2, <2>3
  <2>5. \A i \in 1 .. request.n : Asked[i] = request.lba + i - 1
    BY DEF Asked
  <2> QED  BY <2>3, <2>4, <2>5
<1>6. got' = Append(got, Asked[Len(got) + 1])
  <2>1. Asked[Len(got) + 1] = request.lba + Len(got)
    BY <1>2, <1>5
  <2> QED  BY <1>1, <1>4, <2>1
<1>7. Asked' = Asked /\ Reading = Asked /\ Reading' = Asked
  BY <1>1, <1>2 DEF Asked, Reading
<1>8. got' \in Seq(Int) /\ Len(got') = Len(got) + 1
      /\ \A i \in 1 .. Len(got) : got'[i] = got[i]
      /\ got'[Len(got) + 1] = request.lba + Len(got)
  BY <1>1, <1>2, <1>4
<1>9. got' = Asked <=> Len(got) + 1 = request.n
  <2>1. got' = Asked => Len(got') = Len(Asked)
    OBVIOUS
  <2>2. ASSUME Len(got) + 1 = request.n PROVE got' = Asked
    <3>1. \A i \in 1 .. Len(got) : got'[i] = Asked[i]
      BY <1>1, <1>2, <1>5, <1>8, <2>2 DEF ServeInv, InOrder
    <3>2. got'[Len(got) + 1] = Asked[Len(got) + 1]
      BY <1>1, <1>2, <1>5, <1>6, <1>8
    <3>3. \A i \in 1 .. Len(got') : got'[i] = Asked[i]
      BY <1>2, <1>8, <3>1, <3>2
    <3> QED  BY <1>2, <1>5, <1>8, <2>2, <3>3, SeqEqual
  <2> QED  BY <1>2, <1>5, <1>8, <2>1, <2>2
<1>10. ReadSucceeds' <=> Len(got) + 1 = request.n
  BY <1>1, <1>2 DEF ReadSucceeds, ReadReturned
<1>11. (request'.op = "read" /\ dpc' # "done") <=> ~ (Len(got) + 1 = request.n)
  BY <1>1, <1>2
<1> QED  BY <1>1, <1>2, <1>5, <1>6, <1>7, <1>9, <1>10, <1>11 DEF Reader!Deliver, Reading

(* All the invariants that the refinement rests on.                        *)
ReaderInv ==
  InDrive /\ Buffered /\ AtaInv /\ DrqInv /\ ErrInv /\ DriveInv /\ ServeInv /\ gaveup \in BOOLEAN

LEMMA ReaderInvInit == Init => ReaderInv
<1> SUFFICES ASSUME Init PROVE ReaderInv
  OBVIOUS
<1>1. InDrive /\ AtaInit /\ gaveup \in BOOLEAN
  BY DEF Init, InDrive, AtaInit
<1> QED
  BY <1>1, BufferedInit, AtaInvInit, DrqInit, ErrInit, DriveInit, ServeInit DEF ReaderInv

LEMMA ReaderInvStep == ReaderInv /\ [Next]_vars => ReaderInv'
<1> SUFFICES ASSUME ReaderInv, [Next]_vars PROVE ReaderInv'
  OBVIOUS
<1> USE DEF ReaderInv
<1>1. InDrive' /\ Buffered' /\ AtaInv' /\ DrqInv' /\ ErrInv'
  BY DiskStays, BufferedStep, AtaInvStep, DrqStep, ErrStep
<1>2. DriveInv'
  <2>1. CASE UNCHANGED vars
    BY <2>1 DEF vars, ataVars, driveVars, driverVars, loaderVars, DriveInv, Working, NoWords, Seen,
       Fresh, Unused, Late, Unhurt, Error, Looking
  <2> QED  BY <2>1, DriveDrive, DriveDriver, DriveProgram DEF Next, Run, Ended
<1>3. ServeInv'
  <2>1. CASE UNCHANGED vars
    BY <2>1 DEF vars, ataVars, driveVars, driverVars, ServeInv, Serving, InOrder, Idle, Failed,
       AtWork, Before, During, Error
  <2> QED  BY <2>1, ServeDrive, ServeDriver, ServeProgram DEF Next, Run, Ended
<1>4. gaveup' \in BOOLEAN
  <2>1. CASE Driver
    BY <2>1, DriverSteps DEF GoesOn, EndsNow, StoreWords
  <2>2. CASE UNCHANGED ataVars
    BY <2>2 DEF ataVars, driverVars
  <2>3. CASE NewRead \/ NewProbe
    BY <2>3 DEF NewRead, NewProbe, Call
  <2>4. CASE Drive
    BY <2>4 DEF Drive, DriveReady, DriveFails, ResetDone, Settle, Show, driverVars
  <2> QED  BY <2>1, <2>2, <2>3, <2>4, ProgramCalls DEF Next, Run, Ended, vars
<1> QED  BY <1>1, <1>2, <1>3, <1>4

LEMMA ReaderStep == ReaderInv /\ [Next]_vars => [Reader!Next]_Reader!vars
<1> SUFFICES ASSUME ReaderInv, [Next]_vars PROVE [Reader!Next]_Reader!vars
  OBVIOUS
<1>1. CASE UNCHANGED <<request, dpc, got, ata_last_error, gaveup>>
  BY <1>1 DEF Reader!vars, Asked, ReadSucceeds, ReadReturned
<1>2. CASE dpc = "done" /\ NewProbe /\ pc \in Probing
  <2>1. request.op # "read" /\ request'.op # "read" /\ got = <<>> /\ got' = <<>> /\ gaveup' = gaveup
    BY <1>2 DEF ReaderInv, ErrInv, Order, AtaInv, Progress, NewProbe, Call
  <2> QED  BY <2>1 DEF Reader!vars, ReadSucceeds, ReadReturned
<1>3. CASE dpc = "done" /\ TypedRead
  <2>1. PICK n \in Nat, lba \in Int :
               /\ request'.op = "read" /\ request'.n = n /\ request'.lba = lba
               /\ dpc' = "read" /\ got' = <<>> /\ gaveup' = gaveup
    BY <1>3 DEF TypedRead, Call
  <2>2. Asked' \in Seq(Int)
    <3>1. \A i \in 1 .. n : lba + i - 1 \in Int
      OBVIOUS
    <3>2. [i \in 1 .. n |-> lba + i - 1] \in [1 .. n -> Int]
      BY <3>1
    <3>3. Asked' = [i \in 1 .. n |-> lba + i - 1]
      BY <2>1 DEF Asked
    <3> QED  BY <3>2, <3>3, SeqDef
  <2>3. Reader!Ask
    BY <1>3, <2>1, <2>2 DEF Reader!Ask, ReadSucceeds, ReadReturned
  <2> QED  BY <2>3 DEF Reader!Next
<1>4. CASE Driver
  <2>1. CASE gaveup
    <3>1. gaveup'
      <4>1. StoreWords \/ GoesOn \/ EndsNow
        BY <1>4, DriverSteps DEF ReaderInv
      <4> QED  BY <2>1, <4>1 DEF GoesOn, EndsNow, StoreWords
    <3> QED  BY <2>1, <3>1 DEF Reader!Next, Reader!Unspecified
  <2>2. CASE ~ gaveup /\ StoreWords
    BY <2>2, ReaderDelivers DEF ReaderInv, Reader!Next
  <2>3. CASE ~ gaveup /\ got' = got /\ GoesOn
    <3>1. dpc # "done" /\ dpc' # "done" /\ request' = request
      BY <1>4, <2>3, DriverSteps DEF ReaderInv, GoesOn
    <3> QED  BY <2>3, <3>1 DEF Reader!vars, Asked, ReadSucceeds, ReadReturned, GoesOn
  <2>4. CASE ~ gaveup /\ got' = got /\ EndsNow
    <3>1. dpc # "done" /\ dpc' = "done" /\ request' = request
      BY <1>4, <2>4, DriverSteps DEF ReaderInv, EndsNow
    <3>2. CASE request.op = "read"
      <4>1. Reader!Fail
        BY <2>4, <3>1, <3>2 DEF Reader!Fail, Asked, ReadSucceeds, ReadReturned, EndsNow
      <4> QED  BY <4>1 DEF Reader!Next
    <3>3. CASE request.op # "read"
      <4>1. CASE gaveup'
        <5>1. Reader!GiveUp
          BY <2>4, <3>1, <3>3, <4>1 DEF Reader!GiveUp, ReadSucceeds, ReadReturned
        <5> QED  BY <5>1 DEF Reader!Next
      <4>2. CASE gaveup' = gaveup
        BY <2>4, <3>1, <3>3, <4>2 DEF Reader!vars, ReadSucceeds, ReadReturned
      <4> QED  BY <2>4, <4>1, <4>2 DEF EndsNow
    <3> QED  BY <3>2, <3>3
  <2> QED  BY <1>4, <2>1, <2>2, <2>3, <2>4, DriverSteps DEF ReaderInv
<1>5. CASE Drive
  <2>1. UNCHANGED <<request, dpc, got, ata_last_error, gaveup>>
    BY <1>5 DEF Drive, DriveReady, DriveFails, ResetDone, Settle, Show, driverVars
  <2> QED  BY <1>1, <2>1
<1>6. CASE Program
  <2>1. CASE UNCHANGED ataVars
    <3>1. UNCHANGED <<request, dpc, got, ata_last_error, gaveup>>
      BY <2>1 DEF ataVars, driverVars
    <3> QED  BY <1>1, <3>1
  <2>2. CASE dpc = "done" /\ (NewProbe \/ TypedRead) /\ ~ UNCHANGED ataVars
    <3>1. NewProbe => request'.op # "read"
      BY DEF NewProbe, Call
    <3>2. NewRead => request'.op = "read"
      BY DEF NewRead, Call
    <3>3. NewProbe => pc \in Probing
      BY <1>6, <2>2, <3>1, <3>2, ProgramCalls
    <3> QED  BY <1>2, <1>3, <2>2, <3>3
  <2> QED  BY <1>6, <2>1, <2>2, ReadsTyped, ProgramCalls DEF ReaderInv
<1>7. CASE UNCHANGED vars
  <2>1. UNCHANGED <<request, dpc, got, ata_last_error, gaveup>>
    BY <1>7 DEF vars, ataVars, driverVars
  <2> QED  BY <1>1, <2>1
<1> QED  BY <1>4, <1>5, <1>6, <1>7 DEF Next, Run, Ended

(* As long as no wait was given up, a read that succeeds has stored the    *)
(* sectors it was asked for, in order, and one that fails the first few.   *)
THEOREM ReadsAsPromised == Spec => ImplementsSectorReader
  BY ReaderInvInit, ReaderInvStep, ReaderInit, ReaderStep, PTL
     DEF Spec, ImplementsSectorReader, Reader!Spec

-----------------------------------------------------------------------------
(* strsplit.                                                               *)
LEMMA SplitSteps ==
  ASSUME NEW str, Len(str) \in Nat, NEW delimiter
  PROVE  /\ Splitting(str, delimiter)[0] = [dest |-> <<>>, buffer |-> <<>>]
         /\ \A i \in 0 .. Len(str) - 1 :
              Splitting(str, delimiter)[i + 1] = Split(Splitting(str, delimiter)[i], str[i + 1], delimiter)
<1> DEFINE first == [dest |-> <<>>, buffer |-> <<>>]
           Body(g, i) == IF i = 0 THEN first ELSE Split(g[i - 1], str[i], delimiter)
           N == Len(str)
           Good == {m \in Nat : \E g : g = [i \in 0 .. m |-> Body(g, i)]}
<1>1. 0 \in Good
  <2>1. [i \in 0 .. 0 |-> first] = [i \in 0 .. 0 |-> Body([j \in 0 .. 0 |-> first], i)]
    OBVIOUS
  <2> QED  BY <2>1
<1>2. ASSUME NEW m \in Nat, m \in Good PROVE m + 1 \in Good
  <2>1. PICK g : g = [i \in 0 .. m |-> Body(g, i)]
    BY <1>2
  <2> DEFINE h == [i \in 0 .. m + 1 |-> IF i <= m THEN g[i] ELSE Split(g[m], str[m + 1], delimiter)]
  <2>2. ASSUME NEW i \in 0 .. m + 1 PROVE h[i] = Body(h, i)
    <3>1. CASE i = 0
      BY <2>1, <3>1
    <3>2. CASE i \in 1 .. m
      <4>1. g[i] = Split(g[i - 1], str[i], delimiter) /\ h[i - 1] = g[i - 1] /\ h[i] = g[i]
        BY <2>1, <3>2
      <4> QED  BY <4>1, <3>2
    <3>3. CASE i = m + 1
      <4>1. h[i] = Split(g[m], str[m + 1], delimiter) /\ h[m] = g[m] /\ i - 1 = m /\ i # 0
        BY <3>3
      <4> QED  BY <3>3, <4>1
    <3> QED  BY <3>1, <3>2, <3>3
  <2>3. h = [i \in 0 .. m + 1 |-> Body(h, i)]
    <3>1. h = [i \in 0 .. m + 1 |-> h[i]]
      OBVIOUS
    <3> QED  BY <2>2, <3>1
  <2> HIDE DEF h, Body
  <2>4. \E g2 : g2 = [i \in 0 .. m + 1 |-> Body(g2, i)]
    BY <2>3
  <2> QED  BY <2>4
<1>3. N \in Good
  <2> HIDE DEF Good
  <2> QED  BY <1>1, <1>2, SetInduction
<1>4. Splitting(str, delimiter) = [i \in 0 .. N |-> Body(Splitting(str, delimiter), i)]
  <2>1. Splitting(str, delimiter) = CHOOSE g : g = [i \in 0 .. N |-> Body(g, i)]
    BY DEF Splitting
  <2>2. \E g : g = [i \in 0 .. N |-> Body(g, i)]
    BY <1>3
  <2> HIDE DEF Body, N
  <2> QED  BY <2>1, <2>2
<1> DEFINE W == Splitting(str, delimiter)
<1>5. W = [i \in 0 .. N |-> Body(W, i)]
  BY <1>4
<1> HIDE DEF W
<1>6. W[0] = first /\ \A i \in 0 .. N - 1 : W[i + 1] = Split(W[i], str[i + 1], delimiter)
  <2>1. W[0] = first
    BY <1>5
  <2>2. ASSUME NEW i \in 0 .. N - 1 PROVE W[i + 1] = Split(W[i], str[i + 1], delimiter)
    <3>1. W[i + 1] = Body(W, i + 1)
      BY <1>5
    <3>2. (i + 1) - 1 = i /\ i + 1 # 0
      OBVIOUS
    <3> QED  BY <3>1, <3>2
  <2> QED  BY <2>1, <2>2
<1> QED  BY <1>6 DEF W

(* A segment: from a place where one starts up to the next delimiter.      *)
LEMMA SegmentIs ==
  ASSUME NEW C, NEW str \in Seq(C), NEW delimiter, NEW b \in 1 .. Len(str), NEW e \in b .. Len(str),
         \A j \in b .. e : str[j] # delimiter,
         e = Len(str) \/ str[e + 1] = delimiter
  PROVE  SegmentFrom(str, delimiter, b) = SubSeq(str, b, e)
<1> DEFINE n == Len(str)
           t == SubSeq(str, b, n)
           I == {i \in 1 .. Len(t) : t[i] = delimiter}
<1>1. n \in Nat /\ \A i \in b .. n : str[i] \in C
  OBVIOUS
<1>2. t \in Seq(C) /\ Len(t) = n - b + 1 /\ \A i \in 1 .. n - b + 1 : t[i] = str[b + i - 1]
  BY <1>1, SubSeqProperties
<1> HIDE DEF t
<1>3. SegmentFrom(str, delimiter, b)
        = LET i == IF I # {} THEN Min(I) ELSE 0 IN IF i = 0 THEN t ELSE SubSeq(t, 1, i - 1)
  BY DEF SegmentFrom, UpTo, SelectInSeq, t
<1>4. \A i \in I : i > e - b + 1
  <2> SUFFICES ASSUME NEW i \in I, i <= e - b + 1 PROVE FALSE
    BY <1>2
  <2>1. i \in 1 .. n - b + 1 /\ b + i - 1 \in b .. e /\ t[i] = delimiter
    BY <1>2
  <2> QED  BY <1>2, <2>1
<1>5. CASE e = n
  <2>1. I = {}
    BY <1>2, <1>4, <1>5
  <2> QED  BY <1>3, <1>5, <2>1 DEF t
<1>6. CASE e # n
  <2> DEFINE m == e - b + 2
  <2>1. m \in I /\ m \in 1 .. Len(t) /\ m # 0
    BY <1>1, <1>2, <1>6
  <2>2. Min(I) = m
    <3>1. \A y \in I : m <= y /\ y \in Int
      BY <1>4
    <3> HIDE DEF I, m
    <3>2. \A x \in I : (\A y \in I : x =< y) => x = m
      <4> SUFFICES ASSUME NEW x \in I, \A y \in I : x =< y PROVE x = m
        OBVIOUS
      <4>1. x <= m /\ m <= x /\ x \in Int /\ m \in Int
        BY <2>1, <3>1
      <4> QED  BY <4>1
    <3> QED  BY <2>1, <3>1, <3>2 DEF Min
  <2>3. SegmentFrom(str, delimiter, b) = SubSeq(t, 1, m - 1)
    <3> HIDE DEF I, m
    <3> QED  BY <1>3, <2>1, <2>2
  <2>4. \A i \in 1 .. m - 1 : t[i] \in C /\ t[i] = str[b + i - 1]
    BY <1>1, <1>2, <1>6
  <2>5. /\ SubSeq(t, 1, m - 1) \in Seq(C) /\ Len(SubSeq(t, 1, m - 1)) = m - 1
        /\ \A i \in 1 .. m - 1 : SubSeq(t, 1, m - 1)[i] = t[i]
    <3>1. m - 1 \in Nat /\ m - 1 >= 1
      OBVIOUS
    <3> HIDE DEF m
    <3> QED  BY <2>4, <3>1, SubSeqProperties
  <2>6. /\ SubSeq(str, b, e) \in Seq(C) /\ Len(SubSeq(str, b, e)) = m - 1
        /\ \A i \in 1 .. m - 1 : SubSeq(str, b, e)[i] = str[b + i - 1]
    <3>1. \A i \in b .. e : str[i] \in C
      BY <1>1
    <3>2. /\ SubSeq(str, b, e) \in Seq(C)
          /\ Len(SubSeq(str, b, e)) = IF b <= e THEN e - b + 1 ELSE 0
          /\ \A i \in 1 .. e - b + 1 : SubSeq(str, b, e)[i] = str[b + i - 1]
      BY <3>1, SubSeqProperties
    <3> QED  BY <3>2
  <2> HIDE DEF m
  <2>7. SubSeq(t, 1, m - 1) = SubSeq(str, b, e)
    BY <2>4, <2>5, <2>6, SeqEqual
  <2> QED  BY <2>3, <2>7
<1> QED  BY <1>5, <1>6

(* What the loop has after i characters: the segments that start up to     *)
(* there, but for the one it is in.                                        *)
Cuts(C, str, delimiter, i, dest) ==
  /\ dest \in Seq(Seq(C)) /\ Len(dest) = Cardinality(StartsTo(str, delimiter, i))
  /\ \A j \in Starts(str, delimiter) :
       j <= i => dest[Cardinality(StartsTo(str, delimiter, j))] = SegmentFrom(str, delimiter, j)

CutTo(C, str, delimiter, i, s) ==
  /\ s.buffer \in Seq(C) /\ Len(s.buffer) <= i
  /\ \A k \in 1 .. Len(s.buffer) :
       s.buffer[k] = str[i - Len(s.buffer) + k] /\ s.buffer[k] # delimiter
  /\ Len(s.buffer) = i \/ str[i - Len(s.buffer)] = delimiter
  /\ Cuts(C, str, delimiter, i - Len(s.buffer), s.dest)

LEMMA StartsCount ==
  ASSUME NEW str, Len(str) \in Nat, NEW delimiter, NEW i \in Nat
  PROVE  /\ IsFiniteSet(StartsTo(str, delimiter, i)) /\ Cardinality(StartsTo(str, delimiter, i)) \in Nat
         /\ \A j \in Starts(str, delimiter) :
              j <= i => Cardinality(StartsTo(str, delimiter, j))
                          \in 1 .. Cardinality(StartsTo(str, delimiter, i))
<1>1. \A m \in Nat : IsFiniteSet(StartsTo(str, delimiter, m))
                     /\ Cardinality(StartsTo(str, delimiter, m)) \in Nat
  <2> SUFFICES ASSUME NEW m \in Nat
               PROVE  /\ IsFiniteSet(StartsTo(str, delimiter, m))
                      /\ Cardinality(StartsTo(str, delimiter, m)) \in Nat
    OBVIOUS
  <2>1. IsFiniteSet(1 .. Len(str))
    BY FS_Interval
  <2>2. StartsTo(str, delimiter, m) \subseteq 1 .. Len(str)
    BY DEF StartsTo, Starts
  <2> QED  BY <2>1, <2>2, FS_Subset, FS_CardinalityType
<1>2. ASSUME NEW j \in Starts(str, delimiter), j <= i
      PROVE  Cardinality(StartsTo(str, delimiter, j)) \in 1 .. Cardinality(StartsTo(str, delimiter, i))
  <2>1. j \in Nat /\ j \in StartsTo(str, delimiter, j)
    BY DEF Starts, StartsTo
  <2>2. StartsTo(str, delimiter, j) \subseteq StartsTo(str, delimiter, i)
    <3> SUFFICES ASSUME NEW k \in Starts(str, delimiter), k <= j PROVE k <= i
      BY DEF StartsTo
    <3>1. k \in Nat
      BY DEF Starts
    <3> QED  BY <1>2, <2>1, <3>1
  <2>3. /\ Cardinality(StartsTo(str, delimiter, j)) <= Cardinality(StartsTo(str, delimiter, i))
        /\ Cardinality(StartsTo(str, delimiter, j)) # 0
    BY <1>1, <2>1, <2>2, FS_Subset, FS_EmptySet
  <2> QED  BY <1>1, <2>1, <2>3
<1> QED  BY <1>1, <1>2

LEMMA CutEnds ==
  ASSUME NEW C, NEW str \in Seq(C), NEW delimiter, NEW i \in 0 .. Len(str), NEW s,
         CutTo(C, str, delimiter, i, s), i = Len(str) \/ str[i + 1] = delimiter
  PROVE  Cut(s).buffer = <<>> /\ Cuts(C, str, delimiter, i, Cut(s).dest)
<1> DEFINE b == i - Len(s.buffer)
           S == Starts(str, delimiter)
           To(j) == StartsTo(str, delimiter, j)
           Card(j) == Cardinality(StartsTo(str, delimiter, j))
<1>1. s.buffer \in Seq(C) /\ Len(s.buffer) \in Nat /\ b \in Nat /\ Len(str) \in Nat /\ i \in Nat
  BY DEF CutTo
<1>2. CASE s.buffer = <<>>
  <2>1. b = i /\ Cut(s) = s
    BY <1>2 DEF Cut
  <2> QED  BY <1>2, <2>1 DEF CutTo
<1>3. CASE s.buffer # <<>>
  <2> DEFINE l == Len(s.buffer)
             dest == Append(s.dest, s.buffer)
  <2>1. l \in Nat /\ l > 0 /\ b + l = i /\ b + 1 \in 1 .. Len(str) /\ i \in b + 1 .. Len(str)
    BY <1>1, <1>3 DEF CutTo
  <2>2. /\ \A k \in 1 .. l : s.buffer[k] = str[b + k] /\ str[b + k] # delimiter
        /\ b = 0 \/ str[b] = delimiter
        /\ Cuts(C, str, delimiter, b, s.dest)
    <3>1. \A k \in 1 .. l : s.buffer[k] = str[b + k] /\ s.buffer[k] # delimiter
      BY DEF CutTo
    <3>2. l = i \/ str[b] = delimiter
      BY DEF CutTo
    <3>3. l = i => b = 0
      BY <1>1
    <3>4. Cuts(C, str, delimiter, b, s.dest)
      BY DEF CutTo
    <3> QED  BY <3>1, <3>2, <3>3, <3>4
  <2> HIDE DEF b, l
  <2>3. \A j \in b + 1 .. i : str[j] # delimiter
    <3> SUFFICES ASSUME NEW j \in b + 1 .. i PROVE str[j] # delimiter
      OBVIOUS
    <3>1. j - b \in 1 .. l /\ b + (j - b) = j
      BY <1>1, <2>1
    <3> QED  BY <2>2, <3>1
  <2>4. SegmentFrom(str, delimiter, b + 1) = SubSeq(str, b + 1, i)
    BY <2>1, <2>3, SegmentIs
  <2>5. SubSeq(str, b + 1, i) = s.buffer
    <3>1. /\ SubSeq(str, b + 1, i) \in Seq(C) /\ Len(SubSeq(str, b + 1, i)) = l
          /\ \A k \in 1 .. l : SubSeq(str, b + 1, i)[k] = str[b + k]
      <4>1. \A k \in b + 1 .. i : str[k] \in C
        BY <1>1, <2>1
      <4>2. /\ SubSeq(str, b + 1, i) \in Seq(C)
            /\ Len(SubSeq(str, b + 1, i)) = IF b + 1 <= i THEN i - (b + 1) + 1 ELSE 0
            /\ \A k \in 1 .. i - (b + 1) + 1 : SubSeq(str, b + 1, i)[k] = str[b + 1 + k - 1]
        BY <1>1, <2>1, <4>1, SubSeqProperties
      <4>3. i - (b + 1) + 1 = l /\ b + 1 <= i
        BY <1>1, <2>1
      <4>4. \A k \in 1 .. l : b + 1 + k - 1 = b + k
        BY <1>1, <2>1
      <4> QED  BY <4>2, <4>3, <4>4
    <3> QED  BY <1>1, <2>2, <3>1, SeqEqual DEF l
  <2>6. b + 1 \in S
    BY <1>1, <2>1, <2>2, <2>3 DEF Starts
  <2>7. To(i) = To(b) \cup {b + 1} /\ To(b + 1) = To(b) \cup {b + 1} /\ b + 1 \notin To(b)
    <3>1. \A j \in S : j \in Nat /\ (j > b + 1 /\ j <= i => FALSE)
      <4> SUFFICES ASSUME NEW j \in S, j > b + 1, j <= i PROVE FALSE
        BY DEF Starts
      <4>1. j \in Nat /\ j - 1 \in b + 1 .. i /\ j # 1 /\ str[j - 1] = delimiter
        BY <1>1 DEF Starts
      <4> QED  BY <2>3, <4>1
    <3> QED  BY <1>1, <2>1, <2>6, <3>1 DEF StartsTo
  <2>8. Card(i) = Card(b) + 1 /\ Card(b + 1) = Card(b) + 1 /\ Card(b) \in Nat
    <3>1. IsFiniteSet(To(b)) /\ Card(b) \in Nat
      BY <1>1, StartsCount
    <3>2. Cardinality(To(b) \cup {b + 1}) = Cardinality(To(b)) + 1
      BY <2>7, <3>1, FS_AddElement
    <3> QED  BY <2>7, <3>1, <3>2
  <2>9. /\ s.dest \in Seq(Seq(C)) /\ Len(s.dest) = Card(b)
        /\ \A j \in S : j <= b => s.dest[Card(j)] = SegmentFrom(str, delimiter, j)
    BY <2>2 DEF Cuts
  <2>10. /\ dest \in Seq(Seq(C)) /\ Len(dest) = Card(b) + 1
         /\ \A k \in 1 .. Card(b) : dest[k] = s.dest[k]
         /\ dest[Card(b) + 1] = s.buffer
    BY <1>1, <2>9
  <2> HIDE DEF dest
  <2>11. ASSUME NEW j \in S, j <= i
         PROVE  dest[Card(j)] = SegmentFrom(str, delimiter, j)
    <3>1. j \in To(b) \/ j = b + 1
      BY <2>7, <2>11 DEF StartsTo
    <3>2. CASE j = b + 1
      BY <2>4, <2>5, <2>8, <2>10, <3>2
    <3>3. CASE j \in To(b)
      <4>1. j <= b /\ Card(j) \in 1 .. Card(b)
        BY <1>1, <3>3, StartsCount DEF StartsTo
      <4> QED  BY <2>9, <2>10, <4>1
    <3> QED  BY <3>1, <3>2, <3>3
  <2>12. Cut(s) = [dest |-> dest, buffer |-> <<>>]
    BY <1>3 DEF Cut, CutOff, dest
  <2> QED  BY <2>8, <2>10, <2>11, <2>12 DEF Cuts
<1> QED  BY <1>2, <1>3

LEMMA CutGoesOn ==
  ASSUME NEW C, NEW str \in Seq(C), NEW delimiter, NEW i \in 0 .. Len(str) - 1, NEW s,
         CutTo(C, str, delimiter, i, s)
  PROVE  CutTo(C, str, delimiter, i + 1, Split(s, str[i + 1], delimiter))
<1>0. Len(str) \in Nat /\ i \in Nat /\ i + 1 \in 1 .. Len(str)
  OBVIOUS
<1>1. CASE str[i + 1] = delimiter
  <2> DEFINE t == Cut(s)
  <2>1. t.buffer = <<>> /\ Cuts(C, str, delimiter, i, t.dest)
    BY <1>0, <1>1, CutEnds
  <2>2. Split(s, str[i + 1], delimiter) = t
    BY <1>1 DEF Split
  <2> HIDE DEF t
  <2>3. \A j \in Starts(str, delimiter) : j <= i + 1 <=> j <= i
    BY <1>0, <1>1 DEF Starts
  <2>4. StartsTo(str, delimiter, i + 1) = StartsTo(str, delimiter, i)
    BY <2>3 DEF StartsTo
  <2>5. Cuts(C, str, delimiter, i + 1, t.dest)
    BY <2>1, <2>3, <2>4 DEF Cuts
  <2>6. Len(t.buffer) = 0 /\ i + 1 - 0 = i + 1 /\ t.buffer \in Seq(C)
    BY <1>0, <2>1
  <2> QED  BY <1>0, <1>1, <2>2, <2>5, <2>6 DEF CutTo
<1>2. CASE str[i + 1] # delimiter
  <2> DEFINE l == Len(s.buffer)
             more == Append(s.buffer, str[i + 1])
  <2>1. Split(s, str[i + 1], delimiter) = [dest |-> s.dest, buffer |-> more]
    BY <1>2 DEF Split
  <2>2. s.buffer \in Seq(C) /\ l \in Nat /\ l <= i /\ str[i + 1] \in C
    BY <1>0 DEF CutTo
  <2>3. /\ more \in Seq(C) /\ Len(more) = l + 1 /\ more[l + 1] = str[i + 1]
        /\ \A k \in 1 .. l : more[k] = s.buffer[k]
    BY <2>2
  <2>4. i + 1 - (l + 1) = i - l
    BY <1>0, <2>2
  <2>5. \A k \in 1 .. l + 1 : more[k] = str[(i - l) + k] /\ more[k] # delimiter
    <3> SUFFICES ASSUME NEW k \in 1 .. l + 1 PROVE more[k] = str[(i - l) + k] /\ more[k] # delimiter
      OBVIOUS
    <3>1. CASE k = l + 1
      <4>1. (i - l) + k = i + 1
        <5> HIDE DEF l
        <5> QED  BY <1>0, <2>2, <3>1
      <4> QED  BY <1>2, <2>3, <3>1, <4>1
    <3>2. CASE k \in 1 .. l
      <4>1. s.buffer[k] = str[(i - l) + k] /\ s.buffer[k] # delimiter
        BY <3>2 DEF CutTo
      <4>2. more[k] = s.buffer[k]
        BY <2>3, <3>2
      <4> HIDE DEF l, more
      <4> QED  BY <4>1, <4>2
    <3>3. k = l + 1 \/ k \in 1 .. l
      <4>1. l \in Nat
        BY <2>2
      <4> HIDE DEF l
      <4> QED  BY <4>1
    <3> HIDE DEF l, more
    <3> QED  BY <3>1, <3>2, <3>3
  <2>6. (l = i \/ str[i - l] = delimiter) /\ Cuts(C, str, delimiter, i - l, s.dest)
    BY DEF CutTo
  <2>7. l + 1 <= i + 1 /\ (l = i => l + 1 = i + 1)
    BY <1>0, <2>2
  <2> DEFINE t == [dest |-> s.dest, buffer |-> more]
  <2>8. t.dest = s.dest /\ t.buffer = more
    OBVIOUS
  <2> HIDE DEF more, l, t
  <2>9. CutTo(C, str, delimiter, i + 1, t)
    <3>1. Len(t.buffer) = l + 1 /\ i + 1 - Len(t.buffer) = i - l
      BY <2>3, <2>4, <2>8
    <3>2. \A k \in 1 .. Len(t.buffer) :
            t.buffer[k] = str[i + 1 - Len(t.buffer) + k] /\ t.buffer[k] # delimiter
      BY <2>5, <2>8, <3>1
    <3>3. Len(t.buffer) = i + 1 \/ str[i + 1 - Len(t.buffer)] = delimiter
      BY <2>6, <2>7, <3>1
    <3>4. Cuts(C, str, delimiter, i + 1 - Len(t.buffer), t.dest)
      BY <2>6, <2>8, <3>1
    <3> QED  BY <2>3, <2>7, <2>8, <3>1, <3>2, <3>3, <3>4 DEF CutTo
  <2> QED  BY <2>1, <2>9 DEF t
<1> QED  BY <1>1, <1>2

(* strsplit, for every string over every set of characters.                *)
LEMMA SplitCorrect ==
  ASSUME NEW C, NEW str \in Seq(C), NEW delimiter
  PROVE  /\ strsplit(str, delimiter) \in Seq(Seq(C))
         /\ IsSplit(strsplit(str, delimiter), str, delimiter)
<1> DEFINE n == Len(str)
           W == Splitting(str, delimiter)
           Good == {i \in Nat : i <= n => CutTo(C, str, delimiter, i, W[i])}
<1>1. /\ W[0] = [dest |-> <<>>, buffer |-> <<>>] /\ n \in Nat
      /\ \A i \in 0 .. n - 1 : W[i + 1] = Split(W[i], str[i + 1], delimiter)
  BY SplitSteps
<1> HIDE DEF W
<1>2. 0 \in Good
  <2>1. W[0].dest = <<>> /\ W[0].buffer = <<>>
    BY <1>1
  <2>2. StartsTo(str, delimiter, 0) = {} /\ \A j \in Starts(str, delimiter) : ~ (j <= 0)
    BY DEF StartsTo, Starts
  <2>3. Cuts(C, str, delimiter, 0, <<>>)
    BY <2>2, FS_EmptySet DEF Cuts
  <2>4. CutTo(C, str, delimiter, 0, W[0])
    BY <2>1, <2>3 DEF CutTo
  <2> QED  BY <2>4
<1>3. ASSUME NEW i \in Nat, i \in Good PROVE i + 1 \in Good
  <2> SUFFICES ASSUME i + 1 <= n PROVE CutTo(C, str, delimiter, i + 1, W[i + 1])
    OBVIOUS
  <2>1. i \in 0 .. n - 1 /\ CutTo(C, str, delimiter, i, W[i])
    BY <1>1, <1>3
  <2>2. CutTo(C, str, delimiter, i + 1, Split(W[i], str[i + 1], delimiter))
    BY <2>1, CutGoesOn
  <2> QED  BY <1>1, <2>1, <2>2
<1>4. CutTo(C, str, delimiter, n, W[n])
  <2>1. Nat \subseteq Good
    <3> HIDE DEF Good
    <3> QED  BY <1>2, <1>3, SetInduction
  <2> QED  BY <1>1, <2>1
<1>5. Cuts(C, str, delimiter, n, Cut(W[n]).dest)
  <2>1. n \in 0 .. Len(str)
    BY <1>1
  <2> QED  BY <1>4, <2>1, CutEnds
<1>6. strsplit(str, delimiter) = Cut(W[n]).dest
  BY DEF strsplit, W
<1>7. StartsTo(str, delimiter, n) = Starts(str, delimiter) /\ \A j \in Starts(str, delimiter) : j <= n
  BY <1>1 DEF StartsTo, Starts
<1> QED  BY <1>5, <1>6, <1>7 DEF Cuts, IsSplit

(* strsplit cuts every path right.                                         *)
THEOREM SegmentsAlwaysRight == Spec => []SegmentsRight
<1>1. SegmentsRight
  <2> SUFFICES ASSUME NEW str \in SeqOf({"/", "O"}, 5)
               PROVE  IsSplit(strsplit(str, "/"), str, "/")
    BY DEF SegmentsRight
  <2>1. PICK m \in 0 .. 5 : str \in [1 .. m -> {"/", "O"}]
    BY DEF SeqOf
  <2>2. str \in Seq({"/", "O"})
    BY <2>1
  <2> QED  BY <2>2, SplitCorrect
<1> QED  BY <1>1, PTL

-----------------------------------------------------------------------------
(* The loader's types.  A read stores no more sectors than it was asked    *)
(* for, and what load_fat and load_root_directory asked for is known when  *)
(* their results are counted.                                              *)
PCs == Ends \cup {"load_sectors", "detect", "init", "identify", "boot", "fat_init", "root",
                  "open", "parse_root", "walk", "cluster", "store"}

Faults == {"null_root", "null_chain", "null_dir", "short_block", "bad_fat", "copy_all", "long_copy"}

Tried   == pc \in PCs /\ si \in 0 .. 5 /\ (pc = "load_sectors" => si # 0)
Loading == /\ pc = "root" => request.n = disk.fat_sectors
           /\ pc = "open" => request.n = disk.root_sectors
           /\ fat_got \in 0 .. disk.fat_sectors /\ root_got \in 0 .. disk.root_sectors
Walking == pass \in {"open", "reopen", "size"} /\ segment \in 1 .. Len(segments) + 1
History == failed \in BOOLEAN /\ faults \subseteq Faults

LEMMA SegmentCount == Len(segments) \in Nat
<1>1. Path \in Seq(STRING)
  BY LoaderAssumption
<1>2. segments \in Seq(Seq(STRING))
  BY <1>1, SplitCorrect DEF segments
<1> QED  BY <1>2

LEMMA TriedStep ==
  ASSUME Tried, Program
  PROVE  Tried'
<1>1. CASE load_sectors
  BY <1>1 DEF load_sectors, Retry, Tried, PCs, Ends
<1>2. CASE UNCHANGED si /\ pc' \in PCs \ {"load_sectors"}
  BY <1>2 DEF Tried
<1>3. load_sectors \/ UNCHANGED si
  BY DEF Program, Probe, Misread, BootSectorBad, load_fat, load_root_directory, LoadedRoot,
     ParseRoot, LookUpFails, load_clustered_entry, SkipCluster, read_cluster, StoreCluster,
     LoadedDirectory, LoadedFile, memcpy
<1>4. load_sectors \/ pc' \in PCs \ {"load_sectors"}
  BY DEF Program, Probe, Misread, BootSectorBad, load_fat, load_root_directory, LoadedRoot,
     ParseRoot, Parse, LookUpFails, NotFound, load_clustered_entry, SkipCluster, read_cluster,
     StoreCluster, LoadedDirectory, LoadedFile, memcpy, Step, AfterRead, PCs, Ends
<1> QED  BY <1>1, <1>2, <1>3, <1>4

LEMMA LoadingStep ==
  ASSUME InDrive, AtaInv, Loading, Program
  PROVE  Loading'
<1>1. disk' = disk
  BY DEF Program, load_sectors, Probe, Misread, BootSectorBad, load_fat, load_root_directory,
     LoadedRoot, ParseRoot, LookUpFails, load_clustered_entry, SkipCluster, read_cluster,
     StoreCluster, LoadedDirectory, LoadedFile, memcpy
<1>2. Len(got) \in 0 .. request.n /\ request.n \in Nat
  BY DEF AtaInv, CallTypes, Progress
<1>3. CASE load_fat
  <2>1. pc' = "root" /\ request'.n = disk.fat_sectors /\ UNCHANGED fatVars
    BY <1>3 DEF load_fat, Read, Call, AfterRead, Step
  <2> QED  BY <1>1, <2>1 DEF Loading, fatVars
<1>4. CASE load_root_directory
  <2>1. /\ pc = "root" /\ pc' = "open" /\ request'.n = disk.root_sectors
        /\ fat_got' = Len(got) /\ UNCHANGED root_got
    BY <1>4 DEF load_root_directory, Read, Call, AfterRead, Step
  <2> QED  BY <1>1, <1>2, <2>1 DEF Loading
<1>5. CASE LoadedRoot
  <2>1. pc = "open" /\ pc' = "parse_root" /\ root_got' = Len(got) /\ UNCHANGED fat_got
    BY <1>5 DEF LoadedRoot, AfterRead, Step
  <2> QED  BY <1>1, <1>2, <2>1 DEF Loading
<1>6. CASE UNCHANGED fatVars /\ pc' \notin {"root", "open"}
  BY <1>1, <1>6 DEF Loading, fatVars
<1>7. load_fat \/ load_root_directory \/ LoadedRoot \/ (UNCHANGED fatVars /\ pc' \notin {"root", "open"})
  BY DEF Program, load_sectors, Retry, Probe, Misread, BootSectorBad, Parse, NotFound, Step, AfterRead,
     ParseRoot, LookUpFails, load_clustered_entry, SkipCluster, read_cluster,
     StoreCluster, LoadedDirectory, LoadedFile, memcpy, Loading
<1> QED  BY <1>3, <1>4, <1>5, <1>6, <1>7

LEMMA WalkingStep ==
  ASSUME Walking, Program
  PROVE  Walking'
<1>1. segments' = segments
  BY DEF segments
<1>2. Len(segments) \in Nat
  BY SegmentCount
<1>3. CASE UNCHANGED walkVars
  BY <1>1, <1>3 DEF Walking, walkVars
<1>4. CASE ParseRoot
  BY <1>1, <1>2, <1>4 DEF ParseRoot, Walking
<1>5. CASE LoadedDirectory
  <2>1. Found.kind = "dir" \/ Found.kind # "none"
    BY <1>5 DEF LoadedDirectory, Descends
  <2>2. segment <= Len(segments)
    <3>1. segment > Len(segments) => Found.kind = "none"
      BY DEF Found
    <3> QED  BY <1>2, <2>1, <3>1 DEF Walking
  <2>3. segment' = segment + 1 /\ pass' = pass
    BY <1>5 DEF LoadedDirectory
  <2> QED  BY <1>1, <1>2, <2>2, <2>3 DEF Walking
<1>6. CASE LoadedFile
  BY <1>1, <1>6 DEF LoadedFile, Walking
<1> QED
  BY <1>3, <1>4, <1>5, <1>6 DEF Program, load_sectors, Probe, Misread, BootSectorBad, load_fat,
     load_root_directory, LoadedRoot, LookUpFails, load_clustered_entry, SkipCluster, read_cluster,
     StoreCluster, memcpy

LEMMA HistoryStep ==
  ASSUME History, Program
  PROVE  History'
<1>1. failed' \in BOOLEAN
  <2>1. failed' = failed \/ failed' = (failed \/ ReadFailed)
    BY DEF Program, load_sectors, Probe, Misread, BootSectorBad, load_fat, load_root_directory,
       LoadedRoot, ParseRoot, LookUpFails, load_clustered_entry, SkipCluster, read_cluster,
       StoreCluster, LoadedDirectory, LoadedFile, memcpy, AfterRead
  <2> QED  BY <2>1, Zenon DEF History
<1>2. faults' = faults \/ \E f \in SUBSET Faults : Note(f)
  <2>1. \A b : Overrun(b) \in SUBSET Faults
    BY DEF Overrun, Faults
  <2>2. \A s : Parse(s) => \E f \in SUBSET Faults : Note(f)
    BY DEF Parse, Faults
  <2>3. NotFound => faults' = faults \/ \E f \in SUBSET Faults : Note(f)
    BY DEF NotFound, Faults
  <2>4. CASE BootSectorBad \/ load_fat \/ memcpy
    BY <2>1, <2>4 DEF BootSectorBad, load_fat, memcpy, Faults
  <2>5. CASE ParseRoot \/ LoadedDirectory \/ LookUpFails
    BY <2>2, <2>3, <2>5 DEF ParseRoot, LoadedDirectory, LookUpFails
  <2>6. CASE load_clustered_entry
    <3>1. {"null_dir"} \in SUBSET Faults
      BY DEF Faults
    <3> QED  BY <2>1, <2>3, <2>6, <3>1 DEF load_clustered_entry
  <2> QED
    BY <2>4, <2>5, <2>6 DEF Program, load_sectors, Probe, Misread, load_root_directory, LoadedRoot,
       SkipCluster, read_cluster, StoreCluster, LoadedFile
<1>3. faults' \subseteq Faults
  BY <1>2 DEF Note, History
<1> QED  BY <1>1, <1>3 DEF History

LoaderInv == InDrive /\ AtaInv /\ Buffered /\ Tried /\ Loading /\ Walking /\ History

LEMMA LoaderInvInit == Init => LoaderInv
<1> SUFFICES ASSUME Init PROVE LoaderInv
  OBVIOUS
<1>1. disk \in Disks /\ disk.fat_sectors \in Nat /\ disk.root_sectors \in Nat
  BY LoaderAssumption DEF Init
<1>2. InDrive /\ AtaInv /\ Buffered
  BY <1>1, AtaInvInit, BufferedInit DEF Init, InDrive
<1>3. Tried /\ Loading
  BY <1>1 DEF Init, Tried, PCs, Loading
<1>4. History
  <2>1. failed = FALSE /\ faults = {}
    BY DEF Init
  <2> QED  BY <2>1 DEF History
<1>5. Walking
  BY SegmentCount DEF Init, Walking
<1> QED  BY <1>2, <1>3, <1>4, <1>5 DEF LoaderInv

LEMMA LoaderInvStep == LoaderInv /\ [Next]_vars => LoaderInv'
<1> SUFFICES ASSUME LoaderInv, [Next]_vars PROVE LoaderInv'
  OBVIOUS
<1>1. InDrive' /\ AtaInv' /\ Buffered'
  BY DiskStays, AtaInvStep, BufferedStep DEF LoaderInv
<1>2. CASE Program
  BY <1>1, <1>2, TriedStep, LoadingStep, WalkingStep, HistoryStep DEF LoaderInv
<1>3. CASE UNCHANGED <<loaderVars, request>>
  <2>1. UNCHANGED <<disk, pc, si, fat_got, root_got, pass, segment, failed, faults, request>>
    BY <1>3 DEF loaderVars, fatVars, walkVars
  <2>2. segments' = segments
    BY DEF segments
  <2>3. Tried' /\ Loading' /\ Walking' /\ History'
    BY <2>1, <2>2 DEF LoaderInv, Tried, Loading, Walking, History
  <2> QED  BY <1>1, <2>3 DEF LoaderInv
<1>4. CASE UNCHANGED vars
  <2>1. UNCHANGED <<loaderVars, request>>
    BY <1>4 DEF vars, ataVars, driverVars
  <2> QED  BY <1>3, <2>1
<1> QED  BY <1>2, <1>3, <1>4, RequestStays DEF Next, Run, Ended

(* The types of driver and loader: no poll count leaves its range, no more *)
(* sectors than a read asked for are stored (pio28_read), the walk down    *)
(* the path stays on it (open), and load_cluster_chain fills no more than  *)
(* the chain has clusters for.                                             *)
THEOREM TypeCorrect == Spec => []TypeOK
<1>1. LoaderInv => TypeOK
  <2> SUFFICES ASSUME LoaderInv PROVE TypeOK
    OBVIOUS
  <2>1. AtaTypeOK
    BY DEF LoaderInv, AtaInv, DriveTypes, CallTypes, Progress, AtaTypeOK, Commands
  <2>2. Len(buffer) <= Len(chain) * SectorsPerCluster
    <3>1. PICK k \in 0 .. Len(chain) : Len(buffer) = k * SectorsPerCluster
      BY DEF LoaderInv, Buffered, Whole
    <3>2. Len(chain) \in Nat /\ SectorsPerCluster \in Nat
      BY LoaderAssumption DEF LoaderInv, Buffered
    <3>3. k * SectorsPerCluster <= Len(chain) * SectorsPerCluster
      BY <3>1, <3>2
    <3> QED  BY <3>1, <3>3
  <2> QED
    BY <2>1, <2>2 DEF LoaderInv, InDrive, Tried, PCs, Loading, Walking, History, Faults, TypeOK
<1> QED  BY <1>1, LoaderInvInit, LoaderInvStep, PTL DEF Spec

-----------------------------------------------------------------------------
(* Directories.  The loop of parse_dir does what its body says.            *)
Parsed0 == [entries |-> <<>>, lfn |-> <<>>, end |-> FALSE, null |-> FALSE]

LEMMA ParseSteps ==
  ASSUME NEW fat, NEW dir, Len(dir) \in Nat
  PROVE  /\ Parsing(fat, dir)[0] = Parsed0
         /\ \A i \in 0 .. Len(dir) - 1 :
              Parsing(fat, dir)[i + 1] = ParseEntry(Parsing(fat, dir)[i], dir[i + 1], fat)
<1> DEFINE Body(g, i) == IF i = 0 THEN Parsed0 ELSE ParseEntry(g[i - 1], dir[i], fat)
           N == Len(dir)
           Good == {m \in Nat : \E g : g = [i \in 0 .. m |-> Body(g, i)]}
<1>1. 0 \in Good
  <2>1. [i \in 0 .. 0 |-> Parsed0] = [i \in 0 .. 0 |-> Body([j \in 0 .. 0 |-> Parsed0], i)]
    OBVIOUS
  <2> QED  BY <2>1
<1>2. ASSUME NEW m \in Nat, m \in Good PROVE m + 1 \in Good
  <2>1. PICK g : g = [i \in 0 .. m |-> Body(g, i)]
    BY <1>2
  <2> DEFINE h == [i \in 0 .. m + 1 |-> IF i <= m THEN g[i] ELSE ParseEntry(g[m], dir[m + 1], fat)]
  <2>2. ASSUME NEW i \in 0 .. m + 1 PROVE h[i] = Body(h, i)
    <3>1. CASE i = 0
      BY <2>1, <3>1
    <3>2. CASE i \in 1 .. m
      <4>1. g[i] = ParseEntry(g[i - 1], dir[i], fat) /\ h[i - 1] = g[i - 1] /\ h[i] = g[i]
        BY <2>1, <3>2
      <4> QED  BY <4>1, <3>2
    <3>3. CASE i = m + 1
      <4>1. h[i] = ParseEntry(g[m], dir[m + 1], fat) /\ h[m] = g[m] /\ i - 1 = m /\ i # 0
        BY <3>3
      <4> QED  BY <3>3, <4>1
    <3> QED  BY <3>1, <3>2, <3>3
  <2>3. h = [i \in 0 .. m + 1 |-> Body(h, i)]
    <3>1. h = [i \in 0 .. m + 1 |-> h[i]]
      OBVIOUS
    <3> QED  BY <2>2, <3>1
  <2> HIDE DEF h, Body
  <2>4. \E g2 : g2 = [i \in 0 .. m + 1 |-> Body(g2, i)]
    BY <2>3
  <2> QED  BY <2>4
<1>3. N \in Good
  <2> HIDE DEF Good
  <2> QED  BY <1>1, <1>2, SetInduction
<1> DEFINE W == Parsing(fat, dir)
<1>4. W = [i \in 0 .. N |-> Body(W, i)]
  <2>1. Parsing(fat, dir) = CHOOSE g : g = [i \in 0 .. N |-> Body(g, i)]
    BY DEF Parsing, Parsed0
  <2>2. \E g : g = [i \in 0 .. N |-> Body(g, i)]
    BY <1>3
  <2> HIDE DEF Body, N
  <2> QED  BY <2>1, <2>2
<1> HIDE DEF W
<1>5. W[0] = Parsed0 /\ \A i \in 0 .. N - 1 : W[i + 1] = ParseEntry(W[i], dir[i + 1], fat)
  <2>1. W[0] = Parsed0
    BY <1>4
  <2>2. ASSUME NEW i \in 0 .. N - 1 PROVE W[i + 1] = ParseEntry(W[i], dir[i + 1], fat)
    <3>1. W[i + 1] = Body(W, i + 1)
      BY <1>4
    <3>2. (i + 1) - 1 = i /\ i + 1 # 0
      OBVIOUS
    <3> QED  BY <3>1, <3>2
  <2> QED  BY <2>1, <2>2
<1> QED  BY <1>5 DEF W

(* What is parsed so far: entries of S.  One entry more leaves those that  *)
(* are there, and none is added by, or after, the end of the directory.    *)
Directory(S, pd) ==
  DOMAIN pd = {"entries", "lfn", "end", "null"} /\ pd.entries \in Seq(S) /\ pd.end \in BOOLEAN

Leads(s, t) ==
  Len(s) \in Nat /\ Len(t) \in Nat /\ Len(s) <= Len(t) /\ \A i \in 1 .. Len(s) : s[i] = t[i]

EndEntry == [kind |-> "end"]

LEMMA LeadsOn ==
  ASSUME NEW s, NEW t, NEW u, Leads(s, t), Leads(t, u)
  PROVE  Leads(s, u)
<1>1. /\ Len(s) \in Nat /\ Len(t) \in Nat /\ Len(u) \in Nat /\ Len(s) <= Len(t) /\ Len(t) <= Len(u)
      /\ \A i \in 1 .. Len(s) : s[i] = t[i]
      /\ \A i \in 1 .. Len(t) : t[i] = u[i]
  BY DEF Leads
<1>2. \A i \in 1 .. Len(s) : i \in 1 .. Len(t)
  BY <1>1
<1>3. Len(s) <= Len(u) /\ \A i \in 1 .. Len(s) : s[i] = u[i]
  BY <1>1, <1>2
<1> QED  BY <1>1, <1>3 DEF Leads

LEMMA ParseEntryKeeps ==
  ASSUME NEW S, NEW pd, NEW e, NEW fat, Directory(S, pd), Parsed(pd, e, fat) \in S
  PROVE  /\ Directory(S, ParseEntry(pd, e, fat))
         /\ Leads(pd.entries, ParseEntry(pd, e, fat).entries)
<1> DEFINE x == Parsed(pd, e, fat)
<1> HIDE DEF x
<1>1. x \in S /\ pd.entries \in Seq(S) /\ Append(pd.entries, x) \in Seq(S)
  BY DEF Directory, x
<1>2. Leads(pd.entries, pd.entries) /\ Leads(pd.entries, Append(pd.entries, x))
  BY <1>1 DEF Leads
<1>3. CASE ParseEntry(pd, e, fat) = pd
  BY <1>2, <1>3
<1>4. CASE ParseEntry(pd, e, fat) = [pd EXCEPT !.end = TRUE]
  BY <1>2, <1>4 DEF Directory
<1>5. CASE \E l : ParseEntry(pd, e, fat) = [pd EXCEPT !.lfn = l]
  BY <1>2, <1>5 DEF Directory
<1>6. CASE ParseEntry(pd, e, fat) = Add(pd, x)
  <2> DEFINE y == Add(pd, x)
  <2>1. /\ DOMAIN y = {"entries", "lfn", "end", "null"}
        /\ y.entries = Append(pd.entries, x) /\ y.end = pd.end
    BY DEF Directory, Add
  <2> HIDE DEF y
  <2> QED  BY <1>1, <1>2, <1>6, <2>1 DEF Directory, y
<1>7. \/ ParseEntry(pd, e, fat) = pd
      \/ ParseEntry(pd, e, fat) = [pd EXCEPT !.end = TRUE]
      \/ \E l : ParseEntry(pd, e, fat) = [pd EXCEPT !.lfn = l]
      \/ ParseEntry(pd, e, fat) = Add(pd, x)
  <2>1. CASE pd.end
    BY <2>1 DEF ParseEntry
  <2>2. CASE ~ pd.end /\ e.kind = "end"
    BY <2>2 DEF ParseEntry
  <2>3. CASE ~ pd.end /\ e.kind = "deleted"
    BY <2>3 DEF ParseEntry
  <2>4. CASE ~ pd.end /\ e.kind = "lfn"
    BY <2>4 DEF ParseEntry
  <2>5. CASE ~ pd.end /\ e.kind \notin {"end", "deleted", "lfn"}
    BY <2>5 DEF ParseEntry, x
  <2> QED  BY <2>1, <2>2, <2>3, <2>4, <2>5
<1> QED  BY <1>3, <1>4, <1>5, <1>6, <1>7

LEMMA ParseEnd ==
  ASSUME NEW S, NEW pd, NEW fat, Directory(S, pd)
  PROVE  /\ Directory(S, ParseEntry(pd, EndEntry, fat))
         /\ ParseEntry(pd, EndEntry, fat).entries = pd.entries
         /\ ParseEntry(pd, EndEntry, fat).end
<1>1. CASE pd.end
  BY <1>1 DEF ParseEntry
<1>2. CASE ~ pd.end
  <2>1. ParseEntry(pd, EndEntry, fat) = [pd EXCEPT !.end = TRUE]
    BY <1>2 DEF ParseEntry, EndEntry
  <2> QED  BY <2>1 DEF Directory
<1> QED  BY <1>1, <1>2

(* A directory of which a part is blank: what parse_dir finds in it, it    *)
(* finds in the whole, at the same places.                                 *)
LEMMA ParsedPart ==
  ASSUME NEW fat, NEW dir, NEW part, Len(dir) \in Nat, Len(part) = Len(dir),
         \A i \in 1 .. Len(dir) : part[i] \in {dir[i], EndEntry}
  PROVE  Leads(parse_dir(fat, part).entries, parse_dir(fat, dir).entries)
<1> DEFINE N == Len(dir)
           A == Parsing(fat, part)
           B == Parsing(fat, dir)
           S == {Parsed(B[i - 1], dir[i], fat) : i \in 1 .. N}
           Same(i) == A[i] = B[i]
           Finished(i) == Directory(S, A[i]) /\ A[i].end /\ Leads(A[i].entries, B[i].entries)
           Good == {i \in Nat : i <= N => Directory(S, B[i]) /\ (Same(i) \/ Finished(i))}
<1>1. /\ A[0] = Parsed0 /\ B[0] = Parsed0
      /\ \A i \in 0 .. N - 1 : /\ A[i + 1] = ParseEntry(A[i], part[i + 1], fat)
                               /\ B[i + 1] = ParseEntry(B[i], dir[i + 1], fat)
  BY ParseSteps
<1>2. \A i \in 0 .. N - 1 : Parsed(B[i], dir[i + 1], fat) \in S
  <2> SUFFICES ASSUME NEW i \in 0 .. N - 1 PROVE Parsed(B[i], dir[i + 1], fat) \in S
    OBVIOUS
  <2>1. i + 1 \in 1 .. N /\ (i + 1) - 1 = i
    OBVIOUS
  <2> QED  BY <2>1
<1> HIDE DEF A, B, S
<1>3. 0 \in Good
  <2>1. Directory(S, Parsed0)
    BY DEF Directory, Parsed0
  <2> QED  BY <1>1, <2>1
<1>4. ASSUME NEW i \in Nat, i \in Good PROVE i + 1 \in Good
  <2> SUFFICES ASSUME i + 1 <= N PROVE Directory(S, B[i + 1]) /\ (Same(i + 1) \/ Finished(i + 1))
    OBVIOUS
  <2>1. i \in 0 .. N - 1 /\ i + 1 \in 1 .. N /\ Directory(S, B[i]) /\ (Same(i) \/ Finished(i))
    BY <1>4
  <2>2. Directory(S, B[i + 1]) /\ Leads(B[i].entries, B[i + 1].entries)
    BY <1>1, <1>2, <2>1, ParseEntryKeeps
  <2>3. CASE Same(i) /\ part[i + 1] = dir[i + 1]
    BY <1>1, <2>1, <2>2, <2>3
  <2>4. CASE Same(i) /\ part[i + 1] = EndEntry
    <3>1. A[i + 1] = ParseEntry(B[i], EndEntry, fat)
      BY <1>1, <2>1, <2>4
    <3> DEFINE b == B[i]
    <3>2. Directory(S, b)
      BY <2>1
    <3> HIDE DEF b
    <3>3. /\ Directory(S, ParseEntry(b, EndEntry, fat))
          /\ ParseEntry(b, EndEntry, fat).entries = b.entries
          /\ ParseEntry(b, EndEntry, fat).end
      BY <3>2, ParseEnd
    <3>4. Directory(S, A[i + 1]) /\ A[i + 1].entries = B[i].entries /\ A[i + 1].end
      BY <3>1, <3>3, Zenon DEF b
    <3> QED  BY <2>2, <3>4
  <2>5. CASE Finished(i)
    <3>1. A[i + 1] = A[i]
      BY <1>1, <2>1, <2>5 DEF ParseEntry
    <3>2. Leads(A[i].entries, B[i].entries)
      BY <2>5
    <3>3. Leads(A[i].entries, B[i + 1].entries)
      BY <2>2, <3>2, LeadsOn
    <3> QED  BY <2>2, <2>5, <3>1, <3>3
  <2>6. part[i + 1] = dir[i + 1] \/ part[i + 1] = EndEntry
    BY <2>1
  <2> QED  BY <2>1, <2>3, <2>4, <2>5, <2>6
<1>5. Directory(S, B[N]) /\ (Same(N) \/ Finished(N))
  <2>1. N \in Good
    <3> HIDE DEF Good
    <3> QED  BY <1>3, <1>4, SetInduction
  <2> QED  BY <2>1
<1>6. Leads(A[N].entries, B[N].entries)
  <2>1. CASE Same(N)
    BY <1>5, <2>1 DEF Directory, Leads
  <2>2. CASE Finished(N)
    BY <2>2
  <2> QED  BY <1>5, <2>1, <2>2
<1> QED  BY <1>6 DEF parse_dir, A, B

LEMMA ParsedNothing ==
  ASSUME NEW fat, NEW dir, Len(dir) \in Nat, \A i \in 1 .. Len(dir) : dir[i] = EndEntry
  PROVE  parse_dir(fat, dir).entries = <<>>
<1> DEFINE N == Len(dir)
           B == Parsing(fat, dir)
           S == {}
           Good == {i \in Nat : i <= N => Directory(S, B[i]) /\ B[i].entries = <<>>}
<1>1. /\ B[0] = Parsed0
      /\ \A i \in 0 .. N - 1 : B[i + 1] = ParseEntry(B[i], dir[i + 1], fat)
  BY ParseSteps
<1> HIDE DEF B, S
<1>2. 0 \in Good
  <2>1. Directory(S, Parsed0) /\ Parsed0.entries = <<>>
    BY DEF Directory, Parsed0
  <2> QED  BY <1>1, <2>1
<1>3. ASSUME NEW i \in Nat, i \in Good PROVE i + 1 \in Good
  <2> SUFFICES ASSUME i + 1 <= N PROVE Directory(S, B[i + 1]) /\ B[i + 1].entries = <<>>
    OBVIOUS
  <2>1. i \in 0 .. N - 1 /\ i + 1 \in 1 .. N /\ Directory(S, B[i]) /\ B[i].entries = <<>>
    BY <1>3
  <2>2. B[i + 1] = ParseEntry(B[i], EndEntry, fat)
    BY <1>1, <2>1
  <2> DEFINE b == B[i]
  <2>3. Directory(S, b) /\ b.entries = <<>>
    BY <2>1
  <2> HIDE DEF b
  <2>4. Directory(S, ParseEntry(b, EndEntry, fat)) /\ ParseEntry(b, EndEntry, fat).entries = b.entries
    BY <2>3, ParseEnd
  <2> QED  BY <2>2, <2>3, <2>4, Zenon DEF b
<1>4. B[N].entries = <<>>
  <2>1. N \in Good
    <3> HIDE DEF Good
    <3> QED  BY <1>2, <1>3, SetInduction
  <2> QED  BY <2>1
<1> QED  BY <1>4 DEF parse_dir, B

(* The first entry of a name.                                              *)
LEMMA FoundInPart ==
  ASSUME NEW s, NEW t, NEW name, Leads(s, t),
         find_parsed_dir_entry([entries |-> s], name).kind # "none"
  PROVE  find_parsed_dir_entry([entries |-> t], name) = find_parsed_dir_entry([entries |-> s], name)
<1> DEFINE I(u) == {i \in 1 .. Len(u) : u[i].name = name}
           At(u) == IF I(u) # {} THEN Min(I(u)) ELSE 0
<1>1. \A u : find_parsed_dir_entry([entries |-> u], name)
               = IF At(u) = 0 THEN [kind |-> "none"] ELSE u[At(u)]
  BY DEF find_parsed_dir_entry, SelectInSeq
<1>2. I(s) # {}
  <2>1. At(s) # 0
    <3> HIDE DEF At
    <3> QED  BY <1>1
  <2> QED  BY <2>1
<1>3. PICK x \in I(s) : \A y \in I(s) : x <= y
  <2>1. I(s) \subseteq Nat
    BY DEF Leads
  <2> HIDE DEF I
  <2> QED  BY <1>2, <2>1, Least
<1>4. x \in Nat /\ x # 0 /\ x <= Len(s) /\ Len(s) \in Nat /\ Len(t) \in Nat /\ s[x] = t[x] /\ x \in I(t)
  BY <1>3 DEF Leads
<1>5. \A y \in I(t) : x <= y
  <2> SUFFICES ASSUME NEW y \in I(t), y < x PROVE FALSE
    BY <1>4
  <2>1. y \in 1 .. Len(s) /\ s[y] = t[y]
    BY <1>4 DEF Leads
  <2>2. y \in I(s)
    BY <2>1
  <2> QED  BY <1>3, <1>4, <2>1, <2>2
<1>6. \A u : Len(u) \in Nat /\ x \in I(u) /\ (\A y \in I(u) : x <= y) => At(u) = x
  <2> SUFFICES ASSUME NEW u, Len(u) \in Nat, x \in I(u), \A y \in I(u) : x <= y
               PROVE  Min(I(u)) = x
    OBVIOUS
  <2>1. I(u) \subseteq Nat
    OBVIOUS
  <2> HIDE DEF I
  <2>2. \A z \in I(u) : (\A y \in I(u) : z =< y) => z = x
    <3> SUFFICES ASSUME NEW z \in I(u), \A y \in I(u) : z =< y PROVE z = x
      OBVIOUS
    <3>1. z <= x /\ x <= z /\ x \in Nat /\ z \in Nat
      BY <2>1
    <3> QED  BY <3>1
  <2> QED  BY <2>2 DEF Min
<1>7. At(s) = x /\ At(t) = x
  <2> HIDE DEF I, At
  <2> QED  BY <1>3, <1>4, <1>5, <1>6
<1> QED
  <2> HIDE DEF At, I
  <2> QED  BY <1>1, <1>4, <1>7

LEMMA NothingFound ==
  ASSUME NEW name
  PROVE  find_parsed_dir_entry([entries |-> <<>>], name) = [kind |-> "none"]
  BY DEF find_parsed_dir_entry, SelectInSeq

-----------------------------------------------------------------------------
(* A buffer that differs from what is on the volume only where it is blank *)
(* holds the entries up to some point, and no others.                      *)
LEMMA DivisionIs ==
  ASSUME NEW k \in Nat, NEW s \in Nat \ {0}, NEW r \in 1 .. s
  PROVE  (k * s + r - 1) \div s = k /\ (k * s + r - 1) % s = r - 1
<1> DEFINE x == k * s + r - 1
           q == x \div s
<1>1. k * s \in Nat /\ x \in Nat /\ q \in Int /\ x % s \in 0 .. s - 1
  OBVIOUS
<1>2. x = s * q + (x % s)
  OBVIOUS
<1>3. q = k
  <2> DEFINE m == x % s
  <2>1. m \in 0 .. s - 1 /\ s * q + m = k * s + r - 1
    BY <1>1, <1>2
  <2> HIDE DEF q, m, x
  <2>2. ASSUME q < k PROVE FALSE
    <3>1. k - q >= 1 /\ k - q \in Int
      BY <1>1, <2>2
    <3>2. s * (k - q) >= s
      BY <3>1
    <3>3. s * (k - q) = k * s - s * q
      BY <1>1
    <3> QED  BY <1>1, <2>1, <3>2, <3>3
  <2>3. ASSUME q > k PROVE FALSE
    <3>1. q - k >= 1 /\ q - k \in Int
      BY <1>1, <2>3
    <3>2. s * (q - k) >= s
      BY <3>1
    <3>3. s * (q - k) = s * q - k * s
      BY <1>1
    <3> QED  BY <1>1, <2>1, <3>2, <3>3
  <2> QED  BY <1>1, <2>2, <2>3
<1>4. s * q = k * s
  BY <1>3
<1> QED  BY <1>1, <1>2, <1>3, <1>4

LEMMA QuotientIn ==
  ASSUME NEW m \in Nat, NEW s \in Nat \ {0}, NEW j \in 1 .. m * s
  PROVE  (j - 1) \div s + 1 \in 1 .. m /\ ((j - 1) % s) + 1 \in 1 .. s
<1> DEFINE x == j - 1
           q == x \div s
           r == x % s
<1>1. m * s \in Nat /\ x \in Nat /\ x < m * s /\ q \in Int /\ r \in 0 .. s - 1 /\ x = s * q + r
  OBVIOUS
<1> HIDE DEF x, q, r
<1>2. ASSUME q < 0 PROVE FALSE
  <2>1. s * q <= - s
    BY <1>1, <1>2
  <2> QED  BY <1>1, <2>1
<1>3. ASSUME q >= m PROVE FALSE
  <2>1. s * q >= m * s
    BY <1>1, <1>3
  <2> QED  BY <1>1, <2>1
<1> QED  BY <1>1, <1>2, <1>3 DEF x, q, r

(* The entries in a buffer of which a part is blank.                       *)
LEMMA EntriesIs ==
  ASSUME NEW d, NEW s, Len(s) \in Nat
  PROVE  /\ Len(Entries(d, s)) = Len(s) * EntriesPerSector /\ Len(Entries(d, s)) \in Nat
         /\ \A i \in 1 .. Len(s) * EntriesPerSector :
              /\ (i - 1) \div EntriesPerSector + 1 \in 1 .. Len(s)
              /\ Entries(d, s)[i] =
                   LET x == s[(i - 1) \div EntriesPerSector + 1]
                   IN  IF x \in DOMAIN d.dir
                       THEN d.dir[x][((i - 1) % EntriesPerSector) + 1] ELSE EndEntry
<1>1. EntriesPerSector \in Nat \ {0} /\ Len(s) * EntriesPerSector \in Nat
  BY LoaderAssumption
<1>2. \A i \in 1 .. Len(s) * EntriesPerSector : (i - 1) \div EntriesPerSector + 1 \in 1 .. Len(s)
  BY <1>1, QuotientIn
<1>3. Len(Entries(d, s)) = Len(s) * EntriesPerSector
  BY <1>1 DEF Entries
<1> QED  BY <1>1, <1>2, <1>3 DEF Entries, EndEntry

LEMMA PartListed ==
  ASSUME NEW d \in Disks, NEW fat, NEW s, NEW t, Len(s) \in Nat, Len(t) = Len(s),
         \A i \in 1 .. Len(s) : s[i] \in {t[i], Blank}
  PROVE  Leads(parse_dir(fat, Entries(d, s)).entries, parse_dir(fat, Entries(d, t)).entries)
<1>1. Blank \notin DOMAIN d.dir
  BY LoaderAssumption DEF Blank
<1> DEFINE es == Entries(d, s)
           et == Entries(d, t)
<1>2. Len(es) \in Nat /\ Len(es) = Len(et)
  BY EntriesIs
<1>3. ASSUME NEW i \in 1 .. Len(es) PROVE es[i] \in {et[i], EndEntry}
  <2> DEFINE q == (i - 1) \div EntriesPerSector + 1
  <2>1. Len(es) = Len(s) * EntriesPerSector
    BY EntriesIs
  <2>2. i \in 1 .. Len(s) * EntriesPerSector
    BY <2>1
  <2>3. /\ q \in 1 .. Len(s)
        /\ es[i] = IF s[q] \in DOMAIN d.dir
                   THEN d.dir[s[q]][((i - 1) % EntriesPerSector) + 1] ELSE EndEntry
        /\ et[i] = IF t[q] \in DOMAIN d.dir
                   THEN d.dir[t[q]][((i - 1) % EntriesPerSector) + 1] ELSE EndEntry
    BY <2>2, EntriesIs
  <2> HIDE DEF q, es, et
  <2>4. s[q] = t[q] \/ s[q] = Blank
    BY <2>3
  <2> QED  BY <1>1, <2>3, <2>4
<1> HIDE DEF es, et
<1>4. Leads(parse_dir(fat, es).entries, parse_dir(fat, et).entries)
  BY <1>2, <1>3, ParsedPart
<1> QED  BY <1>4 DEF es, et

LEMMA BlankListed ==
  ASSUME NEW d \in Disks, NEW fat, NEW s, Len(s) \in Nat, \A i \in 1 .. Len(s) : s[i] = Blank
  PROVE  parse_dir(fat, Entries(d, s)).entries = <<>>
<1>1. Blank \notin DOMAIN d.dir
  BY LoaderAssumption DEF Blank
<1> DEFINE es == Entries(d, s)
<1>2. Len(es) \in Nat
  BY EntriesIs
<1>3. ASSUME NEW i \in 1 .. Len(es) PROVE es[i] = EndEntry
  <2> DEFINE q == (i - 1) \div EntriesPerSector + 1
  <2>1. i \in 1 .. Len(s) * EntriesPerSector
    BY EntriesIs
  <2>2. /\ q \in 1 .. Len(s)
        /\ es[i] = IF s[q] \in DOMAIN d.dir
                   THEN d.dir[s[q]][((i - 1) % EntriesPerSector) + 1] ELSE EndEntry
    BY <2>1, EntriesIs
  <2> HIDE DEF q, es
  <2> QED  BY <1>1, <2>2
<1> HIDE DEF es
<1>4. parse_dir(fat, es).entries = <<>>
  BY <1>2, <1>3, ParsedNothing
<1> QED  BY <1>4 DEF es

(* The directories on the path follow from one another.                    *)
Full(d) == Table(d, d.fat_sectors)

LEMMA ListingSteps ==
  ASSUME NEW d
  PROVE  /\ Len(segments) \in Nat /\ Len(segments) >= 2
         /\ Listings(d)[1] = parse_dir(Full(d), Entries(d, Root(d))).entries
         /\ \A k \in 1 .. Len(segments) - 1 :
              Listings(d)[k + 1] = parse_dir(Full(d), Entries(d, Content(d, Way(d, k)))).entries
<1> DEFINE N == Len(segments)
           Sect(g, k) == IF k = 1 THEN Root(d)
                                  ELSE Content(d, ChainOf(d, LookUp(g[k - 1], k - 1)))
           Body(g, k) == parse_dir(Full(d), Entries(d, Sect(g, k))).entries
           Good == {m \in Nat : \E g : g = [k \in 1 .. m |-> Body(g, k)]}
<1>0. N \in Nat /\ N >= 2
  BY SegmentCount, LoaderAssumption
<1>1. 0 \in Good
  <2>1. [k \in 1 .. 0 |-> <<>>] = [k \in 1 .. 0 |-> Body([j \in 1 .. 0 |-> <<>>], k)]
    OBVIOUS
  <2> QED  BY <2>1
<1>2. ASSUME NEW m \in Nat, m \in Good PROVE m + 1 \in Good
  <2>1. PICK g : g = [k \in 1 .. m |-> Body(g, k)]
    BY <1>2
  <2> DEFINE h == [k \in 1 .. m + 1 |-> IF k <= m THEN g[k] ELSE Body(g, k)]
  <2>2. ASSUME NEW k \in 1 .. m + 1 PROVE h[k] = Body(h, k)
    <3>1. h[k] = Body(g, k)
      BY <2>1
    <3>2. Sect(g, k) = Sect(h, k)
      <4>1. CASE k = 1
        BY <4>1
      <4>2. CASE k # 1
        <5>1. h[k - 1] = g[k - 1]
          BY <4>2
        <5> HIDE DEF h
        <5> QED  BY <5>1
      <4> QED  BY <4>1, <4>2
    <3> HIDE DEF Sect, h
    <3> QED  BY <3>1, <3>2
  <2>3. h = [k \in 1 .. m + 1 |-> Body(h, k)]
    <3>1. h = [k \in 1 .. m + 1 |-> h[k]]
      OBVIOUS
    <3> QED  BY <2>2, <3>1
  <2> HIDE DEF h, Body
  <2>4. \E g2 : g2 = [k \in 1 .. m + 1 |-> Body(g2, k)]
    BY <2>3
  <2> QED  BY <2>4
<1>3. N \in Good
  <2> HIDE DEF Good
  <2> QED  BY <1>0, <1>1, <1>2, SetInduction
<1> DEFINE W == Listings(d)
<1>4. W = [k \in 1 .. N |-> Body(W, k)]
  <2>1. Listings(d) = CHOOSE g : g = [k \in 1 .. N |-> Body(g, k)]
    BY DEF Listings, Full
  <2>2. \E g : g = [k \in 1 .. N |-> Body(g, k)]
    BY <1>3
  <2> HIDE DEF Body, N
  <2> QED  BY <2>1, <2>2
<1>5. W[1] = parse_dir(Full(d), Entries(d, Root(d))).entries
  <2> HIDE DEF W
  <2>1. W[1] = Body(W, 1)
    BY <1>0, <1>4
  <2> QED  BY <2>1
<1>6. ASSUME NEW k \in 1 .. N - 1
      PROVE  W[k + 1] = parse_dir(Full(d), Entries(d, Content(d, Way(d, k)))).entries
  <2>1. Way(d, k) = ChainOf(d, LookUp(W[k], k))
    BY DEF Way, Named
  <2> HIDE DEF W
  <2>2. W[k + 1] = Body(W, k + 1)
    BY <1>0, <1>4
  <2>3. (k + 1) - 1 = k /\ k + 1 # 1
    BY <1>0
  <2>4. Sect(W, k + 1) = Content(d, Way(d, k))
    BY <2>1, <2>3
  <2> HIDE DEF Sect
  <2> QED  BY <2>2, <2>4
<1> QED  BY <1>0, <1>5, <1>6

-----------------------------------------------------------------------------
(* How a read fails.  As long as no wait was given up, an error bit that   *)
(* the register shows is still set, and a command is written only when     *)
(* none is; so a read fails for good, unless it was not even tried.        *)
Told ==
  drive = "ata" /\ ~ gaveup =>
    /\ {"ERR", "DF"} \cap shown # {} => Error
    /\ dpc = "command" => ~ Error

Refused == request.n = 0 \/ ~ request.dest \/ request.n > MaxCount

FailsForGood ==
  drive = "ata" /\ ~ gaveup /\ ReadReturned /\ ata_last_error # "ok" => Error \/ Refused

Complete == ReadSucceeds => Len(got) = request.n
FromDisk == got # <<>> => drive = "ata"

ReturnInv == Told /\ FailsForGood /\ Complete /\ FromDisk

LEMMA ReturnInit == Init => ReturnInv
  BY DEF Init, AtaInit, ReturnInv, Told, FailsForGood, Complete, FromDisk, ReadReturned, ReadSucceeds,
     NoRequest, Error

LEMMA ReturnProgram ==
  ASSUME ReturnInv, Program
  PROVE  ReturnInv'
<1> USE DEF ReturnInv, Told, FailsForGood, Complete, FromDisk, ReadReturned, ReadSucceeds, Refused, Error
<1>1. CASE UNCHANGED ataVars
  BY <1>1 DEF ataVars, driveVars, driverVars
<1>2. CASE NewRead \/ NewProbe
  <2>1. /\ dpc' \in {"read", "detect", "init", "identify"} /\ got' = <<>>
        /\ UNCHANGED <<drive, status, shown, gaveup>>
    BY <1>2 DEF NewRead, NewProbe, Call, driveVars
  <2> QED  BY <2>1
<1> QED  BY <1>1, <1>2, ProgramCalls

LEMMA ReturnDrive ==
  ASSUME ReaderInv, ReturnInv, Drive
  PROVE  ReturnInv'
<1>1. UNCHANGED <<drive, dpc, request, got, ata_last_error, gaveup>>
  BY DEF Drive, DriveReady, DriveFails, ResetDone, Settle, Show, driverVars
<1>2. Complete' /\ FromDisk'
  BY <1>1 DEF ReturnInv, Complete, FromDisk, ReadSucceeds, ReadReturned
<1>3. ASSUME drive = "ata", ~ gaveup
      PROVE  /\ {"ERR", "DF"} \cap shown' # {} => Error'
             /\ dpc = "command" => ~ Error'
             /\ ReadReturned /\ ata_last_error # "ok" => Error' \/ Refused
  <2> USE <1>3 DEF Error, ReaderInv, ReturnInv, Told, FailsForGood
  <2>1. CASE dpc \in {"done", "command"} /\ ~ Settle
    <3>1. command.op = "none"
      BY <2>1 DEF ServeInv, Serving, Idle, Before
    <3> QED  BY <2>1, <3>1 DEF Drive, DriveReady, DriveFails, ResetDone
  <2>2. CASE dpc \notin {"done", "command"} /\ ~ Settle
    BY <2>2 DEF Drive, DriveReady, DriveFails, ResetDone, Show, ReadReturned
  <2>3. CASE Settle
    BY <2>3 DEF Settle
  <2> QED  BY <2>1, <2>2, <2>3
<1>4. Told' /\ FailsForGood'
  BY <1>1, <1>3 DEF Told, FailsForGood, ReadReturned, Refused
<1> QED  BY <1>2, <1>4 DEF ReturnInv

(* The driver looks at the status, and leaves the drive as it is.          *)
LEMMA ToldMoves ==
  ASSUME ReaderInv, ReturnInv, NEW p, NEW q, Moved(p, q), gaveup' = gaveup,
         q = "command" => ({"ERR", "DF"} \cap shown = {}),
         q = "done" /\ drive = "ata" /\ ~ gaveup => request.op # "read" \/ Error \/ Refused,
         p # "command" \/ q # "command", p # "done"
  PROVE  Told' /\ FailsForGood'
<1>1. UNCHANGED <<drive, status, shown, request, gaveup>> /\ dpc = p /\ dpc' = q
  BY DEF Moved, driveVars
<1>2. drive = "ata" /\ ~ gaveup /\ q = "command" => ~ Error
  <2> SUFFICES ASSUME drive = "ata", q = "command", Error PROVE FALSE
    OBVIOUS
  <2>1. shown = status
    BY DEF ReaderInv, ErrInv, AtRest
  <2> QED  BY <2>1 DEF Error
<1>3. Told'
  BY <1>1, <1>2 DEF ReturnInv, Told, Error
<1>4. FailsForGood'
  BY <1>1 DEF FailsForGood, ReadReturned, Refused, Error
<1> QED  BY <1>3, <1>4

LEMMA ToldPolls ==
  ASSUME ReaderInv, ReturnInv, NEW p, NEW q, NEW good, NEW timeout, Poll(p, q, good, timeout),
         p \notin {"command", "done"}, q \notin {"command", "done"}
  PROVE  Told' /\ FailsForGood'
<1>1. AtaInv
  BY DEF ReaderInv
<1>2. \/ Moved(p, p) /\ gaveup' = gaveup
      \/ Moved(p, q) /\ gaveup' = gaveup /\ good
      \/ Moved(p, "done") /\ gaveup' = gaveup /\ (shown = Floating \/ "ERR" \in shown)
      \/ Moved(p, "done") /\ gaveup'
  BY <1>1, Polled
<1>3. CASE Moved(p, p) /\ gaveup' = gaveup
  BY <1>3, ToldMoves
<1>4. CASE Moved(p, q) /\ gaveup' = gaveup
  BY <1>4, ToldMoves
<1>5. CASE Moved(p, "done") /\ gaveup' = gaveup /\ (shown = Floating \/ "ERR" \in shown)
  <2>1. "ERR" \in shown
    BY <1>5 DEF Floating
  <2>2. drive = "ata" /\ ~ gaveup => Error
    BY <2>1 DEF ReturnInv, Told
  <2> QED  BY <1>5, <2>2, ToldMoves
<1>6. CASE gaveup'
  BY <1>6 DEF Told, FailsForGood
<1> QED  BY <1>2, <1>3, <1>4, <1>5, <1>6

LEMMA ToldDriver ==
  ASSUME ReaderInv, ReturnInv, Driver
  PROVE  Told' /\ FailsForGood'
<1>0. Polls \in 1 .. Polls /\ AtaInv
  BY AtaAssumption DEF ReaderInv
<1>1. /\ dpc \in {"detect", "reset"} => request.op = "detect"
      /\ dpc = "init" => request.op = "init"
      /\ dpc \in {"identify", "id_busy", "id_signature", "id_drq", "id_words"} => request.op = "identify"
  BY <1>0 DEF AtaInv, CallKind
<1>2. "DRQ" \in status /\ drive = "ata" => ~ Error
  BY DEF ReaderInv, ErrInv, AtRest
<1>3. drive = "ata" /\ ~ gaveup => ({"ERR", "DF"} \cap shown # {} => Error)
  BY DEF ReturnInv, Told
<1>4. CASE SoftReset
  <2>1. /\ dpc' = "reset" /\ UNCHANGED <<drive, request, gaveup>>
        /\ drive = "ata" => status' = {"BSY"} /\ shown' = {"BSY"}
    BY <1>4 DEF SoftReset, Goto
  <2> QED  BY <2>1 DEF Told, FailsForGood, ReadReturned, Error
<1>5. CASE AwaitReset
  <2>1. CASE Moved("reset", "done") /\ gaveup' = gaveup /\ request.op # "read"
    BY <2>1, ToldMoves
  <2>2. CASE Moved("reset", "reset") /\ gaveup' = gaveup
    BY <2>2, ToldMoves
  <2>3. CASE gaveup'
    BY <2>3 DEF Told, FailsForGood
  <2>4. tries > 1 => tries - 1 \in 1 .. Polls
    BY <1>0 DEF AtaInv, CallTypes
  <2> QED
    BY <1>0, <1>1, <1>5, <2>1, <2>2, <2>3, <2>4 DEF AwaitReset, Return, Again, GiveUp, Goto, Moved
<1>6. CASE ata_init
  <2>1. Moved("init", "done") /\ gaveup' = gaveup /\ request.op # "read"
    BY <1>0, <1>1, <1>6 DEF ata_init, Return, Goto, Moved
  <2> QED  BY <2>1, ToldMoves
<1>7. CASE IdentifyCommand
  <2>1. dpc = "identify" /\ dpc' = "id_busy" /\ shown' = status /\ UNCHANGED <<drive, gaveup>>
        /\ (status' = status \/ status' = {"DRDY", "BSY"})
    BY <1>7 DEF IdentifyCommand, Goto, Write
  <2>2. drive = "ata" => ~ Error
    BY <2>1 DEF ReaderInv, DriveInv, Unhurt, Unused
  <2> QED  BY <2>1, <2>2 DEF Told, FailsForGood, ReadReturned, Error
<1>8. CASE ata_wait_not_bsy("id_busy", "id_signature")
  BY <1>8, ToldPolls DEF ata_wait_not_bsy
<1>9. CASE IdentifySignature
  <2>1. CASE Moved("id_signature", "done") /\ gaveup' = gaveup /\ request.op # "read"
    BY <2>1, ToldMoves
  <2>2. CASE Moved("id_signature", "id_drq") /\ gaveup' = gaveup
    BY <2>2, ToldMoves
  <2> QED  BY <1>0, <1>1, <1>9, <2>1, <2>2 DEF IdentifySignature, Return, Proceed, Goto, Moved
<1>10. CASE ata_wait_drq("id_drq", "id_words")
  BY <1>10, ToldPolls DEF ata_wait_drq
<1>11. CASE IdentifyWords
  <2>1. dpc = "id_words" /\ dpc' = "done" /\ UNCHANGED <<shown, drive, gaveup, request>>
    BY <1>11 DEF IdentifyWords, Goto, HandOver, driveVars
  <2>2. "DRQ" \in status
    BY <2>1 DEF ReaderInv, DrqInv, WordsOffered
  <2> QED  BY <1>1, <1>2, <1>3, <2>1, <2>2 DEF Told, FailsForGood, ReadReturned
<1>12. CASE CheckArguments
  <2>1. CASE Moved("read", "done") /\ gaveup' = gaveup /\ Refused
    BY <2>1, ToldMoves
  <2>2. CASE Moved("read", "busy") /\ gaveup' = gaveup
    BY <2>2, ToldMoves
  <2> QED  BY <1>0, <1>12, <2>1, <2>2 DEF CheckArguments, Return, Proceed, Goto, Moved, Refused
<1>13. CASE ata_wait_not_bsy("busy", "check")
  BY <1>13, ToldPolls DEF ata_wait_not_bsy
<1>14. CASE CheckStatus
  <2>1. CASE Moved("check", "done") /\ gaveup' = gaveup /\ {"ERR", "DF"} \cap shown # {}
    BY <1>3, <2>1, ToldMoves
  <2>2. CASE Moved("check", "command") /\ gaveup' = gaveup /\ {"ERR", "DF"} \cap shown = {}
    BY <2>2, ToldMoves
  <2> QED  BY <1>0, <1>14, <2>1, <2>2 DEF CheckStatus, Faulty, Return, Proceed, Goto, Moved
<1>15. CASE ReadCommand
  <2>1. dpc = "command" /\ dpc' = "delay" /\ shown' = status /\ UNCHANGED <<drive, gaveup>>
        /\ (status' = status \/ status' = {"DRDY", "BSY"})
    BY <1>15 DEF ReadCommand, Goto, Write
  <2>2. drive = "ata" /\ ~ gaveup => ~ Error
    BY <2>1 DEF ReturnInv, Told
  <2> QED  BY <2>1, <2>2 DEF Told, FailsForGood, ReadReturned, Error
<1>16. CASE Delay
  <2>1. dpc' = "drq" /\ shown' = status /\ status' = status /\ UNCHANGED <<drive, gaveup>>
    BY <1>16 DEF Delay, Goto, ata_wait_400ns
  <2> QED  BY <2>1 DEF Told, FailsForGood, ReadReturned, Error
<1>17. CASE ata_wait_drq("drq", "data")
  BY <1>17, ToldPolls DEF ata_wait_drq
<1>18. CASE CheckData
  <2>1. CASE Moved("data", "done") /\ gaveup' = gaveup
    <3>1. drive = "ata" /\ ~ gaveup => "DRQ" \in shown
      BY <2>1 DEF Moved, ReaderInv, DriveInv, Fresh, ServeInv, Serving
    <3>2. {"ERR", "DF"} \cap shown # {} \/ "DRQ" \notin shown
      BY <1>18, <2>1 DEF CheckData, Faulty, Return, Proceed, Goto, Moved
    <3> QED  BY <1>3, <2>1, <3>1, <3>2, ToldMoves
  <2>2. CASE Moved("data", "words") /\ gaveup' = gaveup
    BY <2>2, ToldMoves
  <2> QED  BY <1>0, <1>18, <2>1, <2>2 DEF CheckData, Return, Proceed, Goto, Moved
<1>19. CASE StoreWords
  <2>1. dpc = "words" /\ UNCHANGED <<shown, drive, gaveup, request>> /\ ata_last_error' = "ok"
        /\ dpc' \in {"delay", "done"}
    BY <1>19 DEF StoreWords, Goto, HandOver, driveVars
  <2>2. "DRQ" \in status
    BY <2>1 DEF ReaderInv, DrqInv, WordsOffered
  <2> QED  BY <1>2, <1>3, <2>1, <2>2 DEF Told, FailsForGood
<1> QED
  BY <1>4, <1>5, <1>6, <1>7, <1>8, <1>9, <1>10, <1>11, <1>12, <1>13, <1>14, <1>15, <1>16, <1>17,
     <1>18, <1>19
  DEF Driver, detect_devtype, ata_identify, pio28_read

LEMMA CompleteDriver ==
  ASSUME ReaderInv, ReturnInv, Driver
  PROVE  Complete' /\ FromDisk'
<1>1. request' = request /\ (StoreWords \/ (got' = got /\ (GoesOn \/ EndsNow)))
      /\ drive' = drive
  <2>1. drive' = drive
    BY DEF Driver, detect_devtype, SoftReset, AwaitReset, ata_init, ata_identify,
       IdentifyCommand, IdentifySignature, IdentifyWords, pio28_read, CheckArguments, CheckStatus,
       ReadCommand, Delay, CheckData, StoreWords, ata_wait_not_bsy, ata_wait_drq, Poll, Goto, Return,
       Proceed, GiveUp, Again
  <2> QED  BY <2>1, DriverSteps DEF ReaderInv
<1>2. CASE got' = got /\ (GoesOn \/ EndsNow)
  BY <1>1, <1>2 DEF ReturnInv, Complete, FromDisk, ReadSucceeds, ReadReturned, GoesOn, EndsNow
<1>3. CASE StoreWords
  <2>1. /\ dpc = "words" /\ dpc' = IF Len(got) + 1 < request.n THEN "delay" ELSE "done"
        /\ got' = Append(got, Word)
    BY <1>3 DEF StoreWords, Goto
  <2>2. "DRQ" \in status /\ drive = "ata"
    BY <2>1 DEF ReaderInv, DrqInv, WordsOffered, DriveInv, NoWords, ErrInv, Absent, AtaInv, DriveTypes
  <2>3. got \in Seq(Int) /\ Len(got) \in Nat /\ Len(got) < request.n /\ request.n \in Nat
    BY <2>1 DEF ReaderInv, AtaInv, Progress, CallTypes, During
  <2>4. Word \in Int
    BY <2>2 DEF Word, Garbage, ReaderInv, AtaInv, DriveTypes, Commands
  <2>5. Len(got') = Len(got) + 1
    BY <2>1, <2>3, <2>4
  <2>6. Complete'
    BY <1>1, <2>1, <2>3, <2>5 DEF Complete, ReadSucceeds, ReadReturned
  <2> QED  BY <1>1, <2>2, <2>6 DEF FromDisk
<1> QED  BY <1>1, <1>2, <1>3

LEMMA ReturnStep == ReaderInv /\ ReturnInv /\ [Next]_vars => ReturnInv'
<1> SUFFICES ASSUME ReaderInv, ReturnInv, [Next]_vars PROVE ReturnInv'
  OBVIOUS
<1>1. CASE UNCHANGED ataVars
  BY <1>1 DEF ataVars, driveVars, driverVars, ReturnInv, Told, FailsForGood, Complete, FromDisk,
     ReadReturned, ReadSucceeds, Refused, Error
<1>2. CASE Driver
  BY <1>2, ToldDriver, CompleteDriver DEF ReturnInv
<1>3. CASE Program
  BY <1>3, ReturnProgram
<1>4. CASE Drive
  BY <1>4, ReturnDrive
<1> QED  BY <1>1, <1>2, <1>3, <1>4 DEF Next, Run, Ended, vars

-----------------------------------------------------------------------------
(* The reads of the loader.  On a sound volume the driver refuses none of  *)
(* them, so that the first one that fails has left the drive with an error *)
(* bit set, and nothing is read from it any more.                          *)
ReadPCs == {"fat_init", "root", "open", "store"}
Loads   == {"root", "open", "parse_root", "walk", "cluster", "store"}
Early   == {"load_sectors", "detect", "init", "identify", "boot", "fat_init", "disk_fail"}

Asking ==
  /\ pc \in Early => ~ failed
  /\ pc \in Loads => drive = "ata"
  /\ pc \in ReadPCs => request.op = "read"
  /\ disk.sound /\ pc \in ReadPCs => ~ Refused

Drained ==
  disk.sound /\ ~ gaveup /\ failed /\ pc \in Loads => Stuck /\ (pc \in ReadPCs => got = <<>>)

DrainInv == Asking /\ Drained

(* What no step of the program undoes.                                     *)
LEMMA ProgramKeeps ==
  ASSUME Program
  PROVE  /\ UNCHANGED <<disk, drive, gaveup>>
         /\ failed' = failed \/ (pc \in ReadPCs /\ failed' = (failed \/ ReadFailed))
         /\ pc \in ReadPCs => dpc = "done"
<1>1. gaveup' = gaveup /\ drive' = drive
  BY ProgramCalls DEF ataVars, driverVars, NewRead, NewProbe, Call
<1> QED
  BY <1>1 DEF Program, load_sectors, Probe, Misread, BootSectorBad, load_fat, load_root_directory,
     LoadedRoot, ParseRoot, LookUpFails, load_clustered_entry, SkipCluster, read_cluster,
     StoreCluster, LoadedDirectory, LoadedFile, memcpy, AfterRead, Step, ReadPCs

(* The places at which the program reads.                                  *)
Reads(n, lba) == \E dest : (disk.sound => dest) /\ Read(dest, n, lba)

LEMMA SoundGeometry ==
  ASSUME InDrive, disk.sound
  PROVE  /\ disk.boot = "good" /\ IsSound(disk)
         /\ {disk.fat_sectors, disk.root_sectors} \subseteq 1 .. MaxCount
         /\ fat_bytes(disk) < Width
         /\ Zalloc(fat_bytes(disk)) /\ Zalloc(disk.root_sectors * BytesPerSector)
<1>1. IsSound(disk)
  BY LoaderAssumption DEF InDrive
<1>2. /\ {disk.fat_sectors, disk.root_sectors} \subseteq 1 .. MaxCount /\ fat_bytes(disk) < Width
      /\ disk.boot = "good"
  BY <1>1 DEF IsSound
<1>3. BytesPerSector \in Nat \ {0} /\ Width \in Nat /\ disk.root_sectors * BytesPerSector < Width
      /\ MaxCount \in Nat
  BY LoaderAssumption, AtaAssumption DEF InDrive
<1>4. \A x \in 1 .. MaxCount : x * BytesPerSector \in Nat \ {0}
  BY <1>3
<1>5. \A b \in Nat \ {0} : b < Width => b % Width = b
  BY <1>3
<1>6. fat_bytes(disk) \in Nat \ {0} /\ disk.root_sectors * BytesPerSector \in Nat \ {0}
  BY <1>2, <1>4 DEF fat_bytes
<1>7. Zalloc(fat_bytes(disk))
  BY <1>2, <1>5, <1>6 DEF Zalloc
<1>8. Zalloc(disk.root_sectors * BytesPerSector)
  BY <1>3, <1>5, <1>6 DEF Zalloc
<1> QED  BY <1>1, <1>2, <1>7, <1>8

LEMMA ProgramReads ==
  ASSUME InDrive, Program, pc' \in ReadPCs
  PROVE  \E n, lba : Reads(n, lba) /\ (disk.sound => n \in 1 .. MaxCount)
<1>1. MaxCount \in Nat /\ 1 \in 1 .. MaxCount /\ SectorsPerCluster \in 1 .. MaxCount
  BY AtaAssumption, LoaderAssumption
<1>2. CASE Probe
  <2>1. Read(TRUE, 1, 0)
    BY <1>2 DEF Probe, Step, ReadPCs
  <2>2. Reads(1, 0)
    BY <2>1 DEF Reads
  <2> QED  BY <1>1, <2>2
<1>3. CASE load_fat
  <2>1. Read(Zalloc(fat_bytes(disk)), disk.fat_sectors, fat_start_lba(disk))
    BY <1>3 DEF load_fat
  <2>2. Reads(disk.fat_sectors, fat_start_lba(disk))
    BY <2>1, SoundGeometry DEF Reads
  <2> QED  BY <2>2, SoundGeometry
<1>4. CASE load_root_directory
  <2>1. Read(Zalloc(disk.root_sectors * BytesPerSector), disk.root_sectors, root_dir_start_lba(disk))
    BY <1>4 DEF load_root_directory
  <2>2. Reads(disk.root_sectors, root_dir_start_lba(disk))
    BY <2>1, SoundGeometry DEF Reads
  <2> QED  BY <2>2, SoundGeometry
<1>5. CASE read_cluster
  <2>1. Read(TRUE, SectorsPerCluster, cluster_to_lba(disk, Next1))
    BY <1>5 DEF read_cluster
  <2>2. Reads(SectorsPerCluster, cluster_to_lba(disk, Next1))
    BY <2>1 DEF Reads
  <2> QED  BY <1>1, <2>2
<1>6. Probe \/ load_fat \/ load_root_directory \/ read_cluster
  BY DEF Program, load_sectors, Retry, Misread, BootSectorBad, LoadedRoot, ParseRoot, Parse,
     LookUpFails, NotFound, load_clustered_entry, SkipCluster, StoreCluster, LoadedDirectory,
     LoadedFile, memcpy, AfterRead, Step, ReadPCs
<1> QED  BY <1>2, <1>3, <1>4, <1>5, <1>6

LEMMA AskingProgram ==
  ASSUME InDrive, ReturnInv, Asking, Program
  PROVE  Asking'
<1>1. pc' \in Early => pc \in Early \ ReadPCs
  BY DEF Program, load_sectors, Retry, Probe, Misread, BootSectorBad, load_fat,
     load_root_directory, LoadedRoot, ParseRoot, Parse, LookUpFails, NotFound, load_clustered_entry,
     SkipCluster, read_cluster, StoreCluster, LoadedDirectory, LoadedFile, memcpy, AfterRead, Step,
     Early, ReadPCs
<1>2. pc' \in Loads => pc \in Loads \/ got # <<>>
  BY DEF Program, load_sectors, Retry, Probe, Misread, BootSectorBad, load_fat,
     load_root_directory, LoadedRoot, ParseRoot, Parse, LookUpFails, NotFound, load_clustered_entry,
     SkipCluster, read_cluster, StoreCluster, LoadedDirectory, LoadedFile, memcpy, AfterRead, Step,
     Loads
<1>3. pc' \in Early => ~ failed'
  BY <1>1, ProgramKeeps DEF Asking
<1>4. pc' \in Loads => drive' = "ata"
  BY <1>2, ProgramKeeps DEF Asking, ReturnInv, FromDisk
<1>5. ASSUME pc' \in ReadPCs
      PROVE  request'.op = "read" /\ (disk'.sound => ~ Refused')
  <2>1. PICK n, lba, dest : /\ disk.sound => dest
                            /\ Read(dest, n, lba) /\ (disk.sound => n \in 1 .. MaxCount)
    BY <1>5, ProgramReads DEF Reads
  <2>2. request' = [op |-> "read", dest |-> dest, n |-> n, lba |-> lba]
    BY <2>1 DEF Read, Call
  <2>3. disk' = disk /\ MaxCount' = MaxCount /\ MaxCount \in Nat
    BY ProgramKeeps, AtaAssumption
  <2>4. request'.op = "read" /\ request'.n = n /\ request'.dest = dest
    BY <2>2
  <2>5. disk.sound => n # 0 /\ ~ (n > MaxCount)
    BY <2>1, <2>3
  <2> QED  BY <2>1, <2>3, <2>4, <2>5 DEF Refused
<1> QED  BY <1>3, <1>4, <1>5 DEF Asking

LEMMA DrainedProgram ==
  ASSUME ReaderInv, ReturnInv, DrainInv, [Next]_vars, Program
  PROVE  Drained'
<1> SUFFICES ASSUME disk'.sound, ~ gaveup', failed', pc' \in Loads
             PROVE  Stuck' /\ (pc' \in ReadPCs => got' = <<>>)
  BY DEF Drained
<1>1. disk.sound /\ ~ gaveup
  BY ProgramKeeps
<1>2. pc \in Loads \/ (pc = "fat_init" /\ got # <<>>)
  BY DEF Program, load_sectors, Retry, Probe, Misread, BootSectorBad, load_fat,
     load_root_directory, LoadedRoot, ParseRoot, Parse, LookUpFails, NotFound, load_clustered_entry,
     SkipCluster, read_cluster, StoreCluster, LoadedDirectory, LoadedFile, memcpy, AfterRead, Step,
     Loads
<1>3. drive = "ata"
  BY <1>2 DEF DrainInv, Asking, ReturnInv, FromDisk
<1>4. Stuck
  <2>1. CASE failed
    <3>1. pc \in Loads
      BY <1>2, <2>1 DEF DrainInv, Asking, Early
    <3> QED  BY <1>1, <2>1, <3>1 DEF DrainInv, Drained
  <2>2. CASE ~ failed
    <3>1. pc \in ReadPCs /\ ReadFailed /\ dpc = "done"
      BY <2>2, ProgramKeeps
    <3>2. request.op = "read" /\ ~ Refused /\ ata_last_error # "ok"
      BY <1>1, <3>1 DEF DrainInv, Asking, ReadFailed
    <3>3. Error
      BY <1>1, <1>3, <3>1, <3>2 DEF ReturnInv, FailsForGood, ReadReturned
    <3> QED  BY <3>1, <3>2, <3>3 DEF Stuck
  <2> QED  BY <2>1, <2>2
<1>5. Stuck'
  BY <1>4, StuckStep DEF ReaderInv
<1>6. ASSUME pc' \in ReadPCs PROVE got' = <<>>
  BY <1>6, ProgramReads DEF Reads, Read, Call, ReaderInv
<1> QED  BY <1>5, <1>6

LEMMA DriverKeeps ==
  ASSUME AtaInv, Driver
  PROVE  /\ UNCHANGED <<request, drive>> /\ (gaveup => gaveup')
         /\ got' = got \/ dpc = "words"
<1>1. request' = request /\ (StoreWords \/ (got' = got /\ (GoesOn \/ EndsNow)))
  BY DriverSteps
<1>2. drive' = drive
  BY DEF Driver, detect_devtype, SoftReset, AwaitReset, ata_init, ata_identify,
     IdentifyCommand, IdentifySignature, IdentifyWords, pio28_read, CheckArguments, CheckStatus,
     ReadCommand, Delay, CheckData, StoreWords, ata_wait_not_bsy, ata_wait_drq, Poll, Goto, Return,
     Proceed, GiveUp, Again
<1>3. CASE StoreWords
  BY <1>1, <1>2, <1>3 DEF StoreWords, Goto
<1>4. CASE got' = got /\ (GoesOn \/ EndsNow)
  <2>1. gaveup' = gaveup \/ (gaveup => gaveup')
    BY <1>4 DEF GoesOn, EndsNow
  <2> QED  BY <1>1, <1>2, <1>4, <2>1
<1> QED  BY <1>1, <1>3, <1>4

LEMMA DrainInit == Init => DrainInv
  BY DEF Init, DrainInv, Asking, Drained, Early, Loads, ReadPCs

LEMMA DrainStep == ReaderInv /\ ReturnInv /\ DrainInv /\ [Next]_vars => DrainInv'
<1> SUFFICES ASSUME ReaderInv, ReturnInv, DrainInv, [Next]_vars PROVE DrainInv'
  OBVIOUS
<1>1. CASE Program
  BY <1>1, AskingProgram, DrainedProgram DEF DrainInv, ReaderInv
<1>2. CASE UNCHANGED loaderVars /\ UNCHANGED <<request, drive>> /\ (gaveup => gaveup')
           /\ (got' = got \/ dpc = "words")
  <2>1. UNCHANGED <<disk, pc, failed>>
    BY <1>2 DEF loaderVars
  <2>2. Asking'
    BY <1>2, <2>1 DEF DrainInv, Asking, Refused
  <2>3. Stuck => Stuck' /\ dpc # "words"
    BY StuckStep DEF ReaderInv, Stuck
  <2>4. Drained'
    BY <1>2, <2>1, <2>3 DEF DrainInv, Drained
  <2> QED  BY <2>2, <2>4 DEF DrainInv
<1>3. CASE UNCHANGED vars
  BY <1>2, <1>3 DEF vars, ataVars, driveVars, driverVars
<1>4. CASE Driver /\ UNCHANGED loaderVars
  BY <1>2, <1>4, DriverKeeps DEF ReaderInv
<1>5. CASE Drive /\ UNCHANGED loaderVars
  <2>1. UNCHANGED <<request, drive, gaveup, got>>
    BY <1>5 DEF Drive, DriveReady, DriveFails, ResetDone, Settle, Show, driverVars
  <2> QED  BY <1>2, <1>5, <2>1
<1> QED  BY <1>1, <1>3, <1>4, <1>5 DEF Next, Run, Ended

-----------------------------------------------------------------------------
(* What is in memory, against what is on the volume: where it differs it   *)
(* is blank, and a read has failed.  This is so for a sound volume, and    *)
(* for any other until a read fails.                                       *)
Nearly(s, t, bad) == \A i \in 1 .. Len(s) : s[i] = t[i] \/ (bad /\ s[i] = Blank)
AllBlank(s)       == \A i \in 1 .. Len(s) : s[i] = Blank

Trusted == ~ gaveup /\ (disk.sound \/ ~ failed)

Looks == {"parse_root", "walk", "cluster", "store"}

Tables ==
  /\ pc = "open" => fat_got = disk.fat_sectors \/ failed
  /\ Trusted /\ pc \in Looks =>
       /\ fat_got = disk.fat_sectors \/ root_got = 0
       /\ ~ failed => fat_got = disk.fat_sectors /\ root_got = disk.root_sectors

(* What a read that has not failed has stored.                             *)
LEMMA WholeRead ==
  ASSUME ReaderInv, ReturnInv, Asking, NEW p \in ReadPCs, pc = p, dpc = "done",
         IsPrefix(got, Asked)
  PROVE  /\ Len(got) \in Nat /\ Len(got) <= request.n /\ request.n \in Nat /\ got \in Seq(Int)
         /\ ~ ReadFailed => Len(got) = request.n
         /\ \A i \in 1 .. Len(got) : got[i] = request.lba + i - 1
<1>1. got \in Seq(Int) /\ Len(got) <= request.n /\ request.n \in Nat /\ request.lba \in Int
  BY DEF ReaderInv, AtaInv, Progress, CallTypes
<1>2. ~ ReadFailed => Len(got) = request.n
  BY DEF Asking, ReturnInv, Complete, ReadSucceeds, ReadReturned, ReadFailed
<1>3. ASSUME NEW i \in 1 .. Len(got) PROVE got[i] = request.lba + i - 1
  <2>1. Asked \in Seq(Int) /\ Len(Asked) = request.n
    <3>1. \A j \in 1 .. request.n : request.lba + j - 1 \in Int
      BY <1>1
    <3>2. Asked \in [1 .. request.n -> Int]
      BY <3>1 DEF Asked
    <3>3. Asked \in Seq(Int)
      BY <1>1, <3>2, SeqDef
    <3> QED  BY <1>1, <3>2, <3>3
  <2>2. got[i] = Asked[i]
    BY <1>1, <2>1 DEF IsPrefix
  <2>3. i \in 1 .. request.n
    BY <1>1
  <2> QED  BY <2>2, <2>3 DEF Asked
<1> QED  BY <1>1, <1>2, <1>3

(* Trust, once lost, is not regained.                                      *)
LEMMA TrustedBefore ==
  ASSUME Program
  PROVE  /\ Trusted' => Trusted
         /\ failed => failed'
         /\ disk' = disk
<1>1. disk' = disk /\ gaveup' = gaveup /\ (failed' = failed \/ failed' = (failed \/ ReadFailed))
  BY ProgramKeeps
<1>2. failed => failed'
  <2>1. CASE failed' = failed
    BY <2>1
  <2>2. CASE failed' = (failed \/ ReadFailed)
    BY <2>2
  <2> QED  BY <1>1, <2>1, <2>2
<1> QED  BY <1>1, <1>2 DEF Trusted

LEMMA TablesProgram ==
  ASSUME ReaderInv, ReturnInv, DrainInv, LoaderInv, Tables, Program
  PROVE  Tables'
<1>0. DrainInv => Asking
  BY DEF DrainInv
<1>1. CASE load_root_directory
  <2>1. /\ pc = "root" /\ dpc = "done" /\ pc' = "open" /\ IsPrefix(got, Asked)
        /\ fat_got' = Len(got) /\ disk' = disk /\ failed' = (failed \/ ReadFailed)
    BY <1>1 DEF load_root_directory, AfterRead, Step
  <2>2. ~ ReadFailed => Len(got) = disk.fat_sectors
    BY <1>0, <2>1, WholeRead DEF ReadPCs, LoaderInv, Loading
  <2> QED  BY <2>1, <2>2 DEF Tables, Looks
<1>2. CASE LoadedRoot
  <2>1. /\ pc = "open" /\ dpc = "done" /\ pc' = "parse_root" /\ IsPrefix(got, Asked)
        /\ root_got' = Len(got) /\ fat_got' = fat_got /\ disk' = disk
        /\ failed' = (failed \/ ReadFailed)
    BY <1>2 DEF LoadedRoot, AfterRead, Step
  <2>2. ~ ReadFailed => Len(got) = disk.root_sectors
    BY <1>0, <2>1, WholeRead DEF ReadPCs, LoaderInv, Loading
  <2>3. Trusted' /\ failed => got = <<>>
    BY <1>2, <2>1, TrustedBefore DEF DrainInv, Drained, Trusted, Loads, ReadPCs
  <2>4. fat_got = disk.fat_sectors \/ failed
    BY <2>1 DEF Tables
  <2>5. Trusted' => fat_got' = disk'.fat_sectors \/ root_got' = 0
    BY <2>1, <2>3, <2>4
  <2>6. ~ failed' => fat_got' = disk'.fat_sectors /\ root_got' = disk'.root_sectors
    BY <2>1, <2>2, <2>4
  <2> QED  BY <2>1, <2>5, <2>6 DEF Tables
<1>3. CASE UNCHANGED fatVars /\ pc' # "open" /\ (pc' \in Looks => pc \in Looks)
  <2>1. fat_got' = fat_got /\ root_got' = root_got
    BY <1>3 DEF fatVars
  <2> QED  BY <1>3, <2>1, TrustedBefore DEF Tables
<1>4. \/ load_root_directory \/ LoadedRoot
      \/ UNCHANGED fatVars /\ pc' # "open" /\ (pc' \in Looks => pc \in Looks)
  BY DEF Program, load_sectors, Retry, Probe, Misread, BootSectorBad, load_fat,
     ParseRoot, Parse, LookUpFails, NotFound, load_clustered_entry, SkipCluster, read_cluster,
     StoreCluster, LoadedDirectory, LoadedFile, memcpy, AfterRead, Step, Looks
<1> QED  BY <1>1, <1>2, <1>3, <1>4

(* The sectors of a chain.                                                 *)
LEMMA ContentIs ==
  ASSUME NEW d, NEW c, Len(c) \in Nat
  PROVE  /\ Len(Content(d, c)) = Len(c) * SectorsPerCluster
         /\ Len(Content(d, c)) \in Nat
         /\ \A k \in 0 .. Len(c) - 1, r \in 1 .. SectorsPerCluster :
              /\ k * SectorsPerCluster + r \in 1 .. Len(Content(d, c))
              /\ Content(d, c)[k * SectorsPerCluster + r] =
                   IF c[k + 1] < 2 THEN Blank ELSE cluster_to_lba(d, c[k + 1]) + r - 1
<1>1. SectorsPerCluster \in Nat \ {0} /\ Len(c) * SectorsPerCluster \in Nat
  BY LoaderAssumption, AtaAssumption
<1>2. Len(Content(d, c)) = Len(c) * SectorsPerCluster
  BY <1>1 DEF Content
<1>3. ASSUME NEW k \in 0 .. Len(c) - 1, NEW r \in 1 .. SectorsPerCluster
      PROVE  /\ k * SectorsPerCluster + r \in 1 .. Len(c) * SectorsPerCluster
             /\ Content(d, c)[k * SectorsPerCluster + r] =
                  IF c[k + 1] < 2 THEN Blank ELSE cluster_to_lba(d, c[k + 1]) + r - 1
  <2> DEFINE j == k * SectorsPerCluster + r
  <2>1. k \in Nat /\ r \in Nat /\ k * SectorsPerCluster \in Nat
    BY <1>1
  <2>2. (k + 1) * SectorsPerCluster = k * SectorsPerCluster + SectorsPerCluster
    BY <1>1, <2>1, Product
  <2>3. (k + 1) * SectorsPerCluster <= Len(c) * SectorsPerCluster
    BY <1>1, <2>1
  <2>4. j \in 1 .. Len(c) * SectorsPerCluster
    <3> HIDE DEF j
    <3>1. j = k * SectorsPerCluster + r
      BY DEF j
    <3> QED  BY <1>1, <2>1, <2>2, <2>3, <3>1
  <2>5. (j - 1) \div SectorsPerCluster = k /\ (j - 1) % SectorsPerCluster = r - 1
    <3>1. /\ (k * SectorsPerCluster + r - 1) \div SectorsPerCluster = k
          /\ (k * SectorsPerCluster + r - 1) % SectorsPerCluster = r - 1
      BY <1>1, <2>1, DivisionIs
    <3> HIDE DEF j
    <3>2. j - 1 = k * SectorsPerCluster + r - 1
      BY <2>1 DEF j
    <3> QED  BY <3>1, <3>2
  <2> HIDE DEF j
  <2>6. Content(d, c)[j] = LET cluster == c[(j - 1) \div SectorsPerCluster + 1]
                           IN  IF cluster < 2 THEN Blank
                               ELSE cluster_to_lba(d, cluster) + ((j - 1) % SectorsPerCluster)
    BY <2>4 DEF Content
  <2>7. Content(d, c)[j] = IF c[k + 1] < 2 THEN Blank ELSE cluster_to_lba(d, c[k + 1]) + (r - 1)
    BY <2>5, <2>6
  <2> QED  BY <2>4, <2>7 DEF j
<1> QED  BY <1>1, <1>2, <1>3

(* The directory in memory, and the entry being loaded, against the path.  *)
Searching == {"walk", "cluster", "store"}

Listed ==
  Trusted /\ pc \in Searching /\ segment <= Len(segments) =>
    /\ Leads(entries, Listings(disk)[segment])
    /\ ~ failed => entries = Listings(disk)[segment]
    /\ fat_got = disk.fat_sectors \/ entries = <<>>

Chaining ==
  Trusted /\ pc \in {"cluster", "store"} =>
    /\ segment <= Len(segments) /\ (Descends \/ LoadsFile)
    /\ chain = Way(disk, segment) /\ Zalloc(Bytes(chain))
    /\ Nearly(buffer, Content(disk, chain), failed)
    /\ pc = "store" => ~ AllClusters /\ Next1 >= 2 /\ request.lba = cluster_to_lba(disk, Next1)

LEMMA FatIsFull ==
  ASSUME fat_got = disk.fat_sectors
  PROVE  Fat = Full(disk)
  BY DEF Fat, Full

(* What is found in the directory in memory is what the path names.        *)
LEMMA FoundIs ==
  ASSUME Walking, Listed, Trusted, pc \in Searching, Found.kind # "none"
  PROVE  /\ segment \in 1 .. Len(segments) /\ entries # <<>>
         /\ Found = Named(disk, segment) /\ Fat = Full(disk)
         /\ traverse_chain(Fat, Found.cluster) = Way(disk, segment)
<1>1. segment \in 1 .. Len(segments)
  BY SegmentCount DEF Walking, Found
<1>2. Found = LookUp(entries, segment)
  BY <1>1, SegmentCount DEF Found
<1>3. entries # <<>>
  <2> SUFFICES ASSUME entries = <<>> PROVE FALSE
    OBVIOUS
  <2>1. find_parsed_dir_entry([entries |-> <<>>], segments[segment]) = [kind |-> "none"]
    BY NothingFound
  <2>2. LookUp(entries, segment) = [kind |-> "none"]
    BY <2>1 DEF LookUp
  <2> QED  BY <1>2, <2>2
<1>4. Leads(entries, Listings(disk)[segment]) /\ fat_got = disk.fat_sectors
  BY <1>1, <1>3, SegmentCount DEF Listed
<1>5. Found = Named(disk, segment)
  <2> DEFINE t == Listings(disk)[segment]
             name == segments[segment]
  <2> HIDE DEF t, name
  <2>1. Leads(entries, t)
    BY <1>4 DEF t
  <2>2. find_parsed_dir_entry([entries |-> entries], name).kind # "none"
    BY <1>2 DEF LookUp, name
  <2>3. find_parsed_dir_entry([entries |-> t], name) = find_parsed_dir_entry([entries |-> entries], name)
    BY <2>1, <2>2, FoundInPart
  <2> QED  BY <1>2, <2>3 DEF LookUp, Named, t, name
<1>6. Fat = Full(disk)
  BY <1>4, FatIsFull
<1>7. traverse_chain(Fat, Found.cluster) = Way(disk, segment)
  BY <1>5, <1>6 DEF Way, ChainOf, Full
<1> QED  BY <1>1, <1>3, <1>5, <1>6, <1>7

(* As long as no read has failed, what the path names is found.            *)
LEMMA FoundSure ==
  ASSUME Walking, Listed, Trusted, pc \in Searching, ~ failed, segment <= Len(segments)
  PROVE  Found = Named(disk, segment)
<1>1. entries = Listings(disk)[segment]
  BY DEF Listed
<1>2. ~ (segment > Len(segments))
  BY SegmentCount DEF Walking
<1> QED  BY <1>1, <1>2 DEF Found, Named

(* The root directory.                                                     *)
LEMMA RootListed ==
  ASSUME InDrive, Loading, Tables, Trusted, pc = "parse_root"
  PROVE  LET found == parse_dir(Fat, Entries(disk, root_dir)).entries
         IN  /\ Leads(found, Listings(disk)[1])
             /\ ~ failed => found = Listings(disk)[1]
             /\ fat_got = disk.fat_sectors \/ found = <<>>
<1> DEFINE found == parse_dir(Fat, Entries(disk, root_dir)).entries
           s == root_dir
           t == Root(disk)
<1>1. disk.root_sectors \in Nat /\ root_got \in 0 .. disk.root_sectors
  BY LoaderAssumption DEF InDrive, Loading
<1>2. /\ Len(s) \in Nat /\ Len(t) = Len(s) /\ Len(s) = disk.root_sectors
      /\ \A i \in 1 .. Len(s) : s[i] = IF i <= root_got THEN t[i] ELSE Blank
  BY <1>1 DEF root_dir, Root
<1>3. Listings(disk)[1] = parse_dir(Full(disk), Entries(disk, t)).entries
  BY ListingSteps
<1>4. /\ fat_got = disk.fat_sectors \/ root_got = 0
      /\ ~ failed => fat_got = disk.fat_sectors /\ root_got = disk.root_sectors
  BY DEF Tables, Looks
<1>5. CASE fat_got = disk.fat_sectors
  <2>1. Fat = Full(disk)
    BY <1>5, FatIsFull
  <2>2. Leads(found, Listings(disk)[1])
    <3> HIDE DEF s, t
    <3>1. \A i \in 1 .. Len(s) : s[i] \in {t[i], Blank}
      BY <1>2
    <3> DEFINE fat == Full(disk)
    <3> HIDE DEF fat
    <3>2. Leads(parse_dir(fat, Entries(disk, s)).entries, parse_dir(fat, Entries(disk, t)).entries)
      BY <1>2, <3>1, PartListed DEF InDrive
    <3> QED  BY <1>3, <2>1, <3>2 DEF fat, s
  <2>3. ASSUME ~ failed PROVE found = Listings(disk)[1]
    <3>1. s = t
      BY <1>1, <1>4, <2>3 DEF root_dir, Root
    <3> QED  BY <1>3, <2>1, <3>1
  <2> QED  BY <1>5, <2>2, <2>3
<1>6. CASE fat_got # disk.fat_sectors
  <2>1. root_got = 0 /\ failed
    BY <1>4, <1>6
  <2>2. found = <<>>
    <3>1. \A i \in 1 .. Len(s) : s[i] = Blank
      BY <1>1, <1>2, <2>1
    <3> DEFINE fat == Fat
    <3> HIDE DEF fat, s
    <3>2. parse_dir(fat, Entries(disk, s)).entries = <<>>
      BY <1>2, <3>1, BlankListed DEF InDrive
    <3> QED  BY <3>2 DEF fat, s
  <2>3. Len(Listings(disk)[1]) \in Nat
    <3> HIDE DEF s, t
    <3> DEFINE fat == Full(disk)
    <3> HIDE DEF fat
    <3>1. \A i \in 1 .. Len(t) : t[i] \in {t[i], Blank}
      OBVIOUS
    <3>2. Leads(parse_dir(fat, Entries(disk, t)).entries, parse_dir(fat, Entries(disk, t)).entries)
      BY <1>2, <3>1, PartListed DEF InDrive
    <3> QED  BY <1>3, <3>2 DEF fat, Leads
  <2> QED  BY <2>1, <2>2, <2>3 DEF Leads
<1> QED  BY <1>5, <1>6

(* A directory on the path.                                                *)
LEMMA DirectoryListed ==
  ASSUME InDrive, Buffered, Walking, Listed, Chaining, Trusted, pc = "cluster", AllClusters, Descends,
         segment < Len(segments)
  PROVE  LET found == parse_dir(Fat, Entries(disk, buffer)).entries
         IN  /\ Leads(found, Listings(disk)[segment + 1])
             /\ ~ failed => found = Listings(disk)[segment + 1]
             /\ fat_got = disk.fat_sectors
<1> DEFINE found == parse_dir(Fat, Entries(disk, buffer)).entries
           t == Content(disk, chain)
<1>1. Found.kind # "none"
  BY DEF Descends
<1>2. /\ segment \in 1 .. Len(segments) /\ entries # <<>> /\ Fat = Full(disk)
  BY <1>1, FoundIs DEF Searching
<1>3. fat_got = disk.fat_sectors
  BY <1>2, SegmentCount DEF Listed, Searching
<1>4. chain = Way(disk, segment) /\ Nearly(buffer, t, failed)
  BY DEF Chaining
<1>5. /\ buffer \in Seq(Int) /\ Len(buffer) \in Nat /\ Len(t) = Len(buffer)
      /\ DOMAIN t = 1 .. Len(t) /\ t = [i \in 1 .. Len(t) |-> t[i]]
  <2>1. Len(chain) \in Nat /\ Len(buffer) = Len(chain) * SectorsPerCluster /\ buffer \in Seq(Int)
    BY DEF Buffered, AllClusters
  <2>2. Len(t) = Len(chain) * SectorsPerCluster
    BY <2>1, ContentIs
  <2>3. t = [i \in 1 .. Len(t) |-> t[i]]
    BY <2>2 DEF Content
  <2> QED  BY <2>1, <2>2, <2>3
<1>6. Listings(disk)[segment + 1] = parse_dir(Full(disk), Entries(disk, t)).entries
  <2>1. segment \in 1 .. Len(segments) - 1
    BY <1>2, SegmentCount
  <2> QED  BY <1>4, <2>1, ListingSteps
<1> HIDE DEF t
<1>7. Leads(found, Listings(disk)[segment + 1])
  <2>1. \A i \in 1 .. Len(buffer) : buffer[i] \in {t[i], Blank}
    BY <1>4 DEF Nearly
  <2> DEFINE fat == Full(disk)
  <2> HIDE DEF fat
  <2>2. Leads(parse_dir(fat, Entries(disk, buffer)).entries, parse_dir(fat, Entries(disk, t)).entries)
    BY <1>5, <2>1, PartListed DEF InDrive
  <2> QED  BY <1>2, <1>6, <2>2 DEF fat
<1>8. ASSUME ~ failed PROVE found = Listings(disk)[segment + 1]
  <2>1. \A i \in 1 .. Len(buffer) : buffer[i] = t[i]
    BY <1>4, <1>8 DEF Nearly
  <2>2. buffer = [i \in 1 .. Len(buffer) |-> buffer[i]]
    BY <1>5
  <2>3. buffer = t
    BY <1>5, <2>1, <2>2
  <2> QED  BY <1>2, <1>6, <2>3
<1> QED  BY <1>3, <1>7, <1>8

-----------------------------------------------------------------------------
(* A path that leads to a file.                                            *)
Final     == Len(segments)
Passed(k) == Named(disk, k).kind = "dir" /\ Zalloc(Bytes(Way(disk, k)))
Arrives   == /\ \A k \in 1 .. Final - 1 : Passed(k)
             /\ Named(disk, Final).kind = "file" /\ Zalloc(Bytes(Way(disk, Final)))
Sought    == Content(disk, Way(disk, Final))

Passing == Trusted /\ pc \in Searching /\ pass = "open" => \A k \in 1 .. segment - 1 : Passed(k)

(* get_file_size can take the way that open has taken.                     *)
Arrived ==
  Trusted /\ pass # "open" =>
    Arrives /\ Len(file) = Len(Sought) /\ (pc \in Searching => segment <= Final)

(* If a sector of the file could not be read, no other can be read any     *)
(* more: every directory that is read again is empty.                      *)
Broken ==
  Trusted /\ pass # "open" /\ file # Sought =>
    /\ failed
    /\ pc \in Searching /\ segment > 1 => entries = <<>>
    /\ pc \in {"cluster", "store"} => AllBlank(buffer)

PathInv == Listed /\ Chaining /\ Passing /\ Arrived /\ Broken

LEMMA PathInit == Init => PathInv
  BY DEF Init, PathInv, Listed, Chaining, Passing, Arrived, Broken, Searching

(* The steps that are not part of a lookup, and those that end one.        *)
LEMMA PathLeft ==
  ASSUME PathInv, Program, pc' \notin Searching, UNCHANGED <<pass, file>>
  PROVE  PathInv'
<1>1. /\ Trusted' => Trusted
      /\ disk' = disk
      /\ failed => failed'
  BY TrustedBefore
<1>2. Listed' /\ Chaining' /\ Passing'
  BY DEF Listed, Chaining, Passing, Searching
<1>3. Arrived'
  BY <1>1 DEF PathInv, Arrived, Arrives, Passed, Sought, Final, Zalloc
<1>4. Broken'
  BY <1>1 DEF PathInv, Broken, Sought, Final, Searching
<1> QED  BY <1>2, <1>3, <1>4 DEF PathInv

LEMMA PathRoot ==
  ASSUME InDrive, Loading, Tables, PathInv, Program, ParseRoot
  PROVE  PathInv'
<1>1. /\ Trusted' => Trusted
      /\ UNCHANGED <<disk, failed, pass, file, fat_got>>
      /\ pc = "parse_root" /\ segment' = 1
  BY TrustedBefore DEF ParseRoot, fatVars, fileVars
<1> DEFINE found == parse_dir(Fat, Entries(disk, root_dir)).entries
<1>2. (pc' = "walk" /\ entries' = found) \/ pc' = "wild"
  BY DEF ParseRoot, Parse
<1>3. Listed'
  <2> SUFFICES ASSUME Trusted', pc' = "walk"
               PROVE  /\ Leads(found, Listings(disk)[1])
                      /\ ~ failed => found = Listings(disk)[1]
                      /\ fat_got = disk.fat_sectors \/ found = <<>>
    BY <1>1, <1>2 DEF Listed, Searching
  <2> QED  BY <1>1, RootListed
<1>4. Chaining' /\ Passing'
  BY <1>1, <1>2 DEF Chaining, Passing
<1>5. Arrived'
  BY <1>1, ListingSteps DEF PathInv, Arrived, Arrives, Passed, Sought, Final, Zalloc
<1>6. Broken'
  BY <1>1, <1>2 DEF PathInv, Broken, Sought, Final
<1> QED  BY <1>3, <1>4, <1>5, <1>6 DEF PathInv

(* A lookup goes on in the same directory.                                 *)
LEMMA SameLookUp ==
  ASSUME PathInv, Program, pc \in Searching, pc' \in Searching, UNCHANGED <<walkVars, fatVars, file>>
  PROVE  /\ Listed' /\ Passing' /\ Arrived'
         /\ Found' = Found /\ (Descends' <=> Descends) /\ (LoadsFile' <=> LoadsFile)
<1>1. /\ Trusted' => Trusted
      /\ disk' = disk
      /\ failed => failed'
      /\ UNCHANGED <<pass, segment, entries, fat_got>>
  BY TrustedBefore DEF walkVars, fatVars
<1>2. Listed'
  BY <1>1 DEF PathInv, Listed
<1>3. Passing'
  BY <1>1 DEF PathInv, Passing, Passed, Zalloc
<1>4. Arrived'
  BY <1>1 DEF PathInv, Arrived, Arrives, Passed, Sought, Final, Zalloc
<1>5. Found' = Found
  BY <1>1 DEF Found
<1>6. (Descends' <=> Descends) /\ (LoadsFile' <=> LoadsFile)
  BY <1>1, <1>5 DEF Descends, LoadsFile, LastSegment
<1> QED  BY <1>2, <1>3, <1>4, <1>5, <1>6

LEMMA PathEntry ==
  ASSUME Walking, PathInv, Program, load_clustered_entry
  PROVE  PathInv'
<1> DEFINE c == traverse_chain(Fat, Found.cluster)
<1>1. /\ pc = "walk" /\ (Descends \/ LoadsFile) /\ UNCHANGED <<disk, walkVars, fatVars, pass, file, failed>>
      /\ \/ pc' \notin Searching
         \/ pc' = "cluster" /\ Zalloc(Bytes(c)) /\ chain' = c /\ buffer' = <<>>
  BY DEF load_clustered_entry, NotFound, Searching, walkVars, fileVars
<1>2. CASE pc' \notin Searching
  BY <1>1, <1>2, PathLeft
<1>3. CASE pc' = "cluster" /\ Zalloc(Bytes(c)) /\ chain' = c /\ buffer' = <<>>
  <2>1. /\ Listed' /\ Passing' /\ Arrived'
        /\ Found' = Found /\ (Descends' <=> Descends) /\ (LoadsFile' <=> LoadsFile)
    BY <1>1, <1>3, SameLookUp DEF Searching
  <2>2. Chaining'
    <3> SUFFICES ASSUME Trusted'
                 PROVE  segment <= Len(segments) /\ c = Way(disk, segment)
      BY <1>1, <1>3, <2>1 DEF Chaining, walkVars, Nearly, Zalloc, Bytes
    <3>1. Trusted /\ Found.kind # "none"
      BY <1>1, TrustedBefore DEF Descends, LoadsFile
    <3>2. segment \in 1 .. Len(segments) /\ c = Way(disk, segment)
      BY <1>1, <3>1, FoundIs DEF PathInv, Searching
    <3> QED  BY <3>2, SegmentCount
  <2>3. Broken'
    BY <1>1, <1>3, TrustedBefore DEF PathInv, Broken, Sought, Final, AllBlank, Searching, walkVars
  <2> QED  BY <2>1, <2>2, <2>3 DEF PathInv
<1> QED  BY <1>1, <1>2, <1>3

LEMMA PathRead ==
  ASSUME PathInv, Program, read_cluster
  PROVE  PathInv'
<1>1. /\ pc = "cluster" /\ pc' = "store" /\ ~ AllClusters /\ Next1 >= 2
      /\ UNCHANGED <<disk, walkVars, fatVars, file, failed, chain, buffer, segment, entries, pass>>
      /\ Read(TRUE, SectorsPerCluster, cluster_to_lba(disk, Next1))
  BY DEF read_cluster, Step, loadVars, walkVars, fileVars
<1>2. /\ Listed' /\ Passing' /\ Arrived'
      /\ Found' = Found /\ (Descends' <=> Descends) /\ (LoadsFile' <=> LoadsFile)
  BY <1>1, SameLookUp DEF Searching
<1>3. request'.lba = cluster_to_lba(disk, Next1)
  BY <1>1 DEF Read, Call
<1>4. Next1' = Next1 /\ (AllClusters' <=> AllClusters)
  BY <1>1 DEF Next1, AllClusters
<1>5. Chaining'
  BY <1>1, <1>2, <1>3, <1>4, TrustedBefore DEF PathInv, Chaining, Zalloc, Bytes
<1>6. Broken'
  BY <1>1, TrustedBefore DEF PathInv, Broken, Sought, Final, AllBlank, Searching
<1> QED  BY <1>2, <1>5, <1>6 DEF PathInv

(* One more cluster in the buffer, or blank sectors in its place.          *)
LEMMA ClusterNearly ==
  ASSUME Buffered, Chaining, Trusted, pc \in {"cluster", "store"}, ~ AllClusters, NEW bad,
         failed => bad, NEW b, Len(b) = Len(buffer) + SectorsPerCluster,
         \A i \in 1 .. Len(buffer) : b[i] = buffer[i],
         \A r \in 1 .. SectorsPerCluster :
           \/ b[Len(buffer) + r] = Blank /\ (Next1 < 2 \/ bad)
           \/ b[Len(buffer) + r] = cluster_to_lba(disk, Next1) + r - 1 /\ Next1 >= 2
  PROVE  Nearly(b, Content(disk, chain), bad)
<1> DEFINE t == Content(disk, chain)
<1>1. PICK k \in Nat : Whole(k)
  BY DEF Buffered
<1>2. k < Len(chain) /\ Next1 \in Nat
  BY <1>1, NextCluster
<1>3. SectorsPerCluster \in Nat \ {0} /\ Len(chain) \in Nat /\ Len(buffer) \in Nat
      /\ Len(buffer) = k * SectorsPerCluster
  <2>1. SectorsPerCluster \in Nat \ {0}
    BY LoaderAssumption, AtaAssumption
  <2>2. Len(chain) \in Nat /\ Len(buffer) \in Nat
    BY DEF Buffered
  <2> QED  BY <1>1, <2>1, <2>2 DEF Whole
<1>4. Next1 = chain[k + 1]
  <2>1. (k * SectorsPerCluster) \div SectorsPerCluster = k
    BY <1>3, Product
  <2> QED  BY <1>3, <2>1 DEF Next1
<1>5. \A r \in 1 .. SectorsPerCluster :
        t[Len(buffer) + r] = IF Next1 < 2 THEN Blank ELSE cluster_to_lba(disk, Next1) + r - 1
  <2>1. k \in 0 .. Len(chain) - 1
    BY <1>2, <1>3
  <2>2. \A r \in 1 .. SectorsPerCluster :
          t[k * SectorsPerCluster + r] =
            IF chain[k + 1] < 2 THEN Blank ELSE cluster_to_lba(disk, chain[k + 1]) + r - 1
    BY <1>3, <2>1, ContentIs
  <2> QED  BY <1>3, <1>4, <2>2
<1>6. \A i \in 1 .. Len(buffer) : buffer[i] = t[i] \/ (failed /\ buffer[i] = Blank)
  BY DEF Chaining, Nearly
<1> HIDE DEF t
<1>7. ASSUME NEW i \in 1 .. Len(b) PROVE b[i] = t[i] \/ (bad /\ b[i] = Blank)
  <2>1. CASE i <= Len(buffer)
    <3>1. i \in 1 .. Len(buffer)
      BY <1>3, <2>1
    <3> QED  BY <1>6, <3>1
  <2>2. CASE i > Len(buffer)
    <3> DEFINE r == i - Len(buffer)
    <3>1. r \in 1 .. SectorsPerCluster /\ i = Len(buffer) + r
      BY <1>3, <2>2
    <3> HIDE DEF r
    <3>2. ~ (Next1 < 2 /\ Next1 >= 2)
      BY <1>2
    <3> QED  BY <1>5, <3>1, <3>2
  <2> QED  BY <1>3, <2>1, <2>2
<1> QED  BY <1>7 DEF Nearly, t

(* The steps that fill the buffer.                                         *)
LEMMA PathFilled ==
  ASSUME Buffered, PathInv, Program, pc \in {"cluster", "store"}, pc' = "cluster", ~ AllClusters,
         UNCHANGED <<walkVars, fatVars, file, chain>>,
         Len(buffer') = Len(buffer) + SectorsPerCluster,
         \A i \in 1 .. Len(buffer) : buffer'[i] = buffer[i],
         \A r \in 1 .. SectorsPerCluster :
           \/ buffer'[Len(buffer) + r] = Blank /\ (Next1 < 2 \/ failed')
           \/ buffer'[Len(buffer) + r] = cluster_to_lba(disk, Next1) + r - 1 /\ Next1 >= 2,
         Trusted' /\ failed =>
           \A r \in 1 .. SectorsPerCluster : buffer'[Len(buffer) + r] = Blank
  PROVE  PathInv'
<1>1. /\ Listed' /\ Passing' /\ Arrived'
      /\ Found' = Found /\ (Descends' <=> Descends) /\ (LoadsFile' <=> LoadsFile)
  BY SameLookUp DEF Searching
<1>2. /\ Trusted' => Trusted
      /\ disk' = disk
      /\ failed => failed'
      /\ UNCHANGED <<segment, entries, pass, chain, file>>
  BY TrustedBefore DEF walkVars
<1>3. ASSUME Trusted' PROVE Nearly(buffer', Content(disk, chain), failed')
  <2> DEFINE b == buffer'
             bad == failed'
  <2> HIDE DEF b, bad
  <2>1. Len(b) = Len(buffer) + SectorsPerCluster /\ \A i \in 1 .. Len(buffer) : b[i] = buffer[i]
    BY DEF b
  <2>2. \A r \in 1 .. SectorsPerCluster :
          \/ b[Len(buffer) + r] = Blank /\ (Next1 < 2 \/ bad)
          \/ b[Len(buffer) + r] = cluster_to_lba(disk, Next1) + r - 1 /\ Next1 >= 2
    BY DEF b, bad
  <2>3. failed => bad
    BY <1>2 DEF bad
  <2>4. Chaining /\ Trusted
    BY <1>2, <1>3 DEF PathInv
  <2>5. Nearly(b, Content(disk, chain), bad)
    BY <2>1, <2>2, <2>3, <2>4, ClusterNearly
  <2> QED  BY <2>5 DEF b, bad
<1>4. Chaining'
  BY <1>1, <1>2, <1>3 DEF PathInv, Chaining, Zalloc, Bytes
<1>5. Broken'
  <2> SUFFICES ASSUME Trusted', pass # "open", file # Sought
               PROVE  /\ failed
                      /\ segment > 1 => entries = <<>>
                      /\ AllBlank(buffer')
    BY <1>2 DEF Broken, Sought, Final
  <2>1. /\ failed
        /\ segment > 1 => entries = <<>>
        /\ AllBlank(buffer)
    BY <1>2 DEF PathInv, Broken, Searching
  <2>2. SectorsPerCluster \in Nat /\ Len(buffer) \in Nat
    BY LoaderAssumption, AtaAssumption DEF Buffered
  <2>3. ASSUME NEW i \in 1 .. Len(buffer') PROVE buffer'[i] = Blank
    <3>1. CASE i <= Len(buffer)
      <4>1. i \in 1 .. Len(buffer)
        BY <2>2, <3>1
      <4> QED  BY <2>1, <4>1 DEF AllBlank
    <3>2. CASE i > Len(buffer)
      <4> DEFINE r == i - Len(buffer)
      <4>1. r \in 1 .. SectorsPerCluster /\ i = Len(buffer) + r
        BY <2>2, <3>2
      <4> HIDE DEF r
      <4> QED  BY <2>1, <4>1
    <3> QED  BY <2>2, <3>1, <3>2
  <2> QED  BY <2>1, <2>3 DEF AllBlank
<1> QED  BY <1>1, <1>4, <1>5 DEF PathInv

LEMMA PathSkipped ==
  ASSUME Buffered, PathInv, Program, SkipCluster
  PROVE  PathInv'
<1> DEFINE x == Blanks(SectorsPerCluster)
<1>1. /\ pc = "cluster" /\ pc' = "cluster" /\ ~ AllClusters /\ Next1 < 2
      /\ UNCHANGED <<walkVars, fatVars, file, chain>> /\ buffer' = buffer \o x
  BY DEF SkipCluster, fileVars
<1>2. SectorsPerCluster \in Nat /\ buffer \in Seq(Int) /\ Len(buffer) \in Nat
  BY LoaderAssumption, AtaAssumption DEF Buffered
<1>3. x \in Seq(Int) /\ Len(x) = SectorsPerCluster /\ \A r \in 1 .. SectorsPerCluster : x[r] = Blank
  BY <1>2 DEF Blanks, Blank
<1> HIDE DEF x
<1>4. /\ Len(buffer') = Len(buffer) + SectorsPerCluster
      /\ \A i \in 1 .. Len(buffer) : buffer'[i] = buffer[i]
      /\ \A r \in 1 .. SectorsPerCluster : buffer'[Len(buffer) + r] = Blank
  <2>1. /\ Len(buffer \o x) = Len(buffer) + Len(x)
        /\ \A i \in 1 .. Len(buffer) + Len(x) :
             (buffer \o x)[i] = IF i <= Len(buffer) THEN buffer[i] ELSE x[i - Len(buffer)]
    BY <1>2, <1>3, ConcatProperties
  <2>2. \A i \in 1 .. Len(buffer) : buffer'[i] = buffer[i]
    BY <1>1, <1>2, <1>3, <2>1
  <2>3. ASSUME NEW r \in 1 .. SectorsPerCluster PROVE buffer'[Len(buffer) + r] = Blank
    <3>1. Len(buffer) + r \in 1 .. Len(buffer) + Len(x) /\ ~ (Len(buffer) + r <= Len(buffer))
          /\ Len(buffer) + r - Len(buffer) = r
      BY <1>2, <1>3
    <3> QED  BY <1>1, <1>3, <2>1, <3>1
  <2> QED  BY <1>1, <1>3, <2>1, <2>2, <2>3
<1> QED  BY <1>1, <1>4, PathFilled

LEMMA PathStored ==
  ASSUME ReaderInv, ReturnInv, DrainInv, PathInv, Program, StoreCluster
  PROVE  PathInv'
<1> DEFINE n == SectorsPerCluster
           x == Blanks(n - Len(got))
           y == buffer \o got
<1>1. /\ pc = "store" /\ dpc = "done" /\ pc' = "cluster" /\ IsPrefix(got, Asked)
      /\ failed' = (failed \/ ReadFailed)
      /\ UNCHANGED <<walkVars, fatVars, file, chain>> /\ buffer' = y \o x
  BY DEF StoreCluster, AfterRead, Step, fileVars
<1>2. n \in Nat /\ buffer \in Seq(Int) /\ Len(buffer) \in Nat /\ request.n = n /\ Asking
  BY <1>1, LoaderAssumption, AtaAssumption DEF ReaderInv, Buffered, DrainInv
<1>3. /\ Len(got) \in 0 .. n /\ got \in Seq(Int)
      /\ ~ ReadFailed => Len(got) = n
      /\ \A i \in 1 .. Len(got) : got[i] = request.lba + i - 1
  BY <1>1, <1>2, WholeRead DEF ReadPCs
<1>4. x \in Seq(Int) /\ Len(x) = n - Len(got) /\ \A r \in 1 .. n - Len(got) : x[r] = Blank
  BY <1>2, <1>3 DEF Blanks, Blank
<1>5. /\ y \in Seq(Int) /\ Len(y) = Len(buffer) + Len(got)
      /\ \A i \in 1 .. Len(buffer) + Len(got) :
           y[i] = IF i <= Len(buffer) THEN buffer[i] ELSE got[i - Len(buffer)]
  BY <1>2, <1>3, ConcatProperties
<1> HIDE DEF n, x, y
<1>6. /\ Len(y \o x) = Len(y) + Len(x)
      /\ \A i \in 1 .. Len(y) + Len(x) : (y \o x)[i] = IF i <= Len(y) THEN y[i] ELSE x[i - Len(y)]
  BY <1>4, <1>5, ConcatProperties
<1>7. Len(buffer') = Len(buffer) + n
  BY <1>1, <1>2, <1>3, <1>4, <1>5, <1>6
<1>8. ASSUME NEW i \in 1 .. Len(buffer) PROVE buffer'[i] = buffer[i]
  <2>1. i \in 1 .. Len(buffer) + Len(got) /\ i <= Len(y) /\ i <= Len(buffer) /\ i \in 1 .. Len(y) + Len(x)
    BY <1>2, <1>3, <1>4, <1>5
  <2> QED  BY <1>1, <1>5, <1>6, <2>1
<1>9. ASSUME NEW r \in 1 .. n
      PROVE  buffer'[Len(buffer) + r] = IF r <= Len(got) THEN request.lba + r - 1 ELSE Blank
  <2>1. CASE r <= Len(got)
    <3>1. r \in 1 .. Len(got) /\ Len(got) \in Nat
      BY <1>3, <2>1
    <3>2. /\ Len(buffer) + r \in 1 .. Len(buffer) + Len(got) /\ Len(buffer) + r <= Len(y)
          /\ ~ (Len(buffer) + r <= Len(buffer)) /\ Len(buffer) + r - Len(buffer) = r
      BY <1>2, <1>5, <3>1
    <3>3. Len(buffer) + r \in 1 .. Len(y) + Len(x)
      BY <1>2, <1>3, <1>4, <1>5, <3>1
    <3>4. y[Len(buffer) + r] = request.lba + r - 1
      <4> DEFINE j == Len(buffer) + r
      <4>1. j \in 1 .. Len(buffer) + Len(got) /\ ~ (j <= Len(buffer)) /\ j - Len(buffer) = r
        BY <3>2
      <4> HIDE DEF j
      <4>2. y[j] = got[r]
        BY <1>5, <4>1
      <4>3. got[r] = request.lba + r - 1
        BY <1>3, <3>1
      <4> QED  BY <4>2, <4>3 DEF j
    <3>5. buffer'[Len(buffer) + r] = y[Len(buffer) + r]
      BY <1>1, <1>6, <3>2, <3>3
    <3> QED  BY <2>1, <3>4, <3>5
  <2>2. CASE r > Len(got)
    <3>1. /\ Len(buffer) + r \in 1 .. Len(y) + Len(x) /\ ~ (Len(buffer) + r <= Len(y))
          /\ Len(buffer) + r - Len(y) \in 1 .. n - Len(got) /\ ~ (r <= Len(got))
      BY <1>2, <1>3, <1>4, <1>5, <2>2
    <3> QED  BY <1>1, <1>4, <1>6, <3>1
  <2> QED  BY <1>3, <2>1, <2>2
<1>10. CASE Trusted'
  <2>1. Trusted
    BY <1>10, TrustedBefore
  <2>2. ~ AllClusters /\ Next1 >= 2 /\ request.lba = cluster_to_lba(disk, Next1)
    BY <1>1, <2>1 DEF PathInv, Chaining
  <2>3. ASSUME NEW r \in 1 .. n
        PROVE  \/ buffer'[Len(buffer) + r] = Blank /\ failed'
               \/ buffer'[Len(buffer) + r] = cluster_to_lba(disk, Next1) + r - 1
    <3>1. CASE r <= Len(got)
      BY <1>9, <2>2, <3>1
    <3>2. CASE ~ (r <= Len(got))
      <4>1. ReadFailed
        BY <1>2, <1>3, <3>2
      <4> QED  BY <1>1, <1>9, <3>2, <4>1
    <3> QED  BY <3>1, <3>2
  <2>4. ASSUME failed, NEW r \in 1 .. n PROVE buffer'[Len(buffer) + r] = Blank
    <3>1. got = <<>>
      BY <1>1, <2>1, <2>4 DEF Trusted, DrainInv, Drained, Loads, ReadPCs
    <3>2. ~ (r <= Len(got))
      BY <3>1
    <3> QED  BY <1>9, <3>2
  <2> QED  BY <1>1, <1>7, <1>8, <2>2, <2>3, <2>4, PathFilled DEF ReaderInv, n
<1>11. CASE ~ Trusted'
  BY <1>11 DEF PathInv, Listed, Chaining, Passing, Arrived, Broken
<1> QED  BY <1>10, <1>11

(* A buffer that is complete is as long as what its chain holds.           *)
LEMMA Filled ==
  ASSUME Buffered, AllClusters
  PROVE  /\ Len(buffer) \in Nat /\ Len(Content(disk, chain)) = Len(buffer)
         /\ (\A i \in 1 .. Len(buffer) : buffer[i] = Content(disk, chain)[i])
              => buffer = Content(disk, chain)
<1> DEFINE t == Content(disk, chain)
<1>1. Len(chain) \in Nat /\ Len(buffer) = Len(chain) * SectorsPerCluster /\ buffer \in Seq(Int)
      /\ Len(buffer) \in Nat
  BY DEF Buffered, AllClusters
<1>2. Len(t) = Len(buffer)
  BY <1>1, ContentIs
<1>3. t = [i \in 1 .. Len(t) |-> t[i]]
  BY <1>1, <1>2 DEF Content
<1>4. buffer = [i \in 1 .. Len(buffer) |-> buffer[i]]
  BY <1>1
<1> HIDE DEF t
<1>5. (\A i \in 1 .. Len(buffer) : buffer[i] = t[i]) => buffer = t
  BY <1>2, <1>3, <1>4
<1> QED  BY <1>1, <1>2, <1>5 DEF t

LEMMA PathDirectory ==
  ASSUME InDrive, Buffered, Walking, PathInv, Program, LoadedDirectory
  PROVE  PathInv'
<1> DEFINE found == parse_dir(Fat, Entries(disk, buffer)).entries
<1>1. /\ pc = "cluster" /\ AllClusters /\ Descends /\ segment' = segment + 1
      /\ UNCHANGED <<disk, failed, pass, file, fat_got>>
      /\ pc' = "walk" \/ pc' = "wild"
      /\ entries' = found \/ entries' = <<>>
      /\ pc' = "walk" => entries' = found
  BY DEF LoadedDirectory, Parse, fatVars, fileVars
<1>2. Trusted' <=> Trusted
  <2>1. gaveup' = gaveup
    BY ProgramKeeps
  <2> QED  BY <1>1, <2>1 DEF Trusted
<1>3. ASSUME Trusted
      PROVE  /\ segment \in 1 .. Final /\ Found = Named(disk, segment)
             /\ chain = Way(disk, segment) /\ Zalloc(Bytes(chain))
  BY <1>1, <1>3, FoundIs DEF PathInv, Descends, Searching, Chaining, Final
<1>4. Final \in Nat
  BY SegmentCount DEF Final
<1>5. Listed'
  <2> SUFFICES ASSUME Trusted, pc' = "walk", segment + 1 <= Final
               PROVE  /\ Leads(found, Listings(disk)[segment + 1])
                      /\ ~ failed => found = Listings(disk)[segment + 1]
                      /\ fat_got = disk.fat_sectors \/ found = <<>>
    BY <1>1, <1>2 DEF Listed, Searching, Final
  <2>1. segment < Len(segments)
    BY <1>3, <1>4 DEF Final
  <2> QED  BY <1>1, <2>1, DirectoryListed DEF PathInv
<1>6. Chaining'
  BY <1>1 DEF Chaining
<1>7. Passing'
  <2> SUFFICES ASSUME Trusted, pass = "open", NEW k \in 1 .. segment PROVE Passed(k)
    <3>1. Walking => segment \in Int
      BY SegmentCount DEF Walking
    <3> QED  BY <1>1, <1>2, <3>1 DEF Passing, Passed, Zalloc
  <2>1. CASE k = segment
    BY <1>1, <1>3, <2>1 DEF Descends, Passed
  <2>2. CASE k # segment
    <3>1. k \in 1 .. segment - 1
      BY <1>3, <1>4, <2>2
    <3> QED  BY <1>1, <3>1 DEF PathInv, Passing, Searching
  <2> QED  BY <2>1, <2>2
<1>8. ASSUME Trusted, pass # "open" PROVE segment + 1 <= Final
  <2> SUFFICES ASSUME segment = Final PROVE FALSE
    BY <1>3, <1>4, <1>8
  <2>1. Named(disk, Final).kind = "file" /\ LastSegment
    BY <1>8 DEF PathInv, Arrived, Arrives, LastSegment, Final
  <2>2. Found.kind = "file"
    BY <1>3, <1>8, <2>1
  <2> QED  BY <1>1, <2>1, <2>2 DEF Descends
<1>9. Arrived'
  BY <1>1, <1>2, <1>8 DEF PathInv, Arrived, Arrives, Passed, Sought, Final, Zalloc
<1>10. Broken'
  <2> SUFFICES ASSUME Trusted, pass # "open", file # Sought
               PROVE  failed /\ entries' = <<>>
    BY <1>1, <1>2 DEF Broken, Sought, Final
  <2>1. failed /\ AllBlank(buffer)
    BY <1>1 DEF PathInv, Broken
  <2>2. Len(buffer) \in Nat
    BY DEF Buffered
  <2>3. found = <<>>
    <3> DEFINE fat == Fat
    <3> HIDE DEF fat
    <3>1. parse_dir(fat, Entries(disk, buffer)).entries = <<>>
      BY <2>1, <2>2, BlankListed DEF InDrive, AllBlank
    <3> QED  BY <3>1 DEF fat
  <2> QED  BY <1>1, <2>1, <2>3
<1> QED  BY <1>5, <1>6, <1>7, <1>9, <1>10 DEF PathInv

LEMMA PathFile ==
  ASSUME Buffered, Walking, PathInv, Program, LoadedFile
  PROVE  PathInv'
<1>1. /\ pc = "cluster" /\ AllClusters /\ LoadsFile /\ pc' = "parse_root"
      /\ UNCHANGED <<disk, failed>>
      /\ \/ pass = "open" /\ pass' = "reopen" /\ file' = buffer
         \/ pass # "open" /\ file' = file
  BY DEF LoadedFile
<1>2. Trusted' <=> Trusted
  <2>1. gaveup' = gaveup
    BY ProgramKeeps
  <2> QED  BY <1>1, <2>1 DEF Trusted
<1>3. Listed' /\ Chaining' /\ Passing'
  BY <1>1 DEF Listed, Chaining, Passing, Searching
<1>4. CASE pass # "open" /\ file' = file
  <2>1. Arrived'
    BY <1>1, <1>2, <1>4 DEF PathInv, Arrived, Arrives, Passed, Sought, Final, Zalloc, Searching
  <2>2. Broken'
    BY <1>1, <1>2, <1>4 DEF PathInv, Broken, Sought, Final, Searching
  <2> QED  BY <1>3, <2>1, <2>2 DEF PathInv
<1>5. CASE pass = "open" /\ file' = buffer
  <2>1. ASSUME Trusted
        PROVE  /\ Arrives /\ Len(buffer) = Len(Sought)
               /\ buffer # Sought => failed
    <3>1. /\ segment = Final /\ Found.kind = "file" /\ Found = Named(disk, segment)
          /\ chain = Way(disk, segment) /\ Zalloc(Bytes(chain))
          /\ Nearly(buffer, Content(disk, chain), failed)
      BY <1>1, <2>1, FoundIs DEF PathInv, LoadsFile, LastSegment, Searching, Chaining, Final
    <3>2. Arrives
      BY <1>1, <1>5, <2>1, <3>1 DEF PathInv, Passing, Searching, Arrives
    <3>3. Sought = Content(disk, chain)
      BY <3>1 DEF Sought
    <3>4. Len(buffer) = Len(Sought)
      BY <1>1, <3>3, Filled
    <3>5. ASSUME ~ failed PROVE buffer = Sought
      <4>1. \A i \in 1 .. Len(buffer) : buffer[i] = Content(disk, chain)[i]
        BY <3>1, <3>5 DEF Nearly
      <4> QED  BY <1>1, <3>3, <4>1, Filled
    <3> QED  BY <3>2, <3>4, <3>5
  <2>2. Arrived'
    BY <1>1, <1>2, <1>5, <2>1 DEF Arrived, Arrives, Passed, Sought, Final, Zalloc, Searching
  <2>3. Broken'
    BY <1>1, <1>2, <1>5, <2>1 DEF Broken, Sought, Final, Searching
  <2> QED  BY <1>3, <2>2, <2>3 DEF PathInv
<1> QED  BY <1>1, <1>4, <1>5

LEMMA PathProgram ==
  ASSUME ReaderInv, ReturnInv, DrainInv, LoaderInv, Tables, PathInv, Program
  PROVE  PathInv'
<1>0. InDrive /\ Buffered /\ Walking /\ Loading
  BY DEF LoaderInv
<1>1. \/ pc' \notin Searching /\ UNCHANGED <<pass, file>>
      \/ ParseRoot \/ load_clustered_entry \/ SkipCluster \/ read_cluster \/ StoreCluster
      \/ LoadedDirectory \/ LoadedFile
  BY DEF Program, load_sectors, Retry, Probe, Misread, BootSectorBad, load_fat, load_root_directory,
     LoadedRoot, LookUpFails, NotFound, memcpy, AfterRead, Step, Searching, walkVars, fileVars
<1> QED
  BY <1>0, <1>1, PathLeft, PathRoot, PathEntry, PathSkipped, PathRead, PathStored, PathDirectory, PathFile

-----------------------------------------------------------------------------
(* All of it together.                                                     *)
BootInv == ReaderInv /\ LoaderInv /\ ReturnInv /\ DrainInv /\ Tables /\ PathInv

LEMMA BootInit == Init => BootInv
<1>1. Init => Tables
  BY DEF Init, Tables, Looks
<1> QED
  BY <1>1, ReaderInvInit, LoaderInvInit, ReturnInit, DrainInit, PathInit DEF BootInv

(* The steps of the driver and of the drive, as the loader sees them.      *)
LEMMA OtherSteps ==
  ASSUME AtaInv, [Next]_vars, ~ Program
  PROVE  UNCHANGED <<loaderVars, request>> /\ (gaveup => gaveup')
<1>1. CASE UNCHANGED vars
  BY <1>1 DEF vars, ataVars, driverVars
<1>2. CASE Driver /\ UNCHANGED loaderVars
  BY <1>2, DriverKeeps
<1>3. CASE Drive /\ UNCHANGED loaderVars
  BY <1>3 DEF Drive, DriveReady, DriveFails, ResetDone, Settle, Show, driverVars
<1> QED  BY <1>1, <1>2, <1>3 DEF Next, Run, Ended

LEMMA PathKept ==
  ASSUME Tables, PathInv, UNCHANGED <<loaderVars, request>>, gaveup => gaveup'
  PROVE  Tables' /\ PathInv'
<1>1. /\ UNCHANGED <<disk, pc, failed, pass, segment, entries, chain, buffer, file, fat_got, root_got, request>>
      /\ Trusted' => Trusted
  BY DEF loaderVars, fatVars, walkVars, loadVars, fileVars, Trusted
<1>2. Tables'
  BY <1>1 DEF Tables
<1>3. Listed'
  BY <1>1 DEF PathInv, Listed
<1>4. Found' = Found /\ Next1' = Next1 /\ (AllClusters' <=> AllClusters)
  BY <1>1 DEF Found, Next1, AllClusters
<1>5. (Descends' <=> Descends) /\ (LoadsFile' <=> LoadsFile)
  BY <1>1, <1>4 DEF Descends, LoadsFile, LastSegment
<1>6. Chaining'
  BY <1>1, <1>4, <1>5 DEF PathInv, Chaining, Zalloc, Bytes
<1>7. Passing' /\ Arrived'
  BY <1>1 DEF PathInv, Passing, Arrived, Arrives, Passed, Sought, Final, Zalloc
<1>8. Broken'
  BY <1>1 DEF PathInv, Broken, Sought, Final, AllBlank
<1> QED  BY <1>2, <1>3, <1>6, <1>7, <1>8 DEF PathInv

LEMMA BootStep == BootInv /\ [Next]_vars => BootInv'
<1> SUFFICES ASSUME BootInv, [Next]_vars PROVE BootInv'
  OBVIOUS
<1> USE DEF BootInv
<1>1. ReaderInv' /\ LoaderInv' /\ ReturnInv' /\ DrainInv'
  BY ReaderInvStep, LoaderInvStep, ReturnStep, DrainStep
<1>2. Tables' /\ PathInv'
  <2>1. CASE Program
    BY <2>1, TablesProgram, PathProgram
  <2>2. CASE ~ Program
    BY <2>2, OtherSteps, PathKept DEF ReaderInv
  <2> QED  BY <2>1, <2>2
<1> QED  BY <1>1, <1>2

(* What memcpy copies from, on a sound volume.                             *)
LEMMA WholeFile ==
  ASSUME BootInv, pc = "walk", Measures, disk.sound, ~ gaveup
  PROVE  /\ file = Sought /\ Found = Named(disk, Final)
         /\ bytes_to_sectors(Found.size) \in 0 .. Len(file)
<1>1. Trusted /\ InDrive /\ Walking /\ Listed /\ Broken /\ Arrived
  BY DEF Trusted, BootInv, LoaderInv, PathInv
<1>2. Found.kind # "none" /\ segment = Final /\ pass # "open"
  BY DEF Measures, LastSegment, Final
<1>3. Found = Named(disk, Final) /\ entries # <<>>
  BY <1>1, <1>2, FoundIs DEF Searching
<1>4. file = Sought
  <2>1. segment > 1
    BY <1>2, ListingSteps DEF Final
  <2> QED  BY <1>1, <1>2, <1>3, <2>1 DEF Broken, Searching
<1>5. Len(Sought) = Len(Way(disk, Final)) * SectorsPerCluster
  <2>1. Way(disk, Final) = traverse_chain(Fat, Found.cluster)
    BY <1>1, <1>2, FoundIs DEF Searching
  <2>2. Len(Way(disk, Final)) \in Nat
    <3>1. Fat \in [0 .. fat_bytes(disk) \div 2 - 1 -> Nat] /\ fat_bytes(disk) \div 2 \in Nat
      BY <1>1, FatIsTable
    <3>2. IsFiniteSet(DOMAIN Fat)
      BY <3>1, FS_Interval
    <3> DEFINE fat == Fat
               start == Found.cluster
    <3> HIDE DEF fat, start
    <3>3. traverse_chain(fat, start) \in Seq(Clusters(fat))
      BY <3>2, ChainOfClusters DEF fat
    <3> QED  BY <2>1, <3>3 DEF fat, start
  <2> QED  BY <2>2, ContentIs DEF Sought
<1>6. bytes_to_sectors(Named(disk, Final).size) \in 0 .. Len(Way(disk, Final)) * SectorsPerCluster
  BY <1>1, SoundGeometry DEF IsSound, Final
<1> QED  BY <1>3, <1>4, <1>5, <1>6

(* The kernel that is started is the whole kernel, whichever reads have    *)
(* failed on the way to it: load_raw_kernel and get_file_size ignore the   *)
(* failures, but after one of them no directory can be read any more in    *)
(* which the file's size would be found.                                   *)
THEOREM KernelAlwaysWhole == Spec => []KernelWhole
<1>1. Init => KernelWhole
  BY DEF Init, KernelWhole
<1>2. BootInv /\ KernelWhole /\ [Next]_vars => KernelWhole'
  <2> SUFFICES ASSUME BootInv, KernelWhole, [Next]_vars PROVE KernelWhole'
    OBVIOUS
  <2>1. CASE ~ Program
    <3>1. UNCHANGED <<pc, disk, image>> /\ (gaveup => gaveup')
      BY <2>1, OtherSteps DEF BootInv, ReaderInv, loaderVars, fileVars
    <3> QED  BY <3>1 DEF KernelWhole
  <2>2. CASE Program /\ ~ memcpy
    <3>1. pc' # "jumped"
      BY <2>2 DEF Program, load_sectors, Retry, Probe, Misread, BootSectorBad, load_fat,
         load_root_directory, LoadedRoot, ParseRoot, Parse, LookUpFails, NotFound,
         load_clustered_entry, SkipCluster, read_cluster, StoreCluster, LoadedDirectory, LoadedFile,
         AfterRead, Step
    <3> QED  BY <3>1 DEF KernelWhole
  <2>3. CASE Program /\ memcpy
    <3> SUFFICES ASSUME disk.kernel # NULL, ~ gaveup PROVE image' = disk.kernel
      BY <2>3, ProgramKeeps DEF KernelWhole
    <3> DEFINE n == bytes_to_sectors(Found.size)
    <3>1. /\ pc = "walk" /\ Measures
          /\ image' = IF n > Len(file) THEN file ELSE SubSeq(file, 1, n)
      BY <2>3 DEF memcpy
    <3>2. disk.sound /\ disk.kernel = KernelOf(disk)
      BY LoaderAssumption DEF BootInv, LoaderInv, InDrive
    <3>3. file = Sought /\ Found = Named(disk, Final) /\ n \in 0 .. Len(file)
      BY <3>1, <3>2, WholeFile
    <3>4. ~ (n > Len(file))
      BY <3>3
    <3>5. image' = SubSeq(file, 1, n)
      BY <3>1, <3>4
    <3> HIDE DEF n
    <3> QED  BY <3>2, <3>3, <3>5 DEF KernelOf, Sought, Final, n
  <2> QED  BY <2>1, <2>2, <2>3
<1> QED  BY <1>1, <1>2, BootInit, BootStep, PTL DEF Spec

(* A walk that repeats one that has led to the file does not fail.         *)
LEMMA FoundAgain ==
  ASSUME BootInv, Clean, pc = "walk", pass # "open"
  PROVE  /\ Descends \/ LoadsFile \/ Measures
         /\ Descends \/ LoadsFile => Zalloc(Bytes(traverse_chain(Fat, Found.cluster)))
<1>1. Trusted /\ Walking /\ Listed /\ Arrived /\ ~ failed
  BY DEF Clean, Trusted, BootInv, LoaderInv, PathInv
<1>2. /\ Arrives /\ segment \in 1 .. Final /\ Final \in Nat
      /\ pass = "reopen" \/ pass = "size"
  BY <1>1, SegmentCount DEF Arrived, Searching, Walking, Final
<1>3. Found = Named(disk, segment)
  BY <1>1, <1>2, FoundSure DEF Searching, Final
<1>4. CASE segment = Final
  <2>1. Found.kind = "file" /\ LastSegment /\ Zalloc(Bytes(Way(disk, segment)))
    BY <1>2, <1>3, <1>4 DEF Arrives, LastSegment, Final
  <2>2. Way(disk, segment) = traverse_chain(Fat, Found.cluster)
    BY <1>1, <2>1, FoundIs DEF Searching
  <2> QED  BY <1>2, <2>1, <2>2 DEF LoadsFile, Measures
<1>5. CASE segment # Final
  <2>1. segment \in 1 .. Final - 1
    BY <1>2, <1>5
  <2>2. Found.kind = "dir" /\ ~ LastSegment /\ Zalloc(Bytes(Way(disk, segment)))
    BY <1>2, <1>3, <1>5, <2>1 DEF Arrives, Passed, LastSegment, Final
  <2>3. Way(disk, segment) = traverse_chain(Fat, Found.cluster)
    BY <1>1, <2>2, FoundIs DEF Searching
  <2> QED  BY <1>2, <2>2, <2>3 DEF Descends
<1> QED  BY <1>4, <1>5

(* On a sound volume there is a block for everything the path names.       *)
LEMMA SoundBlock ==
  ASSUME BootInv, Clean, disk.sound, pc = "walk", Descends \/ LoadsFile
  PROVE  LET bytes == Bytes(traverse_chain(Fat, Found.cluster))
         IN  Zalloc(bytes) /\ ~ (bytes >= Width)
<1>1. Trusted /\ Walking /\ Listed /\ InDrive /\ Found.kind # "none"
  BY DEF Clean, Trusted, BootInv, LoaderInv, PathInv, Descends, LoadsFile
<1>2. segment \in 1 .. Len(segments) /\ traverse_chain(Fat, Found.cluster) = Way(disk, segment)
  BY <1>1, FoundIs DEF Searching
<1>3. IsSound(disk) /\ Width \in Nat
  BY <1>1, SoundGeometry, LoaderAssumption
<1>4. Bytes(Way(disk, segment)) \in 1 .. Width - 1
  BY <1>2, <1>3 DEF IsSound
<1>5. \A b \in 1 .. Width - 1 : b % Width # 0 /\ ~ (b >= Width)
  BY <1>3
<1> QED  BY <1>2, <1>4, <1>5 DEF Zalloc

(* The uses of memory that a step adds while no read has failed.           *)
LEMMA FaultSteps ==
  ASSUME BootInv, Program, Clean
  PROVE  \E f : /\ faults' = faults \cup f /\ "copy_all" \notin f
                /\ disk.sound => f \subseteq {"null_chain"}
<1>1. InDrive /\ (disk.sound => ~ (fat_bytes(disk) >= Width) /\ disk.boot = "good")
  <2>1. InDrive
    BY DEF BootInv, LoaderInv
  <2>2. fat_bytes(disk) \in Nat /\ Width \in Nat
    BY <2>1, FatIsTable, LoaderAssumption
  <2> QED  BY <2>1, <2>2, SoundGeometry
<1>2. \A b : "copy_all" \notin Overrun(b) /\ (~ (b >= Width) => Overrun(b) = {})
  BY DEF Overrun
<1>3. CASE BootSectorBad
  <2>1. Note(IF got = <<>> THEN {} ELSE {"null_root"}) /\ (got = <<>> \/ disk.boot # "good")
    BY <1>3 DEF BootSectorBad
  <2>2. disk.sound => got = <<>>
    BY <1>1, <2>1
  <2> DEFINE f == IF got = <<>> THEN {} ELSE {"null_root"}
  <2>3. faults' = faults \cup f /\ "copy_all" \notin f /\ (disk.sound => f \subseteq {"null_chain"})
    BY <2>1, <2>2 DEF Note
  <2> QED  BY <2>3
<1>4. CASE load_fat
  <2> DEFINE f == Overrun(fat_bytes(disk))
  <2>1. faults' = faults \cup f
    BY <1>4 DEF load_fat, Note
  <2>2. "copy_all" \notin f /\ (disk.sound => f \subseteq {"null_chain"})
    BY <1>1, <1>2
  <2> QED  BY <2>1, <2>2
<1>5. ASSUME NEW s, Parse(s)
      PROVE  \E f : /\ faults' = faults \cup f /\ "copy_all" \notin f
                    /\ disk.sound => f \subseteq {"null_chain"}
  <2> DEFINE pd   == parse_dir(Fat, Entries(disk, s))
             lost == fat_bytes(disk) >= Width /\ \E i \in DOMAIN pd.entries : pd.entries[i].kind = "dir"
             f    == (IF pd.null THEN {"null_chain"} ELSE {}) \cup (IF lost THEN {"bad_fat"} ELSE {})
  <2>1. faults' = faults \cup f
    BY <1>5 DEF Parse, Note
  <2>2. disk.sound => ~ lost
    BY <1>1
  <2> HIDE DEF pd, lost
  <2>3. "copy_all" \notin f /\ (disk.sound => f \subseteq {"null_chain"})
    BY <2>2
  <2> QED  BY <2>1, <2>3
<1>6. CASE ParseRoot \/ LoadedDirectory
  BY <1>5, <1>6 DEF ParseRoot, LoadedDirectory
<1>7. CASE UNCHANGED faults
  <2> DEFINE f == {}
  <2>1. faults' = faults \cup f /\ "copy_all" \notin f /\ f \subseteq {"null_chain"}
    BY <1>7
  <2> HIDE DEF f
  <2> QED  BY <2>1
<1>8. CASE LookUpFails
  <2>1. pc = "walk" /\ ~ (Descends \/ LoadsFile \/ Measures) /\ NotFound
    BY <1>8 DEF LookUpFails
  <2>2. pass = "open"
    BY <2>1, FoundAgain
  <2> QED  BY <1>7, <2>1, <2>2 DEF NotFound
<1>9. CASE load_clustered_entry
  <2> DEFINE bytes == Bytes(traverse_chain(Fat, Found.cluster))
  <2>1. /\ pc = "walk" /\ (Descends \/ LoadsFile)
        /\ \/ /\ ~ Zalloc(bytes)
              /\ IF pass = "size" THEN pc' = "wild" /\ Note({"null_dir"}) ELSE NotFound
           \/ Note(Overrun(bytes))
    BY <1>9 DEF load_clustered_entry
  <2>2. disk.sound => Zalloc(bytes) /\ ~ (bytes >= Width)
    BY <2>1, SoundBlock
  <2>3. pass # "open" => Zalloc(bytes)
    BY <2>1, FoundAgain
  <2> HIDE DEF bytes
  <2>4. CASE ~ Zalloc(bytes)
    <3>1. pass = "open"
      BY <2>3, <2>4
    <3>2. UNCHANGED faults \/ Note(Overrun(bytes))
      BY <2>1, <3>1 DEF NotFound
    <3>3. CASE Note(Overrun(bytes))
      BY <1>2, <2>2, <2>4, <3>3 DEF Note
    <3> QED  BY <1>7, <3>2, <3>3
  <2>5. CASE Zalloc(bytes)
    <3>1. faults' = faults \cup Overrun(bytes)
      BY <2>1, <2>5 DEF Note
    <3>2. "copy_all" \notin Overrun(bytes) /\ (disk.sound => Overrun(bytes) \subseteq {"null_chain"})
      BY <1>2, <2>2
    <3> QED  BY <3>1, <3>2
  <2> QED  BY <2>4, <2>5
<1>10. CASE memcpy
  <2> DEFINE n == bytes_to_sectors(Found.size)
             f == IF n > Len(file) THEN {"long_copy"} ELSE {}
  <2>1. pc = "walk" /\ Measures /\ faults' = faults \cup f
    BY <1>10 DEF memcpy, Note
  <2>2. disk.sound => n \in 0 .. Len(file)
    BY <2>1, WholeFile DEF Clean
  <2> HIDE DEF n
  <2>3. "copy_all" \notin f /\ (disk.sound => f \subseteq {"null_chain"})
    BY <2>2
  <2> QED  BY <2>1, <2>3
<1>11. \/ BootSectorBad \/ load_fat \/ ParseRoot \/ LoadedDirectory \/ LookUpFails
       \/ load_clustered_entry \/ memcpy \/ UNCHANGED faults
  BY DEF Program, load_sectors, Probe, Misread, load_root_directory, LoadedRoot, SkipCluster,
     read_cluster, StoreCluster, LoadedFile
<1> QED  BY <1>3, <1>4, <1>6, <1>7, <1>8, <1>9, <1>10, <1>11

(* While no read has failed and no wait was given up, a sound volume makes *)
(* the loader use no memory but its own, apart from the chain of a "..",   *)
(* and no volume makes load_raw_kernel copy UINT32_MAX bytes: what open    *)
(* has found, get_file_size finds again.                                   *)
THEOREM FaultsAlwaysExplained == Spec => []FaultsExplained
<1>1. Init => FaultsExplained
  BY DEF Init, FaultsExplained
<1>2. BootInv /\ FaultsExplained /\ [Next]_vars => FaultsExplained'
  <2> SUFFICES ASSUME BootInv, FaultsExplained, [Next]_vars PROVE FaultsExplained'
    OBVIOUS
  <2>1. CASE ~ Program
    <3>1. UNCHANGED <<disk, failed, faults>> /\ (gaveup => gaveup')
      BY <2>1, OtherSteps DEF BootInv, ReaderInv, loaderVars
    <3> QED  BY <3>1 DEF FaultsExplained, Clean
  <2>2. CASE Program
    <3>1. disk' = disk /\ gaveup' = gaveup /\ (failed => failed')
      BY <2>2, ProgramKeeps, TrustedBefore
    <3>2. CASE Clean'
      <4>1. Clean
        BY <3>1, <3>2 DEF Clean
      <4>2. PICK f : /\ faults' = faults \cup f /\ "copy_all" \notin f
                     /\ disk.sound => f \subseteq {"null_chain"}
        BY <2>2, <4>1, FaultSteps
      <4> QED  BY <3>1, <4>1, <4>2 DEF FaultsExplained
    <3>3. CASE ~ Clean'
      BY <3>3 DEF FaultsExplained
    <3> QED  BY <3>2, <3>3
  <2> QED  BY <2>1, <2>2
<1> QED  BY <1>1, <1>2, BootInit, BootStep, PTL DEF Spec
===============================================================================
