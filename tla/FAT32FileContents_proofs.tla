---------------------- MODULE FAT32FileContents_proofs ----------------------
(***************************************************************************)
(* Proofs about what the chains of FAT32File hold: that chains only grow,  *)
(* where a handle stands, which bytes a file has, and which clusters are   *)
(* in use.  They rest on the invariants of FAT32File_proofs.               *)
(***************************************************************************)
EXTENDS FAT32File_proofs, FiniteSetTheorems, WellFoundedInduction

USE DEF disk, vars

-----------------------------------------------------------------------------
(* Induction, as the existence of a least element.                         *)
LEMMA LeastElement ==
    ASSUME NEW T \in SUBSET Nat, T # {}
    PROVE  \E m \in T : \A k \in T : m <= k
<1> DEFINE R == StrictSubsetOrdering(Nat)
           S == FiniteSubsetsOf(Nat)
           I == {0 .. m : m \in T}
<1>1. IsWellFoundedOn(R, S)
  BY FS_StrictSubsetOrderingWellFounded
<1>2. \A m \in T : 0 .. m \in S
  BY FS_Interval DEF FiniteSubsetsOf
<1>3. I \subseteq S /\ I # {}
  BY <1>2
<1>4. \A k, m \in T : k < m => <<0 .. k, 0 .. m>> \in R
  <2> SUFFICES ASSUME NEW k \in T, NEW m \in T, k < m
               PROVE  <<0 .. k, 0 .. m>> \in R
    OBVIOUS
  <2>1. 0 .. k \subseteq 0 .. m /\ m \in 0 .. m /\ m \notin 0 .. k
    OBVIOUS
  <2>2. 0 .. k \in SUBSET Nat /\ 0 .. m \in SUBSET Nat /\ 0 .. k # 0 .. m
    BY <2>1
  <2> QED BY <2>1, <2>2 DEF StrictSubsetOrdering
<1>5. \E x \in I : \A y \in I : ~(<<y, x>> \in R)
  <2> HIDE DEF I, R, S
  <2> QED BY <1>1, <1>3, WFMin
<1>6. PICK m \in T : \A y \in I : ~(<<y, 0 .. m>> \in R)
  BY <1>5
<1>7. \A k \in T : ~(k < m)
  BY <1>4, <1>6
<1> QED BY <1>7

-----------------------------------------------------------------------------
(* Chains.                                                                 *)
Links == 0 .. MaxCluster - 2

\* What follows d in the table t.
Following(t, d) == IF OutOfRange(d) THEN EOF ELSE t[d]

\* Chain for a table t.
Walks(t, c, walk, N) ==
    walk = [n \in 0 .. N |-> IF n = 0 THEN c ELSE Following(t, walk[n - 1])]
Walk(t, c) == CHOOSE walk : Walks(t, c, walk, MaxCluster - 2)

LEMMA WalkIsChain == \A c : Chain(c) = Walk(table, c)
BY DEF Chain, Walk, Walks, Following

LEMMA WalkExists ==
    ASSUME NEW t, NEW c
    PROVE  \A N \in Nat : \E walk : Walks(t, c, walk, N)
<1> SUFFICES ASSUME NEW N0 \in Nat, ~\E walk : Walks(t, c, walk, N0)
             PROVE  FALSE
  OBVIOUS
<1> DEFINE T == {N \in Nat : ~\E walk : Walks(t, c, walk, N)}
<1>1. PICK N \in T : \A k \in T : N <= k
  BY LeastElement
<1>2. CASE N = 0
  <2> DEFINE walk == [n \in 0 .. 0 |-> c]
  <2>1. Walks(t, c, walk, 0)
    BY DEF Walks
  <2> QED BY <1>1, <1>2, <2>1
<1>3. CASE N # 0
  <2>1. N - 1 \in Nat /\ N - 1 \notin T
    BY <1>1, <1>3
  <2>2. PICK walk : Walks(t, c, walk, N - 1)
    BY <2>1
  <2> DEFINE longer == [n \in 0 .. N |-> IF n = N THEN Following(t, walk[N - 1])
                                                  ELSE walk[n]]
  <2>3. \A n \in 0 .. N :
           longer[n] = IF n = 0 THEN c ELSE Following(t, longer[n - 1])
    <3> SUFFICES ASSUME NEW n \in 0 .. N
                 PROVE  longer[n] = IF n = 0 THEN c ELSE Following(t, longer[n - 1])
      OBVIOUS
    <3>1. CASE n = N
      BY <1>3, <2>1, <3>1
    <3>2. CASE n # N
      <4>1. n \in 0 .. N - 1
        BY <2>1, <3>2
      <4>2. walk[n] = IF n = 0 THEN c ELSE Following(t, walk[n - 1])
        BY <2>2, <4>1 DEF Walks
      <4> QED BY <2>1, <3>2, <4>1, <4>2
    <3> QED BY <3>1, <3>2
  <2>4. Walks(t, c, longer, N)
    <3> HIDE DEF longer
    <3> DEFINE rhs == [n \in 0 .. N |-> IF n = 0 THEN c ELSE Following(t, longer[n - 1])]
    <3>1. longer = [n \in 0 .. N |-> longer[n]]
      BY DEF longer
    <3>2. longer = rhs
      BY <2>3, <3>1
    <3> QED BY <3>2 DEF Walks
  <2> QED BY <1>1, <2>4
<1> QED BY <1>2, <1>3

(* The n-th cluster of a walk.                                             *)
LEMMA WalkSteps ==
    ASSUME NEW t, NEW c
    PROVE  /\ Walk(t, c)[0] = c
           /\ \A n \in Links : n # 0 =>
                 Walk(t, c)[n] = Following(t, Walk(t, c)[n - 1])
<1>1. MaxCluster - 2 \in Nat
  BY MaxClusterAssumption
<1>2. \E walk : Walks(t, c, walk, MaxCluster - 2)
  BY <1>1, WalkExists
<1>3. Walks(t, c, Walk(t, c), MaxCluster - 2)
  BY <1>2 DEF Walk
<1> HIDE DEF Walk
<1>4. PICK walk : walk = Walk(t, c) /\ Walks(t, c, walk, MaxCluster - 2)
  BY <1>3
<1>5. \A n \in Links : walk[n] = IF n = 0 THEN c ELSE Following(t, walk[n - 1])
  BY <1>4 DEF Walks, Links
<1>6. 0 \in Links
  BY <1>1 DEF Links
<1> QED BY <1>4, <1>5, <1>6

LEMMA LinksInduction ==
    ASSUME NEW S \in SUBSET Links, 0 \in S,
           \A n \in Links : n # 0 /\ n - 1 \in S => n \in S
    PROVE  S = Links
<1> SUFFICES ASSUME Links \ S # {} PROVE FALSE
  OBVIOUS
<1>1. Links \ S \in SUBSET Nat
  BY DEF Links
<1>2. PICK m \in Links \ S : \A k \in Links \ S : m <= k
  BY <1>1, LeastElement
<1>3. m # 0 /\ m - 1 \in Links
  BY <1>2, MaxClusterAssumption DEF Links
<1>4. m \in Int /\ ~(m <= m - 1)
  BY <1>2 DEF Links
<1>5. m - 1 \in S
  BY <1>2, <1>3, <1>4
<1> QED BY <1>2, <1>3, <1>5

LEMMA WalkTypes ==
    ASSUME NEW t \in [Clusters -> Entry], NEW c \in Entry
    PROVE  \A n \in Links : Walk(t, c)[n] \in Entry
<1> DEFINE S == {n \in Links : Walk(t, c)[n] \in Entry}
<1>1. 0 \in S
  BY WalkSteps, MaxClusterAssumption DEF Links
<1>2. \A d \in Entry : Following(t, d) \in Entry
  BY ConstantTypes DEF Following
<1>3. \A n \in Links : n # 0 /\ n - 1 \in S => n \in S
  BY <1>2, WalkSteps
<1> HIDE DEF S
<1>4. S = Links
  BY <1>1, <1>3, LinksInduction DEF S
<1> QED BY <1>4 DEF S

(* A cluster on a walk was linked by the one before it.                    *)
LEMMA WalkLink ==
    ASSUME NEW t \in [Clusters -> Entry], NEW c \in Entry,
           NEW n \in Links, n # 0, Walk(t, c)[n] \in Clusters
    PROVE  /\ n - 1 \in Links
           /\ Walk(t, c)[n - 1] \in Clusters
           /\ t[Walk(t, c)[n - 1]] = Walk(t, c)[n]
<1>1. n - 1 \in Links
  BY MaxClusterAssumption DEF Links
<1>2. Walk(t, c)[n] = Following(t, Walk(t, c)[n - 1])
  BY WalkSteps
<1>3. Walk(t, c)[n - 1] \in Entry
  BY <1>1, WalkTypes
<1>4. EOF \notin Clusters
  BY ConstantTypes
<1> QED BY <1>1, <1>2, <1>3, <1>4, ConstantTypes DEF Following

LEMMA WalkInside ==
    ASSUME NEW t \in [Clusters -> Entry], NEW c \in Entry,
           NEW m \in Links, NEW n \in Links, m <= n, Walk(t, c)[n] \in Clusters
    PROVE  Walk(t, c)[m] \in Clusters
<1> DEFINE S == {k \in Links : k >= m /\ Walk(t, c)[k] \in Clusters
                                 => Walk(t, c)[m] \in Clusters}
<1>1. 0 \in S
  BY MaxClusterAssumption DEF Links
<1>2. ASSUME NEW k \in Links, k # 0, k - 1 \in S PROVE k \in S
  <2> SUFFICES ASSUME k >= m, Walk(t, c)[k] \in Clusters
               PROVE  Walk(t, c)[m] \in Clusters
    OBVIOUS
  <2>1. k = m \/ k - 1 >= m
    BY DEF Links
  <2>2. Walk(t, c)[k - 1] \in Clusters
    BY <1>2, WalkLink
  <2> QED BY <1>2, <2>1, <2>2
<1> HIDE DEF S
<1>3. S = Links
  BY <1>1, <1>2, LinksInduction DEF S
<1> QED BY <1>3 DEF S

(* A table that differs only off the walk has the same walk.               *)
LEMMA WalkFrame ==
    ASSUME NEW t, NEW u, NEW c, NEW m \in Links,
           \A i \in Links : i < m /\ ~OutOfRange(Walk(t, c)[i]) =>
                u[Walk(t, c)[i]] = t[Walk(t, c)[i]]
    PROVE  \A i \in Links : i <= m => Walk(u, c)[i] = Walk(t, c)[i]
<1> DEFINE S == {i \in Links : i <= m => Walk(u, c)[i] = Walk(t, c)[i]}
<1>1. 0 \in S
  BY WalkSteps, MaxClusterAssumption DEF Links
<1>2. ASSUME NEW i \in Links, i # 0, i - 1 \in S PROVE i \in S
  <2> SUFFICES ASSUME i <= m PROVE Walk(u, c)[i] = Walk(t, c)[i]
    OBVIOUS
  <2>1. i - 1 < m /\ i - 1 <= m /\ i - 1 \in Links
    BY <1>2 DEF Links
  <2>2. Walk(u, c)[i - 1] = Walk(t, c)[i - 1]
    BY <1>2, <2>1
  <2>3. /\ Walk(u, c)[i] = Following(u, Walk(u, c)[i - 1])
        /\ Walk(t, c)[i] = Following(t, Walk(t, c)[i - 1])
    BY <1>2, WalkSteps
  <2> QED BY <2>1, <2>2, <2>3 DEF Following
<1> HIDE DEF S
<1>3. S = Links
  BY <1>1, <1>2, LinksInduction DEF S
<1> QED BY <1>3 DEF S

\* No cluster is linked twice; nothing links to c.
LinkedOnce(t) ==
    \A c, d \in Clusters : t[c] = t[d] /\ t[c] \in Clusters => c = d
Unlinked(t, c) == c \in Clusters /\ \A d \in Clusters : t[d] # c

(* Walks from clusters nothing links to do not meet, nor do they meet      *)
(* themselves.                                                             *)
LEMMA WalksApart ==
    ASSUME NEW t \in [Clusters -> Entry], LinkedOnce(t),
           NEW a, NEW b, Unlinked(t, a), Unlinked(t, b)
    PROVE  \A i, j \in Links :
              Walk(t, a)[i] \in Clusters /\ Walk(t, a)[i] = Walk(t, b)[j]
                => a = b /\ i = j
<1> DEFINE Meet(i, j) == Walk(t, a)[i] \in Clusters /\ Walk(t, a)[i] = Walk(t, b)[j]
           S == {i \in Links : \A j \in Links : Meet(i, j) => a = b /\ i = j}
<1>1. a \in Entry /\ b \in Entry
  BY ConstantTypes DEF Unlinked
<1>2. 0 \in S
  <2> SUFFICES ASSUME NEW j \in Links, Meet(0, j) PROVE a = b /\ 0 = j
    BY MaxClusterAssumption DEF Links
  <2>1. Walk(t, a)[0] = a /\ Walk(t, b)[0] = b
    BY WalkSteps
  <2>2. CASE j = 0
    BY <2>1, <2>2
  <2>3. CASE j # 0
    <3>1. Walk(t, b)[j] \in Clusters /\ Walk(t, b)[j] = a
      BY <2>1
    <3>2. /\ Walk(t, b)[j - 1] \in Clusters
          /\ t[Walk(t, b)[j - 1]] = Walk(t, b)[j]
      BY <1>1, <2>3, <3>1, WalkLink
    <3> QED BY <3>1, <3>2 DEF Unlinked
  <2> QED BY <2>2, <2>3
<1>3. ASSUME NEW i \in Links, i # 0, i - 1 \in S PROVE i \in S
  <2> SUFFICES ASSUME NEW j \in Links, Meet(i, j) PROVE a = b /\ i = j
    OBVIOUS
  <2>1. /\ i - 1 \in Links /\ Walk(t, a)[i - 1] \in Clusters
        /\ t[Walk(t, a)[i - 1]] = Walk(t, a)[i]
    BY <1>1, <1>3, WalkLink
  <2>2. CASE j = 0
    <3>1. Walk(t, b)[0] = b
      BY WalkSteps
    <3> QED BY <2>1, <2>2, <3>1 DEF Unlinked
  <2>3. CASE j # 0
    <3>1. /\ j - 1 \in Links /\ Walk(t, b)[j - 1] \in Clusters
          /\ t[Walk(t, b)[j - 1]] = Walk(t, b)[j]
      BY <1>1, <2>3, WalkLink
    <3>2. Walk(t, a)[i - 1] = Walk(t, b)[j - 1]
      BY <2>1, <3>1 DEF LinkedOnce
    <3>3. a = b /\ i - 1 = j - 1
      BY <1>3, <2>1, <3>1, <3>2
    <3> QED BY <3>3 DEF Links
  <2> QED BY <2>2, <2>3
<1> HIDE DEF S
<1>4. S = Links
  BY <1>2, <1>3, LinksInduction DEF S
<1> QED BY <1>4 DEF S

(* A walk that leaves out cluster 2 ends before the table does.            *)
LEMMA WalkIsShort ==
    ASSUME NEW t \in [Clusters -> Entry], LinkedOnce(t),
           NEW c, Unlinked(t, c), c # 2, \A d \in Clusters : t[d] # 2,
           NEW n \in Links, Walk(t, c)[n] \in Clusters
    PROVE  n + 1 \in Links
<1> SUFFICES ASSUME n = MaxCluster - 2 PROVE FALSE
  BY MaxClusterAssumption DEF Links
<1> DEFINE S == 0 .. n
           U == 3 .. MaxCluster
           walk == [i \in S |-> Walk(t, c)[i]]
<1>1. c \in Entry /\ n \in Nat /\ MaxCluster \in Nat
  BY ConstantTypes, MaxClusterAssumption DEF Unlinked
<1>2. ASSUME NEW i \in S PROVE Walk(t, c)[i] \in U
  <2>1. i \in Links
    BY <1>1 DEF Links
  <2>2. Walk(t, c)[i] \in Clusters
    BY <1>1, <2>1, WalkInside
  <2>3. Walk(t, c)[i] # 2
    BY <1>1, <2>1, <2>2, WalkLink, WalkSteps
  <2> QED BY <1>1, <2>2, <2>3 DEF Clusters
<1>3. /\ IsFiniteSet(S) /\ Cardinality(S) = n + 1
      /\ IsFiniteSet(U) /\ Cardinality(U) = MaxCluster - 2
  <2>1. 0 \in Int /\ 3 \in Int /\ MaxCluster \in Int /\ n \in Int
    BY <1>1
  <2>2. IsFiniteSet(S) /\ Cardinality(S) = n + 1
    BY <1>1, <2>1, FS_Interval
  <2>3. /\ IsFiniteSet(U)
        /\ Cardinality(U) = IF 3 > MaxCluster THEN 0 ELSE MaxCluster - 3 + 1
    BY <2>1, FS_Interval
  <2>4. MaxCluster >= 2
    BY MaxClusterAssumption
  <2> QED BY <1>1, <2>2, <2>3, <2>4
<1>4. walk \in [S -> U]
  BY <1>2
<1>5. Cardinality(U) < Cardinality(S)
  BY <1>1, <1>3
<1>6. \E i, j \in S : i # j /\ walk[i] = walk[j]
  <2> HIDE DEF S, U, walk
  <2> QED BY <1>3, <1>4, <1>5, FS_PigeonHole
<1>7. PICK i, j \in S : i # j /\ Walk(t, c)[i] = Walk(t, c)[j]
  BY <1>6
<1>8. i \in Links /\ j \in Links /\ Walk(t, c)[i] \in Clusters
  BY <1>1, <1>2 DEF Links, Clusters
<1> QED BY <1>7, <1>8, WalksApart

-----------------------------------------------------------------------------
(* The chains of the files, while ChainsSafe holds of the volume.          *)
Nth(f, n) == Walk(table, first[f])[n]

LEMMA FileChain ==
    ASSUME TypeOK, ChainsSafe, NEW f \in exists, NEW n \in Links,
           Nth(f, n) \in Clusters
    PROVE  /\ first[f] \in Clusters /\ Unlinked(table, first[f])
           /\ LinkedOnce(table)
           /\ n + 1 \in Links
           /\ table[Nth(f, n)] # Free
           /\ ~Unnamed(Nth(f, n))
<1> USE DEF TypeOK, Nth
<1>1. /\ f \in Files /\ first[f] \in Entry
      /\ first[f] # None => first[f] \in Clusters
      /\ table \in [Clusters -> Entry]
  BY ConstantTypes
<1>2. 0 \in Links /\ 0 <= n
  BY MaxClusterAssumption DEF Links
<1>3. Walk(table, first[f])[0] \in Clusters
  BY <1>1, <1>2, WalkInside
<1>4. first[f] \in Clusters
  BY <1>3, WalkSteps
<1>5. first[f] # None
  BY <1>4, ConstantTypes
<1>6. Unlinked(table, first[f]) /\ LinkedOnce(table)
  BY <1>4, <1>5 DEF ChainsSafe, NoCrossLinks, Unlinked, LinkedOnce
<1>7. first[f] # 2 /\ \A d \in Clusters : table[d] # 2
  BY DEF ChainsSafe, NoCrossLinks
<1>8. n + 1 \in Links
  BY <1>1, <1>6, <1>7, WalkIsShort
<1>9. table[Nth(f, n)] # Free /\ ~Unnamed(Nth(f, n))
  <2>1. CASE n = 0
    <3>1. Nth(f, n) = first[f]
      BY <2>1, WalkSteps
    <3> QED BY <1>5, <3>1 DEF ChainsSafe, NoLinkToFreeCluster, Unnamed
  <2>2. CASE n # 0
    <3>1. PICK d \in Clusters : table[d] = Nth(f, n)
      BY <1>1, <2>2, WalkLink
    <3> HIDE DEF Nth
    <3> QED BY <3>1 DEF ChainsSafe, NoLinkToFreeCluster, Unnamed
  <2> QED BY <2>1, <2>2
<1> QED BY <1>4, <1>6, <1>8, <1>9

LEMMA FileChainsApart ==
    ASSUME TypeOK, ChainsSafe, NEW f \in exists, NEW g \in exists,
           NEW n \in Links, NEW m \in Links,
           Nth(f, n) \in Clusters, Nth(f, n) = Nth(g, m)
    PROVE  f = g /\ n = m
<1>1. /\ Unlinked(table, first[f]) /\ Unlinked(table, first[g])
      /\ LinkedOnce(table) /\ first[f] \in Clusters
      /\ table \in [Clusters -> Entry]
  BY FileChain DEF TypeOK
<1>2. first[f] = first[g] /\ n = m
  BY <1>1, WalksApart DEF Nth
<1>3. first[f] # None
  BY <1>1, ConstantTypes
<1> QED BY <1>2, <1>3 DEF ChainsSafe, NoCrossLinks

(* The next cluster of a chain.                                            *)
LEMMA NextNth ==
    ASSUME TypeOK, ChainsSafe, NEW f \in exists, NEW n \in Links,
           Nth(f, n) \in Clusters
    PROVE  n + 1 \in Links /\ Nth(f, n + 1) = table[Nth(f, n)]
<1>1. n + 1 \in Links
  BY FileChain
<1>2. n + 1 # 0 /\ (n + 1) - 1 = n
  BY DEF Links
<1>3. Nth(f, n + 1) = Following(table, Nth(f, n))
  BY <1>1, <1>2, WalkSteps DEF Nth
<1> QED BY <1>1, <1>3, ConstantTypes DEF Following

-----------------------------------------------------------------------------
(* Offsets in a file and in its clusters.                                  *)
OffsetOf(n) == n * BytesPerCluster

LEMMA OffsetsGrow ==
    /\ OffsetOf(0) = 0
    /\ \A n \in Nat : /\ OffsetOf(n) \in Nat
                      /\ OffsetOf(n + 1) = OffsetOf(n) + BytesPerCluster
    /\ \A m, n \in Nat : m < n => OffsetOf(m) + BytesPerCluster <= OffsetOf(n)
<1>1. BytesPerCluster \in Nat /\ BytesPerCluster > 0
  BY FileAssumption
<1>2. \A n \in Nat : n * BytesPerCluster \in Nat
  BY <1>1
<1>3. \A n \in Nat : (n + 1) * BytesPerCluster = n * BytesPerCluster + BytesPerCluster
  BY <1>1
<1>4. ASSUME NEW m \in Nat, NEW n \in Nat, m < n
      PROVE  m * BytesPerCluster + BytesPerCluster <= n * BytesPerCluster
  <2>1. n - (m + 1) \in Nat
    BY <1>4
  <2>2. (n - (m + 1)) * BytesPerCluster \in Nat
    BY <1>2, <2>1
  <2>3. n * BytesPerCluster
          = (n - (m + 1)) * BytesPerCluster + (m + 1) * BytesPerCluster
    BY <1>1, <1>4
  <2> QED BY <1>2, <1>3, <2>2, <2>3
<1>5. 0 * BytesPerCluster = 0
  BY <1>1
<1> QED BY <1>2, <1>3, <1>4, <1>5 DEF OffsetOf

LEMMA OffsetsDivide ==
    ASSUME NEW o \in Nat
    PROVE  /\ o \div BytesPerCluster \in Nat
           /\ o % BytesPerCluster \in Places
           /\ o = OffsetOf(o \div BytesPerCluster) + (o % BytesPerCluster)
           /\ \A n \in Nat, j \in Places :
                 o = OffsetOf(n) + j => n = o \div BytesPerCluster
                                        /\ j = o % BytesPerCluster
<1>1. BytesPerCluster \in Nat /\ BytesPerCluster > 0
  BY FileAssumption
<1>2. /\ o \div BytesPerCluster \in Nat
      /\ o % BytesPerCluster \in 0 .. BytesPerCluster - 1
      /\ o = BytesPerCluster * (o \div BytesPerCluster) + (o % BytesPerCluster)
  BY <1>1
<1>3. o = OffsetOf(o \div BytesPerCluster) + (o % BytesPerCluster)
  BY <1>1, <1>2 DEF OffsetOf
<1>4. ASSUME NEW n \in Nat, NEW j \in Places, o = OffsetOf(n) + j
      PROVE  n = o \div BytesPerCluster /\ j = o % BytesPerCluster
  <2> DEFINE q == o \div BytesPerCluster
             r == o % BytesPerCluster
  <2>1. q \in Nat /\ r \in 0 .. BytesPerCluster - 1 /\ o = OffsetOf(q) + r
    BY <1>2, <1>3
  <2> HIDE DEF q, r
  <2>2. /\ OffsetOf(n) \in Nat /\ OffsetOf(q) \in Nat
        /\ n < q => OffsetOf(n) + BytesPerCluster <= OffsetOf(q)
        /\ q < n => OffsetOf(q) + BytesPerCluster <= OffsetOf(n)
    BY <2>1, OffsetsGrow
  <2>3. j \in 0 .. BytesPerCluster - 1
    BY DEF Places
  <2>4. n = q
    BY <1>1, <1>4, <2>1, <2>2, <2>3
  <2>5. j = r
    BY <1>1, <1>4, <2>1, <2>2, <2>3, <2>4
  <2> QED BY <2>4, <2>5 DEF q, r
<1> QED BY <1>2, <1>3, <1>4 DEF Places

-----------------------------------------------------------------------------
\* The chain of c in the table t has a cluster for each of s bytes.
Reaches(t, c, s) ==
    \A n \in Nat : OffsetOf(n) < s => n \in Links /\ Walk(t, c)[n] \in Clusters

\* The handle x stands in the chain of c, where its offset is.
StandsAt(t, c, x, n) ==
    /\ n \in Links
    /\ Walk(t, c)[n] = x.current /\ x.current \in Clusters
    /\ x.in_file = OffsetOf(n) + x.in_cluster
Stands(t, c, x) ==
    /\ x.first = c
    /\ IF x.current = None THEN c = None /\ x.in_file = 0 /\ x.in_cluster = 0
       ELSE \E n \in Links : StandsAt(t, c, x, n)

\* The chain of c in t is the beginning of the chain of d in u.
Grows(t, c, u, d) ==
    \A n \in Links : Walk(t, c)[n] \in Clusters => Walk(u, d)[n] = Walk(t, c)[n]

LEMMA ReachesGrows ==
    ASSUME NEW t, NEW c, NEW u, NEW d, NEW s, Grows(t, c, u, d), Reaches(t, c, s)
    PROVE  Reaches(u, d, s)
BY DEF Grows, Reaches

LEMMA StandsGrows ==
    ASSUME NEW t, NEW c, NEW u, NEW x, Grows(t, c, u, c), Stands(t, c, x)
    PROVE  Stands(u, c, x)
BY DEF Grows, Stands, StandsAt

LEMMA GrowsSame == \A t, c : Grows(t, c, t, c)
BY DEF Grows

(* A chain that is changed at a cluster it does not have, or at its end.   *)
LEMMA GrowsExcept ==
    ASSUME NEW t \in [Clusters -> Entry], NEW c \in Entry, NEW d,
           NEW u, \A w \in Clusters \ {d} : u[w] = t[w],
           \A n \in Links : Walk(t, c)[n] \in Clusters /\ Walk(t, c)[n] = d
                              => t[d] \notin Clusters
    PROVE  Grows(t, c, u, c)
<1> SUFFICES ASSUME NEW n \in Links, Walk(t, c)[n] \in Clusters
             PROVE  Walk(u, c)[n] = Walk(t, c)[n]
  BY DEF Grows
<1>1. ASSUME NEW i \in Links, i < n, ~OutOfRange(Walk(t, c)[i])
      PROVE  u[Walk(t, c)[i]] = t[Walk(t, c)[i]]
  <2>1. i + 1 \in Links /\ i + 1 # 0 /\ (i + 1) - 1 = i /\ i + 1 <= n
    BY <1>1, MaxClusterAssumption DEF Links
  <2>2. Walk(t, c)[i + 1] \in Clusters
    BY <2>1, WalkInside
  <2>3. Walk(t, c)[i] \in Clusters /\ t[Walk(t, c)[i]] \in Clusters
    BY <2>1, <2>2, WalkLink
  <2>4. Walk(t, c)[i] # d
    BY <2>3
  <2> QED BY <2>3, <2>4
<1>2. n <= n
  BY DEF Links
<1> QED BY <1>1, <1>2, WalkFrame

-----------------------------------------------------------------------------
(* What holds while the chains are safe: the chain of a file has a cluster *)
(* for every byte of its size, on the device and in its handle, and the    *)
(* handle stands in that chain, at its offset.                             *)
SizesReached ==
    /\ \A f \in exists : Reaches(table, first[f], size[f])
    /\ \A f \in Files \ exists : size[f] = 0

\* The handle x of a file whose entry has the first cluster c and the size s.
HandleStands(t, c, s, x) ==
    x.open => Stands(t, c, x) /\ Reaches(t, c, x.size) /\ s <= x.size
HandlesStand ==
    \A f \in Files : HandleStands(table, first[f], size[f], handle[f])

\* Where the handle of the operation in progress is.
OperationStands ==
    /\ op.step \notin {"idle", "release"} => h.open
    /\ op.step \in {"first", "set_first"} => h.current = None
    /\ op.step \in {"seek", "read", "write", "next", "link", "rollback",
                    "update_entry"} => h.current # None
    /\ op.step \in {"next", "link"} => h.in_cluster = BytesPerCluster
    /\ op.step = "link" => table[h.current] = EOF

\* A seek stays inside the file, and one that belongs to a write ends where
\* the file does.
SeeksAim ==
    /\ op.step = "seek" => op.target <= h.size
    /\ op.step = "seek" /\ op.remaining # 0 => op.target = h.size
    /\ op.step = "append" => h.in_file = h.size

NoDefects == \A c \in Clusters : table[c] # Defective

ContentInv == /\ SizesReached /\ HandlesStand
              /\ OperationStands /\ SeeksAim /\ NoDefects

(* The changes of the table a step can make.                               *)
LEMMA TableChanges ==
    ASSUME TypeInv, ChainInv, Sure', Next
    PROVE  \/ UNCHANGED table
           \/ \E d \in Entry, v \in {Free, EOF} \cup Clusters :
                 /\ table' = [table EXCEPT ![d] = v]
                 /\ \/ d \in Clusters /\ (table[d] = Free \/ Unnamed(d))
                    \/ op.step = "link" /\ d = h.current
<1> DEFINE Changed(d, v) ==
              /\ table' = [table EXCEPT ![d] = v]
              /\ \/ d \in Clusters /\ (table[d] = Free \/ Unnamed(d))
                 \/ op.step = "link" /\ d = h.current
           Goal == \/ UNCHANGED table
                   \/ \E d \in Entry, v \in {Free, EOF} \cup Clusters : Changed(d, v)
<1> USE DEF TypeInv, TypeOK
<1> SUFFICES Goal
  OBVIOUS
<1>1. CASE Remount
  BY <1>1 DEF Remount
<1>2. CASE ReleaseNext
  <2>1. CASE OutOfRange(op.pending)
    BY <1>2, <2>1 DEF ReleaseNext
  <2>2. CASE ~OutOfRange(op.pending)
    <3>1. op.pending \in Clusters /\ op.pending \in Entry
      BY <2>2, ConstantTypes DEF Operation
    <3>2. Unnamed(op.pending)
      BY <1>2, <3>1 DEF ReleaseNext, ChainInv, PendingIsUnnamed
    <3>3. UNCHANGED table \/ table' = [table EXCEPT ![op.pending] = Free]
      BY <1>2, <2>2 DEF ReleaseNext, UpdateFATTableEntry
    <3>4. UNCHANGED table \/ Changed(op.pending, Free)
      BY <3>1, <3>2, <3>3
    <3> QED BY <3>1, <3>4
  <2> QED BY <2>1, <2>2
<1>3. CASE ReleaseUnlinkedCluster
  <2>1. op.pending \in Clusters /\ op.pending \in Entry /\ Unnamed(op.pending)
    BY <1>3, ConstantTypes
       DEF ReleaseUnlinkedCluster, ChainInv, PendingIsUnnamed
  <2>2. UNCHANGED table \/ table' = [table EXCEPT ![op.pending] = Free]
    BY <1>3 DEF ReleaseUnlinkedCluster, UpdateFATTableEntry
  <2>3. UNCHANGED table \/ Changed(op.pending, Free)
    BY <2>1, <2>2
  <2> QED BY <2>1, <2>3
<1>4. CASE ClaimFirstCluster \/ ClaimNextCluster
  <2>1. \E step, start : Claim(step, start)
    BY <1>4 DEF ClaimFirstCluster, ClaimNextCluster
  <2>2. \/ UNCHANGED table
        \/ \E c \in Clusters : c \in FreeClusters /\ table' = [table EXCEPT ![c] = EOF]
    BY <2>1 DEF Claim, NextEmpty, UpdateFATTableEntry
  <2> QED BY <2>2, ConstantTypes DEF FreeClusters
<1>5. CASE LinkNextCluster
  <2>1. h.current \in Entry /\ op.pending \in Clusters /\ op.step = "link"
    BY <1>5, OpenHandle DEF LinkNextCluster, Handle
  <2>2. UNCHANGED table \/ table' = [table EXCEPT ![h.current] = op.pending]
    BY <1>5 DEF LinkNextCluster, UpdateFATTableEntry
  <2>3. UNCHANGED table \/ Changed(h.current, op.pending)
    BY <2>1, <2>2
  <2> QED BY <2>1, <2>3
<1>6. CASE \/ SeekStep \/ ReadStep \/ AppendHere \/ SetDirectoryEntryFirstCluster
           \/ WriteCluster \/ MoveToNextCluster \/ UpdateDirectoryEntrySize
  BY <1>6 DEF SeekStep, ReadStep, AppendHere, SetDirectoryEntryFirstCluster,
              WriteCluster, MoveToNextCluster, UpdateDirectoryEntrySize
<1>7. ASSUME NEW f \in Files,
             \/ \E append \in AppendModes : CreateFile(f, append) \/ OpenFile(f, append)
             \/ Close(f) \/ DeleteFile(f)
             \/ \E p, n : StartSeek(f, p, n)
             \/ \E n \in 1 .. MaxLength : Read(f, n) \/ Write(f, n)
      PROVE  UNCHANGED table
  <2>1. \A p, n : StartSeek(f, p, n) => UNCHANGED table
    BY DEF StartSeek
  <2> QED BY <1>7, <2>1 DEF CreateFile, OpenFile, Close, DeleteFile, Read, Write
<1> QED BY <1>1, <1>2, <1>3, <1>4, <1>5, <1>6, <1>7, NextCases DEF Step

(* The changes of the first clusters a step can make.                      *)
LEMMA FirstChanges ==
    ASSUME TypeInv, Next
    PROVE  \/ UNCHANGED first
           \/ \E f \in Files : f \notin exists' /\ first' = [first EXCEPT ![f] = None]
           \/ op.step = "set_first" /\ first' = [first EXCEPT ![op.file] = op.pending]
<1>1. CASE Remount
  BY <1>1 DEF Remount
<1>2. CASE Step
  BY <1>2 DEF Step, ReleaseNext, SeekStep, ReadStep, AppendHere,
     ClaimFirstCluster, SetDirectoryEntryFirstCluster, WriteCluster,
     MoveToNextCluster, ClaimNextCluster, LinkNextCluster,
     ReleaseUnlinkedCluster, UpdateDirectoryEntrySize
<1>3. ASSUME NEW f \in Files,
             \/ \E append \in AppendModes : CreateFile(f, append) \/ OpenFile(f, append)
             \/ Close(f)
             \/ \E p, n : StartSeek(f, p, n)
             \/ \E n \in 1 .. MaxLength : Read(f, n) \/ Write(f, n)
      PROVE  UNCHANGED first
  <2>1. \A p, n : StartSeek(f, p, n) => UNCHANGED first
    BY DEF StartSeek
  <2> QED BY <1>3, <2>1 DEF CreateFile, OpenFile, Close, Read, Write
<1>4. ASSUME NEW f \in Files, DeleteFile(f)
      PROVE  \/ UNCHANGED first
             \/ f \notin exists' /\ first' = [first EXCEPT ![f] = None]
  <2>1. \/ UNCHANGED first
        \/ exists' = exists \ {f} /\ first' = [first EXCEPT ![f] = None]
    BY <1>4 DEF DeleteFile
  <2> QED BY <2>1
<1> QED BY <1>1, <1>2, <1>3, <1>4, NextCases

(* The chain of a file that is not deleted only grows.                     *)
LEMMA ChainsGrow ==
    ASSUME TypeInv, ChainInv, ContentInv, Sure', [Next]_vars,
           NEW f \in exists, f \in exists'
    PROVE  Grows(table, first[f], table', first'[f])
<1> USE DEF TypeInv, TypeOK
<1>1. CASE UNCHANGED vars
  BY <1>1, GrowsSame
<1>2. CASE Next
  <2>1. SUFFICES ASSUME NEW n \in Links, Nth(f, n) \in Clusters
                 PROVE  Grows(table, first[f], table', first'[f])
    BY DEF Grows, Nth
  <2>2. first[f] \in Clusters /\ first[f] \in Entry /\ first[f] # None
    BY <2>1, FileChain, ConstantTypes DEF ChainInv
  <2>3. op.step = "set_first" => op.file # f
    BY <2>2 DEF ContentInv, OperationStands, HandlesStand, HandleStands, Stands, h
  <2>4. first'[f] = first[f]
    BY <1>2, <2>3, FirstChanges
  <2>5. CASE UNCHANGED table
    BY <2>4, <2>5, GrowsSame
  <2>6. CASE ~UNCHANGED table
    <3>1. PICK d \in Entry, v \in {Free, EOF} \cup Clusters :
             /\ table' = [table EXCEPT ![d] = v]
             /\ \/ d \in Clusters /\ (table[d] = Free \/ Unnamed(d))
                \/ op.step = "link" /\ d = h.current
      BY <1>2, <2>6, TableChanges
    <3>2. ASSUME NEW m \in Links, Walk(table, first[f])[m] \in Clusters,
                 Walk(table, first[f])[m] = d
          PROVE  table[d] \notin Clusters
      <4>1. table[d] # Free /\ ~Unnamed(d)
        BY <3>2, FileChain DEF ChainInv, Nth
      <4>2. table[d] = EOF
        BY <3>1, <4>1 DEF ContentInv, OperationStands
      <4> QED BY <4>2, ConstantTypes
    <3>3. table \in [Clusters -> Entry] /\ first[f] \in Entry
      BY <2>2
    <3>4. Grows(table, first[f], table', first[f])
      <4>1. \A w \in Clusters \ {d} : table'[w] = table[w]
        BY <3>1
      <4> QED BY <3>2, <3>3, <4>1, GrowsExcept
    <3> QED BY <2>4, <3>4
  <2> QED BY <2>5, <2>6
<1> QED BY <1>1, <1>2

-----------------------------------------------------------------------------
(* The moves of a handle.                                                  *)
LEMMA StandsInChain ==
    ASSUME NEW t \in [Clusters -> Entry], NEW c \in {None} \cup Clusters,
           NEW x \in Handle, x.current # None, Stands(t, c, x)
    PROVE  x.current \in Clusters /\ ~OutOfRange(x.current) /\ c \in Clusters
<1>1. PICK n \in Links : StandsAt(t, c, x, n)
  BY DEF Stands
<1>2. x.current \in Clusters /\ x.current = Walk(t, c)[n]
  BY <1>1 DEF StandsAt
<1>3. 0 \in Links /\ 0 <= n /\ c \in Entry
  BY MaxClusterAssumption, ConstantTypes DEF Links
<1>4. Walk(t, c)[0] \in Clusters
  BY <1>2, <1>3, WalkInside
<1> QED BY <1>2, <1>4, WalkSteps, ConstantTypes

LEMMA StandsFileStart ==
    ASSUME NEW t \in [Clusters -> Entry], NEW c \in {None} \cup Clusters,
           NEW x \in Handle, x.current # None, Stands(t, c, x)
    PROVE  /\ Stands(t, c, FileStart(x))
           /\ FileStart(x).current # None
           /\ FileStart(x).size = x.size /\ FileStart(x).open = x.open
<1>1. c \in Clusters /\ c # None
  BY StandsInChain, ConstantTypes
<1>2. x.first = c
  BY DEF Stands
<1>3. /\ FileStart(x).first = c /\ FileStart(x).current = c
      /\ FileStart(x).in_cluster = 0 /\ FileStart(x).in_file = 0
      /\ FileStart(x).size = x.size /\ FileStart(x).open = x.open
  BY <1>2 DEF FileStart, Handle
<1>4. 0 \in Links
  BY MaxClusterAssumption DEF Links
<1>5. StandsAt(t, c, FileStart(x), 0)
  BY <1>1, <1>3, <1>4, WalkSteps, OffsetsGrow DEF StandsAt
<1> QED BY <1>1, <1>3, <1>4, <1>5 DEF Stands

LEMMA StandsAdvance ==
    ASSUME NEW t, NEW c, NEW x \in Handle, NEW k \in Nat, x.current # None,
           Stands(t, c, x)
    PROVE  /\ Stands(t, c, Advance(x, k))
           /\ Advance(x, k).current = x.current
           /\ Advance(x, k).size = x.size /\ Advance(x, k).open = x.open
           /\ Advance(x, k).in_cluster = x.in_cluster + k
           /\ Advance(x, k).in_file = x.in_file + k
<1>1. PICK n \in Links : StandsAt(t, c, x, n)
  BY DEF Stands
<1>2. /\ Advance(x, k).current = x.current /\ Advance(x, k).first = x.first
      /\ Advance(x, k).size = x.size /\ Advance(x, k).open = x.open
      /\ Advance(x, k).in_cluster = x.in_cluster + k
      /\ Advance(x, k).in_file = x.in_file + k
  BY DEF Advance, Handle
<1>3. x.in_cluster \in Nat /\ x.in_file \in Nat /\ OffsetOf(n) \in Nat
  <2>1. x.in_cluster \in 0 .. BytesPerCluster /\ x.in_file \in Nat
    BY DEF Handle
  <2>2. n \in Nat
    BY MaxClusterAssumption DEF Links
  <2>3. OffsetOf(n) \in Nat
    BY <2>2, OffsetsGrow
  <2> QED BY <2>1, <2>3, FileAssumption
<1>4. x.in_file + k = OffsetOf(n) + (x.in_cluster + k)
  BY <1>1, <1>3 DEF StandsAt
<1>5. StandsAt(t, c, Advance(x, k), n)
  BY <1>1, <1>2, <1>4 DEF StandsAt
<1> QED BY <1>2, <1>5 DEF Stands

\* A handle at the end of its cluster goes on to the next one.
OnTo(x, c) == [x EXCEPT !.current = c, !.in_cluster = 0]

LEMMA StandsOnTo ==
    ASSUME NEW t, NEW c, NEW x \in Handle, x.first = c, NEW n \in Links,
           x.in_file = OffsetOf(n) + x.in_cluster,
           x.in_cluster = BytesPerCluster, n + 1 \in Links,
           NEW d \in Clusters, Walk(t, c)[n + 1] = d
    PROVE  /\ Stands(t, c, OnTo(x, d))
           /\ OnTo(x, d).current # None
           /\ OnTo(x, d).size = x.size /\ OnTo(x, d).open = x.open
           /\ OnTo(x, d).in_file = x.in_file
<1>1. /\ OnTo(x, d).current = d /\ OnTo(x, d).first = x.first
      /\ OnTo(x, d).size = x.size /\ OnTo(x, d).open = x.open
      /\ OnTo(x, d).in_cluster = 0 /\ OnTo(x, d).in_file = x.in_file
  BY DEF OnTo, Handle
<1>2. /\ OffsetOf(n + 1) = OffsetOf(n) + BytesPerCluster
      /\ OffsetOf(n + 1) \in Nat
  BY OffsetsGrow, MaxClusterAssumption DEF Links
<1>3. StandsAt(t, c, OnTo(x, d), n + 1)
  BY <1>1, <1>2 DEF StandsAt
<1> QED BY <1>1, <1>3, ConstantTypes DEF Stands

LEMMA StandsNext ==
    ASSUME TypeOK, ChainsSafe, NoDefects, NEW f \in exists, NEW x \in Handle,
           x.current # None, Stands(table, first[f], x),
           x.in_cluster = BytesPerCluster, ~EndOfChain(table[x.current])
    PROVE  /\ Stands(table, first[f], OnTo(x, table[x.current]))
           /\ OnTo(x, table[x.current]).current # None
           /\ OnTo(x, table[x.current]).size = x.size
           /\ OnTo(x, table[x.current]).open = x.open
           /\ OnTo(x, table[x.current]).in_file = x.in_file
<1>1. PICK n \in Links : StandsAt(table, first[f], x, n)
  BY DEF Stands
<1>2. x.current \in Clusters /\ Nth(f, n) = x.current /\ x.first = first[f]
  BY <1>1 DEF StandsAt, Stands, Nth
<1>3. n + 1 \in Links /\ Nth(f, n + 1) = table[x.current]
  BY <1>2, NextNth
<1>4. table[x.current] \in Entry /\ table[x.current] # Free
      /\ table[x.current] # Defective
  BY <1>2, FileChain DEF TypeOK, NoDefects
<1>5. table[x.current] \in Clusters
  BY <1>4, MaxClusterAssumption DEF Entry, EndOfChain, EOF
<1> QED BY <1>1, <1>2, <1>3, <1>5, StandsOnTo DEF StandsAt, Nth

(* A chain reaches as far as a handle in it has come.                      *)
LEMMA StandsReaches ==
    ASSUME NEW t \in [Clusters -> Entry], NEW c \in {None} \cup Clusters,
           NEW x \in Handle, Stands(t, c, x)
    PROVE  Reaches(t, c, x.in_file)
<1> SUFFICES ASSUME NEW m \in Nat, OffsetOf(m) < x.in_file
             PROVE  m \in Links /\ Walk(t, c)[m] \in Clusters
  BY DEF Reaches
<1>1. x.current # None
  BY OffsetsGrow DEF Stands
<1>2. PICK n \in Links : StandsAt(t, c, x, n)
  BY <1>1 DEF Stands
<1>3. n \in Nat /\ x.in_cluster \in 0 .. BytesPerCluster /\ c \in Entry
  BY ConstantTypes, MaxClusterAssumption DEF Links, Handle
<1>4. ~(n < m)
  <2>1. OffsetOf(n) \in Nat /\ OffsetOf(m) \in Nat /\ BytesPerCluster \in Nat
    BY <1>3, OffsetsGrow, FileAssumption
  <2>2. n < m => OffsetOf(n) + BytesPerCluster <= OffsetOf(m)
    BY <1>3, OffsetsGrow
  <2> QED BY <1>2, <1>3, <2>1, <2>2 DEF StandsAt
<1>5. m <= n /\ m \in Links
  BY <1>3, <1>4, MaxClusterAssumption DEF Links
<1> QED BY <1>2, <1>3, <1>5, WalkInside DEF StandsAt

-----------------------------------------------------------------------------
(* The steps of an operation change no file but their own.                 *)
LEMMA StepFrame ==
    ASSUME TypeInv, Step
    PROVE  /\ UNCHANGED exists /\ op.file \in Files /\ op.step # "idle"
           /\ \A f \in Files \ {op.file} : /\ handle'[f] = handle[f]
                                           /\ size'[f] = size[f]
                                           /\ first'[f] = first[f]
<1> USE DEF TypeInv, TypeOK
<1>1. UNCHANGED exists /\ op.step # "idle"
  BY DEF Step, ReleaseNext, SeekStep, ReadStep, AppendHere,
     ClaimFirstCluster, SetDirectoryEntryFirstCluster, WriteCluster,
     MoveToNextCluster, ClaimNextCluster, LinkNextCluster,
     ReleaseUnlinkedCluster, UpdateDirectoryEntrySize
<1>2. UNCHANGED first \/ \E c : first' = [first EXCEPT ![op.file] = c]
  BY DEF Step, ReleaseNext, SeekStep, ReadStep, AppendHere,
     ClaimFirstCluster, SetDirectoryEntryFirstCluster, WriteCluster,
     MoveToNextCluster, ClaimNextCluster, LinkNextCluster,
     ReleaseUnlinkedCluster, UpdateDirectoryEntrySize
<1>3. UNCHANGED size \/ \E s : size' = [size EXCEPT ![op.file] = s]
  BY DEF Step, ReleaseNext, SeekStep, ReadStep, AppendHere,
     ClaimFirstCluster, SetDirectoryEntryFirstCluster, WriteCluster,
     MoveToNextCluster, ClaimNextCluster, LinkNextCluster,
     ReleaseUnlinkedCluster, UpdateDirectoryEntrySize
<1>4. UNCHANGED handle \/ \E x : SetHandle(x)
  <2>1. CASE SeekStep \/ ReadStep \/ MoveToNextCluster
    BY <2>1 DEF SeekStep, ReadStep, MoveToNextCluster, NextCluster
  <2>2. CASE LinkNextCluster
    BY <2>2 DEF LinkNextCluster, UpdateFATTableEntry
  <2>3. CASE ~(SeekStep \/ ReadStep \/ MoveToNextCluster \/ LinkNextCluster)
    BY <2>3 DEF Step, ReleaseNext, AppendHere, ClaimFirstCluster,
       SetDirectoryEntryFirstCluster, WriteCluster, ClaimNextCluster,
       ReleaseUnlinkedCluster, UpdateDirectoryEntrySize
  <2> QED BY <2>1, <2>2, <2>3
<1> QED BY <1>1, <1>2, <1>3, <1>4 DEF SetHandle

\* The assumptions of the lemmas about a step.
Before == TypeInv /\ ChainInv /\ ContentInv
Volume == Before /\ Sure' /\ TypeInv' /\ ChainInv'

LEMMA HandleKept ==
    ASSUME Volume, [Next]_vars, NEW f \in Files,
           handle[f].open => f \in exists',
           handle'[f] = handle[f], size'[f] = size[f], first'[f] = first[f]
    PROVE  HandleStands(table', first'[f], size'[f], handle'[f])
<1> SUFFICES ASSUME handle[f].open
             PROVE  HandleStands(table', first'[f], size'[f], handle'[f])
  BY DEF HandleStands
<1>1. f \in exists
  BY DEF Volume, Before, ChainInv, FilesHaveEntries
<1>2. Grows(table, first[f], table', first[f])
  BY <1>1, ChainsGrow DEF Volume, Before
<1>3. HandleStands(table, first[f], size[f], handle[f])
  BY DEF Volume, Before, ContentInv, HandlesStand
<1> QED BY <1>2, <1>3, StandsGrows, ReachesGrows DEF HandleStands

(* The handle of the operation in progress stands in its file's chain.     *)
LEMMA OperationHandle ==
    ASSUME Before, op.step \notin {"idle", "release"}
    PROVE  /\ op.file \in exists /\ op.file \in Files /\ h \in Handle /\ h.open
           /\ Stands(table, first[op.file], h)
           /\ Reaches(table, first[op.file], h.size)
           /\ size[op.file] <= h.size
           /\ first[op.file] \in {None} \cup Clusters
           /\ table \in [Clusters -> Entry]
<1>1. op.file \in exists /\ op.file \in Files /\ h \in Handle /\ h.open
  BY OpenHandle DEF Before, ChainInv, FilesHaveEntries, ContentInv,
     OperationStands, TypeInv
<1>2. HandleStands(table, first[op.file], size[op.file], h)
  BY <1>1 DEF Before, ContentInv, HandlesStand, h
<1> QED BY <1>1, <1>2 DEF HandleStands, Before, TypeInv, TypeOK

LEMMA StepHandles ==
    ASSUME Volume, Step,
           HandleStands(table', first'[op.file], size'[op.file], handle'[op.file])
    PROVE  HandlesStand'
<1> SUFFICES ASSUME NEW f \in Files
             PROVE  HandleStands(table', first'[f], size'[f], handle'[f])
  BY DEF HandlesStand
<1>1. CASE f = op.file
  BY <1>1
<1>2. CASE f # op.file
  <2>1. /\ handle'[f] = handle[f] /\ size'[f] = size[f] /\ first'[f] = first[f]
        /\ UNCHANGED exists
    BY <1>2, StepFrame DEF Volume, Before
  <2>2. handle[f].open => f \in exists
    BY DEF Volume, Before, ChainInv, FilesHaveEntries
  <2>3. [Next]_vars
    BY DEF Next
  <2> QED BY <2>1, <2>2, <2>3, HandleKept
<1> QED BY <1>1, <1>2

(* A step that leaves table and entries alone, and moves the handle.       *)
LEMMA MovedHandle ==
    ASSUME Before, op.step \notin {"idle", "release"},
           NEW x \in Handle, SetHandle(x), UNCHANGED <<table, first, size>>,
           Stands(table, first[op.file], x), x.size = h.size
    PROVE  HandleStands(table', first'[op.file], size'[op.file], handle'[op.file])
<1>1. handle'[op.file] = x
  BY OperationHandle, SetHandleTypes DEF Before, TypeInv, SetHandle, TypeOK
<1> QED BY <1>1, OperationHandle DEF HandleStands

(* The changes of a size a step can make.                                  *)
LEMMA SizeChanges ==
    ASSUME TypeInv, ContentInv, Next, NEW f \in Files
    PROVE  \/ size'[f] = size[f] /\ (f \in exists => f \in exists')
           \/ f \notin exists' /\ size'[f] = 0
           \/ handle'[f].open /\ size'[f] = handle'[f].size
<1> USE DEF TypeInv, TypeOK
<1>1. CASE Remount
  BY <1>1 DEF Remount
<1>2. CASE Step
  <2>1. CASE UNCHANGED size
    BY <1>2, <2>1, StepFrame
  <2>2. CASE ~UNCHANGED size
    <3>1. /\ UpdateDirectoryEntrySize /\ op.step = "update_entry"
          /\ UNCHANGED exists
      BY <1>2, <2>2 DEF Step, ReleaseNext, SeekStep, ReadStep, AppendHere,
         ClaimFirstCluster, SetDirectoryEntryFirstCluster, WriteCluster,
         MoveToNextCluster, ClaimNextCluster, LinkNextCluster,
         ReleaseUnlinkedCluster, UpdateDirectoryEntrySize
    <3> DEFINE x == IF h.in_file > h.size THEN [h EXCEPT !.size = h.in_file] ELSE h
    <3>2. /\ size' = [size EXCEPT ![op.file] = x.size]
          /\ SetHandle([x EXCEPT !.marked = TRUE])
      BY <2>2, <3>1 DEF UpdateDirectoryEntrySize
    <3>3. h \in Handle /\ op.file \in Files /\ h.open
      BY <3>1, OpenHandle DEF ContentInv, OperationStands
    <3>4. x \in Handle /\ x.open
      BY <3>3 DEF Handle
    <3> HIDE DEF x
    <3>5. /\ [x EXCEPT !.marked = TRUE].size = x.size
          /\ [x EXCEPT !.marked = TRUE].open
      BY <3>4 DEF Handle
    <3>6. handle'[op.file] = [x EXCEPT !.marked = TRUE] /\ size'[op.file] = x.size
      BY <3>2, <3>3 DEF SetHandle
    <3>7. f # op.file => size'[f] = size[f]
      BY <3>2
    <3> QED BY <3>1, <3>5, <3>6, <3>7
  <2> QED BY <2>1, <2>2
<1>3. ASSUME NEW g \in Files,
             \/ \E append \in AppendModes : CreateFile(g, append) \/ OpenFile(g, append)
             \/ Close(g)
             \/ \E p, n : StartSeek(g, p, n)
             \/ \E n \in 1 .. MaxLength : Read(g, n) \/ Write(g, n)
      PROVE  UNCHANGED size /\ exists \subseteq exists'
  <2>1. \A p, n : StartSeek(g, p, n) => UNCHANGED size /\ UNCHANGED exists
    BY DEF StartSeek
  <2>2. CASE \E append \in AppendModes : CreateFile(g, append) \/ OpenFile(g, append)
    BY <2>2 DEF CreateFile, OpenFile
  <2> QED BY <1>3, <2>1, <2>2 DEF Close, Read, Write
<1>4. ASSUME NEW g \in Files, DeleteFile(g)
      PROVE  \/ size'[f] = size[f] /\ (f \in exists => f \in exists')
             \/ f \notin exists' /\ size'[f] = 0
  <2>1. \/ UNCHANGED <<size, exists>>
        \/ exists' = exists \ {g} /\ size' = [size EXCEPT ![g] = 0]
    BY <1>4 DEF DeleteFile
  <2> QED BY <2>1
<1> QED BY <1>1, <1>2, <1>3, <1>4, NextCases

LEMMA SizesKept ==
    ASSUME Volume, Next, HandlesStand'
    PROVE  SizesReached'
<1>1. ASSUME NEW f \in Files
      PROVE  /\ f \in exists' => Reaches(table', first'[f], size'[f])
             /\ f \notin exists' => size'[f] = 0
  <2>1. CASE size'[f] = size[f] /\ (f \in exists => f \in exists')
    <3>1. CASE f \in exists
      <4>1. Grows(table, first[f], table', first'[f])
        BY <2>1, <3>1, ChainsGrow DEF Volume, Before
      <4> QED BY <2>1, <3>1, <4>1, ReachesGrows
              DEF Volume, Before, ContentInv, SizesReached
    <3>2. CASE f \notin exists
      <4>1. size'[f] = 0
        BY <2>1, <3>2 DEF Volume, Before, ContentInv, SizesReached
      <4>2. \A m \in Nat : ~(OffsetOf(m) < 0)
        BY OffsetsGrow
      <4> QED BY <4>1, <4>2 DEF Reaches
    <3> QED BY <3>1, <3>2
  <2>2. CASE f \notin exists' /\ size'[f] = 0
    BY <2>2
  <2>3. CASE handle'[f].open /\ size'[f] = handle'[f].size
    <3>1. HandleStands(table', first'[f], size'[f], handle'[f])
      BY DEF HandlesStand
    <3>2. f \in exists'
      BY <2>3 DEF Volume, ChainInv, FilesHaveEntries
    <3> QED BY <2>3, <3>1, <3>2 DEF HandleStands
  <2> QED BY <2>1, <2>2, <2>3, SizeChanges DEF Volume, Before
<1>2. exists' \subseteq Files
  BY DEF Volume, TypeInv, TypeOK
<1> QED BY <1>1, <1>2 DEF SizesReached

LEMMA DefectsKept ==
    ASSUME Volume, Next
    PROVE  NoDefects'
<1>1. CASE UNCHANGED table
  BY <1>1 DEF Volume, Before, ContentInv, NoDefects
<1>2. CASE ~UNCHANGED table
  <2>1. PICK d \in Entry, v \in {Free, EOF} \cup Clusters :
           table' = [table EXCEPT ![d] = v]
    BY <1>2, TableChanges DEF Volume, Before
  <2>2. v # Defective
    BY MaxClusterAssumption DEF Free, EOF, Clusters, Defective
  <2>3. \A c \in Clusters : table'[c] = v \/ table'[c] = table[c]
    BY <2>1 DEF Volume, Before, TypeInv, TypeOK
  <2> QED BY <2>2, <2>3 DEF Volume, Before, ContentInv, NoDefects
<1> QED BY <1>1, <1>2

LEMMA StepContents ==
    ASSUME Volume, Step, OperationStands', SeeksAim',
           HandleStands(table', first'[op.file], size'[op.file], handle'[op.file])
    PROVE  ContentInv'
<1>1. HandlesStand'
  BY StepHandles
<1> QED BY <1>1, SizesKept, DefectsKept DEF Next, ContentInv

LEMMA IdleStands == op'.step = "idle" => OperationStands' /\ SeeksAim'
BY DEF OperationStands, SeeksAim

\* The end of the chain, as NextCluster meets it, and what follows there.
LEMMA NextClusterCases ==
    ASSUME NEW x, NEW done, NEW more, NextCluster(x, done, more)
    PROVE  \/ (Return \/ Fail) /\ SetHandle(x)
           \/ ~OutOfRange(x.current) /\ EndOfChain(table[x.current])
                /\ done /\ SetHandle(x)
           \/ ~OutOfRange(x.current) /\ ~EndOfChain(table[x.current])
                /\ more /\ SetHandle(OnTo(x, table[x.current]))
BY DEF NextCluster, OnTo

LEMMA OnToIsHandle ==
    ASSUME TypeOK, NEW x \in Handle, ~OutOfRange(x.current)
    PROVE  OnTo(x, table[x.current]) \in Handle
BY NextHandle DEF OnTo

(* A seek ends at its target, never at the end of the chain.               *)
LEMMA SeekContents ==
    ASSUME Volume, SeekStep
    PROVE  ContentInv'
<1> DEFINE x == Advance(h, SeekDistance)
<1> USE DEF Volume, Before
<1>1. op.step = "seek" /\ UNCHANGED <<table, first, size>> /\ h.current # None
  BY DEF SeekStep, ContentInv, OperationStands
<1>2. /\ SeekDistance \in Nat /\ h.in_cluster + SeekDistance <= BytesPerCluster
      /\ h.in_file + SeekDistance <= op.target
  BY <1>1, SeekMoves
<1>3. /\ op.file \in exists /\ op.file \in Files /\ h \in Handle /\ h.open
      /\ Stands(table, first[op.file], h)
      /\ Reaches(table, first[op.file], h.size)
      /\ first[op.file] \in {None} \cup Clusters
      /\ table \in [Clusters -> Entry] /\ TypeOK
  BY <1>1, OperationHandle DEF TypeInv
<1>4. /\ x \in Handle /\ Stands(table, first[op.file], x)
      /\ x.current = h.current /\ x.size = h.size /\ x.open = h.open
      /\ x.in_cluster = h.in_cluster + SeekDistance
      /\ x.in_file = h.in_file + SeekDistance
  BY <1>1, <1>2, <1>3, StandsAdvance, AdvanceTypes
<1>5. /\ op.target \in Nat /\ op.target <= h.size
      /\ op.remaining # 0 => op.target = h.size
      /\ op.remaining \in Nat /\ h.size \in Nat
      /\ h.in_file \in Nat /\ h.in_cluster \in 0 .. BytesPerCluster
  BY <1>1, <1>3 DEF ContentInv, SeeksAim, TypeOK, Operation, Handle
<1>6. Step
  BY DEF Step
<1> HIDE DEF x
<1>7. CASE x.in_file >= op.target
  <2>1. SeekDone /\ SetHandle(x)
    BY <1>1, <1>7 DEF SeekStep, x
  <2>2. HandleStands(table', first'[op.file], size'[op.file], handle'[op.file])
    BY <1>1, <1>4, <2>1, MovedHandle
  <2>3. handle'[op.file] = x
    BY <1>3, <1>4, <2>1, SetHandleTypes, <1>1
  <2>4. CASE op.remaining = 0
    <3>1. op'.step = "idle"
      BY <1>3, <2>1, <2>4, ReturnTypes DEF SeekDone
    <3> QED BY <1>6, <2>2, <3>1, IdleStands, StepContents
  <2>5. CASE op.remaining # 0
    <3>1. op'.step = "append" /\ op'.file = op.file
      BY <2>1, <2>5 DEF SeekDone, Begin
    <3>2. h' = x
      BY <2>3, <3>1 DEF h
    <3>3. x.in_file = op.target
      BY <1>2, <1>4, <1>5, <1>7
    <3>4. OperationStands' /\ SeeksAim'
      BY <1>3, <1>4, <1>5, <2>5, <3>1, <3>2, <3>3 DEF OperationStands, SeeksAim
    <3> QED BY <1>6, <2>2, <3>4, StepContents
  <2> QED BY <2>4, <2>5
<1>8. CASE ~(x.in_file >= op.target)
  <2>1. NextCluster(x, SeekDone, Goto("seek"))
    BY <1>8 DEF SeekStep, x
  <2>2. x.in_cluster = BytesPerCluster
    <3>1. BytesPerCluster - h.in_cluster \in Nat /\ op.target - h.in_file \in Int
      BY <1>5, FileAssumption
    <3>2. SeekDistance # op.target - h.in_file
      BY <1>4, <1>5, <1>8, <1>2
    <3>3. SeekDistance = BytesPerCluster - h.in_cluster
      BY <3>2 DEF SeekDistance, SmallerOf
    <3> QED BY <1>4, <1>5, <3>1, <3>3, FileAssumption
  <2>3. x.current # None /\ x.current \in Clusters /\ ~OutOfRange(x.current)
    BY <1>1, <1>3, <1>4, StandsInChain
  <2>4. ~EndOfChain(table[x.current])
    <3>1. PICK n \in Links : StandsAt(table, first[op.file], x, n)
      BY <1>4, <2>3 DEF Stands
    <3>2. n \in Nat /\ OffsetOf(n + 1) = OffsetOf(n) + BytesPerCluster
      BY OffsetsGrow, MaxClusterAssumption DEF Links
    <3>3. OffsetOf(n + 1) < h.size
      <4>1. x.in_file = OffsetOf(n + 1)
        BY <2>2, <3>1, <3>2 DEF StandsAt
      <4>2. x.in_file \in Nat
        BY <1>4 DEF Handle
      <4> QED BY <1>5, <1>8, <4>1, <4>2
    <3>4. Walk(table, first[op.file])[n + 1] \in Clusters
      BY <1>3, <3>2, <3>3 DEF Reaches
    <3>5. Nth(op.file, n) = x.current /\ Nth(op.file, n) \in Clusters
      BY <3>1 DEF StandsAt, Nth
    <3>6. table[x.current] \in Clusters
      BY <1>3, <3>4, <3>5, NextNth DEF Nth, ChainInv
    <3> QED BY <3>6, MaxClusterAssumption DEF Clusters, EndOfChain, EOF
  <2>5. CASE (Return \/ Fail) /\ SetHandle(x)
    <3>1. HandleStands(table', first'[op.file], size'[op.file], handle'[op.file])
      BY <1>1, <1>4, <2>5, MovedHandle
    <3>2. op'.step = "idle"
      BY <1>3, <2>5, ReturnTypes
    <3> QED BY <1>6, <3>1, <3>2, IdleStands, StepContents
  <2>6. CASE Goto("seek") /\ SetHandle(OnTo(x, table[x.current]))
    <3> DEFINE y == OnTo(x, table[x.current])
    <3>1. /\ Stands(table, first[op.file], y) /\ y.current # None
          /\ y.size = x.size /\ y.open = x.open /\ y \in Handle
      BY <1>3, <1>4, <2>2, <2>3, <2>4, StandsNext, OnToIsHandle
         DEF ChainInv, ContentInv
    <3>2. SetHandle(y)
      BY <2>6
    <3> HIDE DEF y
    <3>3. HandleStands(table', first'[op.file], size'[op.file], handle'[op.file])
      BY <1>1, <1>4, <3>1, <3>2, MovedHandle
    <3>4. /\ op'.step = "seek" /\ op'.file = op.file
          /\ op'.remaining = op.remaining /\ op'.target = op.target
      BY <1>1, <1>3, <2>6, GotoTypes DEF Steps
    <3>5. h' = y
      BY <1>1, <1>3, <3>1, <3>2, <3>4, SetHandleTypes DEF h
    <3>6. OperationStands' /\ SeeksAim'
      BY <1>3, <1>4, <1>5, <3>1, <3>4, <3>5 DEF OperationStands, SeeksAim
    <3> QED BY <1>6, <3>3, <3>6, StepContents
  <2> QED BY <2>1, <2>4, <2>5, <2>6, NextClusterCases
<1> QED BY <1>7, <1>8

LEMMA StillHandle ==
    ASSUME Volume, Step, UNCHANGED <<first, size>>,
           UNCHANGED handle \/ handle'[op.file] = handle[op.file]
    PROVE  HandleStands(table', first'[op.file], size'[op.file], handle'[op.file])
<1>1. op.file \in Files /\ UNCHANGED exists /\ [Next]_vars
  BY StepFrame DEF Volume, Before, Next
<1>2. handle[op.file].open => op.file \in exists'
  BY <1>1 DEF Volume, Before, ChainInv, FilesHaveEntries
<1> QED BY <1>1, <1>2, HandleKept

\* The operation goes on at the step s, with the handle x.
LEMMA GoesOn ==
    ASSUME NEW x, x.open, x.current # None, handle'[op.file] = x,
           op'.file = op.file,
           op'.step \in {"read", "write", "rollback", "update_entry"}
    PROVE  OperationStands' /\ SeeksAim'
<1>1. h' = x
  BY DEF h
<1> QED BY <1>1 DEF OperationStands, SeeksAim

LEMMA ReadContents ==
    ASSUME Volume, ReadStep
    PROVE  ContentInv'
<1> DEFINE x == Advance(h, BytesToRead)
           left == op.remaining - BytesToRead
           more == IF left = 0 THEN Return
                   ELSE op' = [op EXCEPT !.remaining = left] /\ UNCHANGED faults
           y == OnTo(x, table[x.current])
<1> USE DEF Volume, Before
<1>1. /\ op.step = "read" /\ UNCHANGED <<table, first, size>> /\ Step
      /\ h.current # None
  BY DEF ReadStep, Step, ContentInv, OperationStands
<1>2. /\ op.file \in exists /\ op.file \in Files /\ h \in Handle /\ h.open
      /\ Stands(table, first[op.file], h)
      /\ first[op.file] \in {None} \cup Clusters
      /\ table \in [Clusters -> Entry] /\ TypeOK
  BY <1>1, OperationHandle DEF TypeInv
<1>3. /\ BytesToRead \in Nat /\ h.in_cluster + BytesToRead <= BytesPerCluster
  BY <1>1, <1>2, ReadDistance
<1>4. /\ x \in Handle /\ Stands(table, first[op.file], x)
      /\ x.current = h.current /\ x.size = h.size /\ x.open
      /\ x.in_cluster = h.in_cluster + BytesToRead
  BY <1>1, <1>2, <1>3, StandsAdvance, AdvanceTypes
<1>5. /\ Return \/ Fail => op'.step = "idle"
      /\ more => op'.step = "idle" \/ (op'.step = "read" /\ op'.file = op.file)
  <2>1. Return \/ Fail => op'.step = "idle"
    BY <1>2, ReturnTypes
  <2>2. op' = [op EXCEPT !.remaining = left]
           => op'.step = "read" /\ op'.file = op.file
    BY <1>1, <1>2 DEF TypeOK, Operation
  <2> QED BY <2>1, <2>2
<1>6. /\ SetHandle(x) => handle'[op.file] = x
      /\ \A z \in Handle : SetHandle(z) => handle'[op.file] = z
  BY <1>1, <1>2, <1>4, SetHandleTypes
<1>7. x.current \in Clusters /\ ~OutOfRange(x.current)
  BY <1>1, <1>2, <1>4, StandsInChain
<1>8. \/ (Return \/ Fail) /\ UNCHANGED handle
      \/ (Return \/ Fail) /\ SetHandle(x)
      \/ more /\ SetHandle(x)
      \/ ~(x.in_cluster < BytesPerCluster) /\ NextCluster(x, Return, more)
  BY DEF ReadStep
<1> HIDE DEF x, more, left
<1>9. CASE (Return \/ Fail) /\ UNCHANGED handle
  BY <1>1, <1>5, <1>9, StillHandle, IdleStands, StepContents
<1>10. CASE (Return \/ Fail \/ more) /\ SetHandle(x)
  <2>1. HandleStands(table', first'[op.file], size'[op.file], handle'[op.file])
    BY <1>1, <1>4, <1>10, MovedHandle
  <2>2. OperationStands' /\ SeeksAim'
    BY <1>1, <1>4, <1>5, <1>6, <1>10, IdleStands, GoesOn
  <2> QED BY <1>1, <2>1, <2>2, StepContents
<1>11. CASE /\ ~(x.in_cluster < BytesPerCluster)
            /\ more /\ ~EndOfChain(table[x.current]) /\ SetHandle(y)
  <2>1. x.in_cluster = BytesPerCluster
    <3>1. x.in_cluster \in 0 .. BytesPerCluster
      BY <1>4 DEF Handle
    <3> QED BY <1>11, <3>1, FileAssumption
  <2>2. /\ Stands(table, first[op.file], y) /\ y.current # None
        /\ y.size = x.size /\ y.open = x.open /\ y \in Handle
    BY <1>1, <1>2, <1>4, <1>7, <1>11, <2>1, StandsNext, OnToIsHandle
       DEF ChainInv, ContentInv
  <2>3. SetHandle(y)
    BY <1>11
  <2> HIDE DEF y
  <2>4. HandleStands(table', first'[op.file], size'[op.file], handle'[op.file])
    BY <1>1, <1>4, <2>2, <2>3, MovedHandle
  <2>5. OperationStands' /\ SeeksAim'
    BY <1>4, <1>5, <1>6, <1>11, <2>2, <2>3, IdleStands, GoesOn
  <2> QED BY <1>1, <2>4, <2>5, StepContents
<1>12. CASE ~(x.in_cluster < BytesPerCluster) /\ NextCluster(x, Return, more)
  BY <1>10, <1>11, <1>12, NextClusterCases
<1> QED BY <1>8, <1>9, <1>10, <1>12

LEMMA AppendHereContents ==
    ASSUME Volume, AppendHere
    PROVE  ContentInv'
<1> USE DEF Volume, Before
<1>1. op.step = "append" /\ UNCHANGED <<table, first, size, handle>> /\ Step
  BY DEF AppendHere, Step
<1>2. TypeOK /\ h.open
  BY <1>1, OperationHandle DEF TypeInv
<1>3. HandleStands(table', first'[op.file], size'[op.file], handle'[op.file])
  BY <1>1, StillHandle
<1>4. OperationStands' /\ SeeksAim'
  <2>1. CASE Return
    BY <1>2, <2>1, ReturnTypes, IdleStands
  <2>2. CASE Goto(FirstStep(h))
    <3>1. FirstStep(h) \in Steps /\ FirstStep(h) \in {"first", "write"}
      BY DEF FirstStep, Steps
    <3>2. op'.step = FirstStep(h) /\ op'.file = op.file
      BY <1>1, <1>2, <2>2, <3>1, GotoTypes
    <3>3. h' = h
      BY <1>1, <3>2 DEF h
    <3> QED BY <1>2, <3>2, <3>3 DEF FirstStep, OperationStands, SeeksAim
  <2> QED BY <2>1, <2>2 DEF AppendHere
<1> QED BY <1>1, <1>3, <1>4, StepContents

LEMMA WriteClusterContents ==
    ASSUME Volume, WriteCluster
    PROVE  ContentInv'
<1> DEFINE x == Advance(h, BytesToCopy)
<1> USE DEF Volume, Before
<1>1. /\ op.step = "write" /\ UNCHANGED <<table, first, size>> /\ Step
      /\ h.current # None
  BY DEF WriteCluster, Step, ContentInv, OperationStands
<1>2. /\ op.file \in exists /\ op.file \in Files /\ h \in Handle /\ h.open
      /\ Stands(table, first[op.file], h) /\ TypeOK
  BY <1>1, OperationHandle DEF TypeInv
<1>3. BytesToCopy \in Nat /\ h.in_cluster + BytesToCopy <= BytesPerCluster
  BY <1>1, <1>2, ReadDistance
<1>4. /\ x \in Handle /\ Stands(table, first[op.file], x)
      /\ x.current = h.current /\ x.size = h.size /\ x.open
      /\ x.in_cluster = h.in_cluster + BytesToCopy
  BY <1>1, <1>2, <1>3, StandsAdvance, AdvanceTypes
<1>5. \/ (Return \/ Fail) /\ UNCHANGED handle
      \/ /\ SetHandle(x)
         /\ op' = [op EXCEPT !.remaining = @ - BytesToCopy,
                             !.step = IF BytesToCopy = op.remaining
                                      THEN "update_entry" ELSE "next"]
  BY DEF WriteCluster
<1>6. SetHandle(x) => handle'[op.file] = x
  BY <1>1, <1>2, <1>4, SetHandleTypes
<1> HIDE DEF x
<1>7. CASE (Return \/ Fail) /\ UNCHANGED handle
  <2>1. op'.step = "idle"
    BY <1>2, <1>7, ReturnTypes
  <2> QED BY <1>1, <1>7, <2>1, StillHandle, IdleStands, StepContents
<1>8. CASE /\ SetHandle(x)
           /\ op' = [op EXCEPT !.remaining = @ - BytesToCopy,
                               !.step = IF BytesToCopy = op.remaining
                                        THEN "update_entry" ELSE "next"]
  <2>1. HandleStands(table', first'[op.file], size'[op.file], handle'[op.file])
    BY <1>1, <1>4, <1>8, MovedHandle
  <2>2. /\ op'.file = op.file
        /\ op'.step = IF BytesToCopy = op.remaining THEN "update_entry" ELSE "next"
    BY <1>2, <1>8 DEF TypeOK, Operation
  <2>3. CASE BytesToCopy = op.remaining
    BY <1>1, <1>4, <1>6, <1>8, <2>1, <2>2, <2>3, GoesOn, StepContents
  <2>4. CASE BytesToCopy # op.remaining
    <3>1. BytesToCopy = BytesPerCluster - h.in_cluster
      BY <2>4 DEF BytesToCopy, SmallerOf
    <3>2. x.in_cluster = BytesPerCluster
      BY <1>2, <1>4, <3>1, FileAssumption DEF Handle
    <3>3. op'.step = "next" /\ h' = x
      BY <1>6, <1>8, <2>2, <2>4 DEF h
    <3>4. OperationStands' /\ SeeksAim'
      BY <1>1, <1>4, <3>2, <3>3 DEF OperationStands, SeeksAim
    <3> QED BY <1>1, <2>1, <3>4, StepContents
  <2> QED BY <2>3, <2>4
<1> QED BY <1>5, <1>7, <1>8

LEMMA MoveContents ==
    ASSUME Volume, MoveToNextCluster
    PROVE  ContentInv'
<1> DEFINE y == OnTo(h, table[h.current])
<1> USE DEF Volume, Before
<1>1. /\ op.step = "next" /\ UNCHANGED <<table, first, size>> /\ Step
      /\ h.current # None /\ h.in_cluster = BytesPerCluster
  BY DEF MoveToNextCluster, Step, ContentInv, OperationStands
<1>2. /\ op.file \in exists /\ op.file \in Files /\ h \in Handle /\ h.open
      /\ Stands(table, first[op.file], h) /\ TypeOK
  BY <1>1, OperationHandle DEF TypeInv
<1>3. \/ (Return \/ Fail) /\ SetHandle(h)
      \/ /\ ~OutOfRange(h.current) /\ ~EndOfChain(table[h.current])
         /\ Goto("write") /\ SetHandle(y)
  BY DEF MoveToNextCluster, NextCluster, OnTo
<1>4. CASE (Return \/ Fail) /\ SetHandle(h)
  <2>1. op'.step = "idle" /\ handle'[op.file] = handle[op.file]
    BY <1>1, <1>2, <1>4, ReturnTypes, SetHandleTypes DEF h
  <2> QED BY <1>1, <2>1, StillHandle, IdleStands, StepContents
<1>5. CASE /\ ~OutOfRange(h.current) /\ ~EndOfChain(table[h.current])
           /\ Goto("write") /\ SetHandle(y)
  <2>1. /\ Stands(table, first[op.file], y) /\ y.current # None
        /\ y.size = h.size /\ y.open = h.open /\ y \in Handle
    BY <1>1, <1>2, <1>5, StandsNext, OnToIsHandle DEF ChainInv, ContentInv
  <2>2. SetHandle(y) /\ Goto("write")
    BY <1>5
  <2> HIDE DEF y
  <2>3. HandleStands(table', first'[op.file], size'[op.file], handle'[op.file])
    BY <1>1, <2>1, <2>2, MovedHandle
  <2>4. op'.step = "write" /\ op'.file = op.file /\ handle'[op.file] = y
    BY <1>1, <1>2, <2>1, <2>2, GotoTypes, SetHandleTypes DEF Steps
  <2> QED BY <1>1, <1>2, <2>1, <2>3, <2>4, GoesOn, StepContents
<1> QED BY <1>3, <1>4, <1>5

(* A step that changes the handle and its entry, whose chain may grow.     *)
LEMMA ChangedHandle ==
    ASSUME Volume, Step, op.step \notin {"idle", "release"}, UNCHANGED first,
           NEW x \in Handle, SetHandle(x),
           Stands(table', first[op.file], x),
           size'[op.file] <= x.size,
           x.size = h.size \/ Reaches(table', first[op.file], x.size)
    PROVE  HandleStands(table', first'[op.file], size'[op.file], handle'[op.file])
<1>1. /\ op.file \in exists /\ op.file \in exists' /\ [Next]_vars
      /\ Reaches(table, first[op.file], h.size)
  BY OperationHandle, StepFrame DEF Volume, Before, Next
<1>2. Grows(table, first[op.file], table', first'[op.file])
  BY <1>1, ChainsGrow DEF Volume, Before
<1>3. Reaches(table', first[op.file], x.size)
  BY <1>1, <1>2, ReachesGrows
<1>4. handle'[op.file] = x
  BY SetHandleTypes DEF Volume, Before, TypeInv
<1> QED BY <1>3, <1>4 DEF HandleStands

LEMMA ClaimingContents ==
    ASSUME Volume, ClaimFirstCluster \/ ClaimNextCluster
    PROVE  ContentInv'
<1> USE DEF Volume, Before
<1>1. /\ op.step \in {"first", "next"} /\ UNCHANGED <<first, size, handle>>
      /\ op.step = "first" => h.current = None
      /\ op.step = "next" => /\ h.current # None
                             /\ h.in_cluster = BytesPerCluster
                             /\ EndOfChain(table[h.current])
  BY DEF ClaimFirstCluster, ClaimNextCluster, ContentInv, OperationStands
<1>2. Step
  BY DEF Step
<1>3. /\ op.file \in exists /\ op.file \in Files /\ h \in Handle /\ h.open
      /\ Stands(table, first[op.file], h) /\ TypeOK
      /\ first[op.file] \in {None} \cup Clusters
      /\ table \in [Clusters -> Entry]
  BY <1>1, OperationHandle DEF TypeInv
<1>4. HandleStands(table', first'[op.file], size'[op.file], handle'[op.file])
  BY <1>1, <1>2, StillHandle
<1>5. CASE UNCHANGED table /\ (Return \/ Fail)
  <2>1. op'.step = "idle"
    BY <1>3, <1>5, ReturnTypes
  <2> QED BY <1>2, <1>4, <2>1, IdleStands, StepContents
<1>6. CASE ~(UNCHANGED table /\ (Return \/ Fail))
  <2>1. PICK step \in {"set_first", "link"} :
          /\ op.step = "first" <=> step = "set_first"
          /\ \E start : Claim(step, start)
    BY DEF ClaimFirstCluster, ClaimNextCluster
  <2>2. PICK c \in Clusters :
          /\ table[c] = Free
          /\ table' = [table EXCEPT ![c] = EOF]
          /\ op' = [op EXCEPT !.step = step, !.pending = c]
    BY <1>3, <1>6, <2>1, FailureIsSeen
       DEF Claim, NextEmpty, UpdateFATTableEntry, Sure, FreeClusters
  <2>3. op'.step = step /\ op'.file = op.file
    BY <1>3, <2>2 DEF TypeOK, Operation
  <2>4. h' = h
    BY <1>1, <2>3 DEF h
  <2>5. op.step = "next" => table'[h.current] = EOF
    <3> SUFFICES ASSUME op.step = "next" PROVE table'[h.current] = EOF
      OBVIOUS
    <3>1. h.current \in Clusters
      BY <1>1, <1>3, StandsInChain
    <3>2. table[h.current] \in Entry /\ table[h.current] # Defective
      BY <1>3, <3>1 DEF ContentInv, NoDefects
    <3>3. table[h.current] = EOF
      BY <1>1, <3>2, MaxClusterAssumption
         DEF Entry, EndOfChain, EOF, Clusters, Free
    <3> QED BY <1>3, <2>2, <3>1, <3>3
  <2>6. OperationStands' /\ SeeksAim'
    BY <1>1, <1>3, <2>1, <2>3, <2>4, <2>5 DEF OperationStands, SeeksAim
  <2> QED BY <1>2, <1>4, <2>6, StepContents
<1> QED BY <1>5, <1>6

(* A file that has no cluster has no byte.                                 *)
LEMMA EmptyReaches ==
    ASSUME NEW t, NEW s \in Nat, Reaches(t, None, s)
    PROVE  s = 0
<1>1. 0 \in Nat /\ OffsetOf(0) = 0 /\ Walk(t, None)[0] = None
  BY OffsetsGrow, WalkSteps
<1>2. ~(0 < s)
  BY <1>1, ConstantTypes DEF Reaches
<1> QED BY <1>2

LEMMA SetFirstContents ==
    ASSUME Volume, SetDirectoryEntryFirstCluster
    PROVE  ContentInv'
<1> DEFINE x == [h EXCEPT !.first = op.pending, !.current = op.pending]
<1> USE DEF Volume, Before
<1>1. /\ op.step = "set_first" /\ UNCHANGED <<table, size>> /\ Step
      /\ h.current = None /\ op.pending \in Clusters
  BY DEF SetDirectoryEntryFirstCluster, Step, ContentInv, OperationStands, TypeInv
<1>2. /\ op.file \in exists /\ op.file \in Files /\ h \in Handle /\ h.open
      /\ Stands(table, first[op.file], h) /\ TypeOK
      /\ Reaches(table, first[op.file], h.size) /\ size[op.file] <= h.size
  BY <1>1, OperationHandle DEF TypeInv
<1>3. CASE Fail /\ UNCHANGED <<first, handle>>
  <2>1. op'.step = "idle"
    BY <1>2, <1>3, ReturnTypes
  <2> QED BY <1>1, <1>3, <2>1, StillHandle, IdleStands, StepContents
<1>4. CASE /\ first' = [first EXCEPT ![op.file] = op.pending]
           /\ SetHandle(x) /\ Goto("write")
  <2>1. x \in Handle
    BY <1>1, <1>2, ConstantTypes DEF Handle
  <2>2. first[op.file] = None /\ h.in_file = 0 /\ h.in_cluster = 0
    BY <1>1, <1>2 DEF Stands
  <2>3. h.size \in Nat /\ h.size = 0
    <3>1. h.size \in Nat
      BY <1>2 DEF Handle
    <3> QED BY <1>2, <2>2, <3>1, EmptyReaches
  <2>4. /\ x.first = op.pending /\ x.current = op.pending /\ x.open
        /\ x.in_file = 0 /\ x.in_cluster = 0 /\ x.size = 0
    BY <1>2, <2>2, <2>3 DEF Handle
  <2>5. /\ first'[op.file] = op.pending /\ handle'[op.file] = x
        /\ op'.step = "write" /\ op'.file = op.file
    BY <1>1, <1>2, <1>4, <2>1, SetHandleTypes, GotoTypes DEF TypeOK, Steps
  <2> HIDE DEF x
  <2>6. Stands(table, op.pending, x)
    <3>1. 0 \in Links /\ OffsetOf(0) = 0 /\ Walk(table, op.pending)[0] = op.pending
      BY OffsetsGrow, WalkSteps, MaxClusterAssumption DEF Links
    <3>2. StandsAt(table, op.pending, x, 0)
      BY <1>1, <2>4, <3>1 DEF StandsAt
    <3> QED BY <2>4, <3>1, <3>2 DEF Stands
  <2>7. Reaches(table, op.pending, 0)
    <3>1. \A m \in Nat : ~(OffsetOf(m) < 0)
      BY OffsetsGrow
    <3> QED BY <3>1 DEF Reaches
  <2>8. HandleStands(table', first'[op.file], size'[op.file], handle'[op.file])
    BY <1>1, <1>2, <2>3, <2>4, <2>5, <2>6, <2>7 DEF HandleStands
  <2>9. OperationStands' /\ SeeksAim'
    BY <1>1, <2>4, <2>5, ConstantTypes, GoesOn
  <2> QED BY <1>1, <2>8, <2>9, StepContents
<1> QED BY <1>3, <1>4 DEF SetDirectoryEntryFirstCluster

(* The chain of the file a cluster is linked to has it at its end.         *)
LEMMA LinkedCluster ==
    ASSUME TypeOK, ChainsSafe, NEW f \in exists, NEW n \in Links,
           Nth(f, n) \in Clusters, NEW p, NEW u, u[Nth(f, n)] = p,
           \A w \in Clusters \ {Nth(f, n)} : u[w] = table[w]
    PROVE  /\ n + 1 \in Links
           /\ Walk(u, first[f])[n + 1] = p
<1>1. n + 1 \in Links /\ n + 1 # 0 /\ (n + 1) - 1 = n /\ n <= n
  BY FileChain DEF Links
<1>2. table \in [Clusters -> Entry] /\ f \in Files /\ first[f] \in Entry
  BY ConstantTypes DEF TypeOK
<1>3. ASSUME NEW i \in Links, i < n, ~OutOfRange(Walk(table, first[f])[i])
      PROVE  u[Walk(table, first[f])[i]] = table[Walk(table, first[f])[i]]
  <2>1. Nth(f, i) \in Clusters
    <3>1. i <= n
      BY <1>3 DEF Links
    <3> QED BY <1>2, <3>1, WalkInside DEF Nth
  <2>2. Nth(f, i) # Nth(f, n)
    <3>1. i # n
      BY <1>3 DEF Links
    <3> QED BY <2>1, <3>1, FileChainsApart
  <2>3. u[Nth(f, i)] = table[Nth(f, i)]
    BY <1>2, <2>1, <2>2
  <2> QED BY <2>3 DEF Nth
<1>4. Walk(u, first[f])[n] = Nth(f, n)
  <2>1. \A i \in Links : i <= n =>
           Walk(u, first[f])[i] = Walk(table, first[f])[i]
    BY <1>3, WalkFrame
  <2> QED BY <1>1, <2>1 DEF Nth
<1>5. Walk(u, first[f])[n + 1] = Following(u, Nth(f, n))
  BY <1>1, <1>4, WalkSteps
<1>6. ~OutOfRange(Nth(f, n))
  BY <1>2, ConstantTypes
<1> QED BY <1>1, <1>5, <1>6 DEF Following

LEMMA LinkContents ==
    ASSUME Volume, LinkNextCluster
    PROVE  ContentInv'
<1> DEFINE y == OnTo(h, op.pending)
<1> USE DEF Volume, Before
<1>1. /\ op.step = "link" /\ UNCHANGED <<first, size>> /\ Step
      /\ h.current # None /\ h.in_cluster = BytesPerCluster
      /\ op.pending \in Clusters
  BY DEF LinkNextCluster, Step, ContentInv, OperationStands, TypeInv
<1>2. /\ op.file \in exists /\ op.file \in Files /\ h \in Handle /\ h.open
      /\ Stands(table, first[op.file], h) /\ TypeOK
      /\ size[op.file] <= h.size
  BY <1>1, OperationHandle DEF TypeInv
<1>3. \/ /\ table' = [table EXCEPT ![h.current] = op.pending]
         /\ SetHandle(y) /\ Goto("write")
      \/ /\ UNCHANGED <<table, handle>>
         /\ op' = [op EXCEPT !.step = "rollback"]
  BY <1>2, FailureIsSeen DEF LinkNextCluster, UpdateFATTableEntry, Sure, OnTo
<1>4. CASE /\ table' = [table EXCEPT ![h.current] = op.pending]
           /\ SetHandle(y) /\ Goto("write")
  <2>1. PICK n \in Links : StandsAt(table, first[op.file], h, n)
    BY <1>1, <1>2 DEF Stands
  <2>2. h.current = Nth(op.file, n) /\ h.current \in Clusters
    BY <2>1 DEF StandsAt, Nth
  <2>3. n + 1 \in Links /\ Walk(table', first[op.file])[n + 1] = op.pending
    <3>1. /\ table'[Nth(op.file, n)] = op.pending
          /\ \A w \in Clusters \ {Nth(op.file, n)} : table'[w] = table[w]
      BY <1>2, <1>4, <2>2 DEF TypeOK
    <3>2. ChainsSafe /\ Nth(op.file, n) \in Clusters
      BY <2>2 DEF ChainInv
    <3> QED BY <1>2, <3>1, <3>2, LinkedCluster
  <2>4. /\ Stands(table', first[op.file], y) /\ y.current # None
        /\ y.size = h.size /\ y.open = h.open
    <3>1. h.first = first[op.file] /\ h.in_file = OffsetOf(n) + h.in_cluster
      BY <1>2, <2>1 DEF StandsAt, Stands
    <3>2. PICK x \in Handle : x = h
      BY <1>2
    <3> DEFINE u == table'
               c == first[op.file]
               d == op.pending
    <3> HIDE DEF u, c, d
    <3>3. /\ x.first = c /\ x.in_file = OffsetOf(n) + x.in_cluster
          /\ x.in_cluster = BytesPerCluster
          /\ n + 1 \in Links /\ Walk(u, c)[n + 1] = d
      BY <1>1, <2>3, <3>1, <3>2 DEF u, c, d
    <3>4. /\ Stands(u, c, OnTo(x, d)) /\ OnTo(x, d).current # None
          /\ OnTo(x, d).size = x.size /\ OnTo(x, d).open = x.open
      <4>1. d \in Clusters
        BY <1>1 DEF d
      <4> QED BY <3>3, <4>1, StandsOnTo
    <3> QED BY <3>2, <3>4 DEF u, c, d
  <2>5. y \in Handle
    <3>1. 0 \in 0 .. BytesPerCluster /\ op.pending \in Entry
      BY <1>1, FileAssumption, ConstantTypes
    <3> QED BY <1>2, <3>1 DEF OnTo, Handle
  <2>6. SetHandle(y) /\ Goto("write")
    BY <1>4
  <2> HIDE DEF y
  <2>7. size'[op.file] <= y.size
    BY <1>1, <1>2, <2>4
  <2>8. HandleStands(table', first'[op.file], size'[op.file], handle'[op.file])
    BY <1>1, <2>4, <2>5, <2>6, <2>7, ChangedHandle
  <2>9. op'.step = "write" /\ op'.file = op.file /\ handle'[op.file] = y
    BY <1>1, <1>2, <2>5, <2>6, GotoTypes, SetHandleTypes DEF Steps
  <2> QED BY <1>1, <1>2, <2>4, <2>8, <2>9, GoesOn, StepContents
<1>5. CASE UNCHANGED <<table, handle>> /\ op' = [op EXCEPT !.step = "rollback"]
  <2>1. op'.step = "rollback" /\ op'.file = op.file /\ handle'[op.file] = h
    BY <1>2, <1>5 DEF TypeOK, Operation, h
  <2> QED BY <1>1, <1>2, <1>5, <2>1, StillHandle, GoesOn, StepContents
<1> QED BY <1>3, <1>4, <1>5

LEMMA UpdateEntryContents ==
    ASSUME Volume, UpdateDirectoryEntrySize
    PROVE  ContentInv'
<1> DEFINE x == IF h.in_file > h.size THEN [h EXCEPT !.size = h.in_file] ELSE h
           y == [x EXCEPT !.marked = TRUE]
<1> USE DEF Volume, Before
<1>1. op.step = "update_entry" /\ UNCHANGED <<table, first>> /\ Step
  BY DEF UpdateDirectoryEntrySize, Step
<1>2. /\ op.file \in exists /\ op.file \in Files /\ h \in Handle /\ h.open
      /\ Stands(table, first[op.file], h) /\ TypeOK
      /\ Reaches(table, first[op.file], h.size)
      /\ size[op.file] <= h.size
      /\ first[op.file] \in {None} \cup Clusters
      /\ table \in [Clusters -> Entry]
  BY <1>1, OperationHandle DEF TypeInv
<1>3. op'.step = "idle"
  BY <1>2, ReturnTypes DEF UpdateDirectoryEntrySize
<1>4. /\ h.in_file \in Nat /\ h.size \in Nat /\ size[op.file] \in Nat
      /\ Reaches(table, first[op.file], h.in_file)
  BY <1>2, StandsReaches DEF Handle, TypeOK
<1>5. /\ x \in Handle /\ x.size \in Nat /\ h.size <= x.size
      /\ x.current = h.current /\ x.first = h.first
      /\ x.in_file = h.in_file /\ x.in_cluster = h.in_cluster
      /\ Reaches(table, first[op.file], x.size)
  BY <1>2, <1>4 DEF Handle
<1>6. \/ UNCHANGED handle /\ UNCHANGED size
      \/ SetHandle(x) /\ UNCHANGED size
      \/ SetHandle(y) /\ size' = [size EXCEPT ![op.file] = x.size]
  BY DEF UpdateDirectoryEntrySize
<1> HIDE DEF x
<1>7. /\ y \in Handle /\ y.size = x.size
      /\ y.current = x.current /\ y.first = x.first
      /\ y.in_file = x.in_file /\ y.in_cluster = x.in_cluster
  BY <1>5 DEF Handle
<1> HIDE DEF y
<1>8. Stands(table, first[op.file], x) /\ Stands(table, first[op.file], y)
  BY <1>2, <1>5, <1>7 DEF Stands, StandsAt
<1>9. HandleStands(table', first'[op.file], size'[op.file], handle'[op.file])
  <2>1. CASE UNCHANGED handle /\ UNCHANGED size
    BY <1>1, <2>1, StillHandle
  <2>2. CASE SetHandle(x) /\ UNCHANGED size
    <3>1. size'[op.file] <= x.size
      BY <1>2, <1>4, <1>5, <2>2
    <3> QED BY <1>1, <1>5, <1>8, <2>2, <3>1, ChangedHandle
  <2>3. CASE SetHandle(y) /\ size' = [size EXCEPT ![op.file] = x.size]
    <3>1. size'[op.file] <= y.size
      BY <1>2, <1>4, <1>5, <1>7, <2>3 DEF TypeOK
    <3> QED BY <1>1, <1>5, <1>7, <1>8, <2>3, <3>1, ChangedHandle
  <2> QED BY <1>6, <2>1, <2>2, <2>3
<1> QED BY <1>1, <1>3, <1>9, IdleStands, StepContents

LEMMA ReleaseContents ==
    ASSUME Volume, ReleaseNext \/ ReleaseUnlinkedCluster
    PROVE  ContentInv'
<1> USE DEF Volume, Before
<1>1. op.step \in {"release", "rollback"} /\ UNCHANGED <<first, size, handle>> /\ Step
  BY DEF ReleaseNext, ReleaseUnlinkedCluster, Step
<1>2. op'.step \in {"idle", "release"}
  <2>1. CASE Return \/ Fail
    BY <2>1, ReturnTypes DEF TypeInv
  <2>2. CASE op.step = "release" /\ op' = [op EXCEPT !.pending = table[op.pending]]
    BY <2>2 DEF TypeInv, TypeOK, Operation
  <2> QED BY <2>1, <2>2
          DEF ReleaseNext, ReleaseUnlinkedCluster, UpdateFATTableEntry
<1>3. OperationStands' /\ SeeksAim'
  BY <1>2 DEF OperationStands, SeeksAim
<1> QED BY <1>1, <1>3, StillHandle, StepContents

-----------------------------------------------------------------------------
(* Where operations start.                                                 *)
LEMMA StartContents ==
    ASSUME Volume, Next, NEW f \in Files,
           \A g \in Files \ {f} : /\ handle'[g] = handle[g]
                                  /\ size'[g] = size[g] /\ first'[g] = first[g]
                                  /\ g \in exists => g \in exists',
           HandleStands(table', first'[f], size'[f], handle'[f]),
           OperationStands', SeeksAim'
    PROVE  ContentInv'
<1>1. ASSUME NEW g \in Files \ {f}
      PROVE  HandleStands(table', first'[g], size'[g], handle'[g])
  <2>1. handle[g].open => g \in exists
    BY DEF Volume, Before, ChainInv, FilesHaveEntries
  <2> QED BY <2>1, HandleKept
<1>2. HandlesStand'
  BY <1>1 DEF HandlesStand
<1> QED BY <1>2, SizesKept, DefectsKept DEF ContentInv

LEMMA ClosedStands == \A t, c, s, x : ~x.open => HandleStands(t, c, s, x)
BY DEF HandleStands

LEMMA NoBytesReached == \A t, c : Reaches(t, c, 0)
<1>1. \A m \in Nat : ~(OffsetOf(m) < 0)
  BY OffsetsGrow
<1> QED BY <1>1 DEF Reaches

LEMMA CreateContents ==
    ASSUME Volume, NEW f \in Files, NEW append \in AppendModes,
           CreateFile(f, append), Next
    PROVE  ContentInv'
<1> DEFINE x == [Closed EXCEPT !.open = TRUE, !.append = append]
<1> USE DEF Volume, Before
<1>1. /\ f \notin exists /\ UNCHANGED <<table, first, size>> /\ TypeOK
      /\ exists \subseteq exists'
  BY DEF CreateFile, TypeInv
<1>2. first[f] = None /\ size[f] = 0 /\ ~handle[f].open
  BY <1>1 DEF ChainInv, FilesHaveEntries, ContentInv, SizesReached
<1>3. op'.step = "idle"
  BY <1>1, ReturnTypes DEF CreateFile
<1>4. /\ x.first = None /\ x.current = None /\ x.size = 0
      /\ x.in_file = 0 /\ x.in_cluster = 0
  BY DEF Closed
<1>5. UNCHANGED handle \/ handle' = [handle EXCEPT ![f] = x]
  BY DEF CreateFile
<1> HIDE DEF x
<1>6. HandleStands(table', first'[f], size'[f], handle'[f])
  <2>1. CASE UNCHANGED handle
    BY <1>2, <2>1, ClosedStands
  <2>2. CASE handle' = [handle EXCEPT ![f] = x]
    <3>1. handle'[f] = x
      BY <1>1, <2>2 DEF TypeOK
    <3>2. first'[f] = None /\ size'[f] = 0
      BY <1>1, <1>2
    <3>3. Stands(table', None, x) /\ Reaches(table', None, 0)
      BY <1>4, NoBytesReached DEF Stands
    <3> QED BY <1>4, <3>1, <3>2, <3>3 DEF HandleStands
  <2> QED BY <1>5, <2>1, <2>2
<1>7. \A g \in Files \ {f} : handle'[g] = handle[g]
  BY <1>1, <1>5 DEF TypeOK
<1> QED BY <1>1, <1>3, <1>6, <1>7, IdleStands, StartContents

LEMMA OpenContents ==
    ASSUME Volume, NEW f \in Files, NEW append \in AppendModes,
           OpenFile(f, append), Next
    PROVE  ContentInv'
<1> DEFINE x == [Closed EXCEPT !.open = TRUE, !.append = append,
                               !.size = size[f], !.first = first[f],
                               !.current = first[f]]
<1> USE DEF Volume, Before
<1>1. /\ f \in exists /\ UNCHANGED <<table, exists, first, size, op>>
      /\ TypeOK /\ op.step = "idle"
      /\ handle' = [handle EXCEPT ![f] = x]
  BY IdleIsOperation DEF OpenFile, TypeInv
<1>2. /\ x.first = first[f] /\ x.current = first[f] /\ x.size = size[f]
      /\ x.in_file = 0 /\ x.in_cluster = 0
  BY DEF Closed
<1> HIDE DEF x
<1>3. Reaches(table, first[f], size[f]) /\ size[f] \in Nat
  BY <1>1 DEF ContentInv, SizesReached, TypeOK
<1>4. Stands(table, first[f], x)
  <2>1. CASE first[f] = None
    BY <1>2, <2>1 DEF Stands
  <2>2. CASE first[f] # None
    <3>1. first[f] \in Clusters
      BY <1>1, <2>2 DEF TypeOK
    <3>2. 0 \in Links /\ OffsetOf(0) = 0 /\ Walk(table, first[f])[0] = first[f]
      BY OffsetsGrow, WalkSteps, MaxClusterAssumption DEF Links
    <3>3. StandsAt(table, first[f], x, 0)
      BY <1>2, <3>1, <3>2 DEF StandsAt
    <3> QED BY <1>2, <2>2, <3>2, <3>3 DEF Stands
  <2> QED BY <2>1, <2>2
<1>5. handle'[f] = x /\ \A g \in Files \ {f} : handle'[g] = handle[g]
  BY <1>1 DEF TypeOK
<1>6. HandleStands(table', first'[f], size'[f], handle'[f])
  BY <1>1, <1>2, <1>3, <1>4, <1>5 DEF HandleStands
<1> QED BY <1>1, <1>5, <1>6, IdleStands, StartContents

LEMMA CloseContents ==
    ASSUME Volume, NEW f \in Files, Close(f) \/ DeleteFile(f), Next
    PROVE  ContentInv'
<1> USE DEF Volume, Before
<1>1. TypeOK /\ ~Closed.open
  BY DEF TypeInv, Closed
<1>2. CASE Close(f)
  <2>1. /\ UNCHANGED <<table, exists, first, size, op>> /\ op.step = "idle"
        /\ handle' = [handle EXCEPT ![f] = Closed]
    BY <1>2, IdleIsOperation DEF Close
  <2>2. handle'[f] = Closed /\ \A g \in Files \ {f} : handle'[g] = handle[g]
    BY <1>1, <2>1 DEF TypeOK
  <2> QED BY <1>1, <2>1, <2>2, ClosedStands, IdleStands, StartContents
<1>3. CASE DeleteFile(f)
  <2>1. UNCHANGED handle /\ ~handle[f].open
    BY <1>3 DEF DeleteFile
  <2>2. op'.step \in {"idle", "release"}
    BY <1>1, <1>3, ReturnTypes DEF DeleteFile, Idle
  <2>3. \A g \in Files \ {f} : /\ size'[g] = size[g] /\ first'[g] = first[g]
                               /\ g \in exists => g \in exists'
    <3>1. \/ UNCHANGED <<exists, first, size>>
          \/ /\ exists' = exists \ {f}
             /\ first' = [first EXCEPT ![f] = None]
             /\ size' = [size EXCEPT ![f] = 0]
      BY <1>3 DEF DeleteFile
    <3> QED BY <1>1, <3>1 DEF TypeOK
  <2>4. OperationStands' /\ SeeksAim'
    BY <2>2 DEF OperationStands, SeeksAim
  <2> QED BY <2>1, <2>3, <2>4, ClosedStands, StartContents
<1> QED BY <1>2, <1>3

LEMMA StartSeekContents ==
    ASSUME Volume, NEW f \in Files, NEW p \in Nat, NEW n \in Nat,
           n # 0 => p = handle[f].size, StartSeek(f, p, n), Next
    PROVE  ContentInv'
<1> DEFINE x == handle[f]
           q == SmallerOf(p, x.size)
<1> USE DEF Volume, Before
<1>1. /\ UNCHANGED <<table, exists, first, size>> /\ TypeOK /\ x.open
      /\ op = Idle /\ op.step = "idle" /\ x \in Handle
  BY IdleIsOperation DEF StartSeek, TypeInv, TypeOK
<1>2. /\ f \in exists /\ first[f] \in {None} \cup Clusters
      /\ table \in [Clusters -> Entry]
      /\ Stands(table, first[f], x) /\ Reaches(table, first[f], x.size)
      /\ size[f] <= x.size
  BY <1>1 DEF ChainInv, FilesHaveEntries, ContentInv, HandlesStand,
              HandleStands, TypeOK
<1>3. /\ x.size \in Nat /\ q \in Nat /\ q <= x.size
      /\ p = x.size => q = p
  BY <1>1, Smaller DEF Handle, SmallerOf
<1>4. \/ UNCHANGED handle
      \/ handle' = [handle EXCEPT ![f] = x]
      \/ x.current # None /\ handle' = [handle EXCEPT ![f] = FileStart(x)]
  BY DEF StartSeek
<1>5. /\ \/ handle'[f] = x
         \/ x.current # None /\ handle'[f] = FileStart(x)
      /\ \A g \in Files \ {f} : handle'[g] = handle[g]
  BY <1>1, <1>4 DEF TypeOK
<1>6. /\ handle'[f].open /\ handle'[f].size = x.size
      /\ Stands(table, first[f], handle'[f])
      /\ x.current # None => handle'[f].current # None
  BY <1>1, <1>2, <1>5, StandsFileStart
<1>7. HandleStands(table', first'[f], size'[f], handle'[f])
  BY <1>1, <1>2, <1>6 DEF HandleStands
<1>8. OperationStands' /\ SeeksAim'
  <2>1. CASE UNCHANGED op
    BY <1>1, <2>1, IdleStands
  <2>2. CASE n # 0 /\ (x.current = None \/ p = 0) /\ Begin("append", f, n, 0)
    <3>1. op'.step = "append" /\ op'.file = f /\ h' = handle'[f]
      BY <2>2 DEF Begin, h
    <3>2. h'.in_file = h'.size
      <4>1. CASE x.current = None
        <5>1. first[f] = None /\ x.in_file = 0
          BY <1>2, <4>1 DEF Stands
        <5>2. x.size = 0
          BY <1>2, <1>3, <5>1, EmptyReaches
        <5>3. handle'[f] = x
          BY <1>5, <4>1
        <5> QED BY <3>1, <5>1, <5>2, <5>3
      <4>2. CASE x.current # None
        <5>1. p = 0 /\ x.size = 0
          BY <2>2, <4>2
        <5>2. handle' = [handle EXCEPT ![f] = FileStart(x)]
          BY <4>2, <5>1 DEF StartSeek
        <5>3. handle'[f] = FileStart(x)
          BY <1>1, <5>2 DEF TypeOK
        <5>4. FileStart(x).in_file = 0
          BY <1>1, FileStartTypes
        <5> QED BY <1>6, <3>1, <5>1, <5>3, <5>4
      <4> QED BY <4>1, <4>2
    <3> QED BY <1>6, <3>1, <3>2 DEF OperationStands, SeeksAim
  <2>3. CASE x.current # None /\ Begin("seek", f, n, q)
    <3>1. /\ op'.step = "seek" /\ op'.file = f /\ h' = handle'[f]
          /\ op'.target = q /\ op'.remaining = n
      BY <2>3 DEF Begin, h
    <3> HIDE DEF x, q
    <3>2. n # 0 => q = x.size
      BY <1>3 DEF x
    <3> QED BY <1>3, <1>6, <2>3, <3>1, <3>2 DEF OperationStands, SeeksAim
  <2>4. \/ UNCHANGED op
        \/ n # 0 /\ (x.current = None \/ p = 0) /\ Begin("append", f, n, 0)
        \/ x.current # None /\ Begin("seek", f, n, q)
    BY DEF StartSeek
  <2> QED BY <2>1, <2>2, <2>3, <2>4
<1> QED BY <1>1, <1>5, <1>7, <1>8, StartContents

LEMMA TransferContents ==
    ASSUME Volume, NEW f \in Files, NEW n \in 1 .. MaxLength,
           Read(f, n) \/ Write(f, n), Next
    PROVE  ContentInv'
<1> USE DEF Volume, Before
<1>1. n \in Nat /\ n # 0 /\ handle[f] \in Handle /\ handle[f].size \in Nat
  BY FileAssumption DEF TypeInv, TypeOK, Handle
<1>2. CASE StartSeek(f, handle[f].size, n)
  BY <1>1, <1>2, StartSeekContents
<1>3. CASE ~StartSeek(f, handle[f].size, n)
  <2>1. /\ UNCHANGED <<table, exists, first, size, handle>>
        /\ handle[f].open
        /\ \/ handle[f].current # None /\ Begin("read", f, n, 0)
           \/ Begin(FirstStep(handle[f]), f, n, 0)
    BY <1>3 DEF Read, Write
  <2>2. op'.file = f /\ h' = handle[f]
    BY <2>1 DEF Begin, h
  <2>3. \/ op'.step = "read" /\ handle[f].current # None
        \/ op'.step = FirstStep(handle[f])
    BY <2>1 DEF Begin
  <2>4. OperationStands' /\ SeeksAim'
    BY <2>1, <2>2, <2>3 DEF FirstStep, OperationStands, SeeksAim
  <2>5. f \in exists
    BY <2>1 DEF ChainInv, FilesHaveEntries
  <2>6. HandleStands(table', first'[f], size'[f], handle'[f])
    BY <2>1, <2>5, HandleKept
  <2> QED BY <2>1, <2>4, <2>6, StartContents
<1> QED BY <1>2, <1>3

LEMMA RemountContents ==
    ASSUME Volume, Remount, Next
    PROVE  ContentInv'
<1>1. op'.step = "idle" /\ \A f \in Files : handle'[f] = Closed
  BY IdleIsOperation DEF Remount
<1>2. ~Closed.open
  BY DEF Closed
<1>3. HandlesStand'
  BY <1>1, <1>2, ClosedStands DEF HandlesStand
<1> QED BY <1>1, <1>3, IdleStands, SizesKept, DefectsKept DEF ContentInv

LEMMA InitContentInv == Init => ContentInv
<1> SUFFICES ASSUME Init PROVE ContentInv
  OBVIOUS
<1>1. /\ exists = {} /\ op.step = "idle" /\ \A f \in Files : size[f] = 0
      /\ \A f \in Files : handle[f] = Closed
  BY IdleIsOperation DEF Init
<1>2. ~Closed.open
  BY DEF Closed
<1>3. HandlesStand
  BY <1>1, <1>2, ClosedStands DEF HandlesStand
<1>4. \A c \in Clusters : table[c] # Defective
  BY MaxClusterAssumption DEF Init, EOF, Free, Defective
<1> QED BY <1>1, <1>3, <1>4
        DEF ContentInv, SizesReached, OperationStands, SeeksAim, NoDefects

LEMMA NextContentInv ==
    ASSUME TypeInv, ChainInv, ContentInv, Sure', [Next]_vars
    PROVE  ContentInv'
<1>1. Volume
  BY NextTypeInv, NextChainInv DEF Volume, Before
<1>2. CASE UNCHANGED vars
  BY <1>2 DEF ContentInv, SizesReached, HandlesStand, OperationStands, SeeksAim,
              NoDefects, h
<1>3. CASE Next
  <2>1. ASSUME NEW f \in Files,
               \/ \E append \in AppendModes :
                      CreateFile(f, append) \/ OpenFile(f, append)
               \/ Close(f) \/ DeleteFile(f)
        PROVE  ContentInv'
    BY <1>1, <1>3, <2>1, CreateContents, OpenContents, CloseContents
  <2>2. ASSUME NEW f \in Files, NEW p \in SeekTargets, StartSeek(f, p, 0)
        PROVE  ContentInv'
    <3>1. p \in Nat /\ 0 \in Nat
      BY FileAssumption
    <3> QED BY <1>1, <1>3, <2>2, <3>1, StartSeekContents
  <2>3. ASSUME NEW f \in Files, NEW n \in 1 .. MaxLength,
               \/ Read(f, n) \/ Write(f, n) \/ StartSeek(f, handle[f].size, n)
        PROVE  ContentInv'
    <3>1. n \in Nat /\ handle[f].size \in Nat
      BY FileAssumption DEF TypeInv, TypeOK, Handle
    <3> QED BY <1>1, <1>3, <2>3, <3>1, TransferContents, StartSeekContents
  <2>4. CASE Step
    BY <1>1, <2>4, SeekContents, ReadContents, AppendHereContents,
       WriteClusterContents, MoveContents, ClaimingContents, SetFirstContents,
       LinkContents, UpdateEntryContents, ReleaseContents DEF Step
  <2>5. CASE Remount
    BY <1>1, <1>3, <2>5, RemountContents
  <2> QED BY <1>3, <2>1, <2>2, <2>3, <2>4, <2>5, NextCases
<1> QED BY <1>2, <1>3

LEMMA ContentInvHolds == Spec => [](Sure => TypeInv /\ ChainInv /\ ContentInv)
<1>1. Init => TypeInv /\ (Sure => ChainInv /\ ContentInv)
  BY InitTypeInv, InitChainInv, InitContentInv
<1>2. TypeInv /\ (Sure => ChainInv /\ ContentInv) /\ [Next]_vars
        => (TypeInv /\ (Sure => ChainInv /\ ContentInv))'
  BY NextTypeInv, NextChainInv, NextContentInv, SureBefore DEF TypeInv
<1>3. TypeInv /\ (Sure => ChainInv /\ ContentInv)
        => (Sure => TypeInv /\ ChainInv /\ ContentInv)
  OBVIOUS
<1> QED BY <1>1, <1>2, <1>3, PTL DEF Spec

(* An append starts writing where the file ends, wherever the handle stood *)
(* and whatever failed before, short of a mirrored update that failed half *)
(* way: the seek of FAT32File::Write and Append to the end reaches it,     *)
(* across the boundaries of any number of clusters.                        *)
THEOREM AppendsStartAtTheEnd == Spec => []AppendStartsAtTheEnd
<1>1. (Sure => TypeInv /\ ChainInv /\ ContentInv) => AppendStartsAtTheEnd
  BY DEF Sure, ContentInv, SeeksAim, AppendStartsAtTheEnd
<1> QED BY <1>1, ContentInvHolds, PTL

-----------------------------------------------------------------------------
(* Bytes.  A byte that is in its place stays there until its file is       *)
(* deleted: its cluster stays where it is in the chain, and what is        *)
(* written to the cluster is written at the offset of the handle.          *)
LEMMA InPlaceInChain ==
    ASSUME NEW f, NEW o
    PROVE  InPlace(f, o) <=>
             /\ Nth(f, o \div BytesPerCluster) \in Clusters
             /\ data[Nth(f, o \div BytesPerCluster)][o % BytesPerCluster] = <<f, o>>
BY WalkIsChain DEF InPlace, Nth

LEMMA InPlaceNext ==
    ASSUME NEW f, NEW o, NEW c, c = Walk(table', first'[f])[o \div BytesPerCluster],
           c \in Clusters, data'[c][o % BytesPerCluster] = <<f, o>>
    PROVE  InPlace(f, o)'
BY DEF InPlace, Chain, Walk, Walks, Following

\* The bytes of a turn of the write loop.
Written ==
    data' = [data EXCEPT ![h.current] =
                [i \in Places |->
                    IF i \in h.in_cluster .. h.in_cluster + BytesToCopy - 1
                    THEN <<op.file, (h.in_file + i) - h.in_cluster>>
                    ELSE BlockBuffer[i]]]

(* The changes of the bytes a step can make.                               *)
LEMMA DataChanges ==
    ASSUME TypeInv, ChainInv, Next
    PROVE  \/ UNCHANGED data
           \/ \E d \in Clusters : Unnamed(d) /\ ForgetBytes(d)
           \/ WriteCluster /\ Written
<1> USE DEF TypeInv, TypeOK
<1>1. CASE Remount
  BY <1>1 DEF Remount
<1>2. CASE ReleaseNext
  <2>1. CASE OutOfRange(op.pending)
    BY <1>2, <2>1 DEF ReleaseNext
  <2>2. CASE ~OutOfRange(op.pending)
    <3>1. op.pending \in Clusters
      BY <2>2, ConstantTypes DEF Operation
    <3>2. Unnamed(op.pending) /\ ForgetBytes(op.pending)
      BY <1>2, <2>2, <3>1 DEF ReleaseNext, ChainInv, PendingIsUnnamed
    <3> QED BY <3>1, <3>2
  <2> QED BY <2>1, <2>2
<1>3. CASE ReleaseUnlinkedCluster
  <2>1. op.pending \in Clusters /\ Unnamed(op.pending) /\ ForgetBytes(op.pending)
    BY <1>3 DEF ReleaseUnlinkedCluster, ChainInv, PendingIsUnnamed
  <2> QED BY <2>1
<1>4. CASE \/ SeekStep \/ ReadStep \/ AppendHere \/ SetDirectoryEntryFirstCluster
           \/ MoveToNextCluster \/ UpdateDirectoryEntrySize
           \/ ClaimFirstCluster \/ ClaimNextCluster \/ LinkNextCluster
  BY <1>4 DEF SeekStep, ReadStep, AppendHere, SetDirectoryEntryFirstCluster,
              MoveToNextCluster, UpdateDirectoryEntrySize, ClaimFirstCluster,
              ClaimNextCluster, LinkNextCluster
<1>5. ASSUME NEW f \in Files,
             \/ \E append \in AppendModes : CreateFile(f, append) \/ OpenFile(f, append)
             \/ Close(f) \/ DeleteFile(f)
             \/ \E p, n : StartSeek(f, p, n)
             \/ \E n \in 1 .. MaxLength : Read(f, n) \/ Write(f, n)
      PROVE  UNCHANGED data
  <2>1. \A p, n : StartSeek(f, p, n) => UNCHANGED data
    BY DEF StartSeek
  <2> QED BY <1>5, <2>1 DEF CreateFile, OpenFile, Close, DeleteFile, Read, Write
<1>6. WriteCluster => UNCHANGED data \/ Written
  BY DEF WriteCluster, Written
<1> QED BY <1>1, <1>2, <1>3, <1>4, <1>5, <1>6, NextCases DEF Step

(* What a write leaves in the cluster of its handle.                       *)
LEMMA WrittenBytes ==
    ASSUME TypeOK, Written, h.current \in Clusters
    PROVE  /\ \A d \in Clusters \ {h.current} : data'[d] = data[d]
           /\ \A i \in Places :
                data'[h.current][i] =
                  IF i \in h.in_cluster .. h.in_cluster + BytesToCopy - 1
                  THEN <<op.file, (h.in_file + i) - h.in_cluster>>
                  ELSE data[h.current][i]
<1>1. data' = [data EXCEPT ![h.current] =
                [i \in Places |->
                    IF i \in h.in_cluster .. h.in_cluster + BytesToCopy - 1
                    THEN <<op.file, (h.in_file + i) - h.in_cluster>>
                    ELSE BlockBuffer[i]]]
  BY DEF Written
<1>2. data \in [Clusters -> [Places -> Byte]]
  BY DEF TypeOK
<1>3. ASSUME NEW i \in Places,
             i \notin h.in_cluster .. h.in_cluster + BytesToCopy - 1
      PROVE  BlockBuffer[i] = data[h.current][i]
  <2>1. ~OverwritesWholeCluster
    BY <1>3, FileAssumption DEF OverwritesWholeCluster, Places
  <2> QED BY <2>1 DEF BlockBuffer
<1> QED BY <1>1, <1>2, <1>3

LEMMA BytesKept ==
    ASSUME Before, Sure', Next, NEW f \in exists, f \in exists',
           NEW o \in Nat, o \div BytesPerCluster \in Links, InPlace(f, o)
    PROVE  InPlace(f, o)'
<1> DEFINE n == o \div BytesPerCluster
           i == o % BytesPerCluster
           c == Nth(f, n)
<1> USE DEF Before
<1>1. c \in Clusters /\ data[c][i] = <<f, o>> /\ i \in Places /\ n \in Nat
  BY InPlaceInChain, OffsetsDivide
<1>2. Grows(table, first[f], table', first'[f]) /\ TypeOK /\ ChainsSafe
  BY ChainsGrow DEF TypeInv, ChainInv
<1>3. c = Walk(table', first'[f])[n]
  BY <1>1, <1>2 DEF Grows, Nth
<1>4. ~Unnamed(c)
  BY <1>1, <1>2, FileChain
<1>5. data'[c][i] = <<f, o>>
  <2>1. CASE UNCHANGED data
    BY <1>1, <2>1
  <2>2. ASSUME NEW d \in Clusters, Unnamed(d), ForgetBytes(d)
        PROVE  data'[c][i] = <<f, o>>
    <3>1. c # d /\ data \in [Clusters -> [Places -> Byte]]
      BY <1>2, <1>4, <2>2 DEF TypeOK
    <3> HIDE DEF c, i
    <3>2. data'[c] = data[c]
      BY <1>1, <2>2, <3>1 DEF ForgetBytes
    <3> QED BY <1>1, <3>2
  <2>3. CASE WriteCluster /\ Written
    <3>1. op.step = "write" /\ h.current # None
      BY <2>3 DEF WriteCluster, ContentInv, OperationStands
    <3>2. /\ op.file \in exists /\ h \in Handle
          /\ Stands(table, first[op.file], h)
      BY <3>1, OperationHandle
    <3>3. PICK m \in Links : StandsAt(table, first[op.file], h, m)
      BY <3>1, <3>2 DEF Stands
    <3>4. /\ h.current = Nth(op.file, m) /\ h.current \in Clusters
          /\ h.in_file = OffsetOf(m) + h.in_cluster
      BY <3>3 DEF StandsAt, Nth
    <3>5. CASE c # h.current
      <4>1. data'[c] = data[c]
        BY <1>1, <1>2, <2>3, <3>4, <3>5, WrittenBytes
      <4> QED BY <1>1, <4>1
    <3>6. CASE c = h.current
      <4>1. f = op.file /\ n = m
        BY <1>1, <1>2, <3>2, <3>4, <3>6, FileChainsApart
      <4>2. o = OffsetOf(n) + i /\ OffsetOf(n) \in Nat
        BY <1>1, OffsetsDivide, OffsetsGrow
      <4>3. h.in_cluster \in Nat /\ i \in Nat
        BY <1>1, <3>2, FileAssumption DEF Handle, Places
      <4> HIDE DEF n, i
      <4>4. (h.in_file + i) - h.in_cluster = o
        BY <3>4, <4>1, <4>2, <4>3
      <4>5. data'[c][i] = <<f, o>> \/ data'[c][i] = data[c][i]
        BY <1>1, <1>2, <2>3, <3>4, <3>6, <4>1, <4>4, WrittenBytes
      <4> QED BY <1>1, <4>5
    <3> QED BY <3>5, <3>6
  <2> QED BY <2>1, <2>2, <2>3, DataChanges
<1> HIDE DEF c
<1> QED BY <1>1, <1>3, <1>5, InPlaceNext

(* The sizes of the entries that stay do not shrink.                       *)
LEMMA SizesGrow ==
    ASSUME Before, Next, NEW f \in exists'
    PROVE  /\ size[f] <= size'[f]
           /\ \/ size'[f] = size[f]
              \/ handle[f].open /\ size'[f] \in {handle[f].size, handle[f].in_file}
<1> USE DEF Before, TypeInv, TypeOK
<1>1. f \in Files /\ size[f] \in Nat
  <2>1. exists' \subseteq Files
    BY NextTypeInv
  <2> QED BY <2>1
<1>2. ASSUME NEW g \in Files, DeleteFile(g) PROVE size'[f] = size[f]
  <2>1. \/ UNCHANGED size
        \/ exists' = exists \ {g} /\ size' = [size EXCEPT ![g] = 0]
    BY <1>2 DEF DeleteFile
  <2> QED BY <1>1, <2>1
<1>3. CASE UpdateDirectoryEntrySize
  <2>1. op.step = "update_entry"
    BY <1>3 DEF UpdateDirectoryEntrySize
  <2>2. h \in Handle /\ h.open /\ size[op.file] <= h.size /\ op.file \in Files
    BY <2>1, OperationHandle
  <2>3. h.size \in Nat /\ h.in_file \in Nat
    BY <2>2 DEF Handle
  <2>4. \/ UNCHANGED size
        \/ \E s \in {h.size, h.in_file} :
             s >= h.size /\ size' = [size EXCEPT ![op.file] = s]
    <3> DEFINE x == IF h.in_file > h.size THEN [h EXCEPT !.size = h.in_file] ELSE h
    <3>1. UNCHANGED size \/ size' = [size EXCEPT ![op.file] = x.size]
      BY <1>3 DEF UpdateDirectoryEntrySize
    <3>2. x.size \in {h.size, h.in_file} /\ x.size >= h.size
      BY <2>2, <2>3 DEF Handle
    <3> QED BY <3>1, <3>2
  <2>5. CASE UNCHANGED size
    BY <1>1, <2>5
  <2>6. ASSUME NEW s \in {h.size, h.in_file}, s >= h.size,
               size' = [size EXCEPT ![op.file] = s]
        PROVE  /\ size[f] <= size'[f]
               /\ \/ size'[f] = size[f]
                  \/ handle[f].open /\ size'[f] \in {handle[f].size, handle[f].in_file}
    <3>1. CASE f = op.file
      BY <2>2, <2>3, <2>6, <3>1 DEF h
    <3>2. CASE f # op.file
      BY <1>1, <2>6, <3>2
    <3> QED BY <3>1, <3>2
  <2> QED BY <2>4, <2>5, <2>6
<1>4. CASE Step /\ ~UpdateDirectoryEntrySize
  <2>1. UNCHANGED size
    BY <1>4 DEF Step, ReleaseNext, SeekStep, ReadStep, AppendHere,
       ClaimFirstCluster, SetDirectoryEntryFirstCluster, WriteCluster,
       MoveToNextCluster, ClaimNextCluster, LinkNextCluster,
       ReleaseUnlinkedCluster
  <2> QED BY <1>1, <2>1
<1>5. CASE Remount
  BY <1>1, <1>5 DEF Remount
<1>6. ASSUME NEW g \in Files,
             \/ \E append \in AppendModes : CreateFile(g, append) \/ OpenFile(g, append)
             \/ Close(g)
             \/ \E p, n : StartSeek(g, p, n)
             \/ \E n \in 1 .. MaxLength : Read(g, n) \/ Write(g, n)
      PROVE  UNCHANGED size
  <2>1. \A p, n : StartSeek(g, p, n) => UNCHANGED size
    BY DEF StartSeek
  <2> QED BY <1>6, <2>1 DEF CreateFile, OpenFile, Close, Read, Write
<1> QED BY <1>1, <1>2, <1>3, <1>4, <1>5, <1>6, NextCases

LEMMA SizeInLinks ==
    ASSUME NEW t, NEW c, NEW s \in Nat, Reaches(t, c, s), NEW o \in Nat, o < s
    PROVE  /\ o \div BytesPerCluster \in Links
           /\ Walk(t, c)[o \div BytesPerCluster] \in Clusters
<1>1. /\ o \div BytesPerCluster \in Nat /\ o % BytesPerCluster \in Nat
      /\ o = OffsetOf(o \div BytesPerCluster) + (o % BytesPerCluster)
  BY OffsetsDivide, FileAssumption DEF Places
<1>2. OffsetOf(o \div BytesPerCluster) \in Nat
  BY <1>1, OffsetsGrow
<1>3. OffsetOf(o \div BytesPerCluster) < s
  BY <1>1, <1>2
<1> QED BY <1>1, <1>3 DEF Reaches

LEMMA StoredBytesStay ==
    ASSUME Before, Sure', [Next]_vars, disk' # disk
    PROVE  \A f \in exists \cap exists' : \A o \in 0 .. size[f] - 1 :
              InPlace(f, o) => o < size'[f] /\ InPlace(f, o)'
<1> SUFFICES ASSUME NEW f \in exists, f \in exists', NEW o \in 0 .. size[f] - 1,
                    InPlace(f, o)
             PROVE  o < size'[f] /\ InPlace(f, o)'
  OBVIOUS
<1>1. Next
  OBVIOUS
<1>2. size[f] \in Nat /\ o \in Nat /\ o < size[f] /\ size'[f] \in Nat
  <2>1. size \in [Files -> Nat] /\ size' \in [Files -> Nat] /\ f \in Files
    BY NextTypeInv DEF Before, TypeInv, TypeOK
  <2> QED BY <2>1
<1>3. size[f] <= size'[f]
  BY <1>1, SizesGrow
<1>4. o \div BytesPerCluster \in Links
  BY <1>2, SizeInLinks DEF Before, ContentInv, SizesReached
<1>5. InPlace(f, o)'
  BY <1>1, <1>2, <1>4, BytesKept
<1> QED BY <1>2, <1>3, <1>5

(* On a volume with one FAT a byte that is on the device, below the size   *)
(* and in place, stays so until its file is deleted: through writes of     *)
(* this file and of others, any number of failed accesses and power        *)
(* failures (FAT32File::Write never moves a cluster, and DeleteFile        *)
(* releases only what no entry leads to).                                  *)
THEOREM StoredBytesAreKept ==
    ASSUME ~Mirrored
    PROVE  Spec => StoredBytesSurvive
<1>1. (Sure => TypeInv /\ ChainInv /\ ContentInv) /\ [Next]_vars
        => [disk' # disk =>
              \A f \in exists \cap exists' : \A o \in 0 .. size[f] - 1 :
                 InPlace(f, o) => o < size'[f] /\ InPlace(f, o)']_vars
  BY StoredBytesStay DEF Sure, Before
<1> QED BY <1>1, ContentInvHolds, PTL DEF Spec, StoredBytesSurvive

-----------------------------------------------------------------------------
(* What holds as long as no device access has failed: the handles know the *)
(* sizes, every byte up to the size and up to an open handle is in its     *)
(* place, and a handle is past the end of its file only in the middle of a *)
(* write or, after one that found the volume full, at the end of a cluster.*)
WritingSteps == {"write", "next", "link", "update_entry"}

\* The handle x of f, when the size on the device is s.
PastTheEnd(f, s, x) ==
    x.in_file > s => \/ x.in_cluster = BytesPerCluster
                     \/ op.file = f /\ op.step \in WritingSteps
HandleKnows(f) ==
    handle[f].open => handle[f].size = size[f] /\ PastTheEnd(f, size[f], handle[f])
BytesInPlace(f) ==
    /\ \A o \in Nat : f \in exists /\ o < size[f] => InPlace(f, o)
    /\ \A o \in Nat : handle[f].open /\ o < handle[f].in_file => InPlace(f, o)

ByteInv == /\ \A f \in Files : HandleKnows(f) /\ BytesInPlace(f)
           /\ op.step # "rollback"

Clean == Volume /\ ContentInv' /\ clean' /\ ByteInv

\* What a step does to the handle of f.
HandleMoves(f) ==
    handle'[f].open =>
        /\ handle'[f].size = size'[f]
        /\ \/ handle'[f].in_file <= size'[f]
           \/ /\ handle[f].open /\ handle'[f].in_file <= handle[f].in_file
           \/ /\ WriteCluster /\ f = op.file /\ Written
              /\ handle'[f].in_file = h.in_file + BytesToCopy
        /\ handle'[f].in_file > size'[f] =>
              \/ handle'[f].in_cluster = BytesPerCluster
              \/ op'.file = f /\ op'.step \in WritingSteps

LEMMA HandleStays ==
    ASSUME Clean, NEW f \in Files, handle'[f] = handle[f], size'[f] = size[f],
           \/ op.file # f
           \/ op.step \notin WritingSteps
           \/ op'.file = f /\ op'.step \in WritingSteps
           \/ handle[f].in_cluster = BytesPerCluster
    PROVE  HandleMoves(f)
<1>1. handle[f] \in Handle /\ handle[f].in_file \in Nat /\ size[f] \in Nat
  BY DEF Clean, Volume, Before, TypeInv, TypeOK, Handle
<1>2. handle[f].open => /\ handle[f].size = size[f]
                        /\ PastTheEnd(f, size[f], handle[f])
  BY DEF Clean, ByteInv, HandleKnows
<1> QED BY <1>1, <1>2 DEF HandleMoves, PastTheEnd

LEMMA NoFailure == Clean => ~Fail /\ ~Fault
BY FailureIsSeen DEF Clean, Volume, Before, TypeInv

(* The other files' handles stay where they are in a step of an operation. *)
LEMMA OtherHandles ==
    ASSUME Clean, Step, HandleMoves(op.file)
    PROVE  \A f \in Files : HandleMoves(f)
<1> SUFFICES ASSUME NEW f \in Files, f # op.file PROVE HandleMoves(f)
  OBVIOUS
<1>1. handle'[f] = handle[f] /\ size'[f] = size[f]
  BY StepFrame DEF Clean, Volume, Before
<1> QED BY <1>1, HandleStays

LEMMA OperationKnows ==
    ASSUME Clean, op.step \notin {"idle", "release"}
    PROVE  /\ op.file \in exists /\ op.file \in Files /\ h \in Handle /\ h.open
           /\ Stands(table, first[op.file], h) /\ TypeOK /\ TypeInv
           /\ h.size = size[op.file] /\ size[op.file] \in Nat
           /\ h.in_file \in Nat /\ h.in_cluster \in 0 .. BytesPerCluster
           /\ op.remaining \in Nat
<1>1. /\ op.file \in exists /\ op.file \in Files /\ h \in Handle /\ h.open
      /\ Stands(table, first[op.file], h) /\ TypeOK /\ TypeInv
  BY OperationHandle DEF Clean, Volume, Before, TypeInv
<1> QED BY <1>1 DEF Clean, ByteInv, HandleKnows, h, TypeOK, Handle, Operation

(* A step of an operation whose handle ends up where it stood or inside    *)
(* the file.                                                               *)
LEMMA SetHandleMoves ==
    ASSUME Clean, Step, op.step \notin {"idle", "release"}, UNCHANGED size,
           NEW x \in Handle, SetHandle(x), x.size = h.size,
           x.in_file <= h.size
    PROVE  \A f \in Files : HandleMoves(f)
<1>1. handle'[op.file] = x /\ size'[op.file] = h.size
  BY OperationKnows, SetHandleTypes
<1>2. x.in_file \in Nat /\ h.size \in Nat
  BY OperationKnows DEF Handle
<1>3. HandleMoves(op.file)
  BY <1>1, <1>2 DEF HandleMoves
<1> QED BY <1>3, OtherHandles

LEMMA SeekMovesHandle ==
    ASSUME Clean, SeekStep
    PROVE  \A f \in Files : HandleMoves(f)
<1> DEFINE x == Advance(h, SeekDistance)
           y == OnTo(x, table[x.current])
<1>1. op.step = "seek" /\ UNCHANGED size /\ Step
  BY DEF SeekStep, Step
<1>2. h \in Handle /\ h.open /\ h.size \in Nat /\ TypeInv /\ TypeOK
  BY <1>1, OperationKnows
<1>3. /\ x \in Handle /\ x.size = h.size /\ x.in_file <= op.target
  <2>1. /\ SeekDistance \in Nat /\ h.in_cluster + SeekDistance <= BytesPerCluster
        /\ h.in_file + SeekDistance <= op.target
    BY <1>1, <1>2, SeekMoves
  <2>2. x \in Handle /\ x.in_file = h.in_file + SeekDistance
    BY <1>2, <2>1, AdvanceTypes
  <2>3. x.size = h.size
    BY <1>2 DEF Advance, Handle
  <2> QED BY <2>1, <2>2, <2>3
<1>4. op.target \in Nat /\ op.target <= h.size /\ x.in_file \in Nat
  BY <1>1, <1>2, <1>3 DEF Clean, Volume, Before, ContentInv, SeeksAim, TypeOK, Operation, Handle
<1>5. x.in_file <= h.size
  BY <1>2, <1>3, <1>4
<1>6. SetHandle(x) \/ (~OutOfRange(x.current) /\ SetHandle(y))
  BY DEF SeekStep, NextCluster, OnTo
<1>7. CASE SetHandle(x)
  <2> HIDE DEF x
  <2> QED BY <1>1, <1>3, <1>5, <1>7, SetHandleMoves
<1>8. CASE ~OutOfRange(x.current) /\ SetHandle(y)
  <2> HIDE DEF x
  <2>1. y \in Handle /\ y.size = h.size /\ y.in_file = x.in_file
    BY <1>2, <1>3, <1>8, OnToIsHandle DEF OnTo, Handle
  <2>2. SetHandle(y)
    BY <1>8
  <2> HIDE DEF y
  <2> QED BY <1>1, <1>5, <2>1, <2>2, SetHandleMoves
<1> QED BY <1>6, <1>7, <1>8

(* A read takes only what lies inside the file: where the handle is past   *)
(* the end, nothing is left in its cluster.                                *)
LEMMA ReadStaysInside ==
    ASSUME Clean, op.step = "read"
    PROVE  /\ BytesToRead \in Nat
           /\ h.in_file <= h.size => h.in_file + BytesToRead <= h.size
           /\ h.in_file > h.size =>
                BytesToRead = 0 /\ h.in_cluster = BytesPerCluster
<1>1. /\ h \in Handle /\ h.size \in Nat /\ h.in_file \in Nat
      /\ h.in_cluster \in 0 .. BytesPerCluster /\ op.remaining \in Nat
      /\ h.size = size[op.file] /\ h.open /\ op.file \in Files /\ TypeOK
  BY OperationKnows DEF Handle
<1>2. BytesToRead \in Nat /\ h.in_cluster + BytesToRead <= BytesPerCluster
  BY <1>1, ReadDistance
<1>3. BytesPerCluster \in Nat
  BY FileAssumption
<1>4. h.in_file <= h.size => h.in_file + BytesToRead <= h.size
  <2> SUFFICES ASSUME h.in_file <= h.size
               PROVE  BytesToRead <= h.size - h.in_file
    BY <1>1, <1>2
  <2> DEFINE a == BytesPerCluster - h.in_cluster
             b == h.size - h.in_file
  <2>1. a \in Nat /\ b \in Nat
    BY <1>1, <1>3
  <2>2. BytesToRead = SmallerOf(op.remaining, SmallerOf(a, b))
    BY DEF BytesToRead, BytesLeftInFile
  <2> HIDE DEF a, b
  <2>3. SmallerOf(a, b) \in Nat /\ SmallerOf(a, b) <= b
    BY <2>1, Smaller
  <2>4. BytesToRead <= SmallerOf(a, b)
    BY <1>1, <2>2, <2>3, Smaller
  <2> QED BY <1>2, <2>1, <2>3, <2>4 DEF b
<1>5. h.in_file > h.size => h.in_cluster = BytesPerCluster
  BY <1>1 DEF Clean, ByteInv, HandleKnows, PastTheEnd, WritingSteps, h
<1>6. h.in_file > h.size => BytesToRead = 0
  BY <1>1, <1>2, <1>3, <1>5
<1> QED BY <1>2, <1>4, <1>5, <1>6

LEMMA ReadMovesHandle ==
    ASSUME Clean, ReadStep
    PROVE  \A f \in Files : HandleMoves(f)
<1> DEFINE x == Advance(h, BytesToRead)
           y == OnTo(x, table[x.current])
<1>1. op.step = "read" /\ UNCHANGED size /\ Step
  BY DEF ReadStep, Step
<1>2. /\ h \in Handle /\ h.size \in Nat /\ h.in_file \in Nat /\ TypeOK
      /\ op.file \in Files /\ size[op.file] = h.size
      /\ h.in_cluster \in 0 .. BytesPerCluster
  BY <1>1, OperationKnows DEF Handle
<1>3. /\ x \in Handle /\ x.size = h.size /\ x.in_file = h.in_file + BytesToRead
      /\ x.in_cluster = h.in_cluster + BytesToRead
  <2>1. BytesToRead \in Nat /\ h.in_cluster + BytesToRead <= BytesPerCluster
    BY <1>1, <1>2, ReadDistance
  <2>2. x \in Handle /\ x.in_file = h.in_file + BytesToRead
    BY <1>2, <2>1, AdvanceTypes
  <2>3. x.size = h.size /\ x.in_cluster = h.in_cluster + BytesToRead
    BY <1>2 DEF Advance, Handle
  <2> QED BY <2>2, <2>3
<1>4. \/ UNCHANGED handle
      \/ SetHandle(x)
      \/ ~(x.in_file >= x.size) /\ ~OutOfRange(x.current) /\ SetHandle(y)
  BY DEF ReadStep, NextCluster, OnTo
<1> HIDE DEF x
<1>5. CASE UNCHANGED handle
  <2>1. op.step \notin WritingSteps
    BY <1>1 DEF WritingSteps
  <2>2. HandleMoves(op.file)
    BY <1>1, <1>2, <1>5, <2>1, HandleStays
  <2> QED BY <1>1, <2>2, OtherHandles
<1>6. CASE SetHandle(x)
  <2>1. CASE h.in_file <= h.size
    <3>1. x.in_file <= h.size
      BY <1>1, <1>3, <2>1, ReadStaysInside
    <3> QED BY <1>1, <1>3, <1>6, <3>1, SetHandleMoves
  <2>2. CASE h.in_file > h.size
    <3>1. BytesToRead = 0 /\ h.in_cluster = BytesPerCluster
      BY <1>1, <2>2, ReadStaysInside
    <3>2. handle'[op.file] = x /\ size'[op.file] = h.size
      BY <1>1, <1>2, <1>3, <1>6, SetHandleTypes
    <3>3. h.open /\ h = handle[op.file]
      BY <1>1, OperationKnows DEF h
    <3>4. x.in_file = h.in_file /\ x.in_cluster = BytesPerCluster
      BY <1>2, <1>3, <3>1
    <3>5. HandleMoves(op.file)
      BY <1>2, <1>3, <3>2, <3>3, <3>4 DEF HandleMoves
    <3> QED BY <1>1, <3>5, OtherHandles
  <2> QED BY <1>2, <2>1, <2>2
<1>7. CASE ~(x.in_file >= x.size) /\ ~OutOfRange(x.current) /\ SetHandle(y)
  <2>1. y \in Handle /\ y.size = h.size /\ y.in_file = x.in_file
    BY <1>2, <1>3, <1>7, OnToIsHandle DEF OnTo, Handle
  <2>2. SetHandle(y)
    BY <1>7
  <2>3. x.in_file <= h.size
    BY <1>2, <1>3, <1>7 DEF Handle
  <2> HIDE DEF y
  <2> QED BY <1>1, <2>1, <2>2, <2>3, SetHandleMoves
<1> QED BY <1>4, <1>5, <1>6, <1>7

(* The handle moves to another cluster and goes on writing there.          *)
LEMMA WritesOn ==
    ASSUME Clean, Step, op.step \notin {"idle", "release"}, UNCHANGED size,
           NEW x \in Handle, SetHandle(x), x.size = h.size,
           x.in_file = h.in_file, op'.file = op.file, op'.step = "write"
    PROVE  \A f \in Files : HandleMoves(f)
<1>1. handle'[op.file] = x /\ size'[op.file] = h.size /\ h = handle[op.file]
  BY OperationKnows, SetHandleTypes DEF h
<1>2. h.in_file \in Nat /\ h.size \in Nat /\ h.open
  BY OperationKnows DEF Handle
<1>3. HandleMoves(op.file)
  BY <1>1, <1>2 DEF HandleMoves, WritingSteps
<1> QED BY <1>3, OtherHandles

\* The step does nothing to the handle, and is not in the middle of a write.
LEMMA SameHandle ==
    ASSUME Clean, Step, UNCHANGED size, handle'[op.file] = handle[op.file],
           op.step \notin WritingSteps \/ h.in_cluster = BytesPerCluster
    PROVE  \A f \in Files : HandleMoves(f)
<1>1. op.file \in Files
  BY StepFrame DEF Clean, Volume, Before
<1>2. HandleMoves(op.file)
  BY <1>1, HandleStays DEF h
<1> QED BY <1>2, OtherHandles

LEMMA WaitingHandle ==
    ASSUME Clean, AppendHere \/ ClaimFirstCluster \/ ClaimNextCluster
                    \/ ReleaseNext
    PROVE  \A f \in Files : HandleMoves(f)
<1>1. UNCHANGED <<size, handle>> /\ Step
  BY DEF AppendHere, ClaimFirstCluster, ClaimNextCluster, ReleaseNext, Step
<1>2. op.step \notin WritingSteps \/ h.in_cluster = BytesPerCluster
  BY DEF AppendHere, ClaimFirstCluster, ClaimNextCluster, ReleaseNext,
         WritingSteps, Clean, Volume, Before, ContentInv, OperationStands
<1> QED BY <1>1, <1>2, SameHandle

LEMMA SetFirstMovesHandle ==
    ASSUME Clean, SetDirectoryEntryFirstCluster
    PROVE  \A f \in Files : HandleMoves(f)
<1> DEFINE x == [h EXCEPT !.first = op.pending, !.current = op.pending]
<1>1. /\ op.step = "set_first" /\ UNCHANGED size /\ Step /\ SetHandle(x)
  BY NoFailure DEF SetDirectoryEntryFirstCluster, Step
<1>2. h.current = None /\ op.pending \in Clusters
  BY <1>1 DEF Clean, Volume, Before, ContentInv, OperationStands, TypeInv
<1>3. /\ h \in Handle /\ h.in_file = 0 /\ h.size \in Nat
  BY <1>1, <1>2, OperationKnows DEF Stands, Handle
<1>4. x \in Handle /\ x.size = h.size /\ x.in_file = 0
  BY <1>2, <1>3, ConstantTypes DEF Handle
<1> HIDE DEF x
<1>5. x.in_file <= h.size
  BY <1>3, <1>4
<1> QED BY <1>1, <1>4, <1>5, SetHandleMoves

LEMMA WriteMovesHandle ==
    ASSUME Clean, WriteCluster
    PROVE  \A f \in Files : HandleMoves(f)
<1> DEFINE x == Advance(h, BytesToCopy)
<1>1. op.step = "write" /\ UNCHANGED size /\ Step
  BY DEF WriteCluster, Step
<1>2. /\ h \in Handle /\ h.size \in Nat /\ h.in_file \in Nat /\ TypeOK /\ h.open
      /\ op.file \in Files /\ op.file \in exists /\ size[op.file] = h.size
      /\ h.in_cluster \in 0 .. BytesPerCluster /\ op.remaining \in Nat
      /\ Stands(table, first[op.file], h)
  BY <1>1, OperationKnows DEF Handle
<1>3. ~OutOfRange(h.current)
  <2>1. h.current # None
    BY <1>1 DEF Clean, Volume, Before, ContentInv, OperationStands
  <2>2. first[op.file] \in {None} \cup Clusters /\ table \in [Clusters -> Entry]
    BY <1>2 DEF TypeOK
  <2> QED BY <1>2, <2>1, <2>2, StandsInChain
<1>4. /\ Written /\ SetHandle(x)
      /\ op' = [op EXCEPT !.remaining = @ - BytesToCopy,
                          !.step = IF BytesToCopy = op.remaining
                                   THEN "update_entry" ELSE "next"]
  BY <1>3, NoFailure DEF WriteCluster, Written
<1>5. op'.file = op.file /\ op'.step \in WritingSteps
  BY <1>2, <1>4 DEF TypeOK, Operation, WritingSteps
<1>6. x \in Handle /\ x.size = h.size /\ x.in_file = h.in_file + BytesToCopy
  <2>1. BytesToCopy \in Nat /\ h.in_cluster + BytesToCopy <= BytesPerCluster
    BY <1>1, <1>2, ReadDistance
  <2>2. x \in Handle /\ x.in_file = h.in_file + BytesToCopy
    BY <1>2, <2>1, AdvanceTypes
  <2> QED BY <1>2, <2>2 DEF Advance, Handle
<1> HIDE DEF x
<1>7. handle'[op.file] = x /\ size'[op.file] = h.size
  BY <1>1, <1>2, <1>4, <1>6, SetHandleTypes
<1>8. HandleMoves(op.file)
  BY <1>4, <1>5, <1>6, <1>7 DEF HandleMoves
<1> QED BY <1>1, <1>8, OtherHandles

LEMMA NextMovesHandle ==
    ASSUME Clean, MoveToNextCluster
    PROVE  \A f \in Files : HandleMoves(f)
<1> DEFINE y == OnTo(h, table[h.current])
<1>1. /\ op.step = "next" /\ UNCHANGED size /\ Step
      /\ h.in_cluster = BytesPerCluster
  BY DEF MoveToNextCluster, Step, Clean, Volume, Before, ContentInv, OperationStands
<1>2. h \in Handle /\ TypeOK /\ op.file \in Files
  BY <1>1, OperationKnows
<1>3. \/ SetHandle(h)
      \/ ~OutOfRange(h.current) /\ Goto("write") /\ SetHandle(y)
  BY DEF MoveToNextCluster, NextCluster, OnTo
<1>4. CASE SetHandle(h)
  <2>1. handle'[op.file] = handle[op.file]
    BY <1>1, <1>2, <1>4, SetHandleTypes DEF h
  <2> QED BY <1>1, <2>1, SameHandle
<1>5. CASE ~OutOfRange(h.current) /\ Goto("write") /\ SetHandle(y)
  <2>1. y \in Handle /\ y.size = h.size /\ y.in_file = h.in_file
    BY <1>2, <1>5, OnToIsHandle DEF OnTo, Handle
  <2>2. SetHandle(y) /\ op'.step = "write" /\ op'.file = op.file
    BY <1>1, <1>2, <1>5, GotoTypes DEF Steps
  <2> HIDE DEF y
  <2> QED BY <1>1, <2>1, <2>2, WritesOn
<1> QED BY <1>3, <1>4, <1>5

LEMMA LinkMovesHandle ==
    ASSUME Clean, LinkNextCluster
    PROVE  \A f \in Files : HandleMoves(f)
<1> DEFINE y == OnTo(h, op.pending)
<1>1. /\ op.step = "link" /\ UNCHANGED size /\ Step /\ op.pending \in Clusters
  BY DEF LinkNextCluster, Step, Clean, Volume, Before, TypeInv
<1>2. h \in Handle /\ TypeOK
  BY <1>1, OperationKnows
<1>3. SetHandle(y) /\ Goto("write")
  BY NoFailure DEF LinkNextCluster, UpdateFATTableEntry, OnTo
<1>4. y \in Handle /\ y.size = h.size /\ y.in_file = h.in_file
  <2>1. 0 \in 0 .. BytesPerCluster /\ op.pending \in Entry
    BY <1>1, FileAssumption, ConstantTypes
  <2> QED BY <1>2, <2>1 DEF OnTo, Handle
<1>5. op'.step = "write" /\ op'.file = op.file
  BY <1>1, <1>2, <1>3, GotoTypes DEF Steps
<1> HIDE DEF y
<1> QED BY <1>1, <1>3, <1>4, <1>5, WritesOn

LEMMA UpdateEntryMovesHandle ==
    ASSUME Clean, UpdateDirectoryEntrySize
    PROVE  \A f \in Files : HandleMoves(f)
<1> DEFINE x == IF h.in_file > h.size THEN [h EXCEPT !.size = h.in_file] ELSE h
           y == [x EXCEPT !.marked = TRUE]
<1>1. op.step = "update_entry" /\ Step
  BY DEF UpdateDirectoryEntrySize, Step
<1>2. /\ h \in Handle /\ h.size \in Nat /\ h.in_file \in Nat /\ TypeOK /\ h.open
      /\ op.file \in Files /\ size[op.file] = h.size /\ size \in [Files -> Nat]
  BY <1>1, OperationKnows DEF Handle, TypeOK
<1>3. \/ ~(h.in_file > h.size) /\ UNCHANGED <<size, handle>>
      \/ SetHandle(y) /\ size' = [size EXCEPT ![op.file] = x.size]
  BY NoFailure DEF UpdateDirectoryEntrySize
<1>4. x \in Handle /\ x.in_file <= x.size
  BY <1>2 DEF Handle
<1> HIDE DEF x
<1>5. y \in Handle /\ y.size = x.size /\ y.in_file <= x.size
  BY <1>4 DEF Handle
<1>6. HandleMoves(op.file)
  <2>1. CASE ~(h.in_file > h.size) /\ UNCHANGED <<size, handle>>
    BY <1>2, <2>1 DEF HandleMoves, h
  <2>2. CASE SetHandle(y) /\ size' = [size EXCEPT ![op.file] = x.size]
    <3> HIDE DEF y
    <3>1. handle'[op.file] = y /\ size'[op.file] = x.size
      BY <1>1, <1>2, <1>5, <2>2, SetHandleTypes
    <3>2. y.in_file \in Nat /\ x.size \in Nat
      BY <1>4, <1>5 DEF Handle
    <3> QED BY <1>5, <3>1, <3>2 DEF HandleMoves
  <2> QED BY <1>3, <2>1, <2>2
<1> QED BY <1>1, <1>6, OtherHandles

LEMMA StartMovesHandles ==
    ASSUME Clean, NEW f \in Files,
           \/ \E append \in AppendModes :
                  CreateFile(f, append) \/ OpenFile(f, append)
           \/ Close(f) \/ DeleteFile(f)
           \/ \E p, n : StartSeek(f, p, n)
           \/ \E n \in 1 .. MaxLength : Read(f, n) \/ Write(f, n)
    PROVE  \A g \in Files : HandleMoves(g)
<1> DEFINE x == handle[f]
<1>1. TypeOK /\ x \in Handle /\ size[f] \in Nat
  BY DEF Clean, Volume, Before, TypeInv, TypeOK
<1>2. \A p, n : StartSeek(f, p, n) =>
         /\ op = Idle /\ UNCHANGED size
         /\ \/ UNCHANGED handle
            \/ handle' = [handle EXCEPT ![f] = x]
            \/ handle' = [handle EXCEPT ![f] = FileStart(x)]
  BY DEF StartSeek
<1>3. op.step \notin WritingSteps
  <2>1. op = Idle
    BY <1>2 DEF CreateFile, OpenFile, Close, DeleteFile, Read, Write
  <2> QED BY <2>1 DEF Idle, WritingSteps
<1>4. \/ UNCHANGED <<size, handle>>
      \/ UNCHANGED handle /\ size' = [size EXCEPT ![f] = 0] /\ ~x.open
      \/ \E y : /\ handle' = [handle EXCEPT ![f] = y] /\ UNCHANGED size
                /\ \/ y = x \/ y = FileStart(x) \/ ~y.open
                   \/ y.in_file = 0 /\ y.size = size[f]
  <2>1. ASSUME NEW append \in AppendModes, CreateFile(f, append)
        PROVE  \/ UNCHANGED <<size, handle>>
               \/ \E y : /\ handle' = [handle EXCEPT ![f] = y] /\ UNCHANGED size
                         /\ y.in_file = 0 /\ y.size = size[f]
    <3>1. size[f] = 0
      BY <2>1 DEF CreateFile, Clean, Volume, Before, ContentInv, SizesReached
    <3> DEFINE y == [Closed EXCEPT !.open = TRUE, !.append = append]
    <3>2. y.in_file = 0 /\ y.size = 0
      BY DEF Closed
    <3>3. UNCHANGED handle \/ handle' = [handle EXCEPT ![f] = y]
      BY <2>1 DEF CreateFile
    <3>4. UNCHANGED size
      BY <2>1 DEF CreateFile
    <3> HIDE DEF y
    <3> QED BY <3>1, <3>2, <3>3, <3>4
  <2>2. ASSUME NEW append \in AppendModes, OpenFile(f, append)
        PROVE  \E y : /\ handle' = [handle EXCEPT ![f] = y] /\ UNCHANGED size
                      /\ y.in_file = 0 /\ y.size = size[f]
    <3> DEFINE y == [Closed EXCEPT !.open = TRUE, !.append = append,
                                   !.size = size[f], !.first = first[f],
                                   !.current = first[f]]
    <3>1. y.in_file = 0 /\ y.size = size[f]
      BY DEF Closed
    <3>2. handle' = [handle EXCEPT ![f] = y] /\ UNCHANGED size
      BY <2>2 DEF OpenFile
    <3> HIDE DEF y
    <3> QED BY <3>1, <3>2
  <2>3. Close(f) => /\ handle' = [handle EXCEPT ![f] = Closed] /\ UNCHANGED size
                    /\ ~Closed.open
    BY DEF Close, Closed
  <2>4. DeleteFile(f) =>
          \/ UNCHANGED <<size, handle>>
          \/ UNCHANGED handle /\ size' = [size EXCEPT ![f] = 0] /\ ~x.open
    BY DEF DeleteFile
  <2>5. CASE \E n \in 1 .. MaxLength : Read(f, n) \/ Write(f, n)
    <3>1. UNCHANGED <<size, handle>> \/ \E p, n : StartSeek(f, p, n)
      BY <2>5 DEF Read, Write
    <3> HIDE DEF x
    <3> QED BY <1>2, <3>1
  <2>6. CASE \E p, n : StartSeek(f, p, n)
    <3> HIDE DEF x
    <3> QED BY <1>2, <2>6
  <2> HIDE DEF x
  <2> QED BY <2>1, <2>2, <2>3, <2>4, <2>5, <2>6
<1>5. ASSUME NEW g \in Files, g # f PROVE HandleMoves(g)
  <2>1. handle'[g] = handle[g] /\ size'[g] = size[g]
    BY <1>1, <1>4, <1>5 DEF TypeOK
  <2> QED BY <1>3, <2>1, HandleStays
<1>6. HandleMoves(f)
  <2>1. CASE UNCHANGED <<size, handle>>
    BY <1>3, <2>1, HandleStays
  <2>2. CASE UNCHANGED handle /\ ~x.open
    BY <2>2 DEF HandleMoves
  <2>3. ASSUME NEW y, handle' = [handle EXCEPT ![f] = y], UNCHANGED size,
               \/ y = x \/ y = FileStart(x) \/ ~y.open
               \/ y.in_file = 0 /\ y.size = size[f]
        PROVE  HandleMoves(f)
    <3>1. handle'[f] = y
      BY <1>1, <2>3 DEF TypeOK
    <3>2. CASE y = x
      BY <1>3, <2>3, <3>1, <3>2, HandleStays
    <3>3. CASE y = FileStart(x)
      <4>1. y.in_file = 0 /\ y.size = x.size /\ y.open = x.open
        BY <1>1, <3>3 DEF FileStart, Handle
      <4>2. x.open => x.size = size[f]
        BY DEF Clean, ByteInv, HandleKnows
      <4> QED BY <1>1, <2>3, <3>1, <4>1, <4>2 DEF HandleMoves
    <3>4. CASE y.in_file = 0 /\ y.size = size[f]
      BY <1>1, <2>3, <3>1, <3>4 DEF HandleMoves
    <3>5. CASE ~y.open
      BY <3>1, <3>5 DEF HandleMoves
    <3> QED BY <2>3, <3>2, <3>3, <3>4, <3>5
  <2> QED BY <1>4, <2>1, <2>2, <2>3
<1> QED BY <1>5, <1>6

LEMMA MovesHandles ==
    ASSUME Clean, Next
    PROVE  \A f \in Files : HandleMoves(f)
<1>1. CASE Step
  <2>1. ~ReleaseUnlinkedCluster
    BY DEF Clean, ByteInv, ReleaseUnlinkedCluster
  <2> QED BY <1>1, <2>1, SeekMovesHandle, ReadMovesHandle, WaitingHandle,
             SetFirstMovesHandle, WriteMovesHandle, NextMovesHandle,
             LinkMovesHandle, UpdateEntryMovesHandle DEF Step
<1>2. CASE Remount
  <2>1. \A f \in Files : ~handle'[f].open
    BY <1>2 DEF Remount, Closed
  <2> QED BY <2>1 DEF HandleMoves
<1> QED BY <1>1, <1>2, StartMovesHandles, NextCases

(* The bytes a write adds are in their place.                              *)
LEMMA AddedBytes ==
    ASSUME Clean, WriteCluster, Written, NEW f, f = op.file, NEW o \in Nat,
           h.in_file <= o, o < h.in_file + BytesToCopy
    PROVE  InPlace(f, o)'
<1>1. /\ op.step = "write" /\ UNCHANGED <<table, first>>
      /\ h.current # None
  BY DEF WriteCluster, Clean, Volume, Before, ContentInv, OperationStands
<1>2. /\ h \in Handle /\ TypeOK /\ op.file \in Files
      /\ Stands(table, first[op.file], h)
      /\ h.in_file \in Nat /\ h.in_cluster \in 0 .. BytesPerCluster
  BY <1>1, OperationKnows
<1>3. PICK m \in Links : StandsAt(table, first[op.file], h, m)
  BY <1>1, <1>2 DEF Stands
<1>4. /\ h.current = Walk(table, first[op.file])[m] /\ h.current \in Clusters
      /\ h.in_file = OffsetOf(m) + h.in_cluster
      /\ m \in Nat /\ OffsetOf(m) \in Nat
  BY <1>3, OffsetsGrow, MaxClusterAssumption DEF StandsAt, Links
<1>5. BytesToCopy \in Nat /\ h.in_cluster + BytesToCopy <= BytesPerCluster
  BY <1>1, <1>2, ReadDistance
<1> DEFINE i == o - OffsetOf(m)
<1>6. /\ i \in Places /\ o = OffsetOf(m) + i
      /\ i \in h.in_cluster .. h.in_cluster + BytesToCopy - 1
      /\ (h.in_file + i) - h.in_cluster = o
  BY <1>2, <1>4, <1>5, FileAssumption DEF Places
<1> HIDE DEF i
<1>7. m = o \div BytesPerCluster /\ i = o % BytesPerCluster
  BY <1>4, <1>6, OffsetsDivide
<1>8. data'[h.current][i] = <<op.file, o>>
  BY <1>2, <1>4, <1>6, WrittenBytes
<1>9. h.current = Walk(table', first'[op.file])[o \div BytesPerCluster]
  BY <1>1, <1>4, <1>7
<1>10. PICK c : c = h.current
  OBVIOUS
<1> QED BY <1>4, <1>7, <1>8, <1>9, <1>10, InPlaceNext

LEMMA NextBytes ==
    ASSUME Clean, Next, NEW f \in Files
    PROVE  BytesInPlace(f)'
<1> USE DEF Clean, Volume, Before
<1>1. /\ size[f] \in Nat /\ size'[f] \in Nat
      /\ handle[f].in_file \in Nat /\ handle'[f].in_file \in Nat
  BY DEF TypeInv, TypeOK, Handle
<1>2. BytesInPlace(f) /\ (handle[f].open => handle[f].size = size[f])
  BY DEF ByteInv, HandleKnows
<1>3. Sure'
  OBVIOUS
<1>4. ASSUME NEW o \in Nat, f \in exists, f \in exists', o < size[f]
      PROVE  InPlace(f, o)'
  <2>1. InPlace(f, o)
    BY <1>2, <1>4 DEF BytesInPlace
  <2>2. o \div BytesPerCluster \in Links
    BY <1>1, <1>4, SizeInLinks DEF ContentInv, SizesReached
  <2> QED BY <1>3, <1>4, <2>1, <2>2, BytesKept
<1>5. ASSUME NEW o \in Nat, handle[f].open, f \in exists',
             o < handle[f].in_file
      PROVE  InPlace(f, o)'
  <2>1. f \in exists /\ InPlace(f, o)
    BY <1>2, <1>5 DEF BytesInPlace, ChainInv, FilesHaveEntries
  <2>2. Stands(table, first[f], handle[f])
    BY <1>5 DEF ContentInv, HandlesStand, HandleStands
  <2>3. /\ handle[f] \in Handle /\ table \in [Clusters -> Entry]
        /\ first[f] \in {None} \cup Clusters
    BY DEF TypeInv, TypeOK
  <2>4. o \div BytesPerCluster \in Links
    BY <1>1, <1>5, <2>2, <2>3, StandsReaches, SizeInLinks
  <2> QED BY <1>3, <1>5, <2>1, <2>4, BytesKept
<1>6. ASSUME NEW o \in Nat, f \in exists', o < size'[f]
      PROVE  InPlace(f, o)'
  <2>1. \/ o < size[f]
        \/ handle[f].open /\ o < handle[f].in_file
    BY <1>1, <1>2, <1>6, SizesGrow
  <2>2. o < size[f] => f \in exists
    BY <1>1 DEF ContentInv, SizesReached
  <2> QED BY <1>4, <1>5, <1>6, <2>1, <2>2
<1>7. ASSUME NEW o \in Nat, handle'[f].open, o < handle'[f].in_file
      PROVE  InPlace(f, o)'
  <2>1. f \in exists'
    BY <1>7 DEF ChainInv, FilesHaveEntries
  <2>2. HandleMoves(f)
    BY MovesHandles
  <2>3. CASE handle'[f].in_file <= size'[f]
    <3>1. o < size'[f]
      BY <1>1, <1>7, <2>3
    <3> QED BY <1>6, <2>1, <3>1
  <2>4. CASE handle[f].open /\ handle'[f].in_file <= handle[f].in_file
    <3>1. o < handle[f].in_file
      BY <1>1, <1>7, <2>4
    <3> QED BY <1>5, <2>1, <2>4, <3>1
  <2>5. CASE /\ WriteCluster /\ f = op.file /\ Written
             /\ handle'[f].in_file = h.in_file + BytesToCopy
    <3>1. CASE o < h.in_file
      <4>1. op.step = "write" /\ h.open
        BY <2>5, OperationKnows DEF WriteCluster
      <4>2. handle[f].open /\ o < handle[f].in_file
        BY <2>5, <3>1, <4>1 DEF h
      <4> QED BY <1>5, <2>1, <4>2
    <3>2. CASE ~(o < h.in_file)
      <4>1. h.in_file <= o /\ o < h.in_file + BytesToCopy
        BY <1>1, <1>7, <2>5, <3>2 DEF h
      <4> QED BY <2>5, <4>1, AddedBytes
    <3> QED BY <3>1, <3>2
  <2> QED BY <1>7, <2>2, <2>3, <2>4, <2>5 DEF HandleMoves
<1> QED BY <1>6, <1>7 DEF BytesInPlace

(* A link fails, and is rolled back, only when the device does.            *)
LEMMA NeverRollsBack ==
    ASSUME Clean, Next
    PROVE  op'.step # "rollback"
<1>1. /\ op.step # "rollback" /\ op \in Operation /\ TypeOK
  BY DEF Clean, ByteInv, Volume, Before, TypeInv, TypeOK
<1> DEFINE Fine == op'.step # "rollback"
<1>2. Return => Fine
  BY DEF Return, Idle
<1>3. (UNCHANGED op \/ \E s : s # "rollback" /\ Goto(s)) => Fine
  BY <1>1 DEF Goto, Operation
<1>4. \A s, f, n, p : s # "rollback" /\ Begin(s, f, n, p) => Fine
  BY DEF Begin
<1>5. \A s, n : s # "rollback" /\ (\/ op' = [op EXCEPT !.remaining = n, !.step = s]
                                   \/ op' = [op EXCEPT !.step = s, !.pending = n]) => Fine
  BY <1>1 DEF Operation
<1>6. \A n : (op' = [op EXCEPT !.remaining = n] \/ op' = [op EXCEPT !.pending = n]) => Fine
  BY <1>1 DEF Operation
<1>7. SeekDone => Fine
  BY <1>2, <1>4 DEF SeekDone
<1>8. CASE Step
  <2>1. CASE SeekStep \/ MoveToNextCluster
    BY <1>2, <1>3, <1>7, <2>1, NoFailure DEF SeekStep, MoveToNextCluster, NextCluster
  <2>2. CASE ReadStep
    BY <1>2, <1>6, <2>2, NoFailure DEF ReadStep, NextCluster
  <2>3. CASE AppendHere \/ SetDirectoryEntryFirstCluster
    BY <1>2, <1>3, <2>3, NoFailure
       DEF AppendHere, SetDirectoryEntryFirstCluster, FirstStep
  <2>4. CASE WriteCluster
    BY <1>2, <1>5, <2>4, NoFailure DEF WriteCluster
  <2>5. CASE ClaimFirstCluster \/ ClaimNextCluster
    <3>1. PICK s \in {"set_first", "link"} : \E start : Claim(s, start)
      BY <2>5 DEF ClaimFirstCluster, ClaimNextCluster
    <3> QED BY <1>2, <1>5, <3>1, NoFailure DEF Claim, UpdateFATTableEntry
  <2>6. CASE LinkNextCluster
    BY <1>3, <2>6, NoFailure DEF LinkNextCluster, UpdateFATTableEntry
  <2>7. CASE UpdateDirectoryEntrySize
    BY <1>2, <2>7, NoFailure DEF UpdateDirectoryEntrySize
  <2>8. CASE ReleaseNext \/ ReleaseUnlinkedCluster
    BY <1>2, <1>6, <2>8, NoFailure
       DEF ReleaseNext, ReleaseUnlinkedCluster, UpdateFATTableEntry
  <2> QED BY <1>8, <2>1, <2>2, <2>3, <2>4, <2>5, <2>6, <2>7, <2>8 DEF Step
<1>9. CASE Remount
  BY <1>9 DEF Remount, Idle
<1>10. ASSUME NEW f \in Files,
              \/ \E append \in AppendModes :
                     CreateFile(f, append) \/ OpenFile(f, append)
              \/ Close(f) \/ DeleteFile(f)
              \/ \E p, n : StartSeek(f, p, n)
              \/ \E n \in 1 .. MaxLength : Read(f, n) \/ Write(f, n)
       PROVE  Fine
  <2>1. \A p, n : StartSeek(f, p, n) => Fine
    BY <1>3, <1>4 DEF StartSeek
  <2>2. CASE \E append \in AppendModes : CreateFile(f, append) \/ OpenFile(f, append)
    BY <1>2, <1>3, <2>2, NoFailure DEF CreateFile, OpenFile
  <2>3. CASE Close(f) \/ DeleteFile(f)
    BY <1>2, <1>3, <2>3, NoFailure DEF Close, DeleteFile, Idle
  <2>4. CASE \E n \in 1 .. MaxLength : Read(f, n) \/ Write(f, n)
    BY <1>4, <2>1, <2>4 DEF Read, Write, FirstStep
  <2> QED BY <1>10, <2>1, <2>2, <2>3, <2>4
<1> QED BY <1>8, <1>9, <1>10, NextCases

LEMMA NextByteInv ==
    ASSUME TypeInv, ChainInv, ContentInv, ByteInv, clean', [Next]_vars
    PROVE  ByteInv'
<1>1. CASE Next
  <2>1. Sure'
    BY DEF Sure
  <2>2. Clean
    BY <2>1, NextTypeInv, NextChainInv, NextContentInv DEF Clean, Volume, Before
  <2>3. ASSUME NEW f \in Files PROVE HandleKnows(f)'
    <3>1. HandleMoves(f)
      BY <1>1, <2>2, MovesHandles
    <3> QED BY <3>1 DEF HandleMoves, HandleKnows, PastTheEnd
  <2>4. \A f \in Files : BytesInPlace(f)'
    BY <1>1, <2>2, NextBytes
  <2>5. op'.step # "rollback"
    BY <1>1, <2>2, NeverRollsBack
  <2> QED BY <2>3, <2>4, <2>5 DEF ByteInv
<1>2. CASE UNCHANGED vars
  <2>1. table' = table /\ first' = first /\ data' = data
    BY <1>2 DEF vars, disk
  <2>2. \A f, o : InPlace(f, o)' = InPlace(f, o)
    BY <2>1 DEF InPlace, Chain
  <2> QED BY <1>2, <2>2
          DEF ByteInv, HandleKnows, PastTheEnd, BytesInPlace, vars, disk
<1> QED BY <1>1, <1>2

LEMMA InitByteInv == Init => ByteInv
<1> SUFFICES ASSUME Init PROVE ByteInv
  OBVIOUS
<1>1. \A f \in Files : ~handle[f].open /\ f \notin exists
  BY DEF Init, Closed
<1>2. op.step # "rollback"
  BY DEF Init, Idle
<1> QED BY <1>1, <1>2 DEF ByteInv, HandleKnows, BytesInPlace

LEMMA ByteInvHolds ==
    Spec => [](clean => TypeInv /\ ChainInv /\ ContentInv /\ ByteInv)
<1> DEFINE I == TypeInv /\ ChainInv /\ ContentInv
<1>1. Init => (clean => ByteInv)
  BY InitByteInv
<1>2. (Sure => I) /\ (Sure => I)' /\ TypeInv /\ (clean => ByteInv) /\ [Next]_vars
        => (clean => ByteInv)'
  BY NextByteInv, SureBefore DEF TypeInv, Sure
<1>3. (Sure => I) /\ (clean => ByteInv) => (clean => I /\ ByteInv)
  BY DEF Sure
<1> QED BY <1>1, <1>2, <1>3, ContentInvHolds, TypeInvHolds, PTL DEF Spec

(* As long as no device access has failed, an idle handle knows the size   *)
(* and the first cluster its entry has on the device, in spite of the      *)
(* several steps in which FAT32File::Write and UpdateDirectoryEntrySize    *)
(* change them.                                                            *)
THEOREM HandlesKnowEntries == Spec => []HandlesKnowTheirEntry
<1>1. TypeInv /\ ChainInv /\ ContentInv /\ ByteInv =>
        \A f \in Files : handle[f].open =>
            f \in exists /\ handle[f].size = size[f] /\ handle[f].first = first[f]
  BY DEF ChainInv, FilesHaveEntries, ContentInv, HandlesStand, HandleStands,
         Stands, ByteInv, HandleKnows
<1>2. (clean => TypeInv /\ ChainInv /\ ContentInv /\ ByteInv)
        => HandlesKnowTheirEntry
  BY <1>1 DEF HandlesKnowTheirEntry
<1> QED BY <1>2, ByteInvHolds, PTL

(* As long as no device access has failed, every byte below the size on    *)
(* the device is in its place, and what a read takes from inside the file  *)
(* is what lies at that offset: the arithmetic of positions in             *)
(* FAT32File::Seek, Read and Write agrees with the chain, for clusters of  *)
(* any size and files of any length.                                       *)
THEOREM BytesAreInPlace == Spec => []EveryByteInPlace
<1> DEFINE I == TypeInv /\ ChainInv /\ ContentInv /\ ByteInv
<1>1. ASSUME I
      PROVE  \A f \in exists : \A o \in 0 .. size[f] - 1 : InPlace(f, o)
  <2> SUFFICES ASSUME NEW f \in exists, NEW o \in 0 .. size[f] - 1
               PROVE  InPlace(f, o)
    OBVIOUS
  <2>1. f \in Files /\ size[f] \in Nat
    BY <1>1 DEF TypeInv, TypeOK
  <2>2. o \in Nat /\ o < size[f]
    BY <2>1
  <2> QED BY <1>1, <2>1, <2>2 DEF ByteInv, BytesInPlace
<1>2. ASSUME I, op.step = "read", NEW i \in 0 .. BytesToRead - 1,
             h.in_file + i < h.size
      PROVE  data[h.current][h.in_cluster + i] = <<op.file, h.in_file + i>>
  <2>1. /\ op.file \in Files /\ op.file \in exists /\ h \in Handle /\ h.open
        /\ Stands(table, first[op.file], h) /\ h.current # None /\ TypeOK
    BY <1>2, OperationHandle
       DEF Before, ContentInv, OperationStands, TypeInv
  <2>2. /\ h.size = size[op.file] /\ BytesInPlace(op.file)
    BY <1>2, <2>1 DEF ByteInv, HandleKnows, h
  <2>3. PICK m \in Links : StandsAt(table, first[op.file], h, m)
    BY <2>1 DEF Stands
  <2>4. /\ h.current = Nth(op.file, m)
        /\ h.in_file = OffsetOf(m) + h.in_cluster
        /\ m \in Nat /\ OffsetOf(m) \in Nat
    BY <2>3, OffsetsGrow, MaxClusterAssumption DEF StandsAt, Nth, Links
  <2>5. /\ h.in_file \in Nat /\ h.in_cluster \in Nat
        /\ BytesToRead \in Nat /\ h.in_cluster + BytesToRead <= BytesPerCluster
        /\ i \in Nat /\ i < BytesToRead
    BY <1>2, <2>1, ReadDistance, FileAssumption DEF Handle
  <2> DEFINE o == h.in_file + i
             j == h.in_cluster + i
  <2>6. o \in Nat /\ j \in Places /\ o = OffsetOf(m) + j
    BY <2>4, <2>5, FileAssumption DEF Places
  <2>7. InPlace(op.file, o)
    BY <1>2, <2>1, <2>2, <2>6 DEF BytesInPlace
  <2> HIDE DEF o, j
  <2>8. m = o \div BytesPerCluster /\ j = o % BytesPerCluster
    BY <2>4, <2>6, OffsetsDivide
  <2>9. data[h.current][j] = <<op.file, o>>
    BY <2>4, <2>7, <2>8, InPlaceInChain
  <2> QED BY <2>9 DEF o, j
<1>3. (clean => I) => EveryByteInPlace
  BY <1>1, <1>2 DEF EveryByteInPlace
<1> QED BY <1>3, ByteInvHolds, PTL

-----------------------------------------------------------------------------
(* Which clusters are in use while no device access has failed: the        *)
(* directory's, those in the chains of the files, the one claimed and not  *)
(* yet named, and those of the chain that is being released.               *)
InFile(c) == \E f \in exists, n \in Links : Walk(table, first[f])[n] = c
InClaim(c) == op.step \in {"set_first", "link"} /\ c = op.pending
InRelease(c) ==
    op.step = "release" /\ \E n \in Links : Walk(table, op.pending)[n] = c
Held(c) == c = 2 \/ InFile(c) \/ InClaim(c) \/ InRelease(c)
Used == \A c \in Clusters : table[c] # Free => Held(c)

(* A chain without its first cluster, which is freed.                      *)
LEMMA WalkFreed ==
    ASSUME NEW t \in [Clusters -> Entry], NEW p, Unlinked(t, p),
           NEW u, \A w \in Clusters \ {p} : u[w] = t[w],
           NEW n \in Links, n # 0, Walk(t, p)[n] \in Clusters
    PROVE  /\ t[p] \in Clusters /\ n - 1 \in Links
           /\ Walk(u, t[p])[n - 1] = Walk(t, p)[n]
<1>1. p \in Clusters /\ p \in Entry /\ t[p] \in Entry /\ ~OutOfRange(p)
  BY ConstantTypes DEF Unlinked
<1> DEFINE S == {i \in Links : i # 0 => Walk(t, t[p])[i - 1] = Walk(t, p)[i]}
<1>2. 0 \in S
  BY MaxClusterAssumption DEF Links
<1>3. ASSUME NEW i \in Links, i # 0, i - 1 \in S PROVE i \in S
  <2>1. i - 1 \in Links /\ Walk(t, p)[i] = Following(t, Walk(t, p)[i - 1])
    BY <1>3, WalkSteps
  <2>2. CASE i - 1 = 0
    <3>1. Walk(t, p)[i - 1] = p /\ Walk(t, t[p])[i - 1] = t[p]
      BY <2>2, WalkSteps
    <3> QED BY <1>1, <2>1, <3>1 DEF Following
  <2>3. CASE i - 1 # 0
    <3>1. Walk(t, t[p])[(i - 1) - 1] = Walk(t, p)[i - 1]
      BY <1>3, <2>3
    <3>2. Walk(t, t[p])[i - 1] = Following(t, Walk(t, t[p])[(i - 1) - 1])
      <4>1. \A j \in Links : j # 0 =>
               Walk(t, t[p])[j] = Following(t, Walk(t, t[p])[j - 1])
        BY WalkSteps
      <4> QED BY <2>1, <2>3, <4>1
    <3> QED BY <2>1, <3>1, <3>2
  <2> QED BY <2>2, <2>3
<1> HIDE DEF S
<1>4. S = Links
  BY <1>2, <1>3, LinksInduction DEF S
<1>5. n - 1 \in Links /\ 0 \in Links /\ 0 <= n - 1
  BY MaxClusterAssumption DEF Links
<1>6. Walk(t, t[p])[n - 1] = Walk(t, p)[n]
  BY <1>4 DEF S
<1>7. t[p] \in Clusters
  <2>1. Walk(t, t[p])[0] \in Clusters
    BY <1>1, <1>5, <1>6, WalkInside
  <2> QED BY <2>1, WalkSteps
<1>8. Grows(t, t[p], u, t[p])
  <2>1. ASSUME NEW m \in Links, Walk(t, t[p])[m] \in Clusters,
               Walk(t, t[p])[m] = p
        PROVE  FALSE
    <3>1. CASE m = 0
      <4>1. Walk(t, t[p])[m] = t[p]
        BY <3>1, WalkSteps
      <4> QED BY <1>1, <2>1, <4>1 DEF Unlinked
    <3>2. CASE m # 0
      <4>1. PICK d : d = Walk(t, t[p])[m - 1]
        OBVIOUS
      <4>2. d \in Clusters /\ t[d] = p
        BY <1>1, <2>1, <3>2, <4>1, WalkLink
      <4> QED BY <4>2 DEF Unlinked
    <3> QED BY <3>1, <3>2
  <2> QED BY <1>1, <2>1, GrowsExcept
<1> QED BY <1>5, <1>6, <1>7, <1>8 DEF Grows

(* What a file holds it keeps, unless it is deleted.                       *)
LEMMA StaysInFile ==
    ASSUME Clean, Next, NEW c \in Clusters, InFile(c), exists \subseteq exists'
    PROVE  InFile(c)'
<1>1. PICK f \in exists, n \in Links : Walk(table, first[f])[n] = c
  BY DEF InFile
<1>2. Grows(table, first[f], table', first'[f])
  BY <1>1, ChainsGrow DEF Clean, Volume, Before
<1>3. Walk(table', first'[f])[n] = c
  BY <1>1, <1>2 DEF Grows
<1> QED BY <1>1, <1>3 DEF InFile

(* A step that changes no chain, while nothing is claimed or released.     *)
LEMMA QuietUse ==
    ASSUME Clean, Used, Next, UNCHANGED table, exists \subseteq exists',
           op.step \notin {"set_first", "link", "release"}
    PROVE  Used'
<1> SUFFICES ASSUME NEW c \in Clusters, table[c] # Free PROVE Held(c)'
  BY DEF Used
<1>1. c = 2 \/ InFile(c)
  BY DEF Used, Held, InClaim, InRelease
<1> QED BY <1>1, StaysInFile DEF Held

LEMMA DeleteUse ==
    ASSUME Clean, Used, NEW f \in Files, DeleteFile(f)
    PROVE  Used'
<1> USE DEF Clean, Volume, Before
<1>1. /\ op.step = "idle" /\ UNCHANGED table /\ table \in [Clusters -> Entry]
      /\ exists' = exists \ {f} /\ first' = [first EXCEPT ![f] = None]
      /\ first \in [Files -> {None} \cup Clusters] /\ exists \subseteq Files
      /\ first[f] # None => op' = [Idle EXCEPT !.step = "release", !.file = f,
                                               !.pending = first[f]]
  BY NoFailure DEF DeleteFile, Idle, TypeInv, TypeOK
<1> SUFFICES ASSUME NEW c \in Clusters, table[c] # Free PROVE Held(c)'
  BY <1>1 DEF Used
<1>2. c = 2 \/ InFile(c)
  BY <1>1 DEF Used, Held, InClaim, InRelease
<1>3. CASE c = 2
  BY <1>3 DEF Held
<1>4. CASE InFile(c)
  <2>1. PICK g \in exists, n \in Links : Walk(table, first[g])[n] = c
    BY <1>4 DEF InFile
  <2>2. CASE g = f
    <3>1. first[f] \in Clusters
      BY <2>1, <2>2, FileChain DEF ChainInv, Nth, TypeInv
    <3>2. op'.step = "release" /\ op'.pending = first[f]
      BY <1>1, <3>1, ConstantTypes DEF Idle
    <3>3. Walk(table', op'.pending)[n] = c
      BY <1>1, <2>1, <2>2, <3>2
    <3> QED BY <3>2, <3>3 DEF Held, InRelease
  <2>3. CASE g # f
    <3>1. g \in exists' /\ first'[g] = first[g]
      BY <1>1, <2>3
    <3>2. Walk(table', first'[g])[n] = c
      BY <1>1, <2>1, <3>1
    <3> QED BY <3>1, <3>2 DEF Held, InFile
  <2> QED BY <2>2, <2>3
<1> QED BY <1>2, <1>3, <1>4

LEMMA ReleaseUse ==
    ASSUME Clean, Used, ReleaseNext, Next
    PROVE  Used'
<1> USE DEF Clean, Volume, Before
<1> DEFINE p == op.pending
<1>1. /\ op.step = "release" /\ UNCHANGED <<exists, first>> /\ TypeOK
      /\ table \in [Clusters -> Entry] /\ p \in Entry
      /\ exists \subseteq exists'
  BY DEF ReleaseNext, TypeInv, TypeOK, Operation
<1>2. CASE OutOfRange(p)
  <2>1. UNCHANGED table
    BY <1>2 DEF ReleaseNext
  <2> SUFFICES ASSUME NEW c \in Clusters, table[c] # Free PROVE Held(c)'
    BY <2>1 DEF Used
  <2>2. ~InRelease(c)
    <3> SUFFICES ASSUME NEW n \in Links, Walk(table, p)[n] = c PROVE FALSE
      BY DEF InRelease
    <3>1. 0 \in Links /\ 0 <= n
      BY MaxClusterAssumption DEF Links
    <3>2. Walk(table, p)[0] \in Clusters
      BY <1>1, <3>1, WalkInside
    <3> QED BY <1>1, <1>2, <3>2, WalkSteps, ConstantTypes
  <2>3. c = 2 \/ InFile(c)
    BY <1>1, <2>2 DEF Used, Held, InClaim
  <2> QED BY <1>1, <2>3, StaysInFile DEF Held
<1>3. CASE ~OutOfRange(p)
  <2>1. p \in Clusters /\ Unlinked(table, p)
    <3>1. p \in Clusters
      BY <1>1, <1>3, ConstantTypes
    <3> QED BY <1>1, <3>1 DEF ChainInv, PendingIsUnnamed, Unnamed, Unlinked
  <2>2. /\ table' = [table EXCEPT ![p] = Free]
        /\ ~EndOfChain(table[p]) => op' = [op EXCEPT !.pending = table[p]]
    BY <1>1, <1>3, FailureIsSeen DEF ReleaseNext, UpdateFATTableEntry
  <2>3. table'[p] = Free /\ \A w \in Clusters \ {p} : table'[w] = table[w]
    BY <1>1, <2>1, <2>2
  <2> SUFFICES ASSUME NEW c \in Clusters, c # p, table[c] # Free PROVE Held(c)'
    BY <2>3 DEF Used
  <2>4. c = 2 \/ InFile(c) \/ InRelease(c)
    BY <1>1 DEF Used, Held, InClaim
  <2>5. CASE InRelease(c)
    <3>1. PICK n \in Links : Walk(table, p)[n] = c
      BY <2>5 DEF InRelease
    <3>2. n # 0
      BY <3>1, WalkSteps
    <3>3. /\ table[p] \in Clusters /\ n - 1 \in Links
          /\ Walk(table', table[p])[n - 1] = c
      <4>1. Walk(table, p)[n] \in Clusters
        BY <3>1
      <4> HIDE DEF p
      <4> QED BY <1>1, <2>1, <2>3, <3>1, <3>2, <4>1, WalkFreed
    <3>4. ~EndOfChain(table[p])
      BY <3>3, MaxClusterAssumption DEF EndOfChain, Clusters, EOF
    <3>5. op'.step = "release" /\ op'.pending = table[p]
      BY <1>1, <2>2, <3>4 DEF TypeOK, Operation
    <3> QED BY <3>3, <3>5 DEF Held, InRelease
  <2>6. CASE c = 2 \/ InFile(c)
    BY <1>1, <2>6, StaysInFile DEF Held
  <2> QED BY <2>4, <2>5, <2>6
<1> QED BY <1>2, <1>3

LEMMA ClaimUse ==
    ASSUME Clean, Used, ClaimFirstCluster \/ ClaimNextCluster, Next
    PROVE  Used'
<1> USE DEF Clean, Volume, Before
<1>1. PICK s \in {"set_first", "link"} : \E start : Claim(s, start)
  BY DEF ClaimFirstCluster, ClaimNextCluster
<1>2. /\ op.step \in {"first", "next"} /\ UNCHANGED <<exists, first>>
      /\ exists \subseteq exists' /\ TypeOK
  BY DEF ClaimFirstCluster, ClaimNextCluster, TypeInv
<1>3. \/ UNCHANGED table
      \/ \E d \in Clusters : /\ table' = [table EXCEPT ![d] = EOF]
                             /\ op' = [op EXCEPT !.step = s, !.pending = d]
  BY <1>1, <1>2, FailureIsSeen DEF Claim, UpdateFATTableEntry
<1>4. CASE UNCHANGED table
  BY <1>2, <1>4, QuietUse
<1>5. ASSUME NEW d \in Clusters, table' = [table EXCEPT ![d] = EOF],
             op' = [op EXCEPT !.step = s, !.pending = d]
      PROVE  Used'
  <2>1. \A w \in Clusters \ {d} : table'[w] = table[w]
    BY <1>2, <1>5 DEF TypeOK
  <2>2. op'.step = s /\ op'.pending = d
    BY <1>2, <1>5 DEF TypeOK, Operation
  <2> SUFFICES ASSUME NEW c \in Clusters, table'[c] # Free PROVE Held(c)'
    BY DEF Used
  <2>3. CASE c = d
    BY <2>2, <2>3 DEF Held, InClaim
  <2>4. CASE c # d
    <3>1. c = 2 \/ InFile(c)
      BY <1>2, <2>1, <2>4 DEF Used, Held, InClaim, InRelease
    <3> QED BY <1>2, <3>1, StaysInFile DEF Held
  <2> QED BY <2>3, <2>4
<1> QED BY <1>3, <1>4, <1>5

LEMMA SetFirstUse ==
    ASSUME Clean, Used, SetDirectoryEntryFirstCluster, Next
    PROVE  Used'
<1> USE DEF Clean, Volume, Before
<1>1. /\ op.step = "set_first" /\ UNCHANGED <<table, exists>>
      /\ exists \subseteq exists' /\ op.file \in exists /\ op.file \in Files
      /\ first' = [first EXCEPT ![op.file] = op.pending]
      /\ first \in [Files -> {None} \cup Clusters]
  BY NoFailure DEF SetDirectoryEntryFirstCluster, ChainInv, FilesHaveEntries,
                   TypeInv, TypeOK
<1> SUFFICES ASSUME NEW c \in Clusters, table[c] # Free PROVE Held(c)'
  BY <1>1 DEF Used
<1>2. c = 2 \/ InFile(c) \/ c = op.pending
  BY <1>1 DEF Used, Held, InClaim, InRelease
<1>3. CASE c = op.pending
  <2>1. first'[op.file] = c /\ op.file \in exists' /\ 0 \in Links
    BY <1>1, <1>3, MaxClusterAssumption DEF Links
  <2>2. Walk(table', first'[op.file])[0] = c
    BY <2>1, WalkSteps
  <2> QED BY <2>1, <2>2 DEF Held, InFile
<1>4. CASE c = 2 \/ InFile(c)
  BY <1>1, <1>4, StaysInFile DEF Held
<1> QED BY <1>2, <1>3, <1>4

LEMMA LinkUse ==
    ASSUME Clean, Used, LinkNextCluster, Next
    PROVE  Used'
<1> USE DEF Clean, Volume, Before
<1>1. /\ op.step = "link" /\ UNCHANGED <<exists, first>> /\ Step
      /\ exists \subseteq exists' /\ h.current # None
      /\ table[h.current] = EOF
      /\ table' = [table EXCEPT ![h.current] = op.pending]
  BY FailureIsSeen DEF LinkNextCluster, UpdateFATTableEntry, Step, ContentInv,
     OperationStands, TypeInv
<1>2. /\ op.file \in exists /\ op.file \in Files
      /\ Stands(table, first[op.file], h) /\ TypeOK
  BY <1>1, OperationHandle DEF TypeInv
<1>3. PICK n \in Links : StandsAt(table, first[op.file], h, n)
  BY <1>1, <1>2 DEF Stands
<1>4. h.current = Nth(op.file, n) /\ h.current \in Clusters
  BY <1>3 DEF StandsAt, Nth
<1>5. /\ table'[Nth(op.file, n)] = op.pending
      /\ \A w \in Clusters \ {Nth(op.file, n)} : table'[w] = table[w]
  BY <1>1, <1>2, <1>4 DEF TypeOK
<1>6. n + 1 \in Links /\ Walk(table', first[op.file])[n + 1] = op.pending
  <2>1. ChainsSafe /\ Nth(op.file, n) \in Clusters
    BY <1>4 DEF ChainInv
  <2> QED BY <1>2, <1>5, <2>1, LinkedCluster
<1> SUFFICES ASSUME NEW c \in Clusters, table'[c] # Free PROVE Held(c)'
  BY DEF Used
<1>7. table[c] # Free
  <2>1. EOF # Free
    BY MaxClusterAssumption DEF EOF, Free
  <2> QED BY <1>1, <1>4, <1>5, <2>1
<1>8. c = 2 \/ InFile(c) \/ c = op.pending
  BY <1>1, <1>7 DEF Used, Held, InClaim, InRelease
<1>9. CASE c = op.pending
  <2>1. op.file \in exists' /\ Walk(table', first'[op.file])[n + 1] = c
    BY <1>1, <1>2, <1>6, <1>9
  <2> QED BY <1>6, <2>1 DEF Held, InFile
<1>10. CASE c = 2 \/ InFile(c)
  BY <1>1, <1>10, StaysInFile DEF Held
<1> QED BY <1>8, <1>9, <1>10

LEMMA NextUsed ==
    ASSUME Clean, Used, [Next]_vars
    PROVE  Used'
<1> USE DEF Clean, Volume, Before
<1>1. CASE UNCHANGED vars
  <2>1. \A c \in Clusters : Held(c)' = Held(c)
    BY <1>1 DEF Held, InFile, InClaim, InRelease
  <2> QED BY <1>1, <2>1 DEF Used
<1>2. CASE Next /\ Remount
  <2>1. op = Idle /\ UNCHANGED <<table, exists>> /\ op.step = "idle"
    BY <1>2, NoFailure DEF Remount, Idle
  <2> QED BY <1>2, <2>1, QuietUse
<1>3. CASE Next /\ (\/ SeekStep \/ ReadStep \/ AppendHere \/ WriteCluster
                    \/ MoveToNextCluster \/ UpdateDirectoryEntrySize)
  <2>1. /\ UNCHANGED <<table, exists>>
        /\ op.step \notin {"set_first", "link", "release"}
    BY <1>3 DEF SeekStep, ReadStep, AppendHere, WriteCluster,
                MoveToNextCluster, UpdateDirectoryEntrySize
  <2> QED BY <1>3, <2>1, QuietUse
<1>4. ~ReleaseUnlinkedCluster
  BY DEF ByteInv, ReleaseUnlinkedCluster
<1>5. ASSUME NEW f \in Files, Next,
             \/ \E append \in AppendModes :
                    CreateFile(f, append) \/ OpenFile(f, append)
             \/ Close(f)
             \/ \E p, n : StartSeek(f, p, n)
             \/ \E n \in 1 .. MaxLength : Read(f, n) \/ Write(f, n)
      PROVE  Used'
  <2>1. \A p, n : StartSeek(f, p, n) => op = Idle /\ UNCHANGED <<table, exists>>
    BY DEF StartSeek
  <2>2. op = Idle /\ UNCHANGED table /\ exists \subseteq exists'
    BY <1>5, <2>1 DEF CreateFile, OpenFile, Close, Read, Write
  <2> QED BY <1>5, <2>2, QuietUse DEF Idle
<1>6. CASE Next /\ ~Remount
  BY <1>3, <1>4, <1>5, <1>6, NextCases, DeleteUse, ReleaseUse, ClaimUse,
     SetFirstUse, LinkUse DEF Step
<1> QED BY <1>1, <1>2, <1>6

LEMMA InitUsed == Init => Used
<1> SUFFICES ASSUME Init PROVE Used
  OBVIOUS
<1>1. \A c \in Clusters : table[c] # Free => c = 2
  BY DEF Init
<1> QED BY <1>1 DEF Used, Held

LEMMA UsedHolds ==
    Spec => [](clean => TypeInv /\ ChainInv /\ ContentInv /\ ByteInv /\ Used)
<1> DEFINE I == TypeInv /\ ChainInv /\ ContentInv /\ ByteInv
<1>1. Init => (clean => Used)
  BY InitUsed
<1>2. (clean => I) /\ (clean => I)' /\ TypeInv /\ (clean => Used) /\ [Next]_vars
        => (clean => Used)'
  BY NextUsed, SureBefore DEF TypeInv, Sure, Clean, Volume, Before
<1>3. (clean => I) /\ (clean => Used) => (clean => I /\ Used)
  OBVIOUS
<1> QED BY <1>1, <1>2, <1>3, ByteInvHolds, TypeInvHolds, PTL DEF Spec

(* As long as no device access has failed, an idle volume has leaked no    *)
(* cluster: what FAT32File::Write claims before it links it, and what      *)
(* ReleaseChain frees after the entry is gone, is in a chain or free when  *)
(* the call returns.                                                       *)
THEOREM NothingIsLeaked == Spec => []NothingLeaks
<1>1. ASSUME TypeInv, ChainInv, ByteInv, Used, op = Idle
      PROVE  Clusters \ FreeClusters =
                {2} \cup UNION {ChainClusters(f) : f \in exists}
  <2>1. ChainsSafe /\ TypeOK /\ op.step = "idle" /\ 2 \in Clusters
    BY <1>1, ConstantTypes DEF ChainInv, TypeInv, Idle
  <2>2. \A f : ChainClusters(f) = {Nth(f, n) : n \in Links} \cap Clusters
    BY WalkIsChain DEF ChainClusters, Nth, Links
  <2>3. ASSUME NEW c \in Clusters, table[c] # Free
        PROVE  c = 2 \/ \E f \in exists : c \in ChainClusters(f)
    <3>1. c = 2 \/ InFile(c)
      BY <1>1, <2>1, <2>3 DEF Used, Held, InClaim, InRelease
    <3>2. InFile(c) => \E f \in exists, n \in Links : Nth(f, n) = c
      BY DEF InFile, Nth
    <3> QED BY <2>2, <3>1, <3>2
  <2>4. ASSUME NEW f \in exists, NEW c \in ChainClusters(f)
        PROVE  c \in Clusters /\ table[c] # Free
    BY <2>1, <2>2, <2>4, FileChain
  <2>5. table[2] # Free
    BY <2>1 DEF ChainsSafe
  <2> QED BY <2>1, <2>3, <2>4, <2>5 DEF FreeClusters
<1>2. (clean => TypeInv /\ ChainInv /\ ContentInv /\ ByteInv /\ Used)
        => NothingLeaks
  BY <1>1 DEF NothingLeaks
<1> QED BY <1>2, UsedHolds, PTL
=============================================================================
