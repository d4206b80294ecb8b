---------------------- MODULE FAT32DirectoryTree_proofs ----------------------
(***************************************************************************)
(* Proofs about FAT32DirectoryTree, for any number of clusters, names and  *)
(* handles, any capacity of the cache, and any number of failures.         *)
(***************************************************************************)
EXTENDS FAT32DirectoryTree, SequenceTheorems, TLAPS

-----------------------------------------------------------------------------
(* Paths.                                                                  *)
LEMMA PathLen ==
    ASSUME NEW S, NEW n \in Nat, NEW f \in [1 .. n -> S]
    PROVE  f \in Seq(S) /\ Len(f) = n /\ DOMAIN f = 1 .. n
OBVIOUS

LEMMA PathTypes ==
    ASSUME NEW path \in Paths
    PROVE  /\ path \in Seq(Names) /\ Len(path) \in 0 .. MaxDepth
           /\ path \in [1 .. Len(path) -> Names]
           /\ path = <<>> <=> Len(path) = 0
<1>1. PICK n \in 0 .. MaxDepth : path \in [1 .. n -> Names]
  BY DEF Paths
<1>2. n \in Nat
  BY <1>1, TreeAssumption
<1>3. path \in Seq(Names) /\ Len(path) = n
  BY <1>1, <1>2, PathLen
<1> QED BY <1>1, <1>3, EmptySeq

LEMMA PathIs ==
    ASSUME NEW path \in Seq(Names), Len(path) <= MaxDepth
    PROVE  path \in Paths
<1>1. Len(path) \in 0 .. MaxDepth
  BY TreeAssumption, LenProperties
<1>2. path \in [1 .. Len(path) -> Names]
  BY LenProperties
<1> QED BY <1>1, <1>2 DEF Paths

LEMMA RootPath == <<>> \in Paths
<1>1. <<>> \in Seq(Names) /\ Len(<<>>) = 0
  BY EmptySeq
<1>2. Len(<<>>) <= MaxDepth
  BY <1>1, TreeAssumption
<1> QED BY <1>1, <1>2, PathIs

LEMMA LongerPath ==
    ASSUME NEW path \in Paths, NEW n \in Names, Len(path) < MaxDepth
    PROVE  /\ Append(path, n) \in Paths
           /\ Len(Append(path, n)) = Len(path) + 1
           /\ Append(path, n)[Len(path) + 1] = n
           /\ \A i \in 1 .. Len(path) : Append(path, n)[i] = path[i]
           /\ Append(path, n) # <<>>
<1>1. path \in Seq(Names) /\ Len(path) \in Nat
  BY PathTypes
<1>2. Append(path, n) \in Seq(Names) /\ Len(Append(path, n)) = Len(path) + 1
  BY <1>1, AppendProperties
<1>3. Append(path, n) \in Paths /\ Append(path, n) # <<>>
  <2>1. PICK s : s = Append(path, n)
    OBVIOUS
  <2>2. s \in Seq(Names) /\ Len(s) = Len(path) + 1
    BY <1>2, <2>1
  <2>3. Len(s) <= MaxDepth /\ Len(s) # 0
    BY <1>1, <2>2, TreeAssumption
  <2> QED BY <2>1, <2>2, <2>3, PathIs, EmptySeq
<1>4. /\ Append(path, n)[Len(path) + 1] = n
      /\ \A i \in 1 .. Len(path) : Append(path, n)[i] = path[i]
  BY <1>1, AppendProperties
<1> QED BY <1>2, <1>3, <1>4

LEMMA ShorterPath ==
    ASSUME NEW path \in Paths, path # <<>>
    PROVE  Front(path) \in Paths
<1>1. path \in Seq(Names) /\ Len(path) \in 0 .. MaxDepth /\ Len(path) # 0
  BY PathTypes
<1>2. Len(path) - 1 \in Nat /\ Len(path) - 1 <= Len(path) /\ Len(path) \in Nat
  BY <1>1, TreeAssumption
<1>3. Front(path) \in Seq(Names) /\ Len(Front(path)) <= MaxDepth
  <2>1. \A i \in 1 .. Len(path) - 1 : path[i] \in Names
    BY <1>1, <1>2, ElementOfSeq
  <2> DEFINE m == Len(path) - 1
  <2>2. 1 \in Int /\ m \in Int /\ \A i \in 1 .. m : path[i] \in Names
    BY <1>2, <2>1
  <2>3. m <= MaxDepth
    BY <1>1, <1>2, TreeAssumption
  <2> HIDE DEF m
  <2>4. /\ SubSeq(path, 1, m) \in Seq(Names)
        /\ Len(SubSeq(path, 1, m)) = IF 1 <= m THEN m - 1 + 1 ELSE 0
    BY <2>2, SubSeqProperties
  <2> QED BY <2>2, <2>3, <2>4, TreeAssumption DEF Front, m
<1> QED BY <1>3, PathIs

-----------------------------------------------------------------------------
(* What is read from the entries e of the device, for any e.               *)
DirectoriesIn(e, p) == {i \in Indices : e[p][i] # Nothing /\ e[p][i].first # Nothing}
NamedIn(e, p, n) == {i \in Indices : e[p][i] # Nothing /\ n \in e[p][i].names}
Reading(e) ==
    [k \in Keys |->
        LET found == NamedIn(e, k[1], k[2]) \cap DirectoriesIn(e, k[1])
            i == CHOOSE i \in found : TRUE
        IN IF found = {} THEN Nothing
           ELSE [address |-> <<k[1], i>>, first |-> e[k[1]][i].first]]

LEMMA DeviceReads == OnDevice = Reading(entries) /\ OnDevice' = Reading(entries')
BY DEF OnDevice, Reading, Named, Directories, NamedIn, DirectoriesIn

PlaceAt(e, p, i) == [address |-> <<p, i>>, first |-> e[p][i].first]
Entered(e, p, n, i) == i \in NamedIn(e, p, n) \cap DirectoriesIn(e, p)

EntriesOK(e) == e \in [Clusters -> [Indices -> Entry \cup {Nothing}]]

\* The entries of a directory have names, and differ in them.
Differ(e) ==
    \A p \in Clusters, i \in Indices : e[p][i] # Nothing =>
        /\ e[p][i].names # {}
        /\ \A j \in Indices : e[p][j] # Nothing /\ j # i =>
              e[p][i].names \cap e[p][j].names = {}

LEMMA KeyIs ==
    /\ \A k \in Keys : k[1] \in Clusters /\ k[2] \in Names /\ k = <<k[1], k[2]>>
    /\ \A p \in Clusters, n \in Names : <<p, n>> \in Keys
BY DEF Keys

LEMMA PlaceTypes ==
    ASSUME NEW e, EntriesOK(e), NEW p \in Clusters, NEW i \in DirectoriesIn(e, p)
    PROVE  /\ PlaceAt(e, p, i) \in Place /\ PlaceAt(e, p, i) # Nothing
           /\ PlaceAt(e, p, i).first = e[p][i].first
           /\ PlaceAt(e, p, i).address = <<p, i>>
           /\ e[p][i].first \in Clusters
<1>1. e[p][i] \in Entry /\ e[p][i].first \in Clusters /\ i \in Indices
  BY DEF EntriesOK, DirectoriesIn, Entry
<1>2. <<p, i>> \in Address
  BY <1>1 DEF Address
<1>3. PlaceAt(e, p, i) \in Place
  BY <1>1, <1>2 DEF PlaceAt, Place
<1>4. PlaceAt(e, p, i) # Nothing
  BY <1>3, NothingAssumption
<1> QED BY <1>1, <1>3, <1>4 DEF PlaceAt

(* A name leads to the one entry that has it.                              *)
LEMMA ReadingIs ==
    ASSUME NEW e, Differ(e), NEW p \in Clusters, NEW n \in Names
    PROVE  /\ \A i : Entered(e, p, n, i) => Reading(e)[<<p, n>>] = PlaceAt(e, p, i)
           /\ (\A i : ~Entered(e, p, n, i)) => Reading(e)[<<p, n>>] = Nothing
<1> DEFINE found == NamedIn(e, p, n) \cap DirectoriesIn(e, p)
           c == CHOOSE i \in found : TRUE
<1>1. Reading(e)[<<p, n>>] =
        IF found = {} THEN Nothing
        ELSE [address |-> <<p, c>>, first |-> e[p][c].first]
  BY KeyIs DEF Reading
<1>2. ASSUME NEW i, Entered(e, p, n, i) PROVE found # {} /\ c = i
  <2>1. i \in found /\ c \in found
    BY <1>2 DEF Entered
  <2> HIDE DEF c
  <2> QED BY <2>1 DEF Differ, NamedIn
<1>3. (\A i : ~Entered(e, p, n, i)) => found = {}
  BY DEF Entered
<1> HIDE DEF found, c
<1> QED BY <1>1, <1>2, <1>3 DEF PlaceAt

LEMMA ReadingCases ==
    ASSUME NEW e, Differ(e), EntriesOK(e), NEW k \in Keys, Reading(e)[k] # Nothing
    PROVE  \E i : /\ Entered(e, k[1], k[2], i) /\ i \in DirectoriesIn(e, k[1])
                  /\ Reading(e)[k] = PlaceAt(e, k[1], i)
<1>1. k[1] \in Clusters /\ k[2] \in Names /\ k = <<k[1], k[2]>>
  BY KeyIs
<1>2. PICK p \in Clusters, n \in Names : p = k[1] /\ n = k[2] /\ k = <<p, n>>
  BY <1>1
<1>3. PICK i : Entered(e, p, n, i)
  BY <1>2, ReadingIs
<1>4. Reading(e)[<<p, n>>] = PlaceAt(e, p, i)
  BY <1>3, ReadingIs
<1> QED BY <1>2, <1>3, <1>4 DEF Entered

LEMMA ReadingTypes ==
    ASSUME NEW e, Differ(e), EntriesOK(e)
    PROVE  \A k \in Keys : Reading(e)[k] \in Place \cup {Nothing}
<1> SUFFICES ASSUME NEW k \in Keys, Reading(e)[k] # Nothing
             PROVE  Reading(e)[k] \in Place
  OBVIOUS
<1> QED BY ReadingCases, PlaceTypes, KeyIs

(* Two volumes that agree on the entries with a name agree on what it is.  *)
LEMMA SameReading ==
    ASSUME NEW e, NEW u, Differ(e), Differ(u), EntriesOK(e), NEW k \in Keys,
           \A i : Entered(u, k[1], k[2], i) <=> Entered(e, k[1], k[2], i),
           \A i : Entered(e, k[1], k[2], i) =>
                    u[k[1]][i].first = e[k[1]][i].first
    PROVE  Reading(u)[k] = Reading(e)[k]
<1>1. PICK p \in Clusters, n \in Names : p = k[1] /\ n = k[2] /\ k = <<p, n>>
  BY KeyIs
<1>2. CASE \A i : ~Entered(e, p, n, i)
  BY <1>1, <1>2, ReadingIs
<1>3. ASSUME NEW i, Entered(e, p, n, i) PROVE Reading(u)[k] = Reading(e)[k]
  <2>1. Entered(u, p, n, i) /\ u[p][i].first = e[p][i].first
    BY <1>1, <1>3
  <2>2. Reading(u)[<<p, n>>] = PlaceAt(u, p, i) /\ Reading(e)[<<p, n>>] = PlaceAt(e, p, i)
    BY <1>3, <2>1, ReadingIs
  <2> QED BY <1>1, <2>1, <2>2 DEF PlaceAt
<1> QED BY <1>2, <1>3

-----------------------------------------------------------------------------
(* What the device holds while it is not damaged.                          *)
\* A directory is named once, its '..' leads back, and its cluster is in use.
Once(e, dd, al) ==
    \A p \in Clusters, i \in Indices : i \in DirectoriesIn(e, p) =>
        /\ e[p][i].first \in al \ {Root}
        /\ dd[e[p][i].first] = p
        /\ \A q \in Clusters, j \in Indices :
              j \in DirectoriesIn(e, q) /\ e[q][j].first = e[p][i].first
                => q = p /\ j = i

\* Clusters that are free hold nothing.
FreeIsEmpty(e, al) == \A d \in Clusters \ al : \A i \in Indices : e[d][i] = Nothing

DeviceOK(e, dd, al) ==
    Root \in al /\ FreeIsEmpty(e, al) /\ Differ(e) /\ Once(e, dd, al)

\* u is e but for the place i of p, which holds x.
ChangedAt(e, u, p, i, x) ==
    /\ EntriesOK(u)
    /\ u[p][i] = x
    /\ \A q \in Clusters, j \in Indices : q # p \/ j # i => u[q][j] = e[q][j]

LEMMA ExceptAt ==
    ASSUME NEW e, EntriesOK(e), NEW p \in Clusters, NEW i \in Indices,
           NEW x \in Entry \cup {Nothing}
    PROVE  ChangedAt(e, [e EXCEPT ![p][i] = x], p, i, x)
BY DEF ChangedAt, EntriesOK

\* What an entry x must be to be put at the free place i of p.
Fits(e, p, i, x) ==
    /\ p \in Clusters /\ i \in Indices /\ e[p][i] = Nothing
    /\ x \in Entry /\ x.names # {}
    /\ \A j \in Indices : e[p][j] # Nothing => x.names \cap e[p][j].names = {}

LEMMA FillingDiffers ==
    ASSUME NEW e, EntriesOK(e), Differ(e), NEW p, NEW i, NEW x, Fits(e, p, i, x),
           NEW u, ChangedAt(e, u, p, i, x)
    PROVE  Differ(u)
<1>1. x # Nothing /\ x.names \subseteq Names /\ p \in Clusters /\ i \in Indices
  BY NothingAssumption DEF Fits, Entry
<1> SUFFICES ASSUME NEW q \in Clusters, NEW j \in Indices, u[q][j] # Nothing
             PROVE  /\ u[q][j].names # {}
                    /\ \A m \in Indices : u[q][m] # Nothing /\ m # j =>
                          u[q][j].names \cap u[q][m].names = {}
  BY DEF Differ
<1>2. CASE q # p
  BY <1>2 DEF ChangedAt, Differ
<1>3. CASE q = p /\ j # i
  BY <1>3, <1>1 DEF ChangedAt, Differ, Fits
<1>4. CASE q = p /\ j = i
  BY <1>4, <1>1 DEF ChangedAt, Differ, Fits
<1> QED BY <1>2, <1>3, <1>4

(* What is found stays, and only the names of the new entry lead elsewhere.  *)
LEMMA FillingKeeps ==
    ASSUME NEW e, EntriesOK(e), Differ(e), NEW p, NEW i, NEW x, Fits(e, p, i, x),
           NEW u, ChangedAt(e, u, p, i, x)
    PROVE  \A k \in Keys :
              (\/ Reading(e)[k] # Nothing
               \/ x.first = Nothing
               \/ k[1] # p \/ k[2] \notin x.names)
                => Reading(u)[k] = Reading(e)[k]
<1>1. x # Nothing /\ x.names \subseteq Names /\ p \in Clusters /\ i \in Indices
  BY NothingAssumption DEF Fits, Entry
<1>2. Differ(u)
  BY FillingDiffers
<1>3. ASSUME NEW k \in Keys,
             \/ Reading(e)[k] # Nothing
             \/ x.first = Nothing
             \/ k[1] # p \/ k[2] \notin x.names
      PROVE  Reading(u)[k] = Reading(e)[k]
  <2>1. k[1] \in Clusters /\ k[2] \in Names
    BY KeyIs
  <2>2. k[1] = p /\ x.first # Nothing => k[2] \notin x.names
    <3> SUFFICES ASSUME k[1] = p, x.first # Nothing, k[2] \in x.names PROVE FALSE
      OBVIOUS
    <3>1. PICK j : Entered(e, k[1], k[2], j)
      BY <1>3, ReadingCases
    <3> QED BY <3>1 DEF Entered, NamedIn, Fits
  <2>3. \A j : Entered(u, k[1], k[2], j) <=> Entered(e, k[1], k[2], j)
    BY <2>1, <2>2, <1>1
       DEF Entered, NamedIn, DirectoriesIn, ChangedAt, Fits
  <2>4. \A j : Entered(e, k[1], k[2], j) => u[k[1]][j].first = e[k[1]][j].first
    BY <2>1 DEF Entered, NamedIn, ChangedAt, Fits
  <2> QED BY <1>2, <2>3, <2>4, SameReading
<1> QED BY <1>3

LEMMA FillingFinds ==
    ASSUME NEW e, EntriesOK(e), Differ(e), NEW p, NEW i, NEW x, Fits(e, p, i, x),
           NEW u, ChangedAt(e, u, p, i, x), x.first # Nothing
    PROVE  \A n \in x.names : Reading(u)[<<p, n>>] = PlaceAt(u, p, i)
<1>1. x # Nothing /\ x.names \subseteq Names /\ p \in Clusters /\ i \in Indices
  BY NothingAssumption DEF Fits, Entry
<1>2. Differ(u)
  BY FillingDiffers
<1> QED
  <2> SUFFICES ASSUME NEW n \in x.names
               PROVE  Reading(u)[<<p, n>>] = PlaceAt(u, p, i)
    OBVIOUS
  <2>1. Entered(u, p, n, i)
    BY <1>1 DEF Entered, NamedIn, DirectoriesIn, ChangedAt
  <2> QED BY <1>1, <1>2, <2>1, ReadingIs

LEMMA Clearing ==
    ASSUME NEW e, EntriesOK(e), Differ(e), NEW p \in Clusters, NEW i \in Indices,
           e[p][i] # Nothing, NEW u, ChangedAt(e, u, p, i, Nothing)
    PROVE  /\ Differ(u)
           /\ \A k \in Keys : \/ Reading(u)[k] = Reading(e)[k]
                              \/ /\ e[p][i].first # Nothing
                                 /\ Reading(e)[k] = PlaceAt(e, p, i)
<1>1. Differ(u)
  BY DEF Differ, ChangedAt
<1>2. ASSUME NEW k \in Keys, ~Entered(e, p, k[2], i) \/ k[1] # p
      PROVE  Reading(u)[k] = Reading(e)[k]
  <2>1. k[1] \in Clusters
    BY KeyIs
  <2>2. \A j : Entered(u, k[1], k[2], j) <=> Entered(e, k[1], k[2], j)
    BY <1>2, <2>1 DEF Entered, NamedIn, DirectoriesIn, ChangedAt
  <2>3. \A j : Entered(e, k[1], k[2], j) => u[k[1]][j].first = e[k[1]][j].first
    BY <1>2, <2>1 DEF Entered, NamedIn, ChangedAt
  <2> QED BY <1>1, <2>2, <2>3, SameReading
<1>3. ASSUME NEW k \in Keys, Entered(e, p, k[2], i), k[1] = p
      PROVE  e[p][i].first # Nothing /\ Reading(e)[k] = PlaceAt(e, p, i)
  BY <1>3, KeyIs, ReadingIs DEF Entered, DirectoriesIn
<1> QED BY <1>1, <1>2, <1>3

LEMMA FileFilled ==
    ASSUME NEW e, NEW dd, NEW al, EntriesOK(e), DeviceOK(e, dd, al),
           NEW p \in al, NEW i, NEW x, Fits(e, p, i, x), x.first = Nothing,
           NEW u, ChangedAt(e, u, p, i, x)
    PROVE  DeviceOK(u, dd, al)
<1>1. Differ(u)
  BY FillingDiffers DEF DeviceOK
<1>2. p \in Clusters /\ i \in Indices
  BY DEF Fits
<1>3. \A q \in Clusters, j \in Indices : j \in DirectoriesIn(u, q) =>
         j \in DirectoriesIn(e, q) /\ u[q][j] = e[q][j]
  BY DEF ChangedAt, DirectoriesIn
<1>4. Once(u, dd, al)
  BY <1>3 DEF DeviceOK, Once
<1>5. FreeIsEmpty(u, al)
  BY DEF DeviceOK, FreeIsEmpty, ChangedAt
<1> QED BY <1>1, <1>4, <1>5 DEF DeviceOK

LEMMA DirectoryFilled ==
    ASSUME NEW e, NEW dd, NEW al, EntriesOK(e), DeviceOK(e, dd, al),
           NEW p \in al, NEW i, NEW x, Fits(e, p, i, x),
           NEW d \in al \ {Root}, x.first = d, dd[d] = p,
           \A q \in Clusters, j \in Indices :
              j \in DirectoriesIn(e, q) => e[q][j].first # d,
           NEW u, ChangedAt(e, u, p, i, x)
    PROVE  DeviceOK(u, dd, al)
<1>1. Differ(u)
  BY FillingDiffers DEF DeviceOK
<1>2. p \in Clusters /\ i \in Indices
  BY DEF Fits
<1>3. ASSUME NEW q \in Clusters, NEW j \in Indices, j \in DirectoriesIn(u, q)
      PROVE  \/ q = p /\ j = i /\ u[q][j].first = d
             \/ /\ j \in DirectoriesIn(e, q) /\ u[q][j] = e[q][j]
                /\ u[q][j].first # d
  BY <1>3 DEF ChangedAt, DirectoriesIn
<1>4. Once(u, dd, al)
  <2> SUFFICES ASSUME NEW q \in Clusters, NEW j \in Indices, j \in DirectoriesIn(u, q)
               PROVE  /\ u[q][j].first \in al \ {Root}
                      /\ dd[u[q][j].first] = q
                      /\ \A r \in Clusters, m \in Indices :
                            m \in DirectoriesIn(u, r) /\ u[r][m].first = u[q][j].first
                              => r = q /\ m = j
    BY DEF Once
  <2>1. CASE q = p /\ j = i /\ u[q][j].first = d
    BY <1>3, <2>1
  <2>2. CASE /\ j \in DirectoriesIn(e, q) /\ u[q][j] = e[q][j]
             /\ u[q][j].first # d
    BY <1>3, <2>2 DEF DeviceOK, Once
  <2> QED BY <1>3, <2>1, <2>2
<1>5. FreeIsEmpty(u, al)
  BY DEF DeviceOK, FreeIsEmpty, ChangedAt
<1> QED BY <1>1, <1>4, <1>5 DEF DeviceOK

LEMMA EntryCleared ==
    ASSUME NEW e, NEW dd, NEW al, EntriesOK(e), DeviceOK(e, dd, al),
           NEW p \in Clusters, NEW i \in Indices, e[p][i] # Nothing,
           NEW u, ChangedAt(e, u, p, i, Nothing)
    PROVE  /\ DeviceOK(u, dd, al)
           /\ i \in DirectoriesIn(e, p) =>
                 \A q \in Clusters, j \in Indices :
                    j \in DirectoriesIn(u, q) => u[q][j].first # e[p][i].first
<1>1. Differ(u)
  BY Clearing DEF DeviceOK
<1>2. ASSUME NEW q \in Clusters, NEW j \in Indices, j \in DirectoriesIn(u, q)
      PROVE  j \in DirectoriesIn(e, q) /\ u[q][j] = e[q][j] /\ (q # p \/ j # i)
  BY <1>2 DEF ChangedAt, DirectoriesIn
<1>3. Once(u, dd, al)
  BY <1>2 DEF DeviceOK, Once
<1>4. FreeIsEmpty(u, al)
  BY DEF DeviceOK, FreeIsEmpty, ChangedAt
<1>5. ASSUME i \in DirectoriesIn(e, p), NEW q \in Clusters, NEW j \in Indices,
             j \in DirectoriesIn(u, q)
      PROVE  u[q][j].first # e[p][i].first
  BY <1>2, <1>5 DEF DeviceOK, Once
<1> QED BY <1>1, <1>3, <1>4, <1>5 DEF DeviceOK

(* A cluster that nothing names and that holds nothing is freed, or taken. *)
LEMMA ClusterFreed ==
    ASSUME NEW e, NEW dd \in [Clusters -> Clusters], NEW al \in SUBSET Clusters, DeviceOK(e, dd, al),
           NEW d \in Clusters \ {Root},
           \A q \in Clusters, j \in Indices :
              j \in DirectoriesIn(e, q) => e[q][j].first # d,
           \A j \in Indices : e[d][j] = Nothing,
           NEW c \in Clusters
    PROVE  /\ DeviceOK(e, [dd EXCEPT ![d] = c], al \ {d})
           /\ DeviceOK(e, [dd EXCEPT ![d] = c], al \cup {d})
           /\ DeviceOK(e, dd, al \cup {d})
<1> DEFINE after == [dd EXCEPT ![d] = c]
<1>1. \A q \in Clusters \ {d} : after[q] = dd[q]
  OBVIOUS
<1> HIDE DEF after
<1>2. FreeIsEmpty(e, al \ {d}) /\ FreeIsEmpty(e, al \cup {d})
  BY DEF DeviceOK, FreeIsEmpty
<1>3. \A p \in Clusters, i \in Indices : i \in DirectoriesIn(e, p) =>
         e[p][i].first # d /\ e[p][i].first \in al
  BY DEF DeviceOK, Once
<1>4. Once(e, after, al \ {d}) /\ Once(e, after, al \cup {d})
  BY <1>1, <1>3 DEF DeviceOK, Once
<1>5. Once(e, dd, al \cup {d})
  BY DEF DeviceOK, Once
<1> QED BY <1>2, <1>4, <1>5 DEF DeviceOK, after

-----------------------------------------------------------------------------
(* Where paths lead, in a reading r of the device or a cache.              *)
Readings == [Keys -> Place \cup {Nothing}]

LEMMA PlaceIs ==
    ASSUME NEW pl \in Place \cup {Nothing}, pl # Nothing
    PROVE  pl.first \in Clusters /\ pl.address \in Address
BY DEF Place

LEMMA WayStep ==
    ASSUME NEW path \in Paths, NEW way \in [1 .. Len(path) -> Clusters],
           NEW i \in 1 .. Len(path)
    PROVE  /\ At(way, i - 1) \in Clusters
           /\ <<At(way, i - 1), path[i]>> \in Keys
           /\ \A r : Step(r, path, way, i) = r[<<At(way, i - 1), path[i]>>]
<1>1. Len(path) \in Nat /\ path[i] \in Names
  BY PathTypes
<1>2. At(way, i - 1) \in Clusters
  <2>1. CASE i = 1
    BY <2>1, TreeAssumption DEF At
  <2>2. CASE i # 1
    <3>1. i - 1 \in 1 .. Len(path) /\ i - 1 # 0
      BY <1>1, <2>2
    <3> QED BY <3>1 DEF At
  <2> QED BY <2>1, <2>2
<1> QED BY <1>1, <1>2, KeyIs DEF Step

(* What a way says, with no mention of the empty path.                     *)
LEMMA LeadsMeans ==
    ASSUME NEW r, NEW path \in Paths, NEW way \in [1 .. Len(path) -> Clusters],
           Leads(r, path, way)
    PROVE  \A i \in 1 .. Len(path) :
              /\ r[<<At(way, i - 1), path[i]>>] # Nothing
              /\ way[i] = r[<<At(way, i - 1), path[i]>>].first
BY WayStep DEF Leads

LEMMA LeadsIf ==
    ASSUME NEW r, NEW path \in Paths, NEW way \in [1 .. Len(path) -> Clusters],
           \A i \in 1 .. Len(path) :
              /\ r[<<At(way, i - 1), path[i]>>] # Nothing
              /\ way[i] = r[<<At(way, i - 1), path[i]>>].first
    PROVE  Leads(r, path, way)
<1>1. \A i \in 1 .. Len(path) :
         Step(r, path, way, i) = r[<<At(way, i - 1), path[i]>>]
  BY WayStep
<1>2. DOMAIN way = 1 .. Len(path)
  OBVIOUS
<1> QED BY <1>1, <1>2 DEF Leads

LEMMA ResolvesGrow ==
    ASSUME NEW r, NEW u, NEW path \in Paths, NEW pl, Resolves(r, path, pl),
           \A k \in Keys : r[k] # Nothing => u[k] = r[k]
    PROVE  Resolves(u, path, pl)
<1>1. PICK way \in [1 .. Len(path) -> Clusters] :
         Leads(r, path, way) /\ pl = End(r, path, way)
  BY DEF Resolves
<1>2. \A i \in 1 .. Len(path) :
         u[<<At(way, i - 1), path[i]>>] = r[<<At(way, i - 1), path[i]>>]
  BY <1>1, LeadsMeans, WayStep
<1>3. Leads(u, path, way)
  <2>1. \A i \in 1 .. Len(path) :
              /\ u[<<At(way, i - 1), path[i]>>] # Nothing
              /\ way[i] = u[<<At(way, i - 1), path[i]>>].first
    BY <1>1, <1>2, LeadsMeans
  <2> QED BY <2>1, LeadsIf
<1>4. End(u, path, way) = End(r, path, way)
  <2>1. CASE path = <<>>
    BY <2>1 DEF End
  <2>2. CASE path # <<>>
    <3>1. Len(path) \in 1 .. Len(path)
      BY <2>2, PathTypes, TreeAssumption
    <3>2. PICK m \in 1 .. Len(path) : m = Len(path)
      BY <3>1
    <3>3. /\ Step(u, path, way, m) = u[<<At(way, m - 1), path[m]>>]
          /\ Step(r, path, way, m) = r[<<At(way, m - 1), path[m]>>]
      BY WayStep
    <3>4. Step(u, path, way, m) = Step(r, path, way, m)
      BY <1>2, <3>3
    <3> QED BY <2>2, <3>2, <3>4 DEF End
  <2> QED BY <2>1, <2>2
<1> QED BY <1>1, <1>3, <1>4 DEF Resolves

LEMMA RootResolves ==
    ASSUME NEW r
    PROVE  Resolves(r, <<>>, RootPlace) /\ \A pl : Resolves(r, <<>>, pl) => pl = RootPlace
<1>1. <<>> \in Paths /\ Len(<<>>) = 0
  BY RootPath, PathTypes
<1> DEFINE way == [i \in 1 .. Len(<<>>) |-> Root]
<1>2. way \in [1 .. Len(<<>>) -> Clusters]
  BY TreeAssumption
<1> HIDE DEF way
<1>3. Leads(r, <<>>, way)
  <2>1. \A i \in 1 .. Len(<<>>) : FALSE
    BY <1>1
  <2> QED BY <1>1, <1>2, <2>1, LeadsIf
<1> QED BY <1>2, <1>3 DEF Resolves, End

(* Where a way ends is the place found there.                              *)
LEMMA WayEnds ==
    ASSUME NEW r, NEW path \in Paths, NEW way \in [1 .. Len(path) -> Clusters],
           Leads(r, path, way)
    PROVE  /\ At(way, Len(path)) = End(r, path, way).first
           /\ At(way, Len(path)) \in Clusters
           /\ path # <<>> => \E k \in Keys : r[k] # Nothing /\ End(r, path, way) = r[k]
<1>1. CASE path = <<>>
  <2>1. Len(path) = 0
    BY <1>1, PathTypes
  <2> QED BY <1>1, <2>1, TreeAssumption DEF At, End, RootPlace
<1>2. CASE path # <<>>
  <2>1. Len(path) \in 1 .. Len(path) /\ Len(path) # 0
    BY <1>2, PathTypes, TreeAssumption
  <2>2. PICK k \in Keys : k = <<At(way, Len(path) - 1), path[Len(path)]>>
    BY <2>1, WayStep
  <2>3. r[k] # Nothing /\ way[Len(path)] = r[k].first
    BY <2>1, <2>2, LeadsMeans
  <2>4. End(r, path, way) = r[k]
    BY <1>2, <2>1, <2>2, WayStep DEF End
  <2>5. At(way, Len(path)) = way[Len(path)] /\ way[Len(path)] \in Clusters
    BY <2>1 DEF At
  <2> QED BY <2>3, <2>4, <2>5
<1> QED BY <1>1, <1>2

LEMMA ResolvesLonger ==
    ASSUME NEW r \in Readings, NEW path \in Paths, NEW pl, Resolves(r, path, pl),
           NEW n \in Names, Len(path) < MaxDepth, r[<<pl.first, n>>] # Nothing
    PROVE  Resolves(r, Append(path, n), r[<<pl.first, n>>])
<1>1. PICK way \in [1 .. Len(path) -> Clusters] :
         Leads(r, path, way) /\ pl = End(r, path, way)
  BY DEF Resolves
<1>2. At(way, Len(path)) = pl.first /\ pl.first \in Clusters
  BY <1>1, WayEnds
<1>3. PICK longer : longer = Append(path, n)
  OBVIOUS
<1>4. /\ longer \in Paths /\ Len(longer) = Len(path) + 1 /\ longer # <<>>
      /\ longer[Len(path) + 1] = n
      /\ \A i \in 1 .. Len(path) : longer[i] = path[i]
  BY <1>3, LongerPath
<1>5. Len(path) \in Nat
  BY PathTypes
<1> DEFINE s == r[<<pl.first, n>>]
           m == Len(path) + 1
           on == [i \in 1 .. m |-> IF i = m THEN s.first ELSE way[i]]
<1>6. s \in Place /\ s.first \in Clusters
  BY <1>2, KeyIs DEF Readings, Place
<1> HIDE DEF s
<1>7. on \in [1 .. Len(longer) -> Clusters]
  BY <1>4, <1>5, <1>6
<1>8. /\ on[m] = s.first
      /\ \A i \in 1 .. Len(path) : on[i] = way[i]
  BY <1>5
<1>9. \A i \in 1 .. m : At(on, i - 1) = At(way, i - 1)
  BY <1>5, <1>8 DEF At
<1>10. \A i \in 1 .. m :
         /\ r[<<At(on, i - 1), longer[i]>>] # Nothing
         /\ on[i] = r[<<At(on, i - 1), longer[i]>>].first
  <2> SUFFICES ASSUME NEW i \in 1 .. m
               PROVE  /\ r[<<At(on, i - 1), longer[i]>>] # Nothing
                      /\ on[i] = r[<<At(on, i - 1), longer[i]>>].first
    OBVIOUS
  <2> HIDE DEF on
  <2>1. CASE i = m
    <3>1. At(on, i - 1) = pl.first /\ longer[i] = n
      BY <1>2, <1>4, <1>5, <1>9, <2>1
    <3> QED BY <1>8, <2>1, <3>1 DEF s
  <2>2. CASE i # m
    <3>1. i \in 1 .. Len(path)
      BY <1>5, <2>2
    <3> QED BY <1>1, <1>4, <1>8, <1>9, <3>1, LeadsMeans
  <2> QED BY <2>1, <2>2
<1> HIDE DEF on
<1>11. Leads(r, longer, on)
  BY <1>4, <1>7, <1>10, LeadsIf
<1>12. End(r, longer, on) = s
  <2>1. m \in 1 .. Len(longer)
    BY <1>4, <1>5
  <2>2. Step(r, longer, on, m) = r[<<At(on, m - 1), longer[m]>>]
    BY <1>4, <1>7, <2>1, WayStep
  <2>3. At(on, m - 1) = pl.first
    BY <1>2, <1>4, <1>5, <1>9, <2>1
  <2> QED BY <1>4, <2>2, <2>3 DEF End, s
<1> QED BY <1>3, <1>4, <1>7, <1>11, <1>12 DEF Resolves, s

(* A path that resolves on the device leads to a directory in use.         *)
LEMMA ResolvedPlace ==
    ASSUME NEW e, EntriesOK(e), NEW dd, NEW al, DeviceOK(e, dd, al),
           NEW path \in Paths, NEW pl, Resolves(Reading(e), path, pl)
    PROVE  /\ pl.first \in al /\ pl.first \in Clusters
           /\ path = <<>> => pl = RootPlace
           /\ path # <<>> =>
                 \E p \in Clusters : \E i \in DirectoriesIn(e, p) :
                    pl = PlaceAt(e, p, i) /\ pl \in Place /\ pl.first # Root
<1>1. CASE path = <<>>
  <2>1. pl = RootPlace
    BY <1>1, RootResolves
  <2> QED BY <1>1, <2>1, TreeAssumption DEF RootPlace, DeviceOK
<1>2. CASE path # <<>>
  <2>1. PICK k \in Keys : Reading(e)[k] # Nothing /\ pl = Reading(e)[k]
    BY <1>2, WayEnds DEF Resolves
  <2>2. PICK i \in DirectoriesIn(e, k[1]) : Reading(e)[k] = PlaceAt(e, k[1], i)
    BY <2>1, ReadingCases DEF DeviceOK
  <2>3. k[1] \in Clusters /\ i \in Indices
    BY KeyIs DEF DirectoriesIn
  <2>4. pl = PlaceAt(e, k[1], i) /\ pl \in Place /\ pl.first = e[k[1]][i].first
        /\ pl.first \in Clusters
    BY <2>1, <2>2, <2>3, PlaceTypes
  <2>5. pl.first \in al \ {Root}
    BY <2>2, <2>3, <2>4 DEF DeviceOK, Once
  <2> QED BY <1>2, <2>3, <2>4, <2>5
<1> QED BY <1>1, <1>2

-----------------------------------------------------------------------------
(* What is in memory agrees with a reading r of the device.                *)
CacheOK(c, r) == c \in Readings /\ \A k \in Keys : c[k] # Nothing => c[k] = r[k]

HandleOK(x, r) ==
    /\ x.path = <<>> => x.valid /\ PlaceOf(x) = RootPlace
    /\ x.path # <<>> => x.address \in Address
    /\ x.valid => Resolves(r, x.path, PlaceOf(x))
HandlesTyped(hs) == hs \in [Holders \cup {Root} -> Handle \cup {Nothing}]
HandlesOK(hs, r) ==
    HandlesTyped(hs) /\ \A h \in Holders \cup {Root} : hs[h] # Nothing => HandleOK(hs[h], r)

\* A way down the device to d, whatever the names on it.
Below(e, m, way) ==
    \A i \in 1 .. m : \E j \in Indices :
        j \in DirectoriesIn(e, At(way, i - 1)) /\ e[At(way, i - 1)][j].first = way[i]
Reached(e, d) ==
    \E m \in 0 .. MaxDepth : \E way \in [1 .. m -> Clusters] :
        At(way, m) = d /\ Below(e, m, way)

SoundInv ==
    /\ DeviceOK(entries, dot_dot, allocated)
    /\ CacheOK(cache, OnDevice)
    /\ HandlesOK(handle, OnDevice)
    /\ faults = 0 => \A d \in allocated : Reached(entries, d)
TreeInv == TypeOK /\ (~damaged => SoundInv)

LEMMA OnDeviceTypes == TypeOK /\ SoundInv => OnDevice \in Readings
<1> SUFFICES ASSUME TypeOK, SoundInv PROVE OnDevice \in Readings
  OBVIOUS
<1>1. \A k \in Keys : Reading(entries)[k] \in Place \cup {Nothing}
  BY ReadingTypes DEF SoundInv, DeviceOK, EntriesOK, TypeOK
<1>2. OnDevice = [k \in Keys |-> OnDevice[k]]
  BY DEF OnDevice
<1> QED BY <1>1, <1>2, DeviceReads DEF Readings

LEMMA KnownIs ==
    ASSUME OnDevice \in Readings, NEW c, CacheOK(c, OnDevice)
    PROVE  Known(c) = OnDevice
<1>1. Known(c) = [k \in Keys |-> OnDevice[k]]
  BY DEF Known, CacheOK
<1>2. OnDevice = [k \in Keys |-> OnDevice[k]]
  BY DEF OnDevice
<1> QED BY <1>1, <1>2

LEMMA CachingKeeps ==
    ASSUME OnDevice \in Readings, NEW c, CacheOK(c, OnDevice),
           NEW keys, NEW after \in Caching(c, keys)
    PROVE  CacheOK(after, OnDevice)
<1>1. PICK kept : after = [k \in Keys |-> IF k \in kept THEN Known(c)[k] ELSE Nothing]
  BY DEF Caching
<1>2. \A k \in Keys : after[k] = OnDevice[k] \/ after[k] = Nothing
  BY <1>1, KnownIs
<1> QED BY <1>1, <1>2 DEF CacheOK, Readings

LEMMA GetDirectoryIs ==
    ASSUME OnDevice \in Readings, NEW c, CacheOK(c, OnDevice),
           NEW path \in Paths, NEW g \in GetDirectory(c, path)
    PROVE  /\ CacheOK(g.cache, OnDevice)
           /\ g.place # Nothing => Resolves(OnDevice, path, g.place)
<1>1. PICK way \in Ways(path) :
        /\ Leads(Known(c), path, way)
        /\ \E after \in Caching(c, LookedUp(path, way)) :
              g = [place |-> IF Arrives(path, way) THEN End(Known(c), path, way) ELSE Nothing,
                   cache |-> after]
  BY DEF GetDirectory
<1>2. PICK after \in Caching(c, LookedUp(path, way)) :
        g = [place |-> IF Arrives(path, way) THEN End(Known(c), path, way) ELSE Nothing,
             cache |-> after]
  BY <1>1
<1>3. CacheOK(g.cache, OnDevice)
  BY <1>2, CachingKeeps
<1>4. ASSUME g.place # Nothing PROVE Resolves(OnDevice, path, g.place)
  <2>1. Len(way) = Len(path) /\ g.place = End(OnDevice, path, way)
    BY <1>2, <1>4, KnownIs DEF Arrives
  <2>2. PICK n \in 0 .. Len(path) : way \in [1 .. n -> Clusters]
    BY DEF Ways
  <2>3. n \in Nat
    BY <2>2, PathTypes
  <2>4. way \in [1 .. Len(path) -> Clusters]
    BY <2>1, <2>2, <2>3, PathLen
  <2>5. Leads(OnDevice, path, way)
    BY <1>1, KnownIs
  <2> QED BY <2>1, <2>4, <2>5 DEF Resolves
<1> QED BY <1>3, <1>4

(* A handle that an operation accepted is the directory at its path, when  *)
(* the operation starts, and a directory in use.                           *)
LEMMA AcceptedHandle ==
    ASSUME TypeOK, SoundInv, NEW h \in Holders \cup {Root}, Held(h),
           NEW c \in Accepted(handle[h])
    PROVE  /\ CacheOK(c, OnDevice)
           /\ handle[h] \in Handle /\ handle[h].path \in Paths
           /\ Resolves(OnDevice, handle[h].path, PlaceOf(handle[h]))
           /\ handle[h].first \in allocated /\ handle[h].first \in Clusters
           /\ handle[h].path = <<>> => PlaceOf(handle[h]) = RootPlace
           /\ handle[h].path # <<>> =>
                 \E p \in Clusters : \E i \in DirectoriesIn(entries, p) :
                    /\ PlaceOf(handle[h]) = PlaceAt(entries, p, i)
                    /\ PlaceOf(handle[h]) \in Place /\ handle[h].first # Root
<1> DEFINE x == handle[h]
<1>1. x \in Handle /\ x.path \in Paths /\ x.first \in Clusters
  BY DEF TypeOK, Held, Handle
<1>2. HandleOK(x, OnDevice)
  BY DEF SoundInv, HandlesOK, Held
<1>3. OnDevice \in Readings
  BY OnDeviceTypes
<1>4. CacheOK(c, OnDevice) /\ Resolves(OnDevice, x.path, PlaceOf(x))
  <2>1. CASE x.valid
    BY <1>2, <2>1 DEF Accepted, SoundInv, HandleOK
  <2>2. CASE ~x.valid
    <3>1. x.path # <<>> /\ x.address \in Address
      BY <1>2, <2>2 DEF HandleOK
    <3>2. PlaceOf(x) \in Place
      BY <1>1, <3>1 DEF PlaceOf, Place
    <3>3. PlaceOf(x) # Nothing
      BY <3>2, NothingAssumption
    <3>4. PICK g \in GetDirectory(cache, x.path) : c = g.cache /\ g.place = PlaceOf(x)
      BY <2>2 DEF Accepted
    <3> QED BY <1>1, <1>3, <3>3, <3>4, GetDirectoryIs DEF SoundInv
  <2> QED BY <2>1, <2>2
<1>5. PlaceOf(x).first = x.first
  BY DEF PlaceOf
<1>6. PICK pl : pl = PlaceOf(x) /\ Resolves(Reading(entries), x.path, pl)
  BY <1>4, DeviceReads
<1>7. EntriesOK(entries) /\ DeviceOK(entries, dot_dot, allocated)
  BY DEF TypeOK, EntriesOK, SoundInv
<1>8. /\ pl.first \in allocated /\ (x.path = <<>> => pl = RootPlace)
      /\ x.path # <<>> =>
                 \E p \in Clusters : \E i \in DirectoriesIn(entries, p) :
                    pl = PlaceAt(entries, p, i) /\ pl \in Place /\ pl.first # Root
  BY <1>1, <1>6, <1>7, ResolvedPlace
<1> QED BY <1>1, <1>4, <1>5, <1>6, <1>8

-----------------------------------------------------------------------------
(* The handles a step leaves.                                              *)
LEMMA NewHandleOK ==
    ASSUME NEW r, NEW path \in Paths, NEW pl, Resolves(r, path, pl),
           path = <<>> \/ pl \in Place
    PROVE  NewHandle(path, pl) \in Handle /\ HandleOK(NewHandle(path, pl), r)
<1> DEFINE x == NewHandle(path, pl)
<1>1. pl = RootPlace \/ pl \in Place
  BY RootResolves
<1>2. pl.address \in Address \cup {Nothing} /\ pl.first \in Clusters
  BY <1>1, TreeAssumption DEF RootPlace, Place
<1>3. PlaceOf(x) = pl
  BY <1>1 DEF NewHandle, PlaceOf, RootPlace, Place
<1>4. x \in Handle /\ x.path = path /\ x.address = pl.address
      /\ x.valid = (path = <<>>)
  BY <1>2 DEF NewHandle, Handle
<1>5. path # <<>> => pl.address \in Address
  BY DEF Place
<1>6. path = <<>> => pl = RootPlace
  BY RootResolves
<1> HIDE DEF x
<1> QED BY <1>3, <1>4, <1>5, <1>6 DEF HandleOK, x

LEMMA ValidateOK ==
    ASSUME NEW r, HandlesOK(handle, r), NEW h \in Holders \cup {Root}, Held(h),
           Resolves(r, handle[h].path, PlaceOf(handle[h]))
    PROVE  HandlesOK(Validate(h), r)
<1> DEFINE x == handle[h]
           y == [x EXCEPT !.valid = TRUE]
<1>1. x \in Handle /\ HandleOK(x, r)
  BY DEF HandlesOK, HandlesTyped, Held
<1>2. y \in Handle /\ y.path = x.path /\ y.address = x.address
      /\ y.first = x.first /\ y.valid
  BY <1>1 DEF Handle
<1>3. HandleOK(y, r)
  BY <1>1, <1>2 DEF HandleOK, PlaceOf
<1>4. Validate(h) = [handle EXCEPT ![h] = y]
  BY DEF Validate
<1> HIDE DEF y
<1>5. HandlesTyped(Validate(h)) /\ Validate(h)[h] = y
      /\ \A g \in Holders \cup {Root} : g # h => Validate(h)[g] = handle[g]
  BY <1>2, <1>4 DEF HandlesOK, HandlesTyped
<1> QED BY <1>3, <1>5 DEF HandlesOK

LEMMA SetOK ==
    ASSUME NEW r, NEW hs, HandlesOK(hs, r), NEW x \in Handle, HandleOK(x, r), NEW to \in Holders
    PROVE  HandlesOK([hs EXCEPT ![to] = x], r)
<1> DEFINE after == [hs EXCEPT ![to] = x]
<1>1. HandlesTyped(after) /\ after[to] = x
      /\ \A g \in Holders \cup {Root} : g # to => after[g] = hs[g]
  BY DEF HandlesOK, HandlesTyped
<1> HIDE DEF after
<1>2. HandlesOK(after, r)
  BY <1>1 DEF HandlesOK
<1> QED BY <1>2 DEF after

LEMMA GiveOK ==
    ASSUME NEW r, HandlesOK(handle, r), NEW h \in Holders \cup {Root}, Held(h),
           Resolves(r, handle[h].path, PlaceOf(handle[h])),
           NEW x \in Handle, HandleOK(x, r), NEW to
    PROVE  HandlesOK(Give(h, to, x), r)
<1>1. HandlesOK(Validate(h), r)
  BY ValidateOK
<1> QED BY <1>1, SetOK DEF Give

LEMMA HandlesGrow ==
    ASSUME NEW r, NEW u, NEW hs, HandlesOK(hs, r),
           \A k \in Keys : r[k] # Nothing => u[k] = r[k]
    PROVE  HandlesOK(hs, u)
<1> SUFFICES ASSUME NEW h \in Holders \cup {Root}, hs[h] # Nothing
             PROVE  HandleOK(hs[h], u)
  BY DEF HandlesOK
<1>1. HandleOK(hs[h], r) /\ hs[h].path \in Paths
  BY DEF HandlesOK, HandlesTyped, Handle
<1>2. hs[h].valid => Resolves(u, hs[h].path, PlaceOf(hs[h]))
  BY <1>1, ResolvesGrow DEF HandleOK
<1> QED BY <1>1, <1>2 DEF HandleOK

LEMMA InvalidatedOK ==
    ASSUME NEW r, NEW u, HandlesOK(handle, r)
    PROVE  HandlesOK(Invalidated, u)
<1>1. DOMAIN handle = Holders \cup {Root}
  BY DEF HandlesOK, HandlesTyped
<1>2. ASSUME NEW h \in Holders \cup {Root}, handle[h] # Nothing
      PROVE  /\ Invalidated[h] \in Handle
             /\ HandleOK(Invalidated[h], u)
  <2> DEFINE x == handle[h]
             y == [x EXCEPT !.valid = x.path = <<>>]
  <2>1. x \in Handle /\ HandleOK(x, r)
    BY <1>2 DEF HandlesOK, HandlesTyped
  <2>2. y \in Handle /\ y.path = x.path /\ y.address = x.address
        /\ y.first = x.first /\ y.valid = (x.path = <<>>)
    BY <2>1 DEF Handle
  <2>3. Invalidated[h] = y
    BY <1>1, <1>2 DEF Invalidated, Held
  <2> HIDE DEF y
  <2>4. x.path = <<>> => PlaceOf(y) = RootPlace
    BY <2>1, <2>2 DEF HandleOK, PlaceOf
  <2>5. x.path = <<>> => Resolves(u, y.path, PlaceOf(y))
    BY <2>2, <2>4, RootResolves
  <2> QED BY <2>1, <2>2, <2>3, <2>4, <2>5 DEF HandleOK
<1>3. \A h \in Holders \cup {Root} : handle[h] = Nothing => Invalidated[h] = Nothing
  BY <1>1 DEF Invalidated, Held
<1>4. Invalidated = [h \in Holders \cup {Root} |-> Invalidated[h]]
  BY <1>1 DEF Invalidated
<1>5. HandlesTyped(Invalidated)
  BY <1>2, <1>3, <1>4 DEF HandlesTyped
<1> QED BY <1>2, <1>3, <1>5 DEF HandlesOK

LEMMA NoHandlesOK ==
    ASSUME NEW r
    PROVE  HandlesOK(NoHandles, r)
<1>1. /\ NewHandle(<<>>, RootPlace) \in Handle
      /\ HandleOK(NewHandle(<<>>, RootPlace), r)
  BY RootPath, RootResolves, NewHandleOK
<1>2. HandlesTyped(NoHandles)
  BY <1>1 DEF HandlesTyped, NoHandles
<1>3. \A h \in Holders \cup {Root} :
         NoHandles[h] = IF h = Root THEN NewHandle(<<>>, RootPlace) ELSE Nothing
  BY DEF NoHandles
<1> QED BY <1>1, <1>2, <1>3 DEF HandlesOK

-----------------------------------------------------------------------------
(* Which directories can be reached.                                       *)
LEMMA WayTypes ==
    ASSUME NEW m \in Nat, NEW way \in [1 .. m -> Clusters]
    PROVE  \A i \in 0 .. m : At(way, i) \in Clusters
BY TreeAssumption DEF At

LEMMA RootReached == \A e : Reached(e, Root)
<1> SUFFICES ASSUME NEW e PROVE Reached(e, Root)
  OBVIOUS
<1> DEFINE way == [i \in 1 .. 0 |-> Root]
<1>1. way \in [1 .. 0 -> Clusters] /\ 0 \in 0 .. MaxDepth
  BY TreeAssumption
<1>2. At(way, 0) = Root /\ Below(e, 0, way)
  BY DEF At, Below
<1> HIDE DEF way
<1> QED BY <1>1, <1>2 DEF Reached

(* Directories that keep an entry in their parent stay in reach.           *)
LEMMA ReachedKept ==
    ASSUME NEW e, NEW u, NEW d, Reached(e, d),
           \A p \in Clusters : \A i \in DirectoriesIn(e, p) :
              \E j \in DirectoriesIn(u, p) : u[p][j].first = e[p][i].first
    PROVE  Reached(u, d)
<1>0. PICK m \in 0 .. MaxDepth : \E way \in [1 .. m -> Clusters] :
         At(way, m) = d /\ Below(e, m, way)
  BY DEF Reached
<1>1. PICK way \in [1 .. m -> Clusters] : At(way, m) = d /\ Below(e, m, way)
  BY <1>0
<1>2. m \in Nat
  BY <1>0, TreeAssumption
<1>3. Below(u, m, way)
  <2> SUFFICES ASSUME NEW i \in 1 .. m
               PROVE  \E j \in Indices :
                        /\ j \in DirectoriesIn(u, At(way, i - 1))
                        /\ u[At(way, i - 1)][j].first = way[i]
    BY DEF Below
  <2>1. At(way, i - 1) \in Clusters
    BY <1>2, WayTypes
  <2>2. PICK j \in Indices : /\ j \in DirectoriesIn(e, At(way, i - 1))
                             /\ e[At(way, i - 1)][j].first = way[i]
    BY <1>1 DEF Below
  <2>3. PICK k \in DirectoriesIn(u, At(way, i - 1)) :
           u[At(way, i - 1)][k].first = e[At(way, i - 1)][j].first
    BY <2>1, <2>2
  <2> QED BY <2>2, <2>3 DEF DirectoriesIn
<1> QED BY <1>1, <1>3 DEF Reached

(* No way leads through an empty directory, so its entry can go.           *)
OthersKept(e, u, d) ==
    \A p \in Clusters : \A i \in DirectoriesIn(e, p) :
        e[p][i].first # d =>
            i \in DirectoriesIn(u, p) /\ u[p][i].first = e[p][i].first

LEMMA ReachedPast ==
    ASSUME NEW e, NEW u, NEW d \in Clusters, \A i \in Indices : e[d][i] = Nothing,
           NEW c, c # d, Reached(e, c), OthersKept(e, u, d)
    PROVE  Reached(u, c)
<1>0. PICK m \in 0 .. MaxDepth : \E way \in [1 .. m -> Clusters] :
         At(way, m) = c /\ Below(e, m, way)
  BY DEF Reached
<1>1. PICK way \in [1 .. m -> Clusters] : At(way, m) = c /\ Below(e, m, way)
  BY <1>0
<1>2. m \in Nat
  BY <1>0, TreeAssumption
<1>3. Below(u, m, way)
  <2> SUFFICES ASSUME NEW i \in 1 .. m
               PROVE  \E j \in Indices :
                        /\ j \in DirectoriesIn(u, At(way, i - 1))
                        /\ u[At(way, i - 1)][j].first = way[i]
    BY DEF Below
  <2>1. At(way, i - 1) \in Clusters
    BY <1>2, WayTypes
  <2>2. PICK j \in Indices : /\ j \in DirectoriesIn(e, At(way, i - 1))
                             /\ e[At(way, i - 1)][j].first = way[i]
    BY <1>1 DEF Below
  <2>3. way[i] # d
    <3> SUFFICES ASSUME way[i] = d PROVE FALSE
      OBVIOUS
    <3>1. At(way, i) = d
      BY <1>2 DEF At
    <3>2. i # m
      BY <1>1, <3>1
    <3>3. i + 1 \in 1 .. m /\ (i + 1) - 1 = i
      BY <1>2, <3>2
    <3>4. \E k \in Indices : k \in DirectoriesIn(e, At(way, i))
      BY <1>1, <3>3 DEF Below
    <3> QED BY <3>1, <3>4 DEF DirectoriesIn
  <2> QED BY <2>1, <2>2, <2>3 DEF OthersKept
<1> QED BY <1>1, <1>3 DEF Reached

LEMMA ResolvedWay ==
    ASSUME NEW e, EntriesOK(e), Differ(e), NEW path \in Paths, NEW pl,
           Resolves(Reading(e), path, pl)
    PROVE  \E way \in [1 .. Len(path) -> Clusters] :
              At(way, Len(path)) = pl.first /\ Below(e, Len(path), way)
<1>1. PICK way \in [1 .. Len(path) -> Clusters] :
         Leads(Reading(e), path, way) /\ pl = End(Reading(e), path, way)
  BY DEF Resolves
<1>2. At(way, Len(path)) = pl.first
  BY <1>1, WayEnds
<1>3. Below(e, Len(path), way)
  <2> SUFFICES ASSUME NEW i \in 1 .. Len(path)
               PROVE  \E j \in Indices :
                        /\ j \in DirectoriesIn(e, At(way, i - 1))
                        /\ e[At(way, i - 1)][j].first = way[i]
    BY DEF Below
  <2>1. PICK k \in Keys : k = <<At(way, i - 1), path[i]>>
    BY WayStep
  <2>2. Reading(e)[k] # Nothing /\ way[i] = Reading(e)[k].first
    BY <1>1, <2>1, LeadsMeans
  <2>3. PICK j \in DirectoriesIn(e, k[1]) : Reading(e)[k] = PlaceAt(e, k[1], j)
    BY <2>2, ReadingCases
  <2>4. way[i] = e[k[1]][j].first /\ j \in Indices /\ k[1] = At(way, i - 1)
    BY <2>1, <2>2, <2>3 DEF PlaceAt, DirectoriesIn
  <2> QED BY <2>3, <2>4
<1> QED BY <1>1, <1>2, <1>3

LEMMA ReachedNext ==
    ASSUME NEW e, NEW m \in Nat, m < MaxDepth, NEW way \in [1 .. m -> Clusters],
           Below(e, m, way), NEW i \in DirectoriesIn(e, At(way, m)),
           NEW d \in Clusters, e[At(way, m)][i].first = d
    PROVE  Reached(e, d)
<1> DEFINE on == [k \in 1 .. m + 1 |-> IF k = m + 1 THEN d ELSE way[k]]
<1>1. on \in [1 .. m + 1 -> Clusters] /\ m + 1 \in 0 .. MaxDepth
  BY TreeAssumption
<1>2. on[m + 1] = d /\ \A k \in 1 .. m : on[k] = way[k]
  OBVIOUS
<1> HIDE DEF on
<1>3. At(on, m + 1) = d /\ \A k \in 0 .. m : At(on, k) = At(way, k)
  BY <1>2 DEF At
<1>4. Below(e, m + 1, on)
  <2> SUFFICES ASSUME NEW k \in 1 .. m + 1
               PROVE  \E j \in Indices :
                        /\ j \in DirectoriesIn(e, At(on, k - 1))
                        /\ e[At(on, k - 1)][j].first = on[k]
    BY DEF Below
  <2>1. CASE k = m + 1
    <3>1. At(on, k - 1) = At(way, m) /\ on[k] = d
      BY <1>2, <1>3, <2>1
    <3> QED BY <3>1 DEF DirectoriesIn
  <2>2. CASE k # m + 1
    <3>1. k \in 1 .. m /\ At(on, k - 1) = At(way, k - 1) /\ on[k] = way[k]
      BY <1>2, <1>3, <2>2
    <3> QED BY <3>1 DEF Below
  <2> QED BY <2>1, <2>2
<1> QED BY <1>1, <1>3, <1>4 DEF Reached

-----------------------------------------------------------------------------
(* Steps that leave the device alone.                                      *)
LEMMA MemoryTypes ==
    ASSUME NEW r, CacheOK(cache', r), HandlesOK(handle', r)
    PROVE  /\ cache' \in [Keys -> Place \cup {Nothing}]
           /\ handle' \in [Holders \cup {Root} -> Handle \cup {Nothing}]
BY DEF CacheOK, Readings, HandlesOK, HandlesTyped

LEMMA QuietStep ==
    ASSUME TypeOK, SoundInv, UNCHANGED <<device, faults, damaged>>,
           CacheOK(cache', OnDevice), HandlesOK(handle', OnDevice)
    PROVE  TypeOK' /\ SoundInv'
<1>1. UNCHANGED <<entries, dot_dot, allocated, faults, damaged>>
  BY DEF device
<1>2. OnDevice' = OnDevice
  BY <1>1, DeviceReads
<1>3. TypeOK'
  BY <1>1, MemoryTypes DEF TypeOK
<1> QED BY <1>1, <1>2, <1>3 DEF SoundInv

LEMMA OpenPathKeeps ==
    ASSUME TypeOK, SoundInv, NEW path \in Paths, NEW to \in Holders,
           OpenPath(path, to)
    PROVE  TypeOK' /\ SoundInv'
<1>1. PICK g \in GetDirectory(cache, path) :
        /\ cache' = g.cache
        /\ handle' = IF g.place = Nothing THEN handle
                     ELSE [handle EXCEPT ![to] = NewHandle(path, g.place)]
  BY DEF OpenPath
<1>2. OnDevice \in Readings
  BY OnDeviceTypes
<1>3. /\ CacheOK(g.cache, OnDevice)
      /\ g.place # Nothing => Resolves(OnDevice, path, g.place)
  BY <1>1, <1>2, GetDirectoryIs DEF SoundInv
<1>4. ASSUME g.place # Nothing PROVE path = <<>> \/ g.place \in Place
  BY <1>2, <1>3, <1>4, WayEnds DEF Resolves, Readings
<1>5. HandlesOK(handle', OnDevice)
  <2>1. CASE g.place = Nothing
    BY <1>1, <2>1 DEF SoundInv
  <2>2. CASE g.place # Nothing
    <3>1. PICK x \in Handle : x = NewHandle(path, g.place) /\ HandleOK(x, OnDevice)
      BY <1>3, <1>4, <2>2, NewHandleOK
    <3> QED BY <1>1, <2>2, <3>1, SetOK DEF SoundInv
  <2> QED BY <2>1, <2>2
<1> QED BY <1>1, <1>3, <1>5, QuietStep DEF OpenPath

LEMMA RefuseKeeps ==
    ASSUME TypeOK, SoundInv, NEW h \in Holders \cup {Root}, Held(h), Refuse(h)
    PROVE  TypeOK' /\ SoundInv'
<1>1. handle[h].path \in Paths
  BY DEF TypeOK, Held, Handle
<1>2. CacheOK(cache', OnDevice)
  BY <1>1, OnDeviceTypes, GetDirectoryIs DEF Refuse, Refused, SoundInv
<1>3. HandlesOK(handle', OnDevice)
  BY DEF Refuse, SoundInv
<1> QED BY <1>2, <1>3, QuietStep DEF Refuse

LEMMA RemountKeeps ==
    ASSUME TypeOK, Remount
    PROVE  TypeOK' /\ (SoundInv => SoundInv')
<1>1. UNCHANGED <<entries, dot_dot, allocated, faults, damaged>>
  BY DEF device, Remount
<1>2. CacheOK(cache', OnDevice) /\ HandlesOK(handle', OnDevice)
  BY NoHandlesOK DEF Remount, CacheOK, Readings, Forgotten
<1>3. TypeOK'
  BY <1>1, <1>2, MemoryTypes DEF TypeOK
<1>4. UNCHANGED <<device, faults, damaged>>
  BY DEF Remount
<1> QED BY <1>2, <1>3, <1>4, QuietStep

LEMMA OpenKeeps ==
    ASSUME TypeOK, SoundInv, NEW h \in Holders \cup {Root}, Held(h),
           NEW c \in Accepted(handle[h]),
           \/ CallFails(h, c)
           \/ \E to \in Holders : \/ OpenDot(h, c, to) \/ OpenDotDot(h, c, to)
                                  \/ \E n \in Names : OpenName(h, c, n, to)
    PROVE  TypeOK' /\ SoundInv'
<1> DEFINE x == handle[h]
           pl == PlaceOf(x)
<1>1. /\ CacheOK(c, OnDevice) /\ x.path \in Paths /\ x \in Handle
      /\ Resolves(OnDevice, x.path, pl) /\ pl.first = x.first
      /\ x.path = <<>> => pl = RootPlace
      /\ x.path # <<>> => pl \in Place
      /\ x.first \in Clusters
  BY AcceptedHandle DEF PlaceOf
<1>2. OnDevice \in Readings
  BY OnDeviceTypes
<1>3. Known(c) = OnDevice
  BY <1>1, <1>2, KnownIs
<1>4. UNCHANGED <<device, faults, damaged>>
  BY DEF CallFails, OpenDot, OpenDotDot, OpenName
<1>5. HandlesOK(Validate(h), OnDevice)
  BY <1>1, ValidateOK DEF SoundInv
<1>6. ASSUME NEW to \in Holders, NEW y \in Handle, HandleOK(y, OnDevice)
      PROVE  HandlesOK(Give(h, to, y), OnDevice)
  BY <1>1, <1>6, GiveOK DEF SoundInv
<1>7. CASE CallFails(h, c)
  BY <1>1, <1>4, <1>5, <1>7, QuietStep DEF CallFails
<1>8. ASSUME NEW to \in Holders, OpenDot(h, c, to) PROVE TypeOK' /\ SoundInv'
  <2>1. /\ NewHandle(x.path, pl) \in Handle
        /\ HandleOK(NewHandle(x.path, pl), OnDevice)
    BY <1>1, NewHandleOK
  <2> QED BY <1>1, <1>4, <1>6, <1>8, <2>1, QuietStep DEF OpenDot
<1>9. ASSUME NEW to \in Holders, OpenDotDot(h, c, to) PROVE TypeOK' /\ SoundInv'
  <2>1. PICK g \in GetDirectory(c, Front(x.path)) :
          /\ cache' = g.cache
          /\ handle' = IF g.place = Nothing THEN Validate(h)
                       ELSE Give(h, to, NewHandle(Front(x.path), g.place))
    BY <1>9 DEF OpenDotDot
  <2>2. Front(x.path) \in Paths
    BY <1>1, <1>9, ShorterPath DEF OpenDotDot
  <2>3. /\ CacheOK(g.cache, OnDevice)
        /\ g.place # Nothing => Resolves(OnDevice, Front(x.path), g.place)
    BY <1>1, <1>2, <2>1, <2>2, GetDirectoryIs
  <2>4. g.place # Nothing => Front(x.path) = <<>> \/ g.place \in Place
    BY <1>2, <2>2, <2>3, WayEnds DEF Resolves, Readings
  <2>5. g.place # Nothing => /\ NewHandle(Front(x.path), g.place) \in Handle
                             /\ HandleOK(NewHandle(Front(x.path), g.place), OnDevice)
    BY <2>2, <2>3, <2>4, NewHandleOK
  <2>6. HandlesOK(handle', OnDevice)
    BY <1>5, <1>6, <2>1, <2>5
  <2> QED BY <1>4, <2>1, <2>3, <2>6, QuietStep
<1>10. ASSUME NEW to \in Holders, NEW n \in Names, OpenName(h, c, n, to)
       PROVE  TypeOK' /\ SoundInv'
  <2> DEFINE k == <<x.first, n>>
             path == Append(x.path, n)
  <2>1. /\ OnDevice[k] # Nothing /\ cache' \in Caching(c, {k})
        /\ Len(x.path) < MaxDepth
        /\ handle' = Give(h, to, NewHandle(path, OnDevice[k]))
    BY <1>3, <1>10 DEF OpenName
  <2>2. path \in Paths /\ Resolves(OnDevice, path, OnDevice[k])
    BY <1>1, <1>2, <2>1, LongerPath, ResolvesLonger
  <2>3. OnDevice[k] \in Place
    BY <1>1, <1>2, <2>1, KeyIs DEF Readings
  <2>4. CacheOK(cache', OnDevice)
    BY <1>1, <1>2, <2>1, CachingKeeps
  <2> HIDE DEF k, path
  <2>5. /\ NewHandle(path, OnDevice[k]) \in Handle
        /\ HandleOK(NewHandle(path, OnDevice[k]), OnDevice)
    BY <2>2, <2>3, NewHandleOK
  <2> QED BY <1>4, <1>6, <2>1, <2>4, <2>5, QuietStep
<1> QED BY <1>7, <1>8, <1>9, <1>10

-----------------------------------------------------------------------------
(* Steps that change the device.                                           *)
LEMMA FaultTypes ==
    ASSUME TypeOK, NEW b \in BOOLEAN, Sound \/ Broken(b)
    PROVE  /\ faults' \in 0 .. MaxFaults /\ damaged' \in BOOLEAN
           /\ Broken(b) => faults' # 0
BY TreeAssumption DEF TypeOK, Sound, Broken

LEMMA ChangeStep ==
    ASSUME TypeOK, EntriesOK(entries'), dot_dot' \in [Clusters -> Clusters],
           allocated' \in SUBSET Clusters,
           DeviceOK(entries', dot_dot', allocated'),
           CacheOK(cache', OnDevice'), HandlesOK(handle', OnDevice'),
           \/ Sound /\ (faults = 0 => \A d \in allocated' : Reached(entries', d))
           \/ Broken(FALSE)
    PROVE  TypeOK' /\ SoundInv'
<1>1. /\ faults' \in 0 .. MaxFaults /\ damaged' \in BOOLEAN
      /\ Broken(FALSE) => faults' # 0
  BY FaultTypes
<1>2. /\ cache' \in [Keys -> Place \cup {Nothing}]
      /\ handle' \in [Holders \cup {Root} -> Handle \cup {Nothing}]
  BY MemoryTypes
<1>3. TypeOK'
  BY <1>1, <1>2 DEF TypeOK, EntriesOK
<1>4. faults' = 0 => \A d \in allocated' : Reached(entries', d)
  BY <1>1 DEF Sound
<1> QED BY <1>3, <1>4 DEF SoundInv

LEMMA DamagingStep ==
    ASSUME TypeOK, EntriesOK(entries'), dot_dot' \in [Clusters -> Clusters],
           allocated' \in SUBSET Clusters,
           NEW r, CacheOK(cache', r), HandlesOK(handle', r), Broken(TRUE)
    PROVE  TypeOK' /\ damaged'
<1>1. faults' \in 0 .. MaxFaults /\ damaged' \in BOOLEAN /\ damaged'
  BY FaultTypes DEF Broken
<1>2. /\ cache' \in [Keys -> Place \cup {Nothing}]
      /\ handle' \in [Holders \cup {Root} -> Handle \cup {Nothing}]
  BY MemoryTypes
<1> QED BY <1>1, <1>2 DEF TypeOK, EntriesOK

LEMMA CacheGrows ==
    ASSUME NEW r, NEW u, NEW c, CacheOK(c, r),
           \A k \in Keys : c[k] # Nothing => u[k] = r[k]
    PROVE  CacheOK(c, u)
BY DEF CacheOK

LEMMA NewEntryFits ==
    ASSUME TypeOK, NEW p \in Clusters, NEW n \in Names, n \notin NamesInUse(p),
           NEW first \in Clusters \cup {Nothing}, NEW i \in FreePlaces(p),
           NEW x \in NewEntries(p, n, first)
    PROVE  /\ Fits(entries, p, i, x) /\ x.first = first /\ n \in x.names
           /\ i \in Indices
<1>1. PICK a \in Aliases[n] \ NamesInUse(p) : x = [names |-> {n, a}, first |-> first]
  BY DEF NewEntries
<1>2. a \in Names
  BY <1>1, TreeAssumption
<1>3. x \in Entry /\ x.names = {n, a} /\ x.first = first
  BY <1>1, <1>2 DEF Entry
<1>4. \A j \in Indices : entries[p][j] # Nothing =>
         entries[p][j].names \subseteq NamesInUse(p)
  BY DEF NamesInUse
<1>5. i \in Indices /\ entries[p][i] = Nothing
  BY DEF FreePlaces
<1> QED BY <1>1, <1>3, <1>4, <1>5 DEF Fits

(* A step that reads the same before and after, through an accepted handle *)
LEMMA SameReadingStep ==
    ASSUME TypeOK, SoundInv, NEW h \in Holders \cup {Root}, Held(h),
           NEW c \in Accepted(handle[h]), cache' = c, handle' = Validate(h),
           EntriesOK(entries'), UNCHANGED <<dot_dot, allocated>>,
           DeviceOK(entries', dot_dot, allocated), Sound \/ Broken(FALSE),
           \A k \in Keys : Reading(entries')[k] = Reading(entries)[k],
           \A p \in Clusters : \A i \in DirectoriesIn(entries, p) :
              \E j \in DirectoriesIn(entries', p) :
                 entries'[p][j].first = entries[p][i].first
    PROVE  TypeOK' /\ SoundInv'
<1>1. \A k \in Keys : OnDevice'[k] = OnDevice[k]
  BY DeviceReads
<1>2. /\ CacheOK(c, OnDevice)
      /\ Resolves(OnDevice, handle[h].path, PlaceOf(handle[h]))
  BY AcceptedHandle
<1>3. CacheOK(cache', OnDevice')
  BY <1>1, <1>2, CacheGrows
<1>4. HandlesOK(handle', OnDevice)
  BY <1>2, ValidateOK DEF SoundInv
<1>5. HandlesOK(handle', OnDevice')
  BY <1>1, <1>4, HandlesGrow
<1>6. faults = 0 => \A d \in allocated' : Reached(entries', d)
  <2> SUFFICES ASSUME faults = 0, NEW d \in allocated PROVE Reached(entries', d)
    OBVIOUS
  <2>1. Reached(entries, d)
    BY DEF SoundInv
  <2> QED BY <2>1, ReachedKept
<1>7. dot_dot' \in [Clusters -> Clusters] /\ allocated' \in SUBSET Clusters
  BY DEF TypeOK
<1> QED BY <1>3, <1>5, <1>6, <1>7, ChangeStep

(* An entry without a chain comes.                                         *)
LEMMA FileEntered ==
    ASSUME TypeOK, SoundInv, NEW h \in Holders \cup {Root}, Held(h),
           NEW c \in Accepted(handle[h]), cache' = c, handle' = Validate(h),
           UNCHANGED <<dot_dot, allocated>>, Sound \/ Broken(FALSE),
           NEW p \in Clusters, p \in allocated, NEW i, NEW x, Fits(entries, p, i, x),
           x.first = Nothing, entries' = [entries EXCEPT ![p][i] = x]
    PROVE  TypeOK' /\ SoundInv'
<1>4. i \in Indices /\ x \in Entry
  BY DEF Fits
<1>5. EntriesOK(entries) /\ DeviceOK(entries, dot_dot, allocated) /\ Differ(entries)
  BY DEF TypeOK, EntriesOK, SoundInv, DeviceOK
<1>6. PICK u : u = entries' /\ ChangedAt(entries, u, p, i, x)
  BY <1>4, <1>5, ExceptAt
<1>7. DeviceOK(u, dot_dot, allocated) /\ EntriesOK(u)
  <2>1. DeviceOK(u, dot_dot, allocated)
    BY <1>5, <1>6, FileFilled
  <2> QED BY <1>6, <2>1 DEF ChangedAt
<1>8. \A k \in Keys : Reading(u)[k] = Reading(entries)[k]
  <2>1. ChangedAt(entries, u, p, i, x)
    BY <1>6
  <2> QED BY <1>4, <1>5, <2>1, FillingKeeps
<1>9. \A q \in Clusters : \A j \in DirectoriesIn(entries, q) :
         j \in DirectoriesIn(u, q) /\ u[q][j].first = entries[q][j].first
  BY <1>4, <1>6 DEF ChangedAt, Fits, DirectoriesIn
<1> QED BY <1>6, <1>7, <1>8, <1>9, SameReadingStep

LEMMA CreateFileKeeps ==
    ASSUME TypeOK, SoundInv, NEW h \in Holders \cup {Root}, Held(h),
           NEW c \in Accepted(handle[h]), NEW n \in Names, CreateFile(h, c, n)
    PROVE  TypeOK' /\ SoundInv'
<1>1. PICK p : p = handle[h].first
  OBVIOUS
<1>2. p \in Clusters /\ p \in allocated
  BY <1>1, AcceptedHandle
<1>3. PICK i \in FreePlaces(p), x \in NewEntries(p, n, Nothing) :
         entries' = [entries EXCEPT ![p][i] = x]
  BY <1>1 DEF CreateFile
<1>4. Fits(entries, p, i, x) /\ x.first = Nothing
  BY <1>1, <1>2, <1>3, NewEntryFits DEF CreateFile
<1>5. Sound /\ UNCHANGED <<dot_dot, allocated>> /\ cache' = c /\ handle' = Validate(h)
  BY DEF CreateFile, Sound
<1> QED BY <1>2, <1>3, <1>4, <1>5, FileEntered

(* An entry without a chain goes.                                          *)
LEMMA FileCleared ==
    ASSUME TypeOK, SoundInv, NEW h \in Holders \cup {Root}, Held(h),
           NEW c \in Accepted(handle[h]), cache' = c, handle' = Validate(h),
           UNCHANGED <<dot_dot, allocated>>, Sound \/ Broken(FALSE),
           NEW p \in Clusters, NEW i \in Indices, entries[p][i] # Nothing,
           entries[p][i].first = Nothing,
           entries' = [entries EXCEPT ![p][i] = Nothing]
    PROVE  TypeOK' /\ SoundInv'
<1>5. EntriesOK(entries) /\ DeviceOK(entries, dot_dot, allocated) /\ Differ(entries)
  BY DEF TypeOK, EntriesOK, SoundInv, DeviceOK
<1>6. PICK u : u = entries' /\ ChangedAt(entries, u, p, i, Nothing)
  BY <1>5, ExceptAt
<1>7. DeviceOK(u, dot_dot, allocated) /\ EntriesOK(u)
  <2>1. DeviceOK(u, dot_dot, allocated)
    BY <1>5, <1>6, EntryCleared
  <2> QED BY <1>6, <2>1 DEF ChangedAt
<1>8. \A k \in Keys : Reading(u)[k] = Reading(entries)[k]
  <2>1. ChangedAt(entries, u, p, i, Nothing)
    BY <1>6
  <2>2. \A k \in Keys : \/ Reading(u)[k] = Reading(entries)[k]
                         \/ /\ entries[p][i].first # Nothing
                            /\ Reading(entries)[k] = PlaceAt(entries, p, i)
    BY <1>5, <2>1, Clearing
  <2> QED BY <2>2
<1>9. \A q \in Clusters : \A j \in DirectoriesIn(entries, q) :
         j \in DirectoriesIn(u, q) /\ u[q][j].first = entries[q][j].first
  BY <1>6 DEF ChangedAt, DirectoriesIn
<1> QED BY <1>6, <1>7, <1>8, <1>9, SameReadingStep

LEMMA DeleteFileKeeps ==
    ASSUME TypeOK, SoundInv, NEW h \in Holders \cup {Root}, Held(h),
           NEW c \in Accepted(handle[h]), NEW n \in Names, DeleteFile(h, c, n)
    PROVE  TypeOK' /\ SoundInv'
<1>1. PICK p : p = handle[h].first
  OBVIOUS
<1>2. p \in Clusters
  BY <1>1, AcceptedHandle
<1>3. PICK i \in Named(p, n) \ Directories(p) :
         entries' = [entries EXCEPT ![p][i] = Nothing]
  BY <1>1 DEF DeleteFile
<1>4. i \in Indices /\ entries[p][i] # Nothing /\ entries[p][i].first = Nothing
  BY <1>3 DEF Named, Directories
<1>5. Sound /\ UNCHANGED <<dot_dot, allocated>> /\ cache' = c /\ handle' = Validate(h)
  BY DEF DeleteFile, Sound
<1> QED BY <1>2, <1>3, <1>4, <1>5, FileCleared

LEMMA FreeClusterIs ==
    ASSUME TypeOK, SoundInv, NEW d \in FreeClusters
    PROVE  /\ d \in Clusters \ {Root} /\ d \notin allocated
           /\ \A q \in Clusters, j \in Indices :
                 j \in DirectoriesIn(entries, q) => entries[q][j].first # d
           /\ \A j \in Indices : entries[d][j] = Nothing
BY DEF FreeClusters, SoundInv, DeviceOK, Once, FreeIsEmpty

LEMMA SameBefore ==
    ASSUME NEW e, NEW w, \A q \in Clusters, j \in Indices : w[q][j] = e[q][j],
           NEW p, NEW i, NEW x, NEW u, ChangedAt(w, u, p, i, x)
    PROVE  ChangedAt(e, u, p, i, x)
BY DEF ChangedAt

(* A free cluster becomes a directory.                                     *)
LEMMA DirectoryEntered ==
    ASSUME TypeOK, SoundInv, NEW p \in Clusters, p \in allocated,
           NEW d \in FreeClusters, NEW i, NEW x, Fits(entries, p, i, x), x.first = d,
           NEW u, u = [entries EXCEPT ![d] = Empty, ![p][i] = x]
    PROVE  /\ ChangedAt(entries, u, p, i, x)
           /\ DeviceOK(u, [dot_dot EXCEPT ![d] = p], allocated \cup {d})
<1>1. /\ d \in Clusters \ {Root} /\ d \notin allocated
      /\ \A q \in Clusters, j \in Indices :
            j \in DirectoriesIn(entries, q) => entries[q][j].first # d
      /\ \A j \in Indices : entries[d][j] = Nothing
  BY FreeClusterIs
<1>2. i \in Indices /\ x \in Entry /\ d # p
  BY <1>1 DEF Fits
<1>3. /\ EntriesOK(entries) /\ DeviceOK(entries, dot_dot, allocated)
      /\ dot_dot \in [Clusters -> Clusters] /\ allocated \in SUBSET Clusters
  BY DEF TypeOK, EntriesOK, SoundInv
<1>4. PICK w : w = [entries EXCEPT ![d] = Empty]
  OBVIOUS
<1>5. /\ EntriesOK(w) /\ \A q \in Clusters, j \in Indices : w[q][j] = entries[q][j]
  BY <1>1, <1>3, <1>4 DEF EntriesOK, Empty
<1>6. u = [w EXCEPT ![p][i] = x]
  BY <1>4
<1>7. ChangedAt(w, u, p, i, x)
  <2>1. ChangedAt(w, [w EXCEPT ![p][i] = x], p, i, x)
    BY <1>2, <1>5, ExceptAt
  <2> QED BY <1>6, <2>1
<1>8. ChangedAt(entries, u, p, i, x)
  BY <1>5, <1>7, SameBefore
<1>9. PICK dd \in [Clusters -> Clusters], al \in SUBSET Clusters :
         /\ dd = [dot_dot EXCEPT ![d] = p] /\ al = allocated \cup {d}
  BY <1>1, <1>3
<1>10. DeviceOK(entries, dd, al)
  <2>1. DeviceOK(entries, [dot_dot EXCEPT ![d] = p], allocated \cup {d})
    BY <1>1, <1>3, ClusterFreed
  <2> QED BY <1>9, <2>1
<1>11. p \in al /\ d \in al \ {Root} /\ dd[d] = p
  BY <1>1, <1>3, <1>9
<1>12. DeviceOK(u, dd, al)
  BY <1>1, <1>3, <1>8, <1>10, <1>11, DirectoryFilled
<1> QED BY <1>8, <1>9, <1>12

LEMMA CreateDirectoryKeeps ==
    ASSUME TypeOK, SoundInv, NEW h \in Holders \cup {Root}, Held(h),
           NEW c \in Accepted(handle[h]), NEW n \in Names, NEW to,
           CreateDirectory(h, c, n, to)
    PROVE  TypeOK' /\ (~damaged' => SoundInv')
<1> DEFINE path == Append(handle[h].path, n)
<1>1. PICK p : p = handle[h].first
  OBVIOUS
<1>2. /\ p \in Clusters /\ p \in allocated /\ CacheOK(c, OnDevice)
      /\ handle[h].path \in Paths
      /\ Resolves(OnDevice, handle[h].path, PlaceOf(handle[h]))
      /\ PlaceOf(handle[h]).first = p
  BY <1>1, AcceptedHandle DEF PlaceOf
<1>3. /\ EntriesOK(entries) /\ DeviceOK(entries, dot_dot, allocated) /\ Differ(entries)
      /\ dot_dot \in [Clusters -> Clusters] /\ allocated \in SUBSET Clusters
  BY DEF TypeOK, EntriesOK, SoundInv, DeviceOK
<1>4. HandlesOK(Validate(h), OnDevice)
  BY <1>2, ValidateOK DEF SoundInv
<1>5. cache' = c
  BY DEF CreateDirectory
<1>6. ASSUME NEW d \in FreeClusters, allocated' = allocated \cup {d}, Broken(FALSE),
             handle' = Validate(h), UNCHANGED <<entries, dot_dot>>
      PROVE  TypeOK' /\ SoundInv'
  <2>1. /\ d \in Clusters \ {Root}
        /\ \A q \in Clusters, j \in Indices :
              j \in DirectoriesIn(entries, q) => entries[q][j].first # d
        /\ \A j \in Indices : entries[d][j] = Nothing
    BY FreeClusterIs
  <2>2. DeviceOK(entries, dot_dot, allocated \cup {d})
    BY <1>3, <2>1, ClusterFreed
  <2>3. OnDevice' = OnDevice
    BY <1>6, DeviceReads
  <2>4. EntriesOK(entries') /\ allocated' \in SUBSET Clusters
    BY <1>3, <1>6, <2>1
  <2> QED BY <1>2, <1>3, <1>4, <1>5, <1>6, <2>2, <2>3, <2>4, ChangeStep
<1>7. ASSUME NEW d \in FreeClusters, path \in Paths, n \notin NamesInUse(p),
             dot_dot' = [dot_dot EXCEPT ![d] = p],
             NEW i \in FreePlaces(p), NEW x \in NewEntries(p, n, d),
             entries' = [entries EXCEPT ![d] = Empty, ![p][i] = x]
      PROVE  /\ ChangedAt(entries, entries', p, i, x) /\ i \in Indices
             /\ DeviceOK(entries', dot_dot', allocated \cup {d})
             /\ Fits(entries, p, i, x) /\ x.first = d /\ n \in x.names
             /\ dot_dot' \in [Clusters -> Clusters] /\ d \in Clusters
  <2>1. d \in Clusters
    BY FreeClusterIs
  <2>2. Fits(entries, p, i, x) /\ x.first = d /\ n \in x.names /\ i \in Indices
    BY <1>2, <1>7, <2>1, NewEntryFits
  <2>3. PICK u : u = entries'
    OBVIOUS
  <2>4. /\ ChangedAt(entries, u, p, i, x)
        /\ DeviceOK(u, [dot_dot EXCEPT ![d] = p], allocated \cup {d})
    BY <1>2, <1>7, <2>2, <2>3, DirectoryEntered
  <2> QED BY <1>2, <1>3, <1>7, <2>1, <2>2, <2>3, <2>4
<1>8. ASSUME NEW d \in FreeClusters, path \in Paths, n \notin NamesInUse(p),
             dot_dot' = [dot_dot EXCEPT ![d] = p],
             NEW i \in FreePlaces(p), NEW x \in NewEntries(p, n, d),
             entries' = [entries EXCEPT ![d] = Empty, ![p][i] = x],
             UNCHANGED allocated, Broken(TRUE), handle' = Validate(h)
      PROVE  TypeOK' /\ damaged'
  <2>1. EntriesOK(entries') /\ dot_dot' \in [Clusters -> Clusters]
    BY <1>7, <1>8 DEF ChangedAt
  <2> QED BY <1>2, <1>3, <1>4, <1>5, <1>8, <2>1, DamagingStep
<1>9. ASSUME NEW d \in FreeClusters, path \in Paths, n \notin NamesInUse(p),
             dot_dot' = [dot_dot EXCEPT ![d] = p],
             NEW i \in FreePlaces(p), NEW x \in NewEntries(p, n, d),
             entries' = [entries EXCEPT ![d] = Empty, ![p][i] = x],
             allocated' = allocated \cup {d}, Sound,
             handle' = Give(h, to, NewHandle(path, [address |-> <<p, i>>, first |-> d]))
      PROVE  TypeOK' /\ SoundInv'
  <2>1. PICK u : u = entries'
    OBVIOUS
  <2>2. /\ ChangedAt(entries, u, p, i, x) /\ i \in Indices
        /\ DeviceOK(u, dot_dot', allocated')
        /\ Fits(entries, p, i, x) /\ x.first = d /\ n \in x.names
        /\ dot_dot' \in [Clusters -> Clusters] /\ d \in Clusters
    <3>1. /\ ChangedAt(entries, entries', p, i, x) /\ i \in Indices
          /\ DeviceOK(entries', dot_dot', allocated \cup {d})
          /\ Fits(entries, p, i, x) /\ x.first = d /\ n \in x.names
          /\ dot_dot' \in [Clusters -> Clusters] /\ d \in Clusters
      BY <1>7, <1>9
    <3> QED BY <1>9, <2>1, <3>1
  <2>3. EntriesOK(u) /\ Differ(u) /\ u[p][i] = x /\ OnDevice' = Reading(u)
    BY <2>1, <2>2, DeviceReads DEF ChangedAt, DeviceOK
  <2>4. \A k \in Keys : OnDevice[k] # Nothing => OnDevice'[k] = OnDevice[k]
    <3>1. \A k \in Keys : Reading(entries)[k] # Nothing => Reading(u)[k] = Reading(entries)[k]
      BY <1>3, <2>2, FillingKeeps
    <3> QED BY <2>3, <3>1, DeviceReads
  <2>5. CacheOK(c, OnDevice') /\ HandlesOK(handle, OnDevice')
    <3>1. \A k \in Keys : c[k] # Nothing => OnDevice'[k] = OnDevice[k]
      BY <1>2, <2>4 DEF CacheOK
    <3> QED BY <1>2, <2>4, <3>1, CacheGrows, HandlesGrow DEF SoundInv
  <2>6. Resolves(OnDevice', handle[h].path, PlaceOf(handle[h]))
    BY <1>2, <2>4, ResolvesGrow
  <2>7. OnDevice' \in Readings
    <3>1. \A k \in Keys : Reading(u)[k] \in Place \cup {Nothing}
      BY <2>3, ReadingTypes
    <3>2. Reading(u) = [k \in Keys |-> Reading(u)[k]]
      BY DEF Reading
    <3> QED BY <2>3, <3>1, <3>2 DEF Readings
  <2>8. /\ OnDevice'[<<p, n>>] = [address |-> <<p, i>>, first |-> d]
        /\ OnDevice'[<<p, n>>] \in Place /\ OnDevice'[<<p, n>>] # Nothing
    <3>1. x # Nothing /\ x.first # Nothing
      BY <2>2, NothingAssumption, TreeAssumption DEF Fits
    <3>2. Reading(u)[<<p, n>>] = PlaceAt(u, p, i)
      BY <1>3, <2>2, <3>1, FillingFinds
    <3>3. i \in DirectoriesIn(u, p)
      BY <2>2, <2>3, <3>1 DEF DirectoriesIn
    <3>4. PlaceAt(u, p, i) \in Place /\ PlaceAt(u, p, i) # Nothing
      BY <1>2, <2>3, <3>3, PlaceTypes
    <3> QED BY <2>2, <2>3, <3>2, <3>4 DEF PlaceAt
  <2>9. Len(handle[h].path) < MaxDepth
    <3>1. Len(path) = Len(handle[h].path) + 1 /\ Len(handle[h].path) \in Nat
      BY <1>2, PathTypes, AppendProperties
    <3>2. Len(path) \in 0 .. MaxDepth
      BY <1>9, PathTypes
    <3> QED BY <3>1, <3>2, TreeAssumption
  <2>10. Resolves(OnDevice', path, OnDevice'[<<p, n>>])
    BY <1>2, <2>6, <2>7, <2>8, <2>9, ResolvesLonger
  <2>11. PICK y \in Handle : /\ y = NewHandle(path, OnDevice'[<<p, n>>])
                             /\ HandleOK(y, OnDevice')
    BY <1>9, <2>8, <2>10, NewHandleOK
  <2>12. HandlesOK(handle', OnDevice')
    BY <1>9, <2>5, <2>6, <2>8, <2>11, GiveOK
  <2>13. ASSUME faults = 0, NEW a \in allocated' PROVE Reached(u, a)
    <3>1. CASE a \in allocated
      <4>1. Reached(entries, a)
        BY <2>13, <3>1 DEF SoundInv
      <4>2. \A q \in Clusters : \A j \in DirectoriesIn(entries, q) :
               j \in DirectoriesIn(u, q) /\ u[q][j].first = entries[q][j].first
        BY <2>2 DEF ChangedAt, Fits, DirectoriesIn
      <4> QED BY <4>1, <4>2, ReachedKept
    <3>2. CASE a = d
      <4>1. PICK pl : /\ Resolves(Reading(u), handle[h].path, pl) /\ pl.first = p
        BY <1>2, <2>3, <2>6
      <4>2. PICK way \in [1 .. Len(handle[h].path) -> Clusters] :
               /\ At(way, Len(handle[h].path)) = p
               /\ Below(u, Len(handle[h].path), way)
        BY <1>2, <2>3, <4>1, ResolvedWay
      <4>3. i \in DirectoriesIn(u, p) /\ u[p][i].first = d
        BY <2>2, <2>3, NothingAssumption, TreeAssumption DEF DirectoriesIn, Fits
      <4>4. Len(handle[h].path) \in Nat
        BY <1>2, PathTypes
      <4> QED BY <2>2, <2>9, <3>2, <4>2, <4>3, <4>4, ReachedNext
    <3> QED BY <1>9, <2>13, <3>1, <3>2
  <2>14. allocated' \in SUBSET Clusters
    BY <1>3, <1>9, <2>2
  <2> QED BY <1>5, <1>9, <2>1, <2>2, <2>3, <2>5, <2>12, <2>13, <2>14, ChangeStep
<1>10. PICK d \in FreeClusters :
          \/ /\ allocated' = allocated \cup {d} /\ Broken(FALSE)
             /\ handle' = Validate(h)
             /\ UNCHANGED <<entries, dot_dot>>
          \/ /\ path \in Paths /\ n \notin NamesInUse(p)
             /\ dot_dot' = [dot_dot EXCEPT ![d] = p]
             /\ \E i \in FreePlaces(p), x \in NewEntries(p, n, d) :
                /\ entries' = [entries EXCEPT ![d] = Empty, ![p][i] = x]
                /\ \/ /\ allocated' = allocated \cup {d} /\ Sound
                      /\ handle' = Give(h, to, NewHandle(path, [address |-> <<p, i>>,
                                                                 first |-> d]))
                   \/ UNCHANGED allocated /\ Broken(TRUE) /\ handle' = Validate(h)
  BY <1>1 DEF CreateDirectory
<1> QED BY <1>6, <1>8, <1>9, <1>10

-----------------------------------------------------------------------------
(* A directory loses its entry; the cache has forgotten it, and no handle  *)
(* is taken to be valid.                                                   *)
LEMMA WithoutKeeps ==
    ASSUME NEW r, NEW u, NEW c, CacheOK(c, r), NEW d,
           \A k \in Keys : r[k] # Nothing => u[k] = r[k] \/ r[k].first = d
    PROVE  CacheOK(Without(c, d), u) /\ CacheOK(WithoutChildren(c, d), u)
<1>1. \A k \in Keys : Without(c, d)[k] # Nothing =>
         Without(c, d)[k] = c[k] /\ c[k] # Nothing /\ c[k].first # d
  BY DEF Without
<1>2. \A k \in Keys : WithoutChildren(c, d)[k] # Nothing =>
         WithoutChildren(c, d)[k] = Without(c, d)[k]
  BY DEF WithoutChildren
<1>3. CacheOK(Without(c, d), u)
  <2>1. Without(c, d) \in Readings
    BY DEF Without, CacheOK, Readings
  <2> QED BY <1>1, <2>1 DEF CacheOK
<1>4. WithoutChildren(c, d) \in Readings
  <2>1. WithoutChildren(c, d) =
          [k \in Keys |-> IF k[1] = d THEN Nothing ELSE Without(c, d)[k]]
    BY DEF WithoutChildren
  <2> QED BY <1>3, <2>1 DEF CacheOK, Readings
<1> QED BY <1>2, <1>3, <1>4 DEF CacheOK

LEMMA NameLeft ==
    ASSUME NEW e, EntriesOK(e), Differ(e), NEW p \in Clusters, NEW i \in DirectoriesIn(e, p),
           NEW u, ChangedAt(e, u, p, i, Nothing)
    PROVE  \A k \in Keys : Reading(e)[k] # Nothing =>
              Reading(u)[k] = Reading(e)[k] \/ Reading(e)[k].first = e[p][i].first
<1>1. i \in Indices /\ e[p][i] # Nothing /\ PlaceAt(e, p, i).first = e[p][i].first
  BY DEF DirectoriesIn, PlaceAt
<1>2. \A k \in Keys : \/ Reading(u)[k] = Reading(e)[k]
                       \/ /\ e[p][i].first # Nothing
                          /\ Reading(e)[k] = PlaceAt(e, p, i)
  BY <1>1, Clearing
<1> QED BY <1>1, <1>2

LEMMA RemoveDirectoryKeeps ==
    ASSUME TypeOK, SoundInv, NEW h \in Holders \cup {Root}, Held(h),
           NEW c \in Accepted(handle[h]), RemoveDirectory(h, c)
    PROVE  TypeOK' /\ SoundInv'
<1>1. PICK d : d = handle[h].first
  OBVIOUS
<1>2. CacheOK(c, OnDevice) /\ d \in Clusters /\ HandlesOK(handle, OnDevice)
  BY <1>1, AcceptedHandle DEF SoundInv
<1>0. PICK p \in Clusters : \E i \in DirectoriesIn(entries, p) :
         PlaceOf(handle[h]) = PlaceAt(entries, p, i) /\ d # Root
  BY <1>1, AcceptedHandle DEF RemoveDirectory
<1>3. PICK i \in DirectoriesIn(entries, p) :
         PlaceOf(handle[h]) = PlaceAt(entries, p, i) /\ d # Root
  BY <1>0
<1>4. /\ entries[p][i].first = d /\ i \in Indices /\ entries[p][i] # Nothing
      /\ handle[h].address[1] = p /\ handle[h].address[2] = i
  BY <1>1, <1>3 DEF PlaceOf, PlaceAt, DirectoriesIn
<1>5. /\ EntriesOK(entries) /\ DeviceOK(entries, dot_dot, allocated) /\ Differ(entries)
      /\ dot_dot \in [Clusters -> Clusters] /\ allocated \in SUBSET Clusters
  BY DEF TypeOK, EntriesOK, SoundInv, DeviceOK
<1>6. /\ cache' = WithoutChildren(c, d) /\ handle' = Invalidated
      /\ \A j \in Indices : entries[d][j] = Nothing
  BY <1>1 DEF RemoveDirectory, IsEmpty, Empty
<1>7. CASE UNCHANGED device /\ Sound
  <2>1. CacheOK(cache', OnDevice)
    BY <1>2, <1>6, WithoutKeeps
  <2>2. HandlesOK(handle', OnDevice)
    BY <1>2, <1>6, InvalidatedOK
  <2> QED BY <1>7, <2>1, <2>2, QuietStep DEF Sound
<1>8. ASSUME entries' = [entries EXCEPT ![p][i] = Nothing],
             \/ /\ allocated' = allocated \ {d} /\ Sound
                /\ dot_dot' = [dot_dot EXCEPT ![d] = Root]
             \/ UNCHANGED <<allocated, dot_dot>> /\ Broken(FALSE)
      PROVE  TypeOK' /\ SoundInv'
  <2>1. PICK u : u = entries' /\ ChangedAt(entries, u, p, i, Nothing)
    BY <1>4, <1>5, <1>8, ExceptAt
  <2>2. /\ DeviceOK(u, dot_dot, allocated)
        /\ \A q \in Clusters, j \in Indices :
              j \in DirectoriesIn(u, q) => u[q][j].first # d
    BY <1>3, <1>4, <1>5, <2>1, EntryCleared
  <2>3. EntriesOK(u) /\ \A j \in Indices : u[d][j] = Nothing
    BY <1>2, <1>4, <1>6, <2>1 DEF ChangedAt
  <2>4. CacheOK(cache', OnDevice') /\ HandlesOK(handle', OnDevice')
    <3>1. \A k \in Keys : Reading(entries)[k] # Nothing =>
             Reading(u)[k] = Reading(entries)[k] \/ Reading(entries)[k].first = d
      BY <1>3, <1>4, <1>5, <2>1, NameLeft
    <3>2. \A k \in Keys : OnDevice[k] # Nothing =>
             OnDevice'[k] = OnDevice[k] \/ OnDevice[k].first = d
      BY <2>1, <3>1, DeviceReads
    <3>3. CacheOK(cache', OnDevice')
      BY <1>2, <1>6, <3>2, WithoutKeeps
    <3> QED BY <1>2, <1>6, <3>3, InvalidatedOK
  <2>5. CASE /\ allocated' = allocated \ {d} /\ Sound
             /\ dot_dot' = [dot_dot EXCEPT ![d] = Root]
    <3>1. DeviceOK(u, [dot_dot EXCEPT ![d] = Root], allocated \ {d})
      <4>1. d \in Clusters \ {Root}
        BY <1>2, <1>3
      <4> QED BY <1>5, <2>2, <2>3, <4>1, TreeAssumption, ClusterFreed
    <3>2. dot_dot' \in [Clusters -> Clusters] /\ allocated' \in SUBSET Clusters
      BY <1>5, <2>5, TreeAssumption
    <3>3. ASSUME faults = 0, NEW a \in allocated' PROVE Reached(u, a)
      <4>1. Reached(entries, a) /\ a # d
        BY <2>5, <3>3 DEF SoundInv
      <4>2. ASSUME NEW q \in Clusters, NEW j \in DirectoriesIn(entries, q), entries[q][j].first # d
            PROVE  j \in DirectoriesIn(u, q) /\ u[q][j].first = entries[q][j].first
        BY <1>4, <2>1, <4>2 DEF ChangedAt, DirectoriesIn
      <4>3. OthersKept(entries, u, d)
        BY <4>2 DEF OthersKept
      <4>4. \A j \in Indices : entries[d][j] = Nothing
        BY <1>6
      <4> QED BY <1>2, <4>1, <4>3, <4>4, ReachedPast
    <3> QED BY <2>1, <2>3, <2>4, <2>5, <3>1, <3>2, <3>3, ChangeStep
  <2>6. CASE UNCHANGED <<allocated, dot_dot>> /\ Broken(FALSE)
    BY <1>5, <2>1, <2>2, <2>3, <2>4, <2>6, ChangeStep
  <2> QED BY <1>8, <2>5, <2>6
<1> QED BY <1>1, <1>4, <1>7, <1>8 DEF RemoveDirectory

-----------------------------------------------------------------------------
(* Renaming: the place i of p is left for the free place j.                *)
LEMMA Rearranged ==
    ASSUME NEW e, EntriesOK(e), NEW p, NEW i \in Indices, e[p][i] # Nothing,
           NEW j, NEW x, Fits(e, p, j, x),
           NEW both, both = [e EXCEPT ![p][j] = x]
    PROVE  /\ ChangedAt(e, both, p, j, x)
           /\ ChangedAt(e, [e EXCEPT ![p][i] = Nothing], p, i, Nothing)
           /\ Fits([e EXCEPT ![p][i] = Nothing], p, j, x)
           /\ ChangedAt([e EXCEPT ![p][i] = Nothing], [both EXCEPT ![p][i] = Nothing], p, j, x)
<1>1. p \in Clusters /\ j \in Indices /\ i # j /\ x \in Entry
  BY DEF Fits
<1>2. ChangedAt(e, both, p, j, x)
  BY <1>1, ExceptAt
<1>3. PICK cleared : /\ cleared = [e EXCEPT ![p][i] = Nothing]
                     /\ ChangedAt(e, cleared, p, i, Nothing)
  BY <1>1, ExceptAt
<1>4. PICK moved : /\ moved = [both EXCEPT ![p][i] = Nothing]
                   /\ ChangedAt(both, moved, p, i, Nothing)
  <2>1. EntriesOK(both)
    BY <1>2 DEF ChangedAt
  <2> QED BY <1>1, <2>1, ExceptAt
<1>5. Fits(cleared, p, j, x)
  BY <1>1, <1>3 DEF ChangedAt, Fits
<1>6. ChangedAt(cleared, moved, p, j, x)
  <2>1. EntriesOK(moved) /\ moved[p][j] = x
    BY <1>1, <1>2, <1>4 DEF ChangedAt
  <2>2. ASSUME NEW q \in Clusters, NEW a \in Indices, q # p \/ a # j
        PROVE  moved[q][a] = cleared[q][a]
    <3>1. CASE q = p /\ a = i
      BY <1>3, <1>4, <3>1 DEF ChangedAt
    <3>2. CASE q # p \/ a # i
      <4>1. moved[q][a] = both[q][a]
        BY <1>4, <3>2 DEF ChangedAt
      <4>2. both[q][a] = e[q][a]
        BY <1>2, <2>2 DEF ChangedAt
      <4>3. cleared[q][a] = e[q][a]
        BY <1>3, <3>2 DEF ChangedAt
      <4> QED BY <4>1, <4>2, <4>3
    <3> QED BY <3>1, <3>2
  <2> QED BY <2>1, <2>2 DEF ChangedAt
<1> QED BY <1>2, <1>3, <1>4, <1>5, <1>6

LEMMA FileMoved ==
    ASSUME TypeOK, SoundInv, NEW h \in Holders \cup {Root}, Held(h),
           NEW c \in Accepted(handle[h]), cache' = c, handle' = Validate(h),
           UNCHANGED <<dot_dot, allocated>>, Sound,
           NEW p \in Clusters, p \in allocated,
           NEW i \in Indices, entries[p][i] # Nothing, entries[p][i].first = Nothing,
           NEW j, NEW x, Fits(entries, p, j, x), x.first = Nothing,
           NEW w, ChangedAt(entries, w, p, i, Nothing), Fits(w, p, j, x),
           ChangedAt(w, entries', p, j, x)
    PROVE  TypeOK' /\ SoundInv'
<1>1. EntriesOK(entries) /\ DeviceOK(entries, dot_dot, allocated) /\ Differ(entries)
  BY DEF TypeOK, EntriesOK, SoundInv, DeviceOK
<1>2. PICK u : u = entries' /\ ChangedAt(w, u, p, j, x)
  OBVIOUS
<1>3. DeviceOK(w, dot_dot, allocated) /\ EntriesOK(w)
  <2>1. DeviceOK(w, dot_dot, allocated)
    BY <1>1, EntryCleared
  <2> QED BY <2>1 DEF ChangedAt
<1>4. DeviceOK(u, dot_dot, allocated) /\ EntriesOK(u)
  <2>1. DeviceOK(u, dot_dot, allocated)
    BY <1>2, <1>3, FileFilled
  <2> QED BY <1>2, <2>1 DEF ChangedAt
<1>5. \A k \in Keys : Reading(u)[k] = Reading(entries)[k]
  <2>1. \A k \in Keys : \/ Reading(w)[k] = Reading(entries)[k]
                         \/ /\ entries[p][i].first # Nothing
                            /\ Reading(entries)[k] = PlaceAt(entries, p, i)
    BY <1>1, Clearing
  <2>2. Differ(w) /\ ChangedAt(w, u, p, j, x)
    BY <1>2, <1>3 DEF DeviceOK
  <2>3. \A k \in Keys : Reading(u)[k] = Reading(w)[k]
    BY <1>3, <2>2, FillingKeeps
  <2> QED BY <2>1, <2>3
<1>6. \A q \in Clusters : \A a \in DirectoriesIn(entries, q) :
         a \in DirectoriesIn(u, q) /\ u[q][a].first = entries[q][a].first
  BY <1>2 DEF ChangedAt, Fits, DirectoriesIn
<1> QED BY <1>2, <1>4, <1>5, <1>6, SameReadingStep

LEMMA DirectoryMoved ==
    ASSUME TypeOK, SoundInv, NEW c, CacheOK(c, OnDevice),
           NEW p \in Clusters, p \in allocated,
           NEW i \in DirectoriesIn(entries, p), NEW d, d = entries[p][i].first,
           cache' = Without(c, d), handle' = Invalidated,
           UNCHANGED <<dot_dot, allocated>>,
           NEW j, NEW x, Fits(entries, p, j, x), x.first = d,
           NEW w, ChangedAt(entries, w, p, i, Nothing), Fits(w, p, j, x),
           \/ Broken(FALSE) /\ entries' = w
           \/ Sound /\ ChangedAt(w, entries', p, j, x)
    PROVE  TypeOK' /\ SoundInv'
<1>1. /\ EntriesOK(entries) /\ DeviceOK(entries, dot_dot, allocated) /\ Differ(entries)
      /\ dot_dot \in [Clusters -> Clusters] /\ allocated \in SUBSET Clusters
  BY DEF TypeOK, EntriesOK, SoundInv, DeviceOK
<1>2. /\ i \in Indices /\ entries[p][i] # Nothing /\ d # Nothing
      /\ d \in allocated \ {Root} /\ dot_dot[d] = p
  BY <1>1 DEF DirectoriesIn, DeviceOK, Once
<1>3. /\ DeviceOK(w, dot_dot, allocated)
      /\ \A q \in Clusters, a \in Indices :
            a \in DirectoriesIn(w, q) => w[q][a].first # d
  BY <1>1, <1>2, EntryCleared
<1>4. EntriesOK(w) /\ Differ(w)
  BY <1>3 DEF ChangedAt, DeviceOK
<1>5. \A k \in Keys : Reading(entries)[k] # Nothing =>
         Reading(w)[k] = Reading(entries)[k] \/ Reading(entries)[k].first = d
  BY <1>1, NameLeft
<1>6. HandlesOK(handle', OnDevice')
  BY InvalidatedOK DEF SoundInv
<1>7. ASSUME NEW u, u = entries',
             \A k \in Keys : Reading(w)[k] # Nothing => Reading(u)[k] = Reading(w)[k]
      PROVE  CacheOK(cache', OnDevice')
  <2>1. \A k \in Keys : OnDevice[k] # Nothing =>
           OnDevice'[k] = OnDevice[k] \/ OnDevice[k].first = d
    BY <1>5, <1>7, DeviceReads
  <2> QED BY <2>1, WithoutKeeps
<1>8. CASE Broken(FALSE) /\ entries' = w
  <2>1. CacheOK(cache', OnDevice')
    BY <1>7, <1>8
  <2> QED BY <1>1, <1>3, <1>4, <1>6, <1>8, <2>1, ChangeStep
<1>9. CASE Sound /\ ChangedAt(w, entries', p, j, x)
  <2>1. PICK u : u = entries' /\ ChangedAt(w, u, p, j, x)
    BY <1>9
  <2>2. DeviceOK(u, dot_dot, allocated)
    BY <1>2, <1>3, <1>4, <2>1, DirectoryFilled
  <2>3. \A k \in Keys : Reading(w)[k] # Nothing => Reading(u)[k] = Reading(w)[k]
    <3>1. ChangedAt(w, u, p, j, x)
      BY <2>1
    <3> QED BY <1>4, <3>1, FillingKeeps
  <2>4. CacheOK(cache', OnDevice')
    BY <1>7, <2>1, <2>3
  <2>5. ASSUME NEW q \in Clusters, NEW a \in DirectoriesIn(entries, q)
        PROVE  \E b \in DirectoriesIn(u, q) : u[q][b].first = entries[q][a].first
    <3>1. CASE q = p /\ a = i
      <4>1. x # Nothing /\ u[p][j] = x /\ j \in Indices
        BY <2>1, NothingAssumption DEF Fits, ChangedAt
      <4>2. j \in DirectoriesIn(u, p) /\ u[p][j].first = d
        BY <1>2, <4>1 DEF DirectoriesIn
      <4> QED BY <3>1, <4>2
    <3>2. CASE q # p \/ a # i
      <4>1. a \in Indices /\ entries[q][a] # Nothing /\ entries[q][a].first # Nothing
        BY DEF DirectoriesIn
      <4>2. w[q][a] = entries[q][a]
        BY <3>2, <4>1 DEF ChangedAt
      <4>3. q # p \/ a # j
        BY <4>1, <4>2 DEF Fits
      <4>4. u[q][a] = entries[q][a]
        BY <2>1, <4>1, <4>2, <4>3 DEF ChangedAt
      <4> QED BY <4>1, <4>4 DEF DirectoriesIn
    <3> QED BY <3>1, <3>2
  <2>6. ASSUME faults = 0, NEW a \in allocated' PROVE Reached(u, a)
    <3>1. Reached(entries, a)
      BY <2>6 DEF SoundInv
    <3> QED BY <2>5, <3>1, ReachedKept
  <2>7. EntriesOK(u)
    BY <2>1 DEF ChangedAt
  <2> QED BY <1>1, <1>6, <1>9, <2>1, <2>2, <2>4, <2>6, <2>7, ChangeStep
<1> QED BY <1>8, <1>9

LEMMA RenameEntryKeeps ==
    ASSUME TypeOK, SoundInv, NEW h \in Holders \cup {Root}, Held(h),
           NEW c \in Accepted(handle[h]), NEW n \in Names, NEW m \in Names,
           RenameEntry(h, c, n, m)
    PROVE  TypeOK' /\ (~damaged' => SoundInv')
<1> DEFINE p == handle[h].first
<1>1. p = handle[h].first
  OBVIOUS
<1>2. PICK i \in Named(p, n), j \in FreePlaces(p) :
        \E x \in NewEntries(p, m, entries[p][i].first) :
          \/ /\ Forget(h, c, x.first)
             /\ \/ entries' = [[entries EXCEPT ![p][j] = x] EXCEPT ![p][i] = Nothing] /\ Sound
                \/ UNCHANGED entries /\ Sound
                \/ entries' = [entries EXCEPT ![p][i] = Nothing] /\ Broken(FALSE)
                \/ entries' = [entries EXCEPT ![p][j] = x] /\ Broken(x.first # Nothing)
          \/ /\ cache' = c /\ handle' = Validate(h)
             /\ entries' = [entries EXCEPT ![p][j] = x] /\ Broken(x.first # Nothing)
  BY DEF RenameEntry
<1> HIDE DEF p
<1>3. /\ p \in Clusters /\ p \in allocated /\ CacheOK(c, OnDevice)
      /\ Resolves(OnDevice, handle[h].path, PlaceOf(handle[h]))
  BY <1>1, AcceptedHandle
<1>4. /\ EntriesOK(entries) /\ DeviceOK(entries, dot_dot, allocated) /\ Differ(entries)
      /\ dot_dot \in [Clusters -> Clusters] /\ allocated \in SUBSET Clusters
      /\ HandlesOK(handle, OnDevice)
  BY DEF TypeOK, EntriesOK, SoundInv, DeviceOK
<1>5. m \notin NamesInUse(p) /\ UNCHANGED <<dot_dot, allocated>>
  BY <1>1 DEF RenameEntry
<1>6. PICK x \in NewEntries(p, m, entries[p][i].first) :
          \/ /\ Forget(h, c, x.first)
             /\ \/ entries' = [[entries EXCEPT ![p][j] = x] EXCEPT ![p][i] = Nothing] /\ Sound
                \/ UNCHANGED entries /\ Sound
                \/ entries' = [entries EXCEPT ![p][i] = Nothing] /\ Broken(FALSE)
                \/ entries' = [entries EXCEPT ![p][j] = x] /\ Broken(x.first # Nothing)
          \/ /\ cache' = c /\ handle' = Validate(h)
             /\ entries' = [entries EXCEPT ![p][j] = x] /\ Broken(x.first # Nothing)
  BY <1>2
<1>7. PICK both : /\ both = [entries EXCEPT ![p][j] = x]
                  /\ \/ /\ Forget(h, c, x.first)
                        /\ \/ entries' = [both EXCEPT ![p][i] = Nothing] /\ Sound
                           \/ UNCHANGED entries /\ Sound
                           \/ entries' = [entries EXCEPT ![p][i] = Nothing] /\ Broken(FALSE)
                           \/ entries' = both /\ Broken(x.first # Nothing)
                     \/ /\ cache' = c /\ handle' = Validate(h)
                        /\ entries' = both /\ Broken(x.first # Nothing)
  BY <1>6
<1>8. i \in Indices /\ entries[p][i] # Nothing /\ entries[p][i].first \in Clusters \cup {Nothing}
  BY <1>3, <1>4 DEF Named, EntriesOK, Entry
<1>9. Fits(entries, p, j, x) /\ x.first = entries[p][i].first
  BY <1>3, <1>5, <1>8, NewEntryFits
<1>10. PICK w : /\ w = [entries EXCEPT ![p][i] = Nothing]
                /\ ChangedAt(entries, w, p, i, Nothing)
                /\ Fits(w, p, j, x)
                /\ ChangedAt(w, [both EXCEPT ![p][i] = Nothing], p, j, x)
                /\ ChangedAt(entries, both, p, j, x)
  BY <1>4, <1>7, <1>8, <1>9, Rearranged
<1>11. CASE x.first = Nothing
  <2>1. cache' = c /\ handle' = Validate(h)
    BY <1>7, <1>11 DEF Forget
  <2>2. entries[p][i].first = Nothing
    BY <1>9, <1>11
  <2>3. CASE entries' = [both EXCEPT ![p][i] = Nothing] /\ Sound
    <3>1. ChangedAt(w, entries', p, j, x)
      BY <1>10, <2>3
    <3> QED BY <1>3, <1>5, <1>8, <1>9, <1>10, <1>11, <2>1, <2>2, <2>3, <3>1, FileMoved
  <2>4. CASE UNCHANGED entries /\ Sound
    <3>1. HandlesOK(Validate(h), OnDevice)
      BY <1>3, <1>4, ValidateOK
    <3> QED BY <1>3, <1>5, <2>1, <2>4, <3>1, QuietStep DEF device, Sound
  <2>5. CASE entries' = [entries EXCEPT ![p][i] = Nothing] /\ Broken(FALSE)
    BY <1>3, <1>5, <1>8, <2>1, <2>2, <2>5, FileCleared
  <2>6. CASE entries' = both /\ Broken(x.first # Nothing)
    <3>1. Broken(FALSE)
      BY <1>11, <2>6
    <3> QED BY <1>3, <1>5, <1>7, <1>9, <1>11, <2>1, <2>6, <3>1, FileEntered
  <2> QED BY <1>7, <2>3, <2>4, <2>5, <2>6
<1>12. CASE x.first # Nothing
  <2>1. PICK d : d = x.first
    OBVIOUS
  <2>2. i \in DirectoriesIn(entries, p) /\ d = entries[p][i].first /\ d # Nothing
    BY <1>8, <1>9, <1>12, <2>1 DEF DirectoriesIn
  <2>3. EntriesOK(both)
    BY <1>10 DEF ChangedAt
  <2>4. CASE cache' = c /\ handle' = Validate(h) /\ entries' = both /\ Broken(x.first # Nothing)
    <3>1. HandlesOK(handle', OnDevice)
      BY <1>3, <1>4, <2>4, ValidateOK
    <3>2. Broken(TRUE)
      BY <1>12, <2>4
    <3> QED BY <1>3, <1>4, <1>5, <2>3, <2>4, <3>1, <3>2, DamagingStep
  <2>5. ASSUME cache' = Without(c, d), handle' = Invalidated,
               \/ entries' = [both EXCEPT ![p][i] = Nothing] /\ Sound
               \/ UNCHANGED entries /\ Sound
               \/ entries' = [entries EXCEPT ![p][i] = Nothing] /\ Broken(FALSE)
               \/ entries' = both /\ Broken(x.first # Nothing)
        PROVE  TypeOK' /\ (~damaged' => SoundInv')
    <3>1. CacheOK(cache', OnDevice) /\ HandlesOK(handle', OnDevice)
      BY <1>3, <1>4, <2>5, WithoutKeeps, InvalidatedOK
    <3>2. CASE \/ entries' = [both EXCEPT ![p][i] = Nothing] /\ Sound
               \/ entries' = [entries EXCEPT ![p][i] = Nothing] /\ Broken(FALSE)
      <4>1. \/ Broken(FALSE) /\ entries' = w
            \/ Sound /\ ChangedAt(w, entries', p, j, x)
        BY <1>10, <3>2
      <4> QED BY <1>3, <1>5, <1>9, <1>10, <2>1, <2>2, <2>5, <4>1, DirectoryMoved
    <3>3. CASE UNCHANGED entries /\ Sound
      BY <1>5, <3>1, <3>3, QuietStep DEF device, Sound
    <3>4. CASE entries' = both /\ Broken(x.first # Nothing)
      <4>1. Broken(TRUE)
        BY <1>12, <3>4
      <4> QED BY <1>4, <1>5, <2>3, <3>1, <3>4, <4>1, DamagingStep
    <3> QED BY <2>5, <3>2, <3>3, <3>4
  <2>6. Forget(h, c, x.first) => cache' = Without(c, d) /\ handle' = Invalidated
    BY <1>12, <2>1 DEF Forget
  <2> QED BY <1>7, <2>4, <2>5, <2>6
<1> QED BY <1>11, <1>12

-----------------------------------------------------------------------------
(* The inductive invariant.                                                *)
LEMMA InitTreeInv == Init => TreeInv
<1> SUFFICES ASSUME Init PROVE TreeInv
  OBVIOUS
<1>1. \A p \in Clusters, i \in Indices : entries[p][i] = Nothing
  BY DEF Init, Empty
<1>2. EntriesOK(entries) /\ DeviceOK(entries, dot_dot, allocated)
  <2>1. EntriesOK(entries)
    BY DEF Init, Empty, EntriesOK
  <2>2. \A p \in Clusters, i \in Indices : i \notin DirectoriesIn(entries, p)
    BY <1>1 DEF DirectoriesIn
  <2> QED BY <1>1, <2>1, <2>2 DEF Init, DeviceOK, FreeIsEmpty, Differ, Once
<1>3. CacheOK(cache, OnDevice)
  BY DEF Init, Forgotten, CacheOK, Readings
<1>4. HandlesOK(handle, OnDevice)
  BY NoHandlesOK DEF Init
<1>5. \A d \in allocated : Reached(entries, d)
  BY RootReached DEF Init
<1>6. TypeOK
  <2>1. dot_dot \in [Clusters -> Clusters] /\ allocated \subseteq Clusters
    BY TreeAssumption DEF Init
  <2>2. faults \in 0 .. MaxFaults /\ damaged \in BOOLEAN
    <3>1. 0 \in 0 .. MaxFaults
      BY TreeAssumption
    <3> QED BY <3>1 DEF Init
  <2>3. /\ cache \in [Keys -> Place \cup {Nothing}]
        /\ handle \in [Holders \cup {Root} -> Handle \cup {Nothing}]
    BY <1>3, <1>4 DEF CacheOK, Readings, HandlesOK, HandlesTyped
  <2> QED BY <1>2, <2>1, <2>2, <2>3 DEF TypeOK, EntriesOK
<1> QED BY <1>2, <1>3, <1>4, <1>5, <1>6 DEF TreeInv, SoundInv

LEMMA CallKeeps ==
    ASSUME TypeOK, SoundInv, NEW h \in Holders \cup {Root}, Held(h),
           NEW c \in Accepted(handle[h]), Call(h, c)
    PROVE  TypeOK' /\ (~damaged' => SoundInv')
<1>1. NewNames \subseteq Names /\ FileNames \subseteq Names
  BY TreeAssumption
<1>2. CASE \/ CallFails(h, c)
           \/ \E to \in Holders : \/ OpenDot(h, c, to) \/ OpenDotDot(h, c, to)
                                  \/ \E n \in Names : OpenName(h, c, n, to)
  BY <1>2, OpenKeeps
<1>3. CASE RemoveDirectory(h, c)
  BY <1>3, RemoveDirectoryKeeps
<1>4. CASE \E n \in FileNames : CreateFile(h, c, n)
  BY <1>1, <1>4, CreateFileKeeps
<1>5. CASE \E n \in Names : DeleteFile(h, c, n)
  BY <1>5, DeleteFileKeeps
<1>6. CASE \E n \in Names, m \in NewNames : RenameEntry(h, c, n, m)
  BY <1>1, <1>6, RenameEntryKeeps
<1>7. CASE \E n \in NewNames, to \in Holders \cup {Nothing} : CreateDirectory(h, c, n, to)
  BY <1>1, <1>7, CreateDirectoryKeeps
<1> QED BY <1>2, <1>3, <1>4, <1>5, <1>6, <1>7 DEF Call

LEMMA NextTreeInv == TreeInv /\ [Next]_vars => TreeInv'
<1> SUFFICES ASSUME TreeInv, [Next]_vars PROVE TreeInv'
  OBVIOUS
<1>1. TypeOK /\ (~damaged => SoundInv)
  BY DEF TreeInv
<1>2. CASE Remount
  <2>1. damaged' = damaged
    BY <1>2 DEF Remount
  <2> QED BY <1>1, <1>2, <2>1, RemountKeeps DEF TreeInv
<1>3. CASE /\ ~damaged
           /\ \E path \in Paths, to \in Holders : OpenPath(path, to)
  BY <1>1, <1>3, OpenPathKeeps DEF TreeInv
<1>4. ASSUME ~damaged, NEW h \in DOMAIN handle, Held(h),
             Refuse(h) \/ \E c \in Accepted(handle[h]) : Call(h, c)
      PROVE  TreeInv'
  <2>1. h \in Holders \cup {Root} /\ TypeOK /\ SoundInv
    BY <1>1, <1>4 DEF TypeOK
  <2>2. CASE Refuse(h)
    BY <1>4, <2>1, <2>2, RefuseKeeps DEF TreeInv
  <2>3. CASE \E c \in Accepted(handle[h]) : Call(h, c)
    BY <1>4, <2>1, <2>3, CallKeeps DEF TreeInv
  <2> QED BY <1>4, <2>2, <2>3
<1>5. CASE UNCHANGED vars
  <2>1. UNCHANGED <<entries, dot_dot, allocated, cache, handle, faults, damaged>>
    BY <1>5 DEF vars
  <2>2. OnDevice' = OnDevice
    BY <2>1, DeviceReads
  <2> QED BY <1>1, <2>1, <2>2 DEF TreeInv, TypeOK, SoundInv
<1> QED BY <1>2, <1>3, <1>4, <1>5 DEF Next

THEOREM TreeInvHolds == Spec => []TreeInv
BY InitTreeInv, NextTreeInv, PTL DEF Spec

(* The variables keep their types: what the device holds, what is cached,  *)
(* and what callers hold.                                                  *)
THEOREM TypeCorrect == Spec => []TypeOK
<1>1. TreeInv => TypeOK
  BY DEF TreeInv
<1> QED BY <1>1, TreeInvHolds, PTL

(* Whatever the capacity of the cache and however long paths are, a cached *)
(* name leads where the directory on the device says                       *)
(* (fat32_directory.cpp:460-463, 800-804).                                 *)
THEOREM CacheIsRight == Spec => []CacheAgreesWithDevice
<1>1. TreeInv => CacheAgreesWithDevice
  BY DEF TreeInv, SoundInv, CacheOK, CacheAgreesWithDevice
<1> QED BY <1>1, TreeInvHolds, PTL

(* A handle ValidateHandle does not look at again                          *)
(* (fat32_directory.cpp:33-60) is the directory at its path.               *)
THEOREM HandlesResolve == Spec => []ValidHandlesResolve
<1>1. TreeInv => ValidHandlesResolve
  <2>1. TypeOK => DOMAIN handle = Holders \cup {Root}
    BY DEF TypeOK
  <2> QED BY <2>1 DEF TreeInv, SoundInv, HandlesOK, HandleOK, Held, ValidHandlesResolve
<1> QED BY <1>1, TreeInvHolds, PTL

(* Every entry has a name, so a way down the device has a path.            *)
LEMMA WayNamed ==
    ASSUME NEW e, EntriesOK(e), Differ(e), NEW m \in 0 .. MaxDepth,
           NEW way \in [1 .. m -> Clusters], Below(e, m, way)
    PROVE  \E path \in Paths : Len(path) = m /\ Leads(Reading(e), path, way)
<1> DEFINE Goes(i, n) == /\ Reading(e)[<<At(way, i - 1), n>>] # Nothing
                         /\ way[i] = Reading(e)[<<At(way, i - 1), n>>].first
           path == [i \in 1 .. m |-> CHOOSE n \in Names : Goes(i, n)]
<1>1. m \in Nat
  BY TreeAssumption
<1>2. ASSUME NEW i \in 1 .. m PROVE \E n \in Names : Goes(i, n)
  <2>1. PICK p \in Clusters : p = At(way, i - 1)
    BY <1>1, WayTypes
  <2>2. PICK j \in Indices : j \in DirectoriesIn(e, p) /\ e[p][j].first = way[i]
    BY <2>1 DEF Below
  <2>3. PICK n \in e[p][j].names : n \in Names
    BY <2>2 DEF Differ, EntriesOK, Entry, DirectoriesIn
  <2>4. Entered(e, p, n, j)
    BY <2>2, <2>3 DEF Entered, NamedIn, DirectoriesIn
  <2>5. Reading(e)[<<p, n>>] = PlaceAt(e, p, j)
    BY <2>3, <2>4, ReadingIs
  <2>6. PlaceAt(e, p, j) # Nothing /\ PlaceAt(e, p, j).first = way[i]
    BY <2>2, PlaceTypes
  <2> QED BY <2>1, <2>3, <2>5, <2>6
<1> HIDE DEF Goes
<1>3. \A i \in 1 .. m : path[i] \in Names /\ Goes(i, path[i])
  BY <1>2
<1>4. path \in [1 .. m -> Names]
  BY <1>3
<1> HIDE DEF path
<1>5. path \in Paths /\ Len(path) = m
  BY <1>1, <1>4, PathLen DEF Paths
<1>6. Leads(Reading(e), path, way)
  <2>1. \A i \in 1 .. Len(path) :
              /\ Reading(e)[<<At(way, i - 1), path[i]>>] # Nothing
              /\ way[i] = Reading(e)[<<At(way, i - 1), path[i]>>].first
    BY <1>3, <1>5 DEF Goes
  <2> QED BY <1>5, <2>1, LeadsIf
<1> QED BY <1>5, <1>6

(* The directories are a tree, of any number of directories and however    *)
(* deep: one entry names a directory, '..' leads back, and while nothing   *)
(* failed every cluster in use is a directory that can be reached.         *)
THEOREM DirectoriesAreATree == Spec => []IsTree
<1>1. ASSUME TreeInv, ~damaged
      PROVE  LET In(d) == {a \in Address : a[1] \in allocated /\ a[2] \in Directories(a[1])
                                           /\ entries[a[1]][a[2]].first = d}
             IN \A d \in Clusters :
                  /\ In(d) # {} => d \in allocated \ {Root}
                  /\ \A a \in In(d) : In(d) = {a} /\ dot_dot[d] = a[1]
                  /\ faults = 0 /\ d \in allocated => \E path \in Paths : \E way \in Ways(path) :
                        /\ Arrives(path, way) /\ Leads(OnDevice, path, way)
                        /\ d = At(way, Len(way))
  <2> DEFINE In(d) == {a \in Address : a[1] \in allocated /\ a[2] \in Directories(a[1])
                                       /\ entries[a[1]][a[2]].first = d}
  <2>1. /\ EntriesOK(entries) /\ DeviceOK(entries, dot_dot, allocated) /\ Differ(entries)
    BY <1>1 DEF TreeInv, SoundInv, TypeOK, EntriesOK, DeviceOK
  <2>2. \A p : Directories(p) = DirectoriesIn(entries, p)
    BY DEF Directories, DirectoriesIn
  <2>3. ASSUME NEW d \in Clusters, NEW a \in In(d)
        PROVE  d \in allocated \ {Root} /\ In(d) = {a} /\ dot_dot[d] = a[1]
    <3>1. ASSUME NEW b \in In(d)
          PROVE  /\ b[1] \in Clusters /\ b[2] \in Indices /\ b = <<b[1], b[2]>>
                 /\ b[2] \in DirectoriesIn(entries, b[1])
                 /\ entries[b[1]][b[2]].first = d
      BY <2>2 DEF Address
    <3>2. d \in allocated \ {Root} /\ dot_dot[d] = a[1]
      BY <2>1, <3>1 DEF DeviceOK, Once
    <3>3. ASSUME NEW b \in In(d) PROVE b = a
      <4>1. b[1] = a[1] /\ b[2] = a[2]
        BY <2>1, <3>1 DEF DeviceOK, Once
      <4> QED BY <3>1, <4>1
    <3> HIDE DEF In
    <3> QED BY <3>2, <3>3
  <2>4. ASSUME NEW d \in allocated, faults = 0
        PROVE  \E path \in Paths : \E way \in Ways(path) :
                        /\ Arrives(path, way) /\ Leads(OnDevice, path, way)
                        /\ d = At(way, Len(way))
    <3>1. PICK m \in 0 .. MaxDepth : \E way \in [1 .. m -> Clusters] :
             At(way, m) = d /\ Below(entries, m, way)
      BY <1>1, <2>4 DEF TreeInv, SoundInv, Reached
    <3>2. PICK way \in [1 .. m -> Clusters] : At(way, m) = d /\ Below(entries, m, way)
      BY <3>1
    <3>3. PICK path \in Paths : Len(path) = m /\ Leads(OnDevice, path, way)
      BY <2>1, <3>2, WayNamed, DeviceReads
    <3>4. m \in Nat
      BY TreeAssumption
    <3>5. Len(way) = m
      BY <3>4, PathLen
    <3>6. way \in Ways(path)
      BY <3>3, <3>4 DEF Ways
    <3> QED BY <3>2, <3>3, <3>5, <3>6 DEF Arrives
  <2> HIDE DEF In
  <2>5. \A d \in Clusters :
                  /\ In(d) # {} => d \in allocated \ {Root}
                  /\ \A a \in In(d) : In(d) = {a} /\ dot_dot[d] = a[1]
                  /\ faults = 0 /\ d \in allocated => \E path \in Paths : \E way \in Ways(path) :
                        /\ Arrives(path, way) /\ Leads(OnDevice, path, way)
                        /\ d = At(way, Len(way))
    BY <2>3, <2>4
  <2> QED BY <2>5 DEF In
<1>2. TreeInv => IsTree
  BY <1>1 DEF IsTree
<1> QED BY <1>2, TreeInvHolds, PTL

-----------------------------------------------------------------------------
(* Which directories a step writes.                                        *)
Written == \A c \in Clusters : entries'[c] # entries[c] => c \in allocated \/ entries'[c] = Empty

LEMMA WrittenIn ==
    ASSUME TypeOK, NEW p \in allocated,
           \A q \in Clusters : q # p => entries'[q] = entries[q] \/ entries'[q] = Empty
    PROVE  Written
BY DEF Written

LEMMA CallWrites ==
    ASSUME TypeOK, SoundInv, NEW h \in Holders \cup {Root}, Held(h),
           NEW c \in Accepted(handle[h]), Call(h, c)
    PROVE  Written
<1> DEFINE p == handle[h].first
<1>1. p \in allocated /\ entries \in [Clusters -> [Indices -> Entry \cup {Nothing}]]
  BY AcceptedHandle DEF TypeOK
<1>2. ASSUME UNCHANGED entries PROVE Written
  BY <1>2 DEF Written
<1>3. CASE \/ CallFails(h, c)
           \/ \E to \in Holders : \/ OpenDot(h, c, to) \/ OpenDotDot(h, c, to)
                                  \/ \E n \in Names : OpenName(h, c, n, to)
  BY <1>2, <1>3 DEF CallFails, OpenDot, OpenDotDot, OpenName, device
<1>4. CASE RemoveDirectory(h, c)
  <2>1. PICK q : q = handle[h].address[1]
    OBVIOUS
  <2>2. \/ UNCHANGED entries
        \/ \E i : entries' = [entries EXCEPT ![q][i] = Nothing]
    BY <1>4, <2>1 DEF RemoveDirectory, device
  <2>3. q \in allocated
    <3>1. PICK r \in Clusters : \E i \in DirectoriesIn(entries, r) :
             PlaceOf(handle[h]) = PlaceAt(entries, r, i)
      BY <1>4, AcceptedHandle DEF RemoveDirectory
    <3>2. r = q
      BY <2>1, <3>1 DEF PlaceOf, PlaceAt
    <3> QED BY <3>1, <3>2 DEF SoundInv, DeviceOK, FreeIsEmpty, DirectoriesIn
  <2>4. CASE \E i : entries' = [entries EXCEPT ![q][i] = Nothing]
    BY <1>1, <2>3, <2>4, WrittenIn
  <2> QED BY <1>2, <2>2, <2>4
<1>5. CASE \E n \in FileNames : CreateFile(h, c, n)
  <2>1. \E i, x : entries' = [entries EXCEPT ![p][i] = x]
    BY <1>5 DEF CreateFile
  <2> HIDE DEF p
  <2> QED BY <1>1, <2>1, WrittenIn
<1>6. CASE \E n \in Names : DeleteFile(h, c, n)
  <2>1. \E i : entries' = [entries EXCEPT ![p][i] = Nothing]
    BY <1>6 DEF DeleteFile
  <2> HIDE DEF p
  <2> QED BY <1>1, <2>1, WrittenIn
<1>7. CASE \E n \in Names, m \in NewNames : RenameEntry(h, c, n, m)
  <2>1. \E i, j, x :
           \/ UNCHANGED entries
           \/ entries' = [[entries EXCEPT ![p][j] = x] EXCEPT ![p][i] = Nothing]
           \/ entries' = [entries EXCEPT ![p][i] = Nothing]
           \/ entries' = [entries EXCEPT ![p][j] = x]
    BY <1>7 DEF RenameEntry
  <2> HIDE DEF p
  <2> QED BY <1>1, <1>2, <2>1, WrittenIn
<1>8. CASE \E n \in NewNames, to \in Holders \cup {Nothing} : CreateDirectory(h, c, n, to)
  <2>1. \/ UNCHANGED entries
        \/ \E d \in Clusters : \E i, x : entries' = [entries EXCEPT ![d] = Empty, ![p][i] = x]
    BY <1>8 DEF CreateDirectory, FreeClusters
  <2> HIDE DEF p
  <2>2. ASSUME NEW d \in Clusters, NEW i, NEW x,
               entries' = [entries EXCEPT ![d] = Empty, ![p][i] = x]
        PROVE  Written
    BY <1>1, <2>2, WrittenIn
  <2> QED BY <1>2, <2>1, <2>2
<1> QED BY <1>3, <1>4, <1>5, <1>6, <1>7, <1>8 DEF Call

(* No operation writes an entry into a cluster that is not in use,         *)
(* whichever handle it has (fat32_directory_test.cpp:862).                 *)
THEOREM EntriesStayInDirectories == Spec => EntriesGoToDirectories
<1>1. ASSUME TreeInv, [Next]_vars, ~damaged PROVE Written
  <2>1. TypeOK /\ SoundInv
    BY <1>1 DEF TreeInv
  <2>2. ASSUME UNCHANGED entries PROVE Written
    BY <2>2 DEF Written
  <2>3. CASE UNCHANGED vars \/ Remount \/ \E path \in Paths, to \in Holders : OpenPath(path, to)
    BY <2>2, <2>3 DEF vars, Remount, OpenPath, device
  <2>4. ASSUME NEW h \in DOMAIN handle, Held(h),
               Refuse(h) \/ \E c \in Accepted(handle[h]) : Call(h, c)
        PROVE  Written
    <3>1. h \in Holders \cup {Root}
      BY <2>1 DEF TypeOK
    <3> QED BY <2>1, <2>2, <2>4, <3>1, CallWrites DEF Refuse, device
  <2> QED BY <1>1, <2>3, <2>4 DEF Next
<1>2. TreeInv /\ [Next]_vars =>
        [~damaged => \A c \in Clusters :
            entries'[c] # entries[c] => c \in allocated \/ entries'[c] = Empty]_vars
  BY <1>1 DEF Written
<1> QED BY <1>2, TreeInvHolds, PTL DEF Spec, EntriesGoToDirectories
=============================================================================
