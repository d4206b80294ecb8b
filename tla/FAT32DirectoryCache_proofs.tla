--------------------- MODULE FAT32DirectoryCache_proofs ---------------------
(***************************************************************************)
(* Proofs about FAT32DirectoryCache, for pools and numbers of buckets of   *)
(* any size: its lists agree.                                              *)
(***************************************************************************)
EXTENDS FAT32DirectoryCache, FiniteSetTheorems, WellFoundedInduction, TLAPS

(* Used: the slots that hold a name.  Linked: the links lead from the      *)
(* first slot through all slots of a set, each once, and then nowhere.     *)
Used(c) == {s \in Slots : c.key[s] # Nothing}
Bucket(c, b) == {s \in Used(c) : Hash[c.key[s]] = b}

Upward(link, S, rank) == \A s \in S : link[s] # NONE => rank[s] < rank[link[s]]
Linked(link, first, S) ==
    /\ S \subseteq Slots
    /\ first \in S \cup {NONE}
    /\ \A s \in S : link[s] \in (S \ {first}) \cup {NONE}
    /\ \A s, t \in S : link[s] = link[t] /\ link[s] # NONE => s = t
    /\ \A t \in S : t # first => \E s \in S : link[s] = t
    /\ \E rank \in [Slots -> Nat] : Upward(link, S, rank)

(* The parts of the inductive invariant.                                   *)
\* Both directions and both ends of the recency list fit.
Ordered(c, S) ==
    /\ Linked(c.older, c.most_recent, S)
    /\ c.least_recent \in S \cup {NONE} /\ (c.least_recent = NONE <=> S = {})
    /\ \A s, t \in S : c.older[s] = t <=> c.newer[t] = s
    /\ \A s \in S : /\ c.newer[s] = NONE <=> s = c.most_recent
                    /\ c.older[s] = NONE <=> s = c.least_recent
Chained(c, S) ==
    \A b \in Buckets :
        Linked(c.next_in_bucket, c.buckets[b], {s \in S : Hash[c.key[s]] = b})
Distinct(c) == \A s, t \in Used(c) : c.key[s] = c.key[t] => s = t
Agree(c) ==
    /\ c \in Pool
    /\ Ordered(c, Used(c))
    /\ Linked(c.older, c.free, Slots \ Used(c))
    /\ Chained(c, Used(c))
    /\ Distinct(c)
    /\ c.size = Cardinality(Used(c))
CacheInv == TypeOK /\ Agree(cache) /\ (op # Idle => op.slot \in Used(cache))

-----------------------------------------------------------------------------

(* Induction, as the existence of a least element.                         *)
LEMMA LeastElement ==
    ASSUME NEW T \in SUBSET Nat, T # {}
    PROVE  \E m \in T : \A k \in T : m <= k
<1> DEFINE R == StrictSubsetOrdering(Nat)
           S == FiniteSubsetsOf(Nat)
           I == {0 .. m : m \in T}
<1>1. IsWellFoundedOn(R, S)
  BY FS_StrictSubsetOrderingWellFounded
<1>2. \A m \in T : 0 .. m \in S
  BY FS_Interval DEF FiniteSubsetsOf
<1>3. I \subseteq S /\ I # {}
  BY <1>2
<1>4. \A k, m \in T : k < m => <<0 .. k, 0 .. m>> \in R
  <2> SUFFICES ASSUME NEW k \in T, NEW m \in T, k < m
               PROVE  <<0 .. k, 0 .. m>> \in R
    OBVIOUS
  <2>1. 0 .. k \subseteq 0 .. m /\ m \in 0 .. m /\ m \notin 0 .. k
    OBVIOUS
  <2>2. 0 .. k \in SUBSET Nat /\ 0 .. m \in SUBSET Nat /\ 0 .. k # 0 .. m
    BY <2>1
  <2> QED BY <2>1, <2>2 DEF StrictSubsetOrdering
<1>5. \E x \in I : \A y \in I : ~(<<y, x>> \in R)
  <2> HIDE DEF I, R, S
  <2> QED BY <1>1, <1>3, WFMin
<1>6. PICK m \in T : \A y \in I : ~(<<y, 0 .. m>> \in R)
  BY <1>5
<1>7. \A k \in T : ~(k < m)
  BY <1>4, <1>6
<1> QED BY <1>7

LEMMA SlotsFinite ==
    /\ IsFiniteSet(Slots) /\ Cardinality(Slots) = Capacity
    /\ Slots \subseteq Nat /\ NONE \in Nat /\ NONE \notin Slots
<1>1. Capacity \in Nat
  BY CacheAssumption
<1>2. IsFiniteSet(0 .. Capacity - 1) /\ Cardinality(0 .. Capacity - 1) = Capacity
  BY <1>1, FS_Interval
<1> QED BY <1>1, <1>2 DEF Slots, NONE

(* A list that is not empty has a first slot; and a rank has a least slot. *)
LEMMA LeastRank ==
    ASSUME NEW S \in SUBSET Slots, S # {}, NEW rank \in [Slots -> Nat]
    PROVE  \E s \in S : \A t \in S : rank[s] <= rank[t]
<1> DEFINE T == {rank[s] : s \in S}
<1>1. T \in SUBSET Nat /\ T # {}
  OBVIOUS
<1>2. PICK m \in T : \A k \in T : m <= k
  BY <1>1, LeastElement
<1> QED BY <1>2

LEMMA LinkedStarts ==
    ASSUME NEW link, NEW first, NEW S, Linked(link, first, S), S # {}
    PROVE  first \in S
<1>1. PICK rank \in [Slots -> Nat] : Upward(link, S, rank)
  BY DEF Linked
<1>2. PICK s \in S : \A t \in S : rank[s] <= rank[t]
  BY LeastRank DEF Linked
<1>3. ASSUME NEW t \in S, link[t] = s PROVE FALSE
  <2>1. link[t] # NONE /\ s \in Slots /\ t \in Slots
    BY <1>3, SlotsFinite DEF Linked
  <2>2. rank[t] < rank[s]
    BY <1>1, <1>3, <2>1 DEF Upward
  <2> QED BY <1>2, <2>1, <2>2
<1>4. s = first
  BY <1>3 DEF Linked
<1> QED BY <1>4

(* A walk meets what it steps on.                                          *)
Walks(link, s, at, N) ==
    at = [n \in 0 .. N |-> IF n = 0 THEN s
                           ELSE IF at[n - 1] = NONE THEN NONE ELSE link[at[n - 1]]]
At(link, s) == CHOOSE at : Walks(link, s, at, Capacity)
Long(link, s) == {n \in 0 .. Capacity : At(link, s)[n] # NONE}

LEMMA WalkIsAt ==
    \A link, s :
        Walk(link, s) = [n \in 1 .. Cardinality(Long(link, s)) |-> At(link, s)[n - 1]]
BY DEF Walk, Long, At, Walks

LEMMA WalkExists ==
    ASSUME NEW link, NEW s
    PROVE  \A N \in Nat : \E at : Walks(link, s, at, N)
<1> SUFFICES ASSUME NEW N0 \in Nat, ~\E at : Walks(link, s, at, N0)
             PROVE  FALSE
  OBVIOUS
<1> DEFINE T == {N \in Nat : ~\E at : Walks(link, s, at, N)}
           Next1(d) == IF d = NONE THEN NONE ELSE link[d]
<1>1. PICK N \in T : \A k \in T : N <= k
  BY LeastElement
<1>2. CASE N = 0
  <2> DEFINE at == [n \in 0 .. 0 |-> s]
  <2>1. Walks(link, s, at, 0)
    BY DEF Walks
  <2> QED BY <1>1, <1>2, <2>1
<1>3. CASE N # 0
  <2>1. N - 1 \in Nat /\ N - 1 \notin T
    BY <1>1, <1>3
  <2>2. PICK at : Walks(link, s, at, N - 1)
    BY <2>1
  <2> DEFINE longer == [n \in 0 .. N |-> IF n = N THEN Next1(at[N - 1]) ELSE at[n]]
  <2>3. \A n \in 0 .. N : longer[n] = IF n = 0 THEN s ELSE Next1(longer[n - 1])
    <3> SUFFICES ASSUME NEW n \in 0 .. N
                 PROVE  longer[n] = IF n = 0 THEN s ELSE Next1(longer[n - 1])
      OBVIOUS
    <3>1. CASE n = N
      BY <1>3, <2>1, <3>1
    <3>2. CASE n # N
      <4>1. n \in 0 .. N - 1
        BY <2>1, <3>2
      <4>2. at[n] = IF n = 0 THEN s ELSE Next1(at[n - 1])
        BY <2>2, <4>1 DEF Walks
      <4> QED BY <2>1, <3>2, <4>1, <4>2
    <3> QED BY <3>1, <3>2
  <2>4. Walks(link, s, longer, N)
    <3> HIDE DEF longer
    <3> DEFINE rhs == [n \in 0 .. N |-> IF n = 0 THEN s ELSE Next1(longer[n - 1])]
    <3>1. longer = [n \in 0 .. N |-> longer[n]]
      BY DEF longer
    <3>2. longer = rhs
      BY <2>3, <3>1
    <3> QED BY <3>2 DEF Walks
  <2> QED BY <1>1, <2>4
<1> QED BY <1>2, <1>3

LEMMA AtSteps ==
    ASSUME NEW link, NEW s
    PROVE  /\ At(link, s)[0] = s
           /\ \A n \in 1 .. Capacity :
                At(link, s)[n] = IF At(link, s)[n - 1] = NONE THEN NONE
                                 ELSE link[At(link, s)[n - 1]]
<1>1. Capacity \in Nat
  BY CacheAssumption
<1>2. \E at : Walks(link, s, at, Capacity)
  BY <1>1, WalkExists
<1>3. Walks(link, s, At(link, s), Capacity)
  BY <1>2 DEF At
<1>4. PICK at : at = At(link, s) /\ Walks(link, s, at, Capacity)
  BY <1>3
<1>5. \A n \in 0 .. Capacity :
        at[n] = IF n = 0 THEN s ELSE IF at[n - 1] = NONE THEN NONE ELSE link[at[n - 1]]
  BY <1>4 DEF Walks
<1>6. 0 \in 0 .. Capacity /\ \A n \in 1 .. Capacity : n \in 0 .. Capacity /\ n # 0
  BY <1>1
<1> HIDE DEF At
<1> QED BY <1>4, <1>5, <1>6

LEMMA PlacesInduction ==
    ASSUME NEW T, 0 \in T, \A n \in 1 .. Capacity : n - 1 \in T => n \in T
    PROVE  0 .. Capacity \subseteq T
<1>1. Capacity \in Nat
  BY CacheAssumption
<1> SUFFICES ASSUME ~(0 .. Capacity \subseteq T) PROVE FALSE
  OBVIOUS
<1> DEFINE U == {n \in 0 .. Capacity : n \notin T}
<1>2. U \in SUBSET Nat /\ U # {}
  BY <1>1
<1>3. PICK m \in U : \A k \in U : m <= k
  BY <1>2, LeastElement
<1>4. m # 0 /\ m \in 1 .. Capacity /\ m - 1 \in 0 .. Capacity /\ m - 1 \notin U
  BY <1>1, <1>3
<1> QED BY <1>3, <1>4

(* On a list the walk stays in its set, and does not turn back.            *)
LEMMA AtInside ==
    ASSUME NEW link, NEW first, NEW S, Linked(link, first, S)
    PROVE  \A n \in 0 .. Capacity : At(link, first)[n] \in S \cup {NONE}
<1> DEFINE T == {n \in 0 .. Capacity : At(link, first)[n] \in S \cup {NONE}}
<1>1. 0 \in T
  BY AtSteps, CacheAssumption DEF Linked
<1>2. ASSUME NEW n \in 1 .. Capacity, n - 1 \in T PROVE n \in T
  <2>1. \A s \in S : link[s] \in S \cup {NONE}
    BY DEF Linked
  <2>2. n \in 0 .. Capacity
    BY CacheAssumption
  <2> QED BY <1>2, <2>1, <2>2, AtSteps
<1> HIDE DEF T
<1>3. 0 .. Capacity \subseteq T
  BY <1>1, <1>2, PlacesInduction
<1> QED BY <1>3 DEF T

LEMMA AtOnwards ==
    ASSUME NEW link, NEW first, NEW S, Linked(link, first, S),
           NEW rank \in [Slots -> Nat], Upward(link, S, rank), NEW m \in 0 .. Capacity
    PROVE  \A n \in 0 .. Capacity : n > m /\ At(link, first)[n] # NONE =>
              /\ At(link, first)[m] # NONE
              /\ rank[At(link, first)[m]] < rank[At(link, first)[n]]
<1> DEFINE a(n) == At(link, first)[n]
           T == {n \in 0 .. Capacity : n > m /\ a(n) # NONE => a(m) # NONE /\ rank[a(m)] < rank[a(n)]}
<1>1. 0 \in T
  BY CacheAssumption
<1>2. ASSUME NEW n \in 1 .. Capacity, n - 1 \in T PROVE n \in T
  <2> SUFFICES ASSUME n > m, a(n) # NONE PROVE a(m) # NONE /\ rank[a(m)] < rank[a(n)]
    BY CacheAssumption
  <2>1. a(n - 1) # NONE /\ a(n) = link[a(n - 1)] /\ n - 1 \in 0 .. Capacity /\ n \in 0 .. Capacity
    BY AtSteps, CacheAssumption
  <2>2. a(n - 1) \in S /\ a(n) \in S /\ a(m) \in S \cup {NONE} /\ S \subseteq Slots
    BY <2>1, AtInside DEF Linked
  <2>3. rank[a(n - 1)] < rank[a(n)]
    BY <2>1, <2>2 DEF Upward
  <2>4. rank[a(n - 1)] \in Nat /\ rank[a(n)] \in Nat /\ (a(m) # NONE => rank[a(m)] \in Nat)
    BY <2>2
  <2>5. CASE n - 1 = m
    BY <2>1, <2>3, <2>5
  <2>6. CASE n - 1 # m
    <3>1. n - 1 > m
      BY <2>6, CacheAssumption
    <3>2. a(m) # NONE /\ rank[a(m)] < rank[a(n - 1)]
      BY <1>2, <2>1, <3>1
    <3> HIDE DEF a
    <3> QED BY <2>3, <2>4, <3>2
  <2> QED BY <2>5, <2>6
<1> HIDE DEF T
<1>3. 0 .. Capacity \subseteq T
  BY <1>1, <1>2, PlacesInduction
<1> QED BY <1>3 DEF T

(* A walk along a list meets its slots and no others.                      *)
LEMMA WalkLength ==
    ASSUME NEW link, NEW first, NEW S, Linked(link, first, S)
    PROVE  \E M \in 0 .. Capacity :
              Long(link, first) = 0 .. M - 1 /\ Cardinality(Long(link, first)) = M
<1> DEFINE a(n) == At(link, first)[n]
           L == Long(link, first)
<1>1. PICK rank \in [Slots -> Nat] : Upward(link, S, rank)
  BY DEF Linked
<1>2. \A n \in 0 .. Capacity : a(n) \in S \cup {NONE}
  BY AtInside
<1>3. \A m, n \in 0 .. Capacity : n > m /\ a(n) # NONE => a(m) # NONE /\ rank[a(m)] < rank[a(n)]
  BY <1>1, AtOnwards
<1>4. S \subseteq Slots /\ Capacity \in Nat
  BY CacheAssumption DEF Linked
<1> HIDE DEF a
<1>5. a(Capacity) = NONE
  <2> SUFFICES ASSUME a(Capacity) # NONE PROVE FALSE
    OBVIOUS
  <2> DEFINE f == [n \in 0 .. Capacity |-> a(n)]
  <2>1. \A n \in 0 .. Capacity : a(n) # NONE
    BY <1>3, <1>4
  <2>2. f \in [0 .. Capacity -> Slots]
    BY <1>2, <1>4, <2>1
  <2>3. IsFiniteSet(0 .. Capacity) /\ Cardinality(0 .. Capacity) = Capacity + 1
    BY <1>4, FS_Interval
  <2>4. IsFiniteSet(Slots) /\ Cardinality(Slots) < Cardinality(0 .. Capacity)
    BY <1>4, <2>3, SlotsFinite
  <2> HIDE DEF f
  <2>5. PICK x \in 0 .. Capacity, y \in 0 .. Capacity : x # y /\ f[x] = f[y]
    <3>1. IsFiniteSet(0 .. Capacity)
      BY <2>3
    <3>2. \E x, y \in 0 .. Capacity : x # y /\ f[x] = f[y]
      BY <2>2, <2>4, <3>1, FS_PigeonHole
    <3> QED BY <3>2
  <2>6. a(x) = a(y)
    BY <2>5 DEF f
  <2>7. rank[a(x)] \in Nat
    BY <1>2, <1>4, <2>1
  <2>8. x < y \/ y < x
    BY <2>5
  <2>9. rank[a(x)] < rank[a(x)]
    BY <1>3, <2>1, <2>6, <2>8
  <2> QED BY <2>7, <2>9
<1> DEFINE U == {n \in 0 .. Capacity : a(n) = NONE}
<1>6. U \in SUBSET Nat /\ U # {}
  BY <1>4, <1>5
<1>7. PICK M \in U : \A k \in U : M <= k
  BY <1>6, LeastElement
<1>8. L = 0 .. M - 1
  <2>1. L = {n \in 0 .. Capacity : a(n) # NONE}
    BY DEF Long, a
  <2>2. \A n \in 0 .. Capacity : a(n) # NONE <=> n < M
    <3>1. ASSUME NEW n \in 0 .. Capacity PROVE a(n) # NONE <=> n < M
      <4>1. n < M => a(n) # NONE
        BY <1>7
      <4>2. n > M => a(n) = NONE
        BY <1>3, <1>7
      <4> QED BY <1>7, <4>1, <4>2
    <3> QED BY <3>1
  <2> QED BY <1>4, <1>7, <2>1, <2>2
<1>9. Cardinality(0 .. M - 1) = M
  BY <1>4, <1>7, FS_Interval
<1> QED BY <1>7, <1>8, <1>9

LEMMA LinkedMet ==
    ASSUME NEW link, NEW first, NEW S, Linked(link, first, S)
    PROVE  Met(Walk(link, first)) = S
<1> DEFINE a(n) == At(link, first)[n]
<1>1. PICK M \in 0 .. Capacity :
         Long(link, first) = 0 .. M - 1 /\ Cardinality(Long(link, first)) = M
  BY WalkLength
<1>2. Capacity \in Nat /\ M \in Nat /\ S \subseteq Slots
  BY CacheAssumption DEF Linked
<1>3. \A n \in 0 .. Capacity : a(n) # NONE <=> n < M
  BY <1>1, <1>2 DEF Long
<1>4. \A n \in 0 .. Capacity : a(n) \in S \cup {NONE}
  BY AtInside
<1>5. a(0) = first /\ \A n \in 1 .. Capacity : a(n - 1) # NONE => a(n) = link[a(n - 1)]
  BY AtSteps
<1>6. Met(Walk(link, first)) = {a(n - 1) : n \in 1 .. M}
  <2>1. Walk(link, first) = [n \in 1 .. M |-> a(n - 1)]
    BY <1>1, WalkIsAt
  <2> HIDE DEF a
  <2> QED BY <2>1 DEF Met
<1> HIDE DEF a
<1>7. \A n \in 1 .. M : a(n - 1) \in S
  BY <1>2, <1>3, <1>4
<1> DEFINE U == {s \in S : \A n \in 1 .. M : s # a(n - 1)}
<1>8. U = {}
  <2> SUFFICES ASSUME U # {} PROVE FALSE
    OBVIOUS
  <2>1. PICK rank \in [Slots -> Nat] : Upward(link, S, rank)
    BY DEF Linked
  <2>2. PICK u \in U : \A t \in U : rank[u] <= rank[t]
    BY <1>2, LeastRank
  <2>3. u \in S /\ u \in Slots /\ u # NONE
    BY <1>2, SlotsFinite
  <2>4. first \in S /\ first # NONE
    BY <1>2, <2>3, LinkedStarts, SlotsFinite
  <2>5. u # first
    <3>1. 0 < M /\ 1 \in 1 .. M
      BY <1>2, <1>3, <1>5, <2>4
    <3> QED BY <1>5, <3>1
  <2>6. PICK p \in S : link[p] = u
    BY <2>3, <2>5 DEF Linked
  <2>7. rank[p] < rank[u] /\ rank[p] \in Nat /\ rank[u] \in Nat
    BY <1>2, <2>1, <2>3, <2>6 DEF Upward
  <2>8. p \notin U
    BY <2>2, <2>7
  <2>9. PICK n \in 1 .. M : p = a(n - 1)
    BY <2>8
  <2>10. n \in 1 .. Capacity /\ n \in 0 .. Capacity /\ p # NONE
    BY <1>2, <2>6, <1>1, SlotsFinite
  <2>11. a(n) = u
    BY <1>5, <2>6, <2>9, <2>10
  <2>12. n < M
    BY <1>3, <2>3, <2>10, <2>11
  <2>13. n + 1 \in 1 .. M /\ (n + 1) - 1 = n
    BY <1>2, <2>12
  <2> QED BY <2>11, <2>13
<1> QED BY <1>6, <1>7, <1>8

-----------------------------------------------------------------------------
(* Lists whose links change.                                               *)
LEMMA LinkedFrame ==
    ASSUME NEW link, NEW first, NEW S, Linked(link, first, S),
           NEW link2, \A s \in S : link2[s] = link[s]
    PROVE  Linked(link2, first, S)
BY DEF Linked, Upward

\* A slot that was put before the first.
LEMMA LinkedInsert ==
    ASSUME NEW link, NEW first, NEW S, Linked(link, first, S), NEW x \in Slots, x \notin S,
           NEW link2, link2[x] = first, \A s \in S : link2[s] = link[s]
    PROVE  Linked(link2, x, S \cup {x})
<1>1. PICK rank \in [Slots -> Nat] : Upward(link, S, rank)
  BY DEF Linked
<1> DEFINE rank2 == [s \in Slots |-> IF s = x THEN 0 ELSE rank[s] + 1]
<1>2. rank2 \in [Slots -> Nat]
  OBVIOUS
<1>3. S \subseteq Slots /\ first \in S \cup {NONE}
  BY DEF Linked
<1>4. Upward(link2, S \cup {x}, rank2)
  <2> SUFFICES ASSUME NEW s \in S \cup {x}, link2[s] # NONE PROVE rank2[s] < rank2[link2[s]]
    BY DEF Upward
  <2>1. CASE s = x
    <3>1. link2[s] = first /\ first \in S /\ first # x /\ first \in Slots
      BY <1>3, <2>1
    <3>2. rank2[s] = 0 /\ rank2[first] = rank[first] + 1
      BY <2>1, <3>1
    <3> QED BY <3>1, <3>2
  <2>2. CASE s # x
    <3>1. link2[s] = link[s] /\ s \in S /\ s \in Slots
      BY <1>3, <2>2
    <3>2. link[s] \in S /\ link[s] \in Slots /\ link[s] # x
      BY <1>3, <3>1 DEF Linked
    <3>3. rank[s] < rank[link[s]]
      BY <1>1, <3>1 DEF Upward
    <3>4. rank2[s] = rank[s] + 1 /\ rank2[link[s]] = rank[link[s]] + 1
      BY <2>2, <3>1, <3>2
    <3> HIDE DEF rank2
    <3> QED BY <3>1, <3>2, <3>3, <3>4
  <2> QED BY <2>1, <2>2
<1> HIDE DEF rank2
<1>5. \A s \in S \cup {x} : link2[s] \in ((S \cup {x}) \ {x}) \cup {NONE}
  BY <1>3 DEF Linked
<1>6. \A s, t \in S \cup {x} : link2[s] = link2[t] /\ link2[s] # NONE => s = t
  BY <1>3 DEF Linked
<1>7. \A t \in S \cup {x} : t # x => \E s \in S \cup {x} : link2[s] = t
  <2> SUFFICES ASSUME NEW t \in S PROVE \E s \in S \cup {x} : link2[s] = t
    OBVIOUS
  <2>1. t = first \/ \E s \in S : link[s] = t
    BY DEF Linked
  <2> QED BY <2>1
<1> QED BY <1>2, <1>3, <1>4, <1>5, <1>6, <1>7 DEF Linked

\* The first slot was taken off.
LEMMA LinkedRest ==
    ASSUME NEW link, NEW first, NEW S, Linked(link, first, S), first \in S,
           NEW link2, \A s \in S \ {first} : link2[s] = link[s]
    PROVE  Linked(link2, link[first], S \ {first})
<1>1. PICK rank \in [Slots -> Nat] : Upward(link, S, rank)
  BY DEF Linked
<1>2. Upward(link2, S \ {first}, rank)
  BY <1>1 DEF Upward
<1>3. S \subseteq Slots /\ link[first] \in (S \ {first}) \cup {NONE}
  BY DEF Linked
<1>4. \A s \in S \ {first} : link2[s] \in ((S \ {first}) \ {link[first]}) \cup {NONE}
  BY DEF Linked
<1>5. \A s, t \in S \ {first} : link2[s] = link2[t] /\ link2[s] # NONE => s = t
  BY DEF Linked
<1>6. \A t \in S \ {first} : t # link[first] => \E s \in S \ {first} : link2[s] = t
  BY DEF Linked
<1> QED BY <1>1, <1>2, <1>3, <1>4, <1>5, <1>6 DEF Linked

\* A slot was taken off, and the one before leads behind it.
LEMMA LinkedBypass ==
    ASSUME NEW link, NEW first, NEW S, Linked(link, first, S), NEW s \in S, NEW p \in S,
           link[p] = s, NEW link2, link2[p] = link[s],
           \A t \in S \ {s, p} : link2[t] = link[t]
    PROVE  Linked(link2, first, S \ {s})
<1>1. PICK rank \in [Slots -> Nat] : Upward(link, S, rank)
  BY DEF Linked
<1>2. /\ S \subseteq Slots /\ s # NONE /\ p # NONE /\ s # first /\ first \in S \cup {NONE}
      /\ link[s] \in (S \ {first}) \cup {NONE}
  BY SlotsFinite DEF Linked
<1>3. rank[p] \in Nat /\ rank[s] \in Nat /\ rank[p] < rank[s] /\ p # s
  BY <1>1, <1>2 DEF Upward
<1>4. link[s] # NONE => rank[s] < rank[link[s]] /\ rank[link[s]] \in Nat /\ link[s] # s
  BY <1>1, <1>2 DEF Upward
<1>5. Upward(link2, S \ {s}, rank)
  <2> SUFFICES ASSUME NEW t \in S \ {s}, link2[t] # NONE PROVE rank[t] < rank[link2[t]]
    BY DEF Upward
  <2>1. CASE t = p
    BY <1>3, <1>4, <2>1
  <2>2. CASE t # p
    BY <1>1, <2>2 DEF Upward
  <2> QED BY <2>1, <2>2
<1>6. \A t \in S : link[t] = s => t = p
  BY <1>2 DEF Linked
<1>7. \A t \in S \ {s} : link2[t] \in ((S \ {s}) \ {first}) \cup {NONE}
  BY <1>2, <1>4, <1>6 DEF Linked
<1>8. \A t, u \in S \ {s} : link2[t] = link2[u] /\ link2[t] # NONE => t = u
  BY <1>2 DEF Linked
<1>9. \A t \in S \ {s} : t # first => \E u \in S \ {s} : link2[u] = t
  <2> SUFFICES ASSUME NEW t \in S \ {s}, t # first PROVE \E u \in S \ {s} : link2[u] = t
    OBVIOUS
  <2>1. PICK u \in S : link[u] = t
    BY DEF Linked
  <2>2. CASE u = s
    BY <1>3, <2>1, <2>2
  <2>3. CASE u # s
    BY <1>3, <2>1, <2>3
  <2> QED BY <2>2, <2>3
<1> QED BY <1>2, <1>1, <1>5, <1>7, <1>8, <1>9 DEF Linked

-----------------------------------------------------------------------------
(* What the operations change.                                             *)
LEMMA LinkFields ==
    ASSUME NEW c \in Pool, NEW s \in Slots
    PROVE  LET r == LinkAsMostRecent(c, s)
           IN /\ r \in Pool
              /\ r.key = c.key /\ r.next_in_bucket = c.next_in_bucket
              /\ r.buckets = c.buckets /\ r.free = c.free /\ r.size = c.size
              /\ r.most_recent = s
              /\ r.least_recent = IF c.least_recent = NONE THEN s ELSE c.least_recent
              /\ r.older = [c.older EXCEPT ![s] = c.most_recent]
              /\ r.newer = IF c.most_recent = NONE THEN [c.newer EXCEPT ![s] = NONE]
                           ELSE [[c.newer EXCEPT ![s] = NONE] EXCEPT ![c.most_recent] = s]
BY SlotsFinite DEF LinkAsMostRecent, Pool, Link

LEMMA UnlinkFields ==
    ASSUME NEW c \in Pool, NEW s \in Slots
    PROVE  LET r == Unlink(c, s)
               n == c.newer[s]
               o == c.older[s]
           IN /\ r \in Pool
              /\ r.key = c.key /\ r.next_in_bucket = c.next_in_bucket
              /\ r.buckets = c.buckets /\ r.free = c.free /\ r.size = c.size
              /\ r.most_recent = IF n = NONE THEN o ELSE c.most_recent
              /\ r.least_recent = IF o = NONE THEN n ELSE c.least_recent
              /\ r.older = IF n = NONE THEN c.older ELSE [c.older EXCEPT ![n] = o]
              /\ r.newer = IF o = NONE THEN c.newer ELSE [c.newer EXCEPT ![o] = n]
<1>1. c.newer[s] \in Link /\ c.older[s] \in Link
  BY DEF Pool
<1> QED BY <1>1, SlotsFinite DEF Unlink, Pool, Link

(* A slot comes to the front of the recency list.                          *)
LEMMA LinkOrdered ==
    ASSUME NEW c \in Pool, NEW S, Ordered(c, S), NEW s \in Slots, s \notin S
    PROVE  /\ Ordered(LinkAsMostRecent(c, s), S \cup {s})
           /\ \A t \in Slots : t # s => LinkAsMostRecent(c, s).older[t] = c.older[t]
<1> DEFINE r == LinkAsMostRecent(c, s)
<1>1. /\ r.most_recent = s
      /\ r.least_recent = IF c.least_recent = NONE THEN s ELSE c.least_recent
      /\ r.older = [c.older EXCEPT ![s] = c.most_recent]
      /\ r.newer = IF c.most_recent = NONE THEN [c.newer EXCEPT ![s] = NONE]
                   ELSE [[c.newer EXCEPT ![s] = NONE] EXCEPT ![c.most_recent] = s]
  BY LinkFields
<1>2. /\ S \subseteq Slots /\ c.most_recent \in S \cup {NONE} /\ NONE \notin Slots
      /\ c.older \in [Slots -> Link] /\ c.newer \in [Slots -> Link]
      /\ Linked(c.older, c.most_recent, S) /\ (c.most_recent = NONE <=> S = {})
  <2>1. Linked(c.older, c.most_recent, S)
    BY DEF Ordered
  <2>2. S # {} => c.most_recent \in S
    BY <2>1, LinkedStarts
  <2>3. S \subseteq Slots /\ c.most_recent \in S \cup {NONE}
    BY <2>1 DEF Linked
  <2> QED BY <2>1, <2>2, <2>3, SlotsFinite DEF Pool
<1> HIDE DEF r
<1>3. /\ r.older[s] = c.most_recent /\ \A t \in Slots : t # s => r.older[t] = c.older[t]
  BY <1>1, <1>2
<1>4. Linked(r.older, s, S \cup {s})
  BY <1>2, <1>3, LinkedInsert
<1>5. /\ r.newer[s] = NONE
      /\ c.most_recent # NONE => r.newer[c.most_recent] = s
      /\ \A t \in S : t # c.most_recent => r.newer[t] = c.newer[t]
  BY <1>1, <1>2
<1>6. \A t \in S : c.older[t] # c.most_recent
  BY <1>2 DEF Linked
<1>7. \A t \in S : c.newer[t] # s
  <2>1. ASSUME NEW t \in S, c.newer[t] = s PROVE FALSE
    <3>1. c.newer[t] # NONE
      BY <1>2, <2>1
    <3>2. t # c.most_recent
      BY <3>1 DEF Ordered
    <3>3. PICK p \in S : c.older[p] = t
      BY <1>2, <3>2 DEF Linked
    <3> QED BY <2>1, <3>3 DEF Ordered
  <2> QED BY <2>1
<1>8. \A t, u \in S \cup {s} : r.older[t] = u <=> r.newer[u] = t
  <2> SUFFICES ASSUME NEW t \in S \cup {s}, NEW u \in S \cup {s}
               PROVE  r.older[t] = u <=> r.newer[u] = t
    OBVIOUS
  <2>1. CASE u = s
    <3>1. r.older[t] # s
      BY <1>2, <1>3 DEF Linked
    <3> QED BY <1>2, <1>5, <2>1, <3>1
  <2>2. CASE u # s /\ t = s
    BY <1>2, <1>3, <1>5, <1>7, <2>2
  <2>3. CASE u # s /\ t # s
    BY <1>2, <1>3, <1>5, <1>6, <2>3 DEF Ordered
  <2> QED BY <2>1, <2>2, <2>3
<1>9. \A t \in S \cup {s} : /\ r.newer[t] = NONE <=> t = s
                            /\ r.older[t] = NONE <=> t = r.least_recent
  <2> SUFFICES ASSUME NEW t \in S \cup {s}
               PROVE  /\ r.newer[t] = NONE <=> t = s
                      /\ r.older[t] = NONE <=> t = r.least_recent
    OBVIOUS
  <2>1. r.newer[t] = NONE <=> t = s
    BY <1>2, <1>5 DEF Ordered
  <2>2. CASE t = s
    BY <1>1, <1>2, <1>3, <2>2 DEF Ordered
  <2>3. CASE t # s
    BY <1>1, <1>2, <1>3, <2>3 DEF Ordered
  <2> QED BY <2>1, <2>2, <2>3
<1>10. r.least_recent \in S \cup {s} /\ r.least_recent # NONE
  BY <1>1, <1>2 DEF Ordered
<1>11. Ordered(r, S \cup {s})
  BY <1>1, <1>4, <1>8, <1>9, <1>10 DEF Ordered
<1> QED BY <1>3, <1>11 DEF r

(* A slot is taken off the recency list.                                   *)
LEMMA UnlinkOrdered ==
    ASSUME NEW c \in Pool, NEW S, Ordered(c, S), NEW s \in S
    PROVE  /\ Ordered(Unlink(c, s), S \ {s})
           /\ \A t \in Slots : t \notin S => Unlink(c, s).older[t] = c.older[t]
<1> DEFINE r == Unlink(c, s)
           n == c.newer[s]
           o == c.older[s]
<1>1. /\ S \subseteq Slots /\ c.most_recent \in S /\ NONE \notin Slots
      /\ c.older \in [Slots -> Link] /\ c.newer \in [Slots -> Link]
      /\ Linked(c.older, c.most_recent, S)
  BY SlotsFinite, LinkedStarts DEF Ordered, Linked, Pool
<1>2. /\ r.most_recent = IF n = NONE THEN o ELSE c.most_recent
      /\ r.least_recent = IF o = NONE THEN n ELSE c.least_recent
      /\ r.older = IF n = NONE THEN c.older ELSE [c.older EXCEPT ![n] = o]
      /\ r.newer = IF o = NONE THEN c.newer ELSE [c.newer EXCEPT ![o] = n]
  <2>1. s \in Slots
    BY <1>1
  <2> QED BY <2>1, UnlinkFields
<1>3. n = NONE <=> s = c.most_recent
  BY DEF Ordered
<1>4. n # NONE => n \in S /\ c.older[n] = s /\ n # s
  <2> SUFFICES ASSUME n # NONE PROVE n \in S /\ c.older[n] = s /\ n # s
    OBVIOUS
  <2>1. PICK p \in S : c.older[p] = s
    BY <1>1, <1>3 DEF Linked
  <2>2. n = p
    BY <2>1 DEF Ordered
  <2>3. PICK rank \in [Slots -> Nat] : Upward(c.older, S, rank)
    BY <1>1 DEF Linked
  <2>4. rank[p] < rank[s] /\ rank[p] \in Nat
    BY <1>1, <2>1, <2>3 DEF Upward
  <2> QED BY <2>1, <2>2, <2>4
<1>5. o # NONE => o \in S /\ c.newer[o] = s /\ o # s
  <2> SUFFICES ASSUME o # NONE PROVE o \in S /\ c.newer[o] = s /\ o # s
    OBVIOUS
  <2>1. o \in S
    BY <1>1 DEF Linked
  <2>2. PICK rank \in [Slots -> Nat] : Upward(c.older, S, rank)
    BY <1>1 DEF Linked
  <2>3. rank[s] < rank[o] /\ rank[s] \in Nat
    BY <1>1, <2>1, <2>2 DEF Upward
  <2> QED BY <2>1, <2>3 DEF Ordered
<1>6. o = NONE <=> s = c.least_recent
  BY DEF Ordered
<1> HIDE DEF r, n, o
<1>7. Linked(r.older, r.most_recent, S \ {s})
  <2>1. CASE n = NONE
    <3>1. Linked(c.older, o, S \ {s})
      BY <1>1, <1>3, <2>1, LinkedRest DEF o
    <3> QED BY <1>2, <2>1, <3>1
  <2>2. CASE n # NONE
    <3>1. r.older[n] = o /\ \A t \in S \ {s, n} : r.older[t] = c.older[t]
      BY <1>1, <1>2, <1>4, <2>2
    <3> QED BY <1>1, <1>2, <1>4, <2>2, <3>1, LinkedBypass DEF o
  <2> QED BY <2>1, <2>2
\* The links of the slots that stay.
<1>8. /\ \A t \in S : t # n => r.older[t] = c.older[t]
      /\ n # NONE => r.older[n] = o
      /\ \A t \in S : t # o => r.newer[t] = c.newer[t]
      /\ o # NONE => r.newer[o] = n
      /\ \A t \in Slots : t \notin S => r.older[t] = c.older[t]
  BY <1>1, <1>2, <1>4, <1>5
<1>9. \A t, u \in S : c.older[t] = u <=> c.newer[u] = t
  BY DEF Ordered
<1>10. \A t, u \in S \ {s} : r.older[t] = u <=> r.newer[u] = t
  <2> SUFFICES ASSUME NEW t \in S \ {s}, NEW u \in S \ {s}
               PROVE  r.older[t] = u <=> r.newer[u] = t
    OBVIOUS
  <2>1. t \in Slots /\ u \in Slots /\ t # NONE /\ u # NONE
    BY <1>1
  <2>2. CASE t = n /\ u = o
    BY <1>8, <2>1, <2>2
  <2>3. CASE t = n /\ u # o
    BY <1>4, <1>8, <1>9, <2>1, <2>3
  <2>4. CASE t # n /\ u = o
    BY <1>5, <1>8, <1>9, <2>1, <2>4
  <2>5. CASE t # n /\ u # o
    BY <1>8, <1>9, <2>5
  <2> QED BY <2>2, <2>3, <2>4, <2>5
<1>11. \A t \in S \ {s} : r.newer[t] = NONE <=> t = r.most_recent
  <2> SUFFICES ASSUME NEW t \in S \ {s} PROVE r.newer[t] = NONE <=> t = r.most_recent
    OBVIOUS
  <2>1. t # NONE /\ (c.newer[t] = NONE <=> t = c.most_recent)
    BY <1>1 DEF Ordered
  <2>2. CASE n = NONE
    <3>1. t # c.most_recent
      BY <1>3, <2>2
    <3>2. t = o => r.newer[t] = NONE
      BY <1>8, <2>1, <2>2
    <3>3. t # o => r.newer[t] # NONE
      BY <1>8, <2>1, <3>1
    <3> QED BY <1>2, <2>2, <3>2, <3>3
  <2>3. CASE n # NONE
    <3>1. t = o => r.newer[t] = n /\ c.newer[t] = s /\ t # c.most_recent
      BY <1>1, <1>5, <1>8, <2>1
    <3>2. t # o => r.newer[t] = c.newer[t]
      BY <1>8
    <3> QED BY <1>2, <2>1, <2>3, <3>1, <3>2
  <2> QED BY <2>2, <2>3
<1>12. \A t \in S \ {s} : r.older[t] = NONE <=> t = r.least_recent
  <2> SUFFICES ASSUME NEW t \in S \ {s} PROVE r.older[t] = NONE <=> t = r.least_recent
    OBVIOUS
  <2>1. t # NONE /\ (c.older[t] = NONE <=> t = c.least_recent)
    BY <1>1 DEF Ordered
  <2>2. CASE o = NONE
    <3>1. t # c.least_recent
      BY <1>6, <2>2
    <3>2. t = n => r.older[t] = NONE
      BY <1>8, <2>1, <2>2
    <3>3. t # n => r.older[t] # NONE
      BY <1>8, <2>1, <3>1
    <3> QED BY <1>2, <2>2, <3>2, <3>3
  <2>3. CASE o # NONE
    <3>1. t = n => r.older[t] = o /\ c.older[t] = s /\ t # c.least_recent
      BY <1>1, <1>4, <1>8, <2>1
    <3>2. t # n => r.older[t] = c.older[t]
      BY <1>8
    <3> QED BY <1>2, <2>1, <2>3, <3>1, <3>2
  <2> QED BY <2>2, <2>3
<1>13. r.least_recent \in (S \ {s}) \cup {NONE} /\ (r.least_recent = NONE <=> S \ {s} = {})
  <2>1. CASE o = NONE
    <3>1. n = NONE => S \ {s} = {}
      <4> SUFFICES ASSUME n = NONE, S \ {s} # {} PROVE FALSE
        OBVIOUS
      <4>1. r.most_recent \in S \ {s}
        BY <1>7, LinkedStarts
      <4> QED BY <1>1, <1>2, <2>1, <4>1
    <3> QED BY <1>1, <1>2, <1>4, <2>1, <3>1
  <2>2. CASE o # NONE
    <3>1. c.least_recent \in S /\ c.least_recent # s
      BY <1>6, <2>2 DEF Ordered
    <3> QED BY <1>1, <1>2, <2>2, <3>1
  <2> QED BY <2>1, <2>2
<1>14. Ordered(r, S \ {s})
  BY <1>7, <1>10, <1>11, <1>12, <1>13 DEF Ordered
<1> QED BY <1>8, <1>14 DEF r

(* A change of links that keeps the names.                                 *)
LEMMA SameNames ==
    ASSUME NEW c, NEW r, r.key = c.key
    PROVE  Used(r) = Used(c) /\ (Distinct(c) => Distinct(r))
BY DEF Used, Distinct

LEMMA MakeMostRecentAgrees ==
    ASSUME NEW c, Agree(c), NEW s \in Used(c)
    PROVE  Agree(MakeMostRecent(c, s)) /\ Used(MakeMostRecent(c, s)) = Used(c)
<1>1. /\ c \in Pool /\ Ordered(c, Used(c)) /\ Linked(c.older, c.free, Slots \ Used(c))
      /\ Chained(c, Used(c)) /\ Distinct(c) /\ c.size = Cardinality(Used(c))
      /\ s \in Slots /\ Used(c) \subseteq Slots
  BY DEF Agree, Used
<1>2. CASE s = c.most_recent
  BY <1>2 DEF MakeMostRecent
<1>3. CASE s # c.most_recent
  <2> DEFINE u == Unlink(c, s)
             r == LinkAsMostRecent(u, s)
  <2>1. /\ u \in Pool /\ u.key = c.key /\ u.next_in_bucket = c.next_in_bucket
        /\ u.buckets = c.buckets /\ u.free = c.free /\ u.size = c.size
    BY <1>1, UnlinkFields
  <2>2. /\ Ordered(u, Used(c) \ {s})
        /\ \A t \in Slots : t \notin Used(c) => u.older[t] = c.older[t]
    BY <1>1, UnlinkOrdered
  <2> HIDE DEF u
  <2>3. /\ r \in Pool /\ r.key = u.key /\ r.next_in_bucket = u.next_in_bucket
        /\ r.buckets = u.buckets /\ r.free = u.free /\ r.size = u.size
    BY <1>1, <2>1, LinkFields
  <2>4. /\ Ordered(r, (Used(c) \ {s}) \cup {s})
        /\ \A t \in Slots : t # s => r.older[t] = u.older[t]
    <3>1. u \in Pool /\ s \in Slots /\ s \notin Used(c) \ {s} /\ Ordered(u, Used(c) \ {s})
      BY <1>1, <2>1, <2>2
    <3> QED BY <3>1, LinkOrdered
  <2>5. (Used(c) \ {s}) \cup {s} = Used(c)
    OBVIOUS
  <2>6. r = MakeMostRecent(c, s)
    BY <1>3 DEF MakeMostRecent, u
  <2> HIDE DEF r
  <2>7. Used(r) = Used(c) /\ Distinct(r)
    BY <1>1, <2>1, <2>3, SameNames
  <2>8. Linked(r.older, r.free, Slots \ Used(c))
    <3>1. \A t \in Slots \ Used(c) : r.older[t] = c.older[t]
      BY <1>1, <2>2, <2>4
    <3>2. Linked(r.older, c.free, Slots \ Used(c))
      BY <1>1, <3>1, LinkedFrame
    <3> QED BY <2>1, <2>3, <3>2
  <2>9. Chained(r, Used(c))
    BY <1>1, <2>1, <2>3 DEF Chained
  <2>10. Agree(r)
    BY <1>1, <2>1, <2>3, <2>4, <2>5, <2>7, <2>8, <2>9 DEF Agree
  <2> QED BY <2>6, <2>7, <2>10
<1> QED BY <1>2, <1>3

(* A slot is taken off the chain of its bucket.                            *)
LEMMA UnchainFields ==
    ASSUME NEW c, Agree(c), NEW s \in Used(c)
    PROVE  LET r == Unchain(c, s)
           IN /\ r \in Pool /\ r.key = c.key /\ r.free = c.free /\ r.size = c.size
              /\ r.older = c.older /\ r.newer = c.newer
              /\ r.most_recent = c.most_recent /\ r.least_recent = c.least_recent
              /\ Chained(r, Used(c) \ {s})
<1> DEFINE b == Hash[c.key[s]]
           o == c.next_in_bucket[s]
           S(x) == {t \in Used(c) : Hash[c.key[t]] = x}
           r == Unchain(c, s)
<1>1. /\ c \in Pool /\ s \in Slots /\ c.key[s] \in Directories \X Names /\ b \in Buckets
      /\ o \in Link /\ c.next_in_bucket \in [Slots -> Link] /\ c.buckets \in [Buckets -> Link]
  BY CacheAssumption DEF Agree, Used, Pool, Key
<1>2. \A x \in Buckets : Linked(c.next_in_bucket, c.buckets[x], S(x))
  BY DEF Agree, Chained
<1>3. s \in S(b) /\ \A x : S(x) \subseteq Slots
  BY DEF Used
<1>4. Met(Chain(c, b)) = S(b)
  BY <1>1, <1>2, LinkedMet DEF Chain
<1>5. \A x : {t \in Used(c) \ {s} : Hash[c.key[t]] = x} = S(x) \ {s}
  OBVIOUS
<1> HIDE DEF S, b, o
<1>6. CASE c.buckets[b] = s
  <2>1. r = [c EXCEPT !.buckets[b] = o]
    BY <1>6 DEF Unchain, b, o
  <2> HIDE DEF r
  <2>2. /\ r \in Pool /\ r.key = c.key /\ r.free = c.free /\ r.size = c.size
        /\ r.older = c.older /\ r.newer = c.newer
        /\ r.most_recent = c.most_recent /\ r.least_recent = c.least_recent
        /\ r.next_in_bucket = c.next_in_bucket
        /\ r.buckets = [c.buckets EXCEPT ![b] = o]
    BY <1>1, <2>1 DEF Pool
  <2>3. ASSUME NEW x \in Buckets PROVE Linked(r.next_in_bucket, r.buckets[x], S(x) \ {s})
    <3>1. CASE x = b
      <4>1. Linked(c.next_in_bucket, s, S(b))
        BY <1>1, <1>2, <1>6
      <4>2. Linked(c.next_in_bucket, o, S(b) \ {s})
        BY <1>3, <4>1, LinkedRest DEF o
      <4> QED BY <1>1, <2>2, <3>1, <4>2
    <3>2. CASE x # b
      <4>1. S(x) \ {s} = S(x) /\ r.buckets[x] = c.buckets[x]
        BY <1>1, <2>2, <3>2 DEF S, b
      <4> QED BY <1>2, <2>2, <4>1
    <3> QED BY <3>1, <3>2
  <2>4. Chained(r, Used(c) \ {s})
    <3>1. \A x : {t \in Used(c) \ {s} : Hash[r.key[t]] = x} = S(x) \ {s}
      BY <1>5, <2>2
    <3> QED BY <2>3, <3>1 DEF Chained
  <2> QED BY <2>2, <2>4 DEF r
<1>7. CASE c.buckets[b] # s
  <2>1. Linked(c.next_in_bucket, c.buckets[b], S(b))
    BY <1>1, <1>2
  <2>2. \E p \in S(b) : c.next_in_bucket[p] = s
    BY <1>3, <1>7, <2>1 DEF Linked
  <2> DEFINE p == CHOOSE p \in Met(Chain(c, b)) : c.next_in_bucket[p] = s
  <2>3. r = [c EXCEPT !.next_in_bucket[p] = o]
    BY <1>7 DEF Unchain, b, o
  <2>4. p \in S(b) /\ c.next_in_bucket[p] = s
    BY <1>4, <2>2
  <2> HIDE DEF r, p
  <2>5. /\ r \in Pool /\ r.key = c.key /\ r.free = c.free /\ r.size = c.size
        /\ r.older = c.older /\ r.newer = c.newer
        /\ r.most_recent = c.most_recent /\ r.least_recent = c.least_recent
        /\ r.next_in_bucket = [c.next_in_bucket EXCEPT ![p] = o]
        /\ r.buckets = c.buckets
    BY <1>1, <1>3, <2>3, <2>4 DEF Pool
  <2>6. ASSUME NEW x \in Buckets PROVE Linked(r.next_in_bucket, r.buckets[x], S(x) \ {s})
    <3>1. CASE x = b
      <4>1. r.next_in_bucket[p] = o
            /\ \A t \in S(b) \ {s, p} : r.next_in_bucket[t] = c.next_in_bucket[t]
        BY <1>1, <1>3, <2>4, <2>5
      <4>2. Linked(r.next_in_bucket, c.buckets[b], S(b) \ {s})
        <5>1. r.next_in_bucket[p] = c.next_in_bucket[s]
          BY <4>1 DEF o
        <5> DEFINE link == c.next_in_bucket
                   link2 == r.next_in_bucket
                   first == c.buckets[b]
                   B == S(b)
        <5>2. /\ Linked(link, first, B) /\ s \in B /\ p \in B /\ link[p] = s
              /\ link2[p] = link[s] /\ \A t \in B \ {s, p} : link2[t] = link[t]
          BY <1>3, <2>1, <2>4, <4>1, <5>1
        <5> HIDE DEF link, link2, first, B
        <5>3. Linked(link2, first, B \ {s})
          BY <5>2, LinkedBypass
        <5> QED BY <5>3 DEF link2, first, B
      <4> QED BY <2>5, <3>1, <4>2
    <3>2. CASE x # b
      <4>1. S(x) \ {s} = S(x) /\ p \notin S(x)
        BY <2>4, <3>2 DEF S, b
      <4>2. \A t \in S(x) : r.next_in_bucket[t] = c.next_in_bucket[t]
        BY <1>1, <1>3, <2>5, <4>1
      <4>3. Linked(c.next_in_bucket, c.buckets[x], S(x))
        BY <1>2
      <4>4. Linked(r.next_in_bucket, c.buckets[x], S(x))
        BY <4>2, <4>3, LinkedFrame
      <4> QED BY <2>5, <4>1, <4>4
    <3> QED BY <3>1, <3>2
  <2>7. Chained(r, Used(c) \ {s})
    <3>1. \A x : {t \in Used(c) \ {s} : Hash[r.key[t]] = x} = S(x) \ {s}
      BY <1>5, <2>5
    <3> QED BY <2>6, <3>1 DEF Chained
  <2> QED BY <2>5, <2>7 DEF r
<1> QED BY <1>6, <1>7

(* A slot is released: out of its chain and the recency list, onto the     *)
(* free list.                                                              *)
LEMMA ReleaseAgrees ==
    ASSUME NEW c, Agree(c), NEW s \in Used(c)
    PROVE  /\ Agree(Release(c, s)) /\ Used(Release(c, s)) = Used(c) \ {s}
           /\ Release(c, s).free = s
           /\ \A t \in Used(c) \ {s} : Release(c, s).key[t] = c.key[t]
<1> DEFINE u == Unchain(c, s)
           v == Unlink(u, s)
           r == Release(c, s)
           S == Used(c) \ {s}
<1>1. /\ c \in Pool /\ Ordered(c, Used(c)) /\ Linked(c.older, c.free, Slots \ Used(c))
      /\ Distinct(c) /\ c.size = Cardinality(Used(c)) /\ s \in Slots /\ Used(c) \subseteq Slots
  BY DEF Agree, Used
<1>2. /\ u \in Pool /\ u.key = c.key /\ u.free = c.free /\ u.size = c.size
      /\ u.older = c.older /\ u.newer = c.newer
      /\ u.most_recent = c.most_recent /\ u.least_recent = c.least_recent
      /\ Chained(u, S)
  BY UnchainFields
<1>3. Ordered(u, Used(c))
  BY <1>1, <1>2 DEF Ordered
<1> HIDE DEF u
<1>4. /\ v \in Pool /\ v.key = c.key /\ v.next_in_bucket = u.next_in_bucket
      /\ v.buckets = u.buckets /\ v.free = c.free /\ v.size = c.size
  BY <1>1, <1>2, UnlinkFields
<1>5. /\ Ordered(v, S)
      /\ \A t \in Slots : t \notin Used(c) => v.older[t] = c.older[t]
  BY <1>1, <1>2, <1>3, UnlinkOrdered
<1>6. IsFiniteSet(Used(c)) /\ Cardinality(S) = c.size - 1 /\ Cardinality(S) \in 0 .. Capacity
  <2>1. IsFiniteSet(Used(c)) /\ S \in SUBSET Slots
    BY <1>1, SlotsFinite, FS_Subset
  <2>2. Cardinality(S) = c.size - 1
    <3>1. Cardinality(Used(c) \ {s}) = Cardinality(Used(c)) - 1
      BY <2>1, FS_RemoveElement
    <3> QED BY <1>1, <3>1
  <2>3. IsFiniteSet(S) /\ Cardinality(S) <= Capacity
    BY <2>1, SlotsFinite, FS_Subset
  <2>4. Cardinality(S) \in Nat
    BY <2>3, FS_CardinalityType
  <2> QED BY <2>1, <2>2, <2>3, <2>4, CacheAssumption
<1> DEFINE w == [v EXCEPT !.older[s] = v.free, !.free = s, !.newer[s] = NONE,
                          !.next_in_bucket[s] = NONE, !.key[s] = Nothing,
                          !.directory[s] = Nothing]
<1>7. r = [w EXCEPT !.size = @ - 1]
  BY <1>2, <1>4 DEF Release, Freed, u
<1> HIDE DEF v, r
<1>8. /\ r \in Pool
      /\ r.key = [c.key EXCEPT ![s] = Nothing]
      /\ r.older = [v.older EXCEPT ![s] = c.free]
      /\ r.newer = [v.newer EXCEPT ![s] = NONE]
      /\ r.next_in_bucket = [v.next_in_bucket EXCEPT ![s] = NONE]
      /\ r.buckets = v.buckets /\ r.free = s /\ r.size = c.size - 1
      /\ r.most_recent = v.most_recent /\ r.least_recent = v.least_recent
  <2>1. /\ w \in Pool
        /\ w.key = [c.key EXCEPT ![s] = Nothing]
        /\ w.older = [v.older EXCEPT ![s] = c.free]
        /\ w.newer = [v.newer EXCEPT ![s] = NONE]
        /\ w.next_in_bucket = [v.next_in_bucket EXCEPT ![s] = NONE]
        /\ w.buckets = v.buckets /\ w.free = s /\ w.size = c.size
        /\ w.most_recent = v.most_recent /\ w.least_recent = v.least_recent
    BY <1>1, <1>4 DEF Pool, Link, Key
  <2> HIDE DEF w
  <2> QED BY <1>6, <1>7, <2>1 DEF Pool
<1>9. /\ c.key \in [Slots -> Key] /\ v.older \in [Slots -> Link] /\ v.newer \in [Slots -> Link]
      /\ v.next_in_bucket \in [Slots -> Link]
  BY <1>1, <1>4 DEF Pool
<1>10. Used(r) = S /\ \A t \in S : r.key[t] = c.key[t]
  BY <1>1, <1>8, <1>9 DEF Used
<1>11. Distinct(r)
  BY <1>1, <1>10 DEF Distinct
<1>12. Ordered(r, S)
  <2>1. \A t \in S : r.older[t] = v.older[t] /\ r.newer[t] = v.newer[t]
    BY <1>1, <1>8, <1>9
  <2>2. Linked(v.older, v.most_recent, S)
    BY <1>5 DEF Ordered
  <2>3. Linked(r.older, r.most_recent, S)
    <3>1. Linked(r.older, v.most_recent, S)
      BY <2>1, <2>2, LinkedFrame
    <3> QED BY <1>8, <3>1
  <2> QED BY <1>5, <1>8, <2>1, <2>3 DEF Ordered
<1>13. Linked(r.older, r.free, Slots \ S)
  <2>1. /\ r.older[s] = c.free
        /\ \A t \in Slots \ Used(c) : r.older[t] = c.older[t]
    BY <1>1, <1>5, <1>8, <1>9
  <2>2. Linked(r.older, s, (Slots \ Used(c)) \cup {s})
    BY <1>1, <2>1, LinkedInsert
  <2>3. (Slots \ Used(c)) \cup {s} = Slots \ S
    BY <1>1
  <2> QED BY <1>8, <2>2, <2>3
<1>14. Chained(r, S)
  <2>1. ASSUME NEW b \in Buckets
        PROVE  Linked(r.next_in_bucket, r.buckets[b], {t \in S : Hash[r.key[t]] = b})
    <3> DEFINE B == {t \in S : Hash[c.key[t]] = b}
    <3>1. Linked(u.next_in_bucket, u.buckets[b], B)
      BY <1>2 DEF Chained
    <3>2. \A t \in B : r.next_in_bucket[t] = u.next_in_bucket[t]
      BY <1>1, <1>4, <1>8, <1>9
    <3>3. {t \in S : Hash[r.key[t]] = b} = B
      BY <1>10
    <3> HIDE DEF B
    <3>4. Linked(r.next_in_bucket, u.buckets[b], B)
      BY <3>1, <3>2, LinkedFrame
    <3> QED BY <1>4, <1>8, <3>3, <3>4
  <2> QED BY <2>1 DEF Chained
<1>15. Agree(r)
  BY <1>6, <1>8, <1>10, <1>11, <1>12, <1>13, <1>14 DEF Agree
<1> QED BY <1>8, <1>10, <1>15 DEF r

(* A new name takes the first free slot.                                   *)
LEMMA InsertAgrees ==
    ASSUME NEW c, Agree(c), c.free # NONE, NEW k \in Directories \X Names,
           NEW d \in Directories, \A t \in Used(c) : c.key[t] # k
    PROVE  Agree(Insert(c, k, d))
<1> DEFINE s == c.free
           b == Hash[k]
           v == [c EXCEPT !.free = c.older[s], !.key[s] = k, !.directory[s] = d,
                          !.next_in_bucket[s] = c.buckets[b], !.buckets[b] = s,
                          !.size = @ + 1]
           r == Insert(c, k, d)
           S == Used(c) \cup {s}
<1>1. /\ c \in Pool /\ Ordered(c, Used(c)) /\ Linked(c.older, c.free, Slots \ Used(c))
      /\ Chained(c, Used(c)) /\ Distinct(c) /\ c.size = Cardinality(Used(c))
      /\ Used(c) \subseteq Slots /\ b \in Buckets /\ k # Nothing /\ k \in Key
  BY CacheAssumption DEF Agree, Used, Key
<1>2. s \in Slots /\ s \notin Used(c)
  BY <1>1 DEF Linked
<1>3. Cardinality(S) = c.size + 1 /\ Cardinality(S) \in 0 .. Capacity
  <2>1. IsFiniteSet(Used(c)) /\ S \in SUBSET Slots
    BY <1>1, <1>2, SlotsFinite, FS_Subset
  <2>2. Cardinality(S) = c.size + 1
    <3>1. Cardinality(Used(c) \cup {s}) = Cardinality(Used(c)) + 1
      BY <1>2, <2>1, FS_AddElement
    <3> QED BY <1>1, <3>1
  <2>3. IsFiniteSet(S) /\ Cardinality(S) <= Capacity
    BY <2>1, SlotsFinite, FS_Subset
  <2>4. Cardinality(S) \in Nat
    BY <2>3, FS_CardinalityType
  <2> QED BY <2>2, <2>3, <2>4, CacheAssumption
<1>4. r = LinkAsMostRecent(v, s)
  BY DEF Insert
<1> HIDE DEF r, s, b
<1>5. /\ c.key \in [Slots -> Key] /\ c.next_in_bucket \in [Slots -> Link]
      /\ c.older \in [Slots -> Link] /\ c.buckets \in [Buckets -> Link]
  BY <1>1 DEF Pool
<1>6. /\ v \in Pool
      /\ v.key = [c.key EXCEPT ![s] = k]
      /\ v.next_in_bucket = [c.next_in_bucket EXCEPT ![s] = c.buckets[b]]
      /\ v.buckets = [c.buckets EXCEPT ![b] = s]
      /\ v.free = c.older[s] /\ v.size = c.size + 1
      /\ v.older = c.older /\ v.newer = c.newer
      /\ v.most_recent = c.most_recent /\ v.least_recent = c.least_recent
  BY <1>1, <1>2, <1>3, <1>5 DEF Pool, Link
<1>7. Ordered(v, Used(c))
  BY <1>1, <1>6 DEF Ordered
<1> HIDE DEF v
<1>8. /\ r \in Pool /\ r.key = v.key /\ r.next_in_bucket = v.next_in_bucket
      /\ r.buckets = v.buckets /\ r.free = v.free /\ r.size = v.size
  <2> DEFINE q == LinkAsMostRecent(v, s)
  <2>1. v \in Pool
    BY <1>6
  <2>2. /\ q \in Pool /\ q.key = v.key /\ q.next_in_bucket = v.next_in_bucket
        /\ q.buckets = v.buckets /\ q.free = v.free /\ q.size = v.size
    BY <1>2, <2>1, LinkFields
  <2> HIDE DEF q
  <2>3. r = q
    BY <1>4 DEF q
  <2> QED BY <2>2, <2>3
<1>9. Ordered(r, S) /\ \A t \in Slots : t # s => r.older[t] = v.older[t]
  BY <1>2, <1>4, <1>6, <1>7, LinkOrdered
<1>10. r.key[s] = k /\ \A t \in Used(c) : r.key[t] = c.key[t]
  BY <1>1, <1>2, <1>5, <1>6, <1>8
<1>11. Used(r) = S
  BY <1>1, <1>2, <1>5, <1>6, <1>8 DEF Used
<1>12. Distinct(r)
  BY <1>1, <1>10, <1>11 DEF Distinct
<1>13. Linked(r.older, r.free, Slots \ S)
  <2>1. \A t \in (Slots \ Used(c)) \ {s} : r.older[t] = c.older[t]
    BY <1>6, <1>9
  <2>2. Linked(c.older, s, Slots \ Used(c)) /\ s \in Slots \ Used(c)
    BY <1>1, <1>2 DEF s
  <2>3. Linked(r.older, c.older[s], (Slots \ Used(c)) \ {s})
    BY <2>1, <2>2, LinkedRest
  <2>4. (Slots \ Used(c)) \ {s} = Slots \ S
    OBVIOUS
  <2> QED BY <1>6, <1>8, <2>3, <2>4
<1>14. Chained(r, S)
  <2>1. ASSUME NEW x \in Buckets
        PROVE  Linked(r.next_in_bucket, r.buckets[x], {t \in S : Hash[r.key[t]] = x})
    <3> DEFINE B == {t \in Used(c) : Hash[c.key[t]] = x}
    <3>1. Linked(c.next_in_bucket, c.buckets[x], B) /\ B \subseteq Used(c)
      BY <1>1 DEF Chained
    <3>2. /\ \A t \in B : r.next_in_bucket[t] = c.next_in_bucket[t]
          /\ r.next_in_bucket[s] = c.buckets[b]
      BY <1>1, <1>2, <1>5, <1>6, <1>8
    <3>3. CASE x = b
      <4>1. {t \in S : Hash[r.key[t]] = x} = B \cup {s}
        BY <1>2, <1>10, <3>3 DEF b
      <4>2. r.buckets[x] = s
        BY <1>5, <1>6, <1>8, <3>3
      <4> HIDE DEF B
      <4>3. s \notin B /\ r.next_in_bucket[s] = c.buckets[x]
        BY <1>2, <3>1, <3>2, <3>3
      <4>4. Linked(r.next_in_bucket, s, B \cup {s})
        BY <1>2, <3>1, <3>2, <4>3, LinkedInsert
      <4> QED BY <4>1, <4>2, <4>4
    <3>4. CASE x # b
      <4>1. {t \in S : Hash[r.key[t]] = x} = B
        BY <1>2, <1>10, <3>4 DEF b
      <4>2. r.buckets[x] = c.buckets[x]
        BY <1>5, <1>6, <1>8, <3>4
      <4> HIDE DEF B
      <4>3. Linked(r.next_in_bucket, c.buckets[x], B)
        BY <3>1, <3>2, LinkedFrame
      <4> QED BY <4>1, <4>2, <4>3
    <3> QED BY <3>3, <3>4
  <2> QED BY <2>1 DEF Chained
<1>15. Agree(r)
  BY <1>3, <1>6, <1>8, <1>9, <1>11, <1>12, <1>13, <1>14 DEF Agree
<1> QED BY <1>15 DEF r

(* A name is found if a slot holds it.                                     *)
LEMMA LocateFinds ==
    ASSUME NEW c, Agree(c), NEW k \in Directories \X Names
    PROVE  /\ Locate(c, k) \in Used(c) \cup {NONE}
           /\ Locate(c, k) = NONE /\ k[2] \notin TooLong => \A s \in Used(c) : c.key[s] # k
<1> DEFINE chain == Chain(c, Hash[k])
           at == {i \in DOMAIN chain : c.key[chain[i]] = k}
           B == {s \in Used(c) : Hash[c.key[s]] = Hash[k]}
<1>1. Met(chain) = B
  <2>1. Hash[k] \in Buckets
    BY CacheAssumption
  <2>2. Linked(c.next_in_bucket, c.buckets[Hash[k]], B)
    BY <2>1 DEF Agree, Chained
  <2> HIDE DEF B
  <2> QED BY <2>2, LinkedMet DEF Chain
<1>2. DOMAIN chain \subseteq Nat
  <2>1. chain = Walk(c.next_in_bucket, c.buckets[Hash[k]])
    BY DEF Chain
  <2>2. \A link, s : DOMAIN Walk(link, s) \subseteq Nat
    <3> TAKE link, s
    <3>1. DOMAIN Walk(link, s) = 1 .. Cardinality(Long(link, s))
      BY WalkIsAt
    <3> QED BY <3>1
  <2> HIDE DEF chain
  <2> QED BY <2>1, <2>2
<1>3. Locate(c, k) = IF k[2] \in TooLong \/ at = {} THEN NONE
                     ELSE chain[CHOOSE i \in at : \A j \in at : i <= j]
  BY DEF Locate
<1> HIDE DEF chain
<1>4. \A i \in DOMAIN chain : chain[i] \in Used(c) /\ chain[i] \in Slots
  BY <1>1 DEF Met, Used
<1>5. CASE at = {}
  <2>1. ASSUME NEW s \in Used(c), c.key[s] = k PROVE FALSE
    <3>1. s \in Met(chain)
      BY <1>1, <2>1
    <3>2. PICK i \in DOMAIN chain : chain[i] = s
      BY <3>1 DEF Met
    <3> QED BY <1>5, <2>1, <3>2
  <2> QED BY <1>3, <1>5, <2>1
<1>6. CASE at # {}
  <2>1. at \in SUBSET Nat
    BY <1>2
  <2>2. \E i \in at : \A j \in at : i <= j
    BY <1>6, <2>1, LeastElement
  <2>3. chain[CHOOSE i \in at : \A j \in at : i <= j] \in Used(c)
    <3> DEFINE i == CHOOSE i \in at : \A j \in at : i <= j
    <3>1. i \in at
      BY <2>2
    <3> HIDE DEF i
    <3>2. chain[i] \in Used(c)
      BY <1>4, <3>1
    <3> QED BY <3>2 DEF i
  <2> HIDE DEF at
  <2>4. Used(c) \subseteq Slots
    BY DEF Used
  <2> QED BY <1>3, <1>6, <2>3, <2>4, SlotsFinite
<1> QED BY <1>5, <1>6

-----------------------------------------------------------------------------
LEMMA ClearedAgrees == Agree(Cleared) /\ Used(Cleared) = {}
<1>1. Used(Cleared) = {}
  BY DEF Used, Cleared, Unused
<1>2. Capacity \in Nat /\ Slots = 0 .. Capacity - 1 /\ NONE = Capacity
  BY CacheAssumption DEF Slots, NONE
<1>3. /\ Unused \in [Slots -> Key] /\ Unused \in [Slots -> Directories \cup {Nothing}]
      /\ Unlinked \in [Slots -> Link] /\ [s \in Slots |-> s + 1] \in [Slots -> Link]
      /\ [b \in Buckets |-> NONE] \in [Buckets -> Link] /\ NONE \in Link /\ 0 \in Link
      /\ 0 \in 0 .. Capacity
  BY <1>2 DEF Unused, Unlinked, Key, Link
<1>4. Cleared \in Pool
  BY <1>3 DEF Cleared, Pool
<1>5. \A link : Linked(link, NONE, {})
  <2> TAKE link
  <2>1. [s \in Slots |-> 0] \in [Slots -> Nat]
    OBVIOUS
  <2>2. Upward(link, {}, [s \in Slots |-> 0])
    BY DEF Upward
  <2>3. \E rank \in [Slots -> Nat] : Upward(link, {}, rank)
    BY <2>1, <2>2
  <2> QED BY <2>3 DEF Linked
<1>6. Ordered(Cleared, {})
  BY <1>5 DEF Ordered, Cleared
<1>7. Chained(Cleared, {})
  <2>1. \A b \in Buckets : Cleared.buckets[b] = NONE
    BY DEF Cleared
  <2> QED BY <1>5, <2>1 DEF Chained
<1>8. Linked(Cleared.older, Cleared.free, Slots)
  <2> DEFINE link == [s \in Slots |-> s + 1]
             rank == [s \in Slots |-> s]
  <2>1. rank \in [Slots -> Nat]
    BY <1>2
  <2>2. Upward(link, Slots, rank)
    BY <1>2 DEF Upward
  <2>3. 0 \in Slots \cup {NONE}
    BY <1>2
  <2>4. \A s \in Slots : link[s] \in (Slots \ {0}) \cup {NONE}
    BY <1>2
  <2>5. \A s, t \in Slots : link[s] = link[t] /\ link[s] # NONE => s = t
    BY <1>2
  <2>6. \A t \in Slots : t # 0 => \E s \in Slots : link[s] = t
    <3> SUFFICES ASSUME NEW t \in Slots, t # 0 PROVE \E s \in Slots : link[s] = t
      OBVIOUS
    <3>1. t - 1 \in Slots /\ link[t - 1] = t
      BY <1>2
    <3> QED BY <3>1
  <2>7. \E rk \in [Slots -> Nat] : Upward(link, Slots, rk)
    BY <2>1, <2>2
  <2> HIDE DEF link, rank
  <2>8. Linked(link, 0, Slots)
    BY <2>3, <2>4, <2>5, <2>6, <2>7 DEF Linked
  <2>9. Cleared.older = link /\ Cleared.free = 0
    BY DEF Cleared, link
  <2> QED BY <2>8, <2>9
<1>9. Cleared.size = Cardinality({}) /\ Slots \ {} = Slots
  BY FS_EmptySet DEF Cleared
<1> QED BY <1>1, <1>4, <1>6, <1>7, <1>8, <1>9 DEF Agree, Distinct

(* The operations keep the invariant.                                      *)
LEMMA FindKeeps ==
    ASSUME CacheInv, NEW k \in Directories \X Names, Find(k) PROVE CacheInv'
<1> DEFINE s == Locate(cache, k)
<1>1. Agree(cache) /\ cache \in Pool /\ op = Idle /\ op' = Idle /\ s \in Used(cache) \cup {NONE}
  BY LocateFinds DEF CacheInv, TypeOK, Find
<1>2. CASE s = NONE
  BY <1>1, <1>2 DEF Find, CacheInv, TypeOK
<1>3. CASE s # NONE
  <2>1. cache' = MakeMostRecent(cache, s) /\ answer' = cache.directory[s]
    BY <1>3 DEF Find
  <2> HIDE DEF s
  <2>2. s \in Used(cache) /\ s \in Slots
    BY <1>1, <1>3 DEF Used
  <2>3. Agree(cache')
    BY <1>1, <2>1, <2>2, MakeMostRecentAgrees
  <2>4. answer' \in Directories \cup {Nothing} /\ cache' \in Pool
    BY <1>1, <2>1, <2>2, <2>3 DEF Pool, Agree
  <2> QED BY <1>1, <2>3, <2>4 DEF CacheInv, TypeOK
<1> QED BY <1>2, <1>3

\* The directory that a name leads to is no part of the lists.
LEMMA RenewedAgrees ==
    ASSUME NEW c, Agree(c), NEW s \in Used(c), NEW d \in Directories
    PROVE  Agree([c EXCEPT !.directory[s] = d]) /\ s \in Used([c EXCEPT !.directory[s] = d])
<1> DEFINE r == [c EXCEPT !.directory[s] = d]
<1>1. c \in Pool /\ s \in Slots
  BY DEF Agree, Used
<1>2. /\ r \in Pool /\ r.key = c.key /\ r.next_in_bucket = c.next_in_bucket
      /\ r.buckets = c.buckets /\ r.free = c.free /\ r.size = c.size
      /\ r.older = c.older /\ r.newer = c.newer
      /\ r.most_recent = c.most_recent /\ r.least_recent = c.least_recent
  BY <1>1 DEF Pool
<1> HIDE DEF r
<1>3. Used(r) = Used(c) /\ Distinct(r)
  BY <1>2, SameNames DEF Agree
<1>4. Ordered(r, Used(c)) /\ Chained(r, Used(c)) /\ Linked(r.older, r.free, Slots \ Used(c))
  BY <1>2 DEF Agree, Ordered, Chained
<1>5. Agree(r)
  BY <1>2, <1>3, <1>4 DEF Agree
<1> QED BY <1>3, <1>5 DEF r

LEMMA AddKeeps ==
    ASSUME CacheInv, NEW k \in Directories \X Names, NEW d \in Directories, Add(k, d)
    PROVE  CacheInv'
<1>1. /\ Agree(cache) /\ op' = Idle /\ answer' \in Directories \cup {Nothing}
      /\ Capacity > 0 /\ k[2] \notin TooLong
  BY DEF CacheInv, TypeOK, Add
<1>2. Locate(cache, k) \in Used(cache) \cup {NONE}
  BY <1>1, LocateFinds
<1>3. ASSUME Agree(cache') PROVE CacheInv'
  BY <1>1, <1>3 DEF CacheInv, TypeOK, Agree
<1>4. CASE Locate(cache, k) # NONE
  <2> DEFINE s == Locate(cache, k)
             c == [cache EXCEPT !.directory[s] = d]
  <2>1. cache' = MakeMostRecent(c, s)
    BY <1>4 DEF Add
  <2>2. Agree(c) /\ s \in Used(c)
    BY <1>1, <1>2, <1>4, RenewedAgrees
  <2> HIDE DEF c, s
  <2>3. Agree(MakeMostRecent(c, s))
    BY <2>2, MakeMostRecentAgrees
  <2> QED BY <1>3, <2>1, <2>3
<1>5. CASE Locate(cache, k) = NONE
  <2> DEFINE c == IF cache.free = NONE THEN Release(cache, cache.least_recent) ELSE cache
  <2>1. cache' = Insert(c, k, d)
    BY <1>5 DEF Add
  <2>2. \A t \in Used(cache) : cache.key[t] # k
    BY <1>1, <1>5, LocateFinds
  <2>3. Agree(c) /\ c.free # NONE /\ \A t \in Used(c) : c.key[t] # k
    <3>1. CASE cache.free = NONE
      <4> DEFINE s == cache.least_recent
      <4>1. Slots \ Used(cache) = {}
        <5>1. Linked(cache.older, cache.free, Slots \ Used(cache))
          BY <1>1 DEF Agree
        <5>2. Slots \ Used(cache) # {} => cache.free \in Slots \ Used(cache)
          BY <5>1, LinkedStarts
        <5> QED BY <3>1, <5>2, SlotsFinite
      <4>2. 0 \in Slots
        BY <1>1, CacheAssumption DEF Slots
      <4>3. s \in Used(cache) /\ s \in Slots
        BY <1>1, <4>1, <4>2 DEF Agree, Ordered, Used
      <4> HIDE DEF s
      <4>4. /\ Agree(Release(cache, s)) /\ Used(Release(cache, s)) = Used(cache) \ {s}
            /\ Release(cache, s).free = s
            /\ \A t \in Used(cache) \ {s} : Release(cache, s).key[t] = cache.key[t]
        BY <1>1, <4>3, ReleaseAgrees
      <4>5. c = Release(cache, s)
        BY <3>1 DEF s
      <4> HIDE DEF c
      <4> QED BY <2>2, <4>3, <4>4, <4>5, SlotsFinite
    <3>2. CASE cache.free # NONE
      BY <1>1, <2>2, <3>2
    <3> QED BY <3>1, <3>2
  <2> HIDE DEF c
  <2>4. Agree(Insert(c, k, d))
    BY <2>3, InsertAgrees
  <2> QED BY <1>3, <2>1, <2>4
<1> QED BY <1>4, <1>5

LEMMA ForgetKeeps ==
    ASSUME CacheInv, NEW why \in {"Remove", "RemoveWithChildren"}, NEW d \in Directories,
           Forget(why, d)
    PROVE  CacheInv'
<1>1. /\ cache' = cache /\ answer' = answer /\ Agree(cache) /\ cache.most_recent # NONE
      /\ op' = [why |-> why, directory |-> d, slot |-> cache.most_recent]
  BY DEF Forget, CacheInv
<1>2. cache.most_recent \in Used(cache) /\ cache.most_recent \in Slots
  BY <1>1 DEF Agree, Ordered, Linked, Used
<1>3. op'.slot \in Used(cache) /\ op' \in Forgetting
  BY <1>1, <1>2 DEF Forgetting
<1> QED BY <1>1, <1>3 DEF CacheInv, TypeOK

LEMMA ForgetSlotKeeps == ASSUME CacheInv, ForgetSlot PROVE CacheInv'
<1> DEFINE s == op.slot
           o == cache.older[s]
<1>1. /\ op # Idle /\ op \in Forgetting /\ Agree(cache) /\ s \in Used(cache) /\ s \in Slots
      /\ answer' = answer /\ answer \in Directories \cup {Nothing}
      /\ cache' = IF Doomed(s) THEN Release(cache, s) ELSE cache
      /\ op' = IF o = NONE THEN Idle ELSE [op EXCEPT !.slot = o]
  BY DEF ForgetSlot, Proceed, CacheInv, TypeOK, Used
<1>2. o # NONE => o \in Used(cache) \ {s} /\ o \in Slots
  <2> SUFFICES ASSUME o # NONE PROVE o \in Used(cache) \ {s} /\ o \in Slots
    OBVIOUS
  <2>1. Linked(cache.older, cache.most_recent, Used(cache))
    BY <1>1 DEF Agree, Ordered
  <2>2. o \in Used(cache) /\ Used(cache) \subseteq Slots
    BY <1>1, <2>1 DEF Linked
  <2>3. PICK rank \in [Slots -> Nat] : Upward(cache.older, Used(cache), rank)
    BY <2>1 DEF Linked
  <2>4. rank[s] < rank[o] /\ rank[s] \in Nat
    BY <1>1, <2>3 DEF Upward
  <2> QED BY <2>2, <2>4
<1> HIDE DEF s, o
<1>3. Agree(cache') /\ (o # NONE => o \in Used(cache'))
  <2>1. CASE Doomed(s)
    <3>1. Agree(Release(cache, s)) /\ Used(Release(cache, s)) = Used(cache) \ {s}
      BY <1>1, ReleaseAgrees
    <3> QED BY <1>1, <1>2, <2>1, <3>1
  <2>2. CASE ~Doomed(s)
    BY <1>1, <1>2, <2>2
  <2> QED BY <2>1, <2>2
<1>4. op' \in Forgetting \cup {Idle} /\ (op' # Idle => op'.slot \in Used(cache'))
  BY <1>1, <1>2, <1>3 DEF Forgetting
<1> QED BY <1>1, <1>3, <1>4 DEF CacheInv, TypeOK, Agree

LEMMA CacheInvStep == ASSUME CacheInv, [Next]_vars PROVE CacheInv'
<1>1. CASE UNCHANGED vars
  BY <1>1 DEF vars, CacheInv, TypeOK
<1>2. CASE Clear
  <2>1. Agree(cache') /\ cache' \in Pool
    BY <1>2, ClearedAgrees DEF Clear, Agree
  <2> QED BY <1>2, <2>1 DEF Clear, CacheInv, TypeOK
<1>3. CASE Next
  BY <1>2, <1>3, FindKeeps, AddKeeps, ForgetKeeps, ForgetSlotKeeps DEF Next
<1> QED BY <1>1, <1>3

LEMMA InitCacheInv == Init => CacheInv
<1> SUFFICES ASSUME Init PROVE CacheInv
  OBVIOUS
<1>1. Agree(cache) /\ cache \in Pool
  BY ClearedAgrees DEF Init, Agree
<1> QED BY <1>1 DEF Init, CacheInv, TypeOK

LEMMA CacheInvAlways == Spec => []CacheInv
BY InitCacheInv, CacheInvStep, PTL DEF Spec

(* The fields of the pool and the links of its slots keep their types: a   *)
(* link leads to a slot of the pool or to no slot.                         *)
THEOREM TypeCorrect == Spec => []TypeOK
BY CacheInvAlways, PTL DEF CacheInv

(* For pools of any size, numbers of buckets and hash functions the lists  *)
(* agree: every slot is free or used and on the recency list, in the chain *)
(* of its bucket and in no other; both directions and both ends of the     *)
(* recency list fit, the size is right, and no name is kept twice.         *)
THEOREM ListsAlwaysAgree == Spec => []ListsAgree
<1>1. ASSUME CacheInv PROVE ListsAgree
  <2>1. /\ TypeOK /\ Agree(cache) /\ Ordered(cache, Used(cache)) /\ Distinct(cache)
        /\ Chained(cache, Used(cache)) /\ Linked(cache.older, cache.free, Slots \ Used(cache))
    BY <1>1 DEF CacheInv, Agree
  <2>2. Met(Recency(cache)) = Used(cache)
    BY <2>1, LinkedMet DEF Recency, Ordered
  <2>3. Met(Free(cache)) = Slots \ Used(cache)
    BY <2>1, LinkedMet DEF Free
  <2>4. ASSUME NEW b \in Buckets
        PROVE  Met(Chain(cache, b)) = {s \in Used(cache) : Hash[cache.key[s]] = b}
    <3> DEFINE B == {s \in Used(cache) : Hash[cache.key[s]] = b}
    <3>1. Linked(cache.next_in_bucket, cache.buckets[b], B)
      BY <2>1 DEF Chained
    <3> HIDE DEF B
    <3>2. Met(Walk(cache.next_in_bucket, cache.buckets[b])) = B
      BY <3>1, LinkedMet
    <3> QED BY <3>2 DEF Chain, B
  <2>5. cache.size = Cardinality(Used(cache))
    BY <2>1 DEF Agree
  <2>6. \A s, t \in Used(cache) :
          /\ (cache.older[s] = t) = (cache.newer[t] = s)
          /\ cache.key[s] = cache.key[t] => s = t
    BY <2>1 DEF Ordered, Distinct
  <2>7. \A s \in Used(cache) :
          /\ (cache.newer[s] = NONE) = (s = cache.most_recent)
          /\ (cache.older[s] = NONE) = (s = cache.least_recent)
    BY <2>1 DEF Ordered
  <2> QED BY <2>1, <2>2, <2>3, <2>4, <2>5, <2>6, <2>7 DEF ListsAgree
<1> QED BY <1>1, CacheInvAlways, PTL
=============================================================================
