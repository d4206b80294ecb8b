------------------------ MODULE FAT32DirectoryCache ------------------------
(***************************************************************************)
(* The cache of directory lookups (fat32_directory_cache.h): a pool of     *)
(* slots that is never enlarged, each either on the free list or both on   *)
(* the recency list and in the chain of its bucket.  The free list uses    *)
(* the links of the recency list.                                          *)
(*                                                                         *)
(* Callers hold the lock of the volume, so calls follow one another; a     *)
(* step is a call, or one turn of the loop that forgets a directory.  A    *)
(* name stands for its spellings that differ in case only, a directory for *)
(* its first cluster, with the entry's address and 8.3 name left out.  Of  *)
(* what is left in a free slot only the link is read again; the model      *)
(* forgets the rest.                                                       *)
(***************************************************************************)
EXTENDS Integers, Sequences, FiniteSets

CONSTANTS
    Directories,    \* first clusters
    Names,
    TooLong,        \* the names that are empty or over 255 characters
    Capacity,
    Buckets,
    Hash,           \* the bucket of a parent and a name
    Nothing         \* no directory

Slots == 0 .. Capacity - 1
NONE == Capacity

ASSUME CacheAssumption ==
    /\ Capacity \in Nat
    /\ TooLong \subseteq Names
    /\ Hash \in [Directories \X Names -> Buckets]
    /\ Nothing \notin Directories \cup (Directories \X Names)

VARIABLES
    cache,      \* the pool and the anchors of its lists
    op,         \* the call in progress, or Idle
    answer      \* what the last Find returned

vars == <<cache, op, answer>>

Link == Slots \cup {NONE}
\* A slot that is free holds no parent, name and directory.
Key == (Directories \X Names) \cup {Nothing}
Pool == [key : [Slots -> Key], directory : [Slots -> Directories \cup {Nothing}],
         newer : [Slots -> Link], older : [Slots -> Link],
         next_in_bucket : [Slots -> Link], buckets : [Buckets -> Link],
         most_recent : Link, least_recent : Link, free : Link, size : 0 .. Capacity]
Forgetting == [why : {"Remove", "RemoveWithChildren"}, directory : Directories,
               slot : Slots]
Idle == [why |-> "none"]
TypeOK ==
    /\ cache \in Pool
    /\ op \in Forgetting \cup {Idle}
    /\ answer \in Directories \cup {Nothing}

-----------------------------------------------------------------------------
\* Every slot is on the free list.
Unused == [s \in Slots |-> Nothing]
Unlinked == [s \in Slots |-> NONE]
Cleared ==
    [key |-> Unused, directory |-> Unused,
     newer |-> Unlinked, older |-> [s \in Slots |-> s + 1],
     next_in_bucket |-> Unlinked, buckets |-> [b \in Buckets |-> NONE],
     most_recent |-> NONE, least_recent |-> NONE, free |-> 0, size |-> 0]

Init ==
    /\ cache = Cleared
    /\ op = Idle
    /\ answer = Nothing

\* The slots met on the way from s along a link, in their order.
Walk(link, s) ==
    LET at[n \in 0 .. Capacity] ==
            IF n = 0 THEN s ELSE IF at[n - 1] = NONE THEN NONE ELSE link[at[n - 1]]
        Length == Cardinality({n \in 0 .. Capacity : at[n] # NONE})
    IN [n \in 1 .. Length |-> at[n - 1]]
Met(walk) == {walk[i] : i \in DOMAIN walk}

Chain(c, b) == Walk(c.next_in_bucket, c.buckets[b])
Recency(c) == Walk(c.older, c.most_recent)
Free(c) == Walk(c.older, c.free)

\* The first slot of its bucket's chain that holds the key.
Locate(c, k) ==
    LET chain == Chain(c, Hash[k])
        at == {i \in DOMAIN chain : c.key[chain[i]] = k}
    IN IF k[2] \in TooLong \/ at = {} THEN NONE
       ELSE chain[CHOOSE i \in at : \A j \in at : i <= j]

LinkAsMostRecent(c, s) ==
    LET linked == [c EXCEPT !.newer[s] = NONE, !.older[s] = c.most_recent,
                            !.most_recent = s,
                            !.least_recent = IF @ = NONE THEN s ELSE @]
    IN IF c.most_recent = NONE THEN linked
       ELSE [linked EXCEPT !.newer[c.most_recent] = s]

\* Faulty variant: the end of the list stays where it was.
Unlink_KeepsTheEnd(c, s) ==
    LET n == c.newer[s]
        o == c.older[s]
        above == IF n = NONE THEN [c EXCEPT !.most_recent = o]
                 ELSE [c EXCEPT !.older[n] = o]
    IN IF o = NONE THEN above ELSE [above EXCEPT !.newer[o] = n]
Unlink(c, s) ==
    LET n == c.newer[s]
        o == c.older[s]
        above == IF n = NONE THEN [c EXCEPT !.most_recent = o]
                 ELSE [c EXCEPT !.older[n] = o]
    IN IF o = NONE THEN [above EXCEPT !.least_recent = n]
       ELSE [above EXCEPT !.newer[o] = n]

\* Faulty variant: a name that is found keeps its age.
MakeMostRecent_Never(c, s) == c
MakeMostRecent(c, s) ==
    IF s = c.most_recent THEN c ELSE LinkAsMostRecent(Unlink(c, s), s)

Unchain(c, s) ==
    LET b == Hash[c.key[s]]
    IN IF c.buckets[b] = s THEN [c EXCEPT !.buckets[b] = c.next_in_bucket[s]]
       ELSE LET p == CHOOSE p \in Met(Chain(c, b)) : c.next_in_bucket[p] = s
            IN [c EXCEPT !.next_in_bucket[p] = c.next_in_bucket[s]]

\* Out of its chain and the recency list, and onto the free list.
Freed(c, s) ==
    [Unlink(Unchain(c, s), s) EXCEPT
        !.older[s] = c.free, !.free = s, !.newer[s] = NONE,
        !.next_in_bucket[s] = NONE, !.key[s] = Nothing, !.directory[s] = Nothing]
\* Faulty variant: the slot is not counted as free.
Release(c, s) == [Freed(c, s) EXCEPT !.size = @ - 1]

\* Take the first free slot.
Insert(c, k, d) ==
    LET s == c.free
        b == Hash[k]
        taken == [c EXCEPT !.free = c.older[s], !.key[s] = k, !.directory[s] = d,
                           !.next_in_bucket[s] = c.buckets[b], !.buckets[b] = s,
                           !.size = @ + 1]
    IN LinkAsMostRecent(taken, s)

-----------------------------------------------------------------------------
Find(k) ==
    /\ op = Idle
    /\ LET s == Locate(cache, k)
       IN IF s = NONE THEN answer' = Nothing /\ UNCHANGED cache
          ELSE answer' = cache.directory[s] /\ cache' = MakeMostRecent(cache, s)
    /\ UNCHANGED op

Add(k, d) ==
    /\ op = Idle
    /\ Capacity > 0 /\ k[2] \notin TooLong
    /\ LET s == Locate(cache, k)
       IN \/ /\ s # NONE
             /\ cache' = MakeMostRecent([cache EXCEPT !.directory[s] = d], s)
          \/ /\ s = NONE
             /\ cache' = Insert(IF cache.free = NONE
                                THEN Release(cache, cache.least_recent) ELSE cache, k, d)
    /\ UNCHANGED <<op, answer>>

Clear ==
    /\ op = Idle
    /\ cache' = Cleared
    /\ UNCHANGED <<op, answer>>

(* Remove, RemoveWithChildren: the loop of ReleaseIf over the recency list *)
(* begins, if there is anything on it.                                     *)
Forget(why, d) ==
    /\ op = Idle
    /\ cache.most_recent # NONE
    /\ op' = [why |-> why, directory |-> d, slot |-> cache.most_recent]
    /\ UNCHANGED <<cache, answer>>

Doomed(s) ==
    \/ cache.directory[s] = op.directory
    \/ op.why = "RemoveWithChildren" /\ cache.key[s][1] = op.directory

Proceed(s) == op' = IF s = NONE THEN Idle ELSE [op EXCEPT !.slot = s]
\* Faulty variant: only a slot that was released is left behind.
ForgetSlot_Stays ==
    /\ op # Idle
    /\ IF Doomed(op.slot)
       THEN cache' = Release(cache, op.slot) /\ Proceed(cache.older[op.slot])
       ELSE UNCHANGED <<cache, op>>
    /\ UNCHANGED answer
\* The link is read before the slot may go onto the free list.
ForgetSlot ==
    /\ op # Idle
    /\ cache' = IF Doomed(op.slot) THEN Release(cache, op.slot) ELSE cache
    /\ Proceed(cache.older[op.slot])
    /\ UNCHANGED answer

Next ==
    \/ \E k \in Directories \X Names :
        \/ Find(k)
        \/ \E d \in Directories : Add(k, d)
    \/ \E d \in Directories : Forget("Remove", d) \/ Forget("RemoveWithChildren", d)
    \/ Clear
    \/ ForgetSlot

Spec == Init /\ [][Next]_vars

\* The loop runs to its end under the lock of the volume.
FairSpec == Spec /\ WF_vars(ForgetSlot)

-----------------------------------------------------------------------------
(* Hash chains, recency list and free list agree: a slot is free, or used  *)
(* and in the chain of its key's bucket and in no other; both directions   *)
(* of the recency list and its ends fit; no name is kept twice (Release,   *)
(* Unlink, LinkAsMostRecent and Add change them piece by piece).           *)
ListsAgree ==
    LET used == Met(Recency(cache))
    IN /\ TypeOK
       /\ Met(Free(cache)) = Slots \ used
       /\ cache.size = Cardinality(used)
       /\ \A b \in Buckets :
            Met(Chain(cache, b)) = {s \in used : Hash[cache.key[s]] = b}
       /\ \A s, t \in used :
            /\ (cache.older[s] = t) = (cache.newer[t] = s)
            /\ cache.key[s] = cache.key[t] => s = t
       /\ \A s \in used :
            /\ (cache.newer[s] = NONE) = (s = cache.most_recent)
            /\ (cache.older[s] = NONE) = (s = cache.least_recent)

(* The cache is the map of the names used last: Find answers what was added *)
(* last under its name, the name that makes room is the one used longest   *)
(* ago, and Remove forgets every name of its directory (the comment on     *)
(* FAT32DirectoryCache).  A directory is forgotten, for the map, when the  *)
(* loop begins.                                                            *)
Forgotten(s) == op # Idle /\ Doomed(s)
Remembered == SelectSeq(Recency(cache), LAMBDA s : ~Forgotten(s))
EntryOf(s) == [parent |-> cache.key[s][1], name |-> cache.key[s][2],
               directory |-> cache.directory[s]]
Map == INSTANCE LeastRecentlyUsedMap
           WITH entries <- [i \in DOMAIN Remembered |-> EntryOf(Remembered[i])]
ImplementsMap == Map!Spec

\* Forgetting a directory ends, whatever the list holds.
ForgettingEnds == (op # Idle) ~> (op = Idle)
=============================================================================
