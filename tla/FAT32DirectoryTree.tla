------------------------- MODULE FAT32DirectoryTree -------------------------
(***************************************************************************)
(* The directories of a mounted volume as callers see them: a tree on the  *)
(* device, the cache of lookups and the generation of FAT32Filesystem, and *)
(* the handles (FAT32Directory) callers keep, each with the path, the      *)
(* entry's address and the first cluster it was opened with.               *)
(*                                                                         *)
(* The lock of the volume makes an operation one step, with every outcome  *)
(* it can have; a volume is followed until a failure leaves a chain with   *)
(* two entries or an entry on a free cluster.  What a free cluster holds,  *)
(* nobody reads until then, and the model forgets it.                      *)
(*                                                                         *)
(* A directory is one cluster of Indices places; an entry with the parts   *)
(* of its long name takes one place.  Which place and which alias an entry *)
(* gets, and what a failure leaves of one directory, is the matter of      *)
(* FAT32DirectoryCluster; which names a full cache gives up, that of       *)
(* FAT32DirectoryCache.  A file here is an entry without a chain.          *)
(***************************************************************************)
EXTENDS Integers, Sequences, FiniteSets

CONSTANTS
    Clusters,
    Root,           \* the root directory's cluster
    Indices,        \* the places of a directory
    Names,
    NewNames,       \* bound: the names entries are given
    FileNames,      \* bound: the names files are given
    Aliases,        \* the 8.3 names an entry may get with a name; {n} if n is one
    Capacity,       \* of the cache
    MaxDepth,       \* bound: names in a path
    Holders,        \* bound: the handles callers keep, besides the root's
    MaxFaults,      \* bound: failures that leave something behind
    Nothing         \* no entry, no place, no handle, no chain

ASSUME TreeAssumption ==
    /\ Root \in Clusters
    /\ Aliases \in [Names -> SUBSET Names]
    /\ Capacity \in Nat /\ MaxDepth \in Nat /\ MaxFaults \in Nat
    /\ IsFiniteSet(Names)
    /\ NewNames \subseteq Names /\ FileNames \subseteq Names
    /\ Nothing \notin Clusters /\ Root \notin Holders
    /\ Nothing \notin Holders

VARIABLES
    entries,    \* on the device: what is at the places of a directory
    dot_dot,    \* on the device: the parent in a directory's '..' entry
    allocated,  \* on the device: the clusters in use
    cache,      \* in memory: the place of a name in a directory, or Nothing
    handle,     \* what callers hold
    faults,     \* failures so far that left something behind
    damaged     \* one of them left a chain with two entries, or an entry
                \* on a free cluster

device == <<entries, dot_dot, allocated>>
vars == <<entries, dot_dot, allocated, cache, handle, faults, damaged>>

Paths == UNION {[1 .. n -> Names] : n \in 0 .. MaxDepth}
Keys == Clusters \X Names
Address == Clusters \X Indices
Place == [address : Address, first : Clusters]
RootPlace_Zero == [address |-> Nothing, first |-> 0]
RootPlace == [address |-> Nothing, first |-> Root]
Entry == [names : SUBSET Names, first : Clusters \cup {Nothing}]

(* valid: ValidateHandle need not look, because validated_at_generation_   *)
(* is the current generation, or the handle is the root's.                 *)
Handle == [path : Paths, address : Address \cup {Nothing}, first : Clusters,
           valid : BOOLEAN]

ASSUME NothingAssumption ==
    Nothing \notin Place /\ Nothing \notin Entry /\ Nothing \notin Handle

TypeOK ==
    /\ entries \in [Clusters -> [Indices -> Entry \cup {Nothing}]]
    /\ dot_dot \in [Clusters -> Clusters]
    /\ allocated \subseteq Clusters
    /\ cache \in [Keys -> Place \cup {Nothing}]
    /\ handle \in [Holders \cup {Root} -> Handle \cup {Nothing}]
    /\ faults \in 0 .. MaxFaults
    /\ damaged \in BOOLEAN

Empty == [i \in Indices |-> Nothing]
Forgotten == [k \in Keys |-> Nothing]

NewHandle(path, place) ==
    [path |-> path, address |-> place.address, first |-> place.first,
     valid |-> path = <<>>]
\* GetRootDirectory answers a handle at any time.
NoHandles == [h \in Holders \cup {Root} |->
                IF h = Root THEN NewHandle(<<>>, RootPlace) ELSE Nothing]

Init ==
    /\ entries = [c \in Clusters |-> Empty]
    /\ dot_dot = [c \in Clusters |-> Root]
    /\ allocated = {Root}
    /\ cache = Forgotten
    /\ handle = NoHandles
    /\ faults = 0
    /\ damaged = FALSE

-----------------------------------------------------------------------------
(* Looking up.                                                             *)

Directories(p) == {i \in Indices : entries[p][i] # Nothing /\ entries[p][i].first # Nothing}
Named(p, n) == {i \in Indices : entries[p][i] # Nothing /\ n \in entries[p][i].names}

\* FindDirectoryEntry for a directory; the entries of a directory differ in
\* their names.
OnDevice ==
    [k \in Keys |->
        LET found == Named(k[1], k[2]) \cap Directories(k[1])
            i == CHOOSE i \in found : TRUE
        IN IF found = {} THEN Nothing
           ELSE [address |-> <<k[1], i>>, first |-> entries[k[1]][i].first]]
Known(c) == [k \in Keys |-> IF c[k] # Nothing THEN c[k] ELSE OnDevice[k]]

(* A way leads along a path: the directories after the root, one for each  *)
(* name.                                                                   *)
At(way, i) == IF i = 0 THEN Root ELSE way[i]
Step(places, path, way, i) == places[At(way, i - 1), path[i]]
Leads(places, path, way) ==
    \A i \in DOMAIN way :
        LET s == Step(places, path, way, i)
        IN s # Nothing /\ way[i] = s.first
Ways(path) == UNION {[1 .. n -> Clusters] : n \in 0 .. Len(path)}
End(places, path, way) ==
    IF path = <<>> THEN RootPlace ELSE Step(places, path, way, Len(path))
Resolves(places, path, place) ==
    \E way \in [1 .. Len(path) -> Clusters] :
        Leads(places, path, way) /\ place = End(places, path, way)

\* The cache once keys have been looked up: it knows these too, unless that
\* is more than it can hold.
Kept(keys) ==
    IF Cardinality(keys) <= Capacity THEN {keys}
    ELSE {kept \in SUBSET keys : Cardinality(kept) = Capacity}
Caching(c, keys) ==
    {[k \in Keys |-> IF k \in kept THEN Known(c)[k] ELSE Nothing] :
        kept \in Kept(keys \cup {k \in Keys : c[k] # Nothing})}

(* GetDirectory of a path: the walk goes on as far as the names are known, *)
(* or stops where the device has to be read and the name is not there, or  *)
(* the device fails.  What was read on the way is cached.                  *)
Arrives(path, way) == Len(way) = Len(path)
Stops(c, path, way) == Step(c, path, way, Len(way) + 1) = Nothing
LookedUp(path, way) == {<<At(way, i - 1), path[i]>> : i \in DOMAIN way}
GetDirectory(c, path) ==
    UNION {{[place |-> IF Arrives(path, way) THEN End(Known(c), path, way) ELSE Nothing,
             cache |-> after] : after \in Caching(c, LookedUp(path, way))} :
           way \in {w \in Ways(path) : Leads(Known(c), path, w) /\ (Arrives(path, w) \/ Stops(c, path, w))}}

PlaceOf(h) == [address |-> h.address, first |-> h.first]

\* ValidateHandle: the caches it may leave behind when it accepts the
\* handle, and when it refuses it.
Accepted_Unseen(h) == {cache}
Accepted(h) ==
    IF h.valid THEN {cache}
    ELSE {g.cache : g \in {g \in GetDirectory(cache, h.path) : g.place = PlaceOf(h)}}
Refused(h) ==
    IF h.valid THEN {}
    ELSE {g.cache : g \in {g \in GetDirectory(cache, h.path) : g.place # PlaceOf(h)}}

-----------------------------------------------------------------------------
(* Handles.                                                                *)

Held(h) == handle[h] # Nothing
Validate(h) == [handle EXCEPT ![h].valid = TRUE]
\* The caller of h keeps the new handle as to, or lets it go.
Give(h, to, new) ==
    IF to \in Holders THEN [Validate(h) EXCEPT ![to] = new] ELSE Validate(h)
\* InvalidateDirectoryHandles
Invalidated_Not == handle
Invalidated ==
    [h \in DOMAIN handle |->
        IF Held(h) THEN [handle[h] EXCEPT !.valid = handle[h].path = <<>>] ELSE Nothing]

\* FAT32Filesystem::GetDirectory
OpenPath(path, to) ==
    /\ \E g \in GetDirectory(cache, path) :
        /\ cache' = g.cache
        /\ handle' = IF g.place = Nothing THEN handle
                     ELSE [handle EXCEPT ![to] = NewHandle(path, g.place)]
    /\ UNCHANGED <<device, faults, damaged>>

(* The operations of FAT32Directory on a handle h: ValidateHandle refuses  *)
(* it, or accepts it and leaves the cache c.                               *)
Refuse(h) ==
    /\ cache' \in Refused(handle[h])
    /\ UNCHANGED <<device, handle, faults, damaged>>

\* It fails before it changes anything on the device.
CallFails(h, c) ==
    /\ cache' = c
    /\ handle' = Validate(h)
    /\ UNCHANGED <<device, faults, damaged>>

\* FAT32Directory::GetDirectory
OpenName(h, c, n, to) ==
    LET k == <<handle[h].first, n>>
    IN /\ Known(c)[k] # Nothing
       /\ cache' \in Caching(c, {k})
       /\ Len(handle[h].path) < MaxDepth
       /\ handle' = Give(h, to, NewHandle(Append(handle[h].path, n), Known(c)[k]))
       /\ UNCHANGED <<device, faults, damaged>>

\* GetDirectory("."), which of the root is also "..".
OpenDot(h, c, to) ==
    /\ cache' = c
    /\ handle' = Give(h, to, NewHandle(handle[h].path, PlaceOf(handle[h])))
    /\ UNCHANGED <<device, faults, damaged>>

Front(path) == SubSeq(path, 1, Len(path) - 1)
OpenDotDot(h, c, to) ==
    /\ handle[h].path # <<>>
    /\ \E g \in GetDirectory(c, Front(handle[h].path)) :
        /\ cache' = g.cache
        /\ handle' = IF g.place = Nothing THEN Validate(h)
                     ELSE Give(h, to, NewHandle(Front(handle[h].path), g.place))
    /\ UNCHANGED <<device, faults, damaged>>

-----------------------------------------------------------------------------
(* Changes.                                                                *)

FreeClusters == Clusters \ allocated
FreePlaces(p) == {i \in Indices : entries[p][i] = Nothing}
NamesInUse(p) == UNION {entries[p][i].names : i \in {i \in Indices : entries[p][i] # Nothing}}
\* The entries CreateEntry may write for a name.
NewEntries(p, n, first) ==
    {[names |-> {n, a}, first |-> first] : a \in Aliases[n] \ NamesInUse(p)}

Broken(is_damaged) ==
    /\ faults < MaxFaults
    /\ faults' = faults + 1
    /\ damaged' = (damaged \/ is_damaged)
Sound == UNCHANGED <<faults, damaged>>

(* CreateDirectory: a free cluster is found (FAT32BlockIOAdapter says      *)
(* which), made an empty directory, claimed and entered.  When the name is *)
(* in use, or a step fails, the cluster is freed again, unless that fails  *)
(* too; an entry that could not be read back may stay.                     *)
CreateDirectory(h, c, n, to) ==
    LET p == handle[h].first
        path == Append(handle[h].path, n)
    IN /\ cache' = c
       /\ \E d \in FreeClusters :
          \/ /\ allocated' = allocated \cup {d} /\ Broken(FALSE)
             /\ handle' = Validate(h)
             /\ UNCHANGED <<entries, dot_dot>>
          \/ /\ path \in Paths /\ n \notin NamesInUse(p)
             /\ dot_dot' = [dot_dot EXCEPT ![d] = p]
             /\ \E i \in FreePlaces(p), e \in NewEntries(p, n, d) :
                /\ entries' = [entries EXCEPT ![d] = Empty, ![p][i] = e]
                /\ \/ /\ allocated' = allocated \cup {d} /\ Sound
                      /\ handle' = Give(h, to, NewHandle(path, [address |-> <<p, i>>,
                                                                 first |-> d]))
                   \/ UNCHANGED allocated /\ Broken(TRUE) /\ handle' = Validate(h)

\* DirectoryCache().Remove, RemoveWithChildren
Without_Children(c, d) == [k \in Keys |-> IF k[1] = d THEN Nothing ELSE c[k]]
Without(c, d) ==
    [k \in Keys |-> IF c[k] # Nothing /\ c[k].first = d THEN Nothing ELSE c[k]]
WithoutChildren(c, d) == [k \in Keys |-> IF k[1] = d THEN Nothing ELSE Without(c, d)[k]]

IsEmpty_NotAsked(d) == TRUE
IsEmpty(d) == entries[d] = Empty
(* RemoveDirectory: names and handles are invalidated before the entry     *)
(* goes, and that before the chain is freed; either may fail.              *)
RemoveDirectory(h, c) ==
    LET p == handle[h].address[1]
        i == handle[h].address[2]
        d == handle[h].first
    IN /\ handle[h].path # <<>>
       /\ i \in Directories(p) /\ entries[p][i].first = d
       /\ IsEmpty(d)
       /\ cache' = WithoutChildren(c, d)
       /\ handle' = Invalidated
       /\ \/ UNCHANGED device /\ Sound
          \/ /\ entries' = [entries EXCEPT ![p][i] = Nothing]
             /\ \/ /\ allocated' = allocated \ {d} /\ Sound
                   /\ dot_dot' = [dot_dot EXCEPT ![d] = Root]
                \/ UNCHANGED <<allocated, dot_dot>> /\ Broken(FALSE)

(* RenameDirectory, RenameFile.  Both entries stay when the creation of    *)
(* the new one fails late, or the removal of the old one and the rollback  *)
(* fail; none stays when the removal fails late.                           *)
Forget(h, c, first) ==
    IF first = Nothing THEN cache' = c /\ handle' = Validate(h)
    ELSE cache' = Without(c, first) /\ handle' = Invalidated
RenameEntry(h, c, n, m) ==
    LET p == handle[h].first
    IN /\ m \notin NamesInUse(p)
       /\ \E i \in Named(p, n), j \in FreePlaces(p) :
           \E e \in NewEntries(p, m, entries[p][i].first) :
            LET both == [entries EXCEPT ![p][j] = e]
            IN \/ /\ Forget(h, c, e.first)
                  /\ \/ entries' = [both EXCEPT ![p][i] = Nothing] /\ Sound
                     \/ UNCHANGED entries /\ Sound
                     \/ entries' = [entries EXCEPT ![p][i] = Nothing] /\ Broken(FALSE)
                     \/ entries' = both /\ Broken(e.first # Nothing)
               \/ /\ cache' = c /\ handle' = Validate(h)
                  /\ entries' = both /\ Broken(e.first # Nothing)
       /\ UNCHANGED <<dot_dot, allocated>>

\* CreateFile, and OpenFile that creates it; it may answer a failure.
CreateFile(h, c, n) ==
    LET p == handle[h].first
    IN /\ n \notin NamesInUse(p)
       /\ \E i \in FreePlaces(p), e \in NewEntries(p, n, Nothing) :
            entries' = [entries EXCEPT ![p][i] = e]
       /\ cache' = c
       /\ handle' = Validate(h)
       /\ UNCHANGED <<dot_dot, allocated, faults, damaged>>

DeleteFile(h, c, n) ==
    LET p == handle[h].first
    IN /\ \E i \in Named(p, n) \ Directories(p) :
            entries' = [entries EXCEPT ![p][i] = Nothing]
       /\ cache' = c
       /\ handle' = Validate(h)
       /\ UNCHANGED <<dot_dot, allocated, faults, damaged>>

\* The handles of a volume that was unmounted, or of before a power failure,
\* name a volume that is gone.
Remount ==
    /\ cache' = Forgotten
    /\ handle' = NoHandles
    /\ UNCHANGED <<device, faults, damaged>>

Call(h, c) ==
    \/ CallFails(h, c) \/ RemoveDirectory(h, c)
    \/ \E n \in FileNames : CreateFile(h, c, n)
    \/ \E n \in Names : DeleteFile(h, c, n) \/ \E m \in NewNames : RenameEntry(h, c, n, m)
    \/ \E n \in NewNames, to \in Holders \cup {Nothing} : CreateDirectory(h, c, n, to)
    \/ \E to \in Holders :
        \/ OpenDot(h, c, to) \/ OpenDotDot(h, c, to)
        \/ \E n \in Names : OpenName(h, c, n, to)

Next ==
    \/ Remount
    \/ /\ ~damaged
       /\ \/ \E path \in Paths, to \in Holders : OpenPath(path, to)
          \/ \E h \in DOMAIN handle :
                Held(h) /\ (Refuse(h) \/ \E c \in Accepted(handle[h]) : Call(h, c))

Spec == Init /\ [][Next]_vars

-----------------------------------------------------------------------------
(* Every cached name leads where the directory on the device says: no      *)
(* rename, removal or reuse of a cluster leaves a wrong answer behind      *)
(* (fat32_directory.cpp:460-463, 800-804).  Volumes with a chain two       *)
(* entries name are another matter.                                        *)
CacheAgreesWithDevice ==
    ~damaged => \A k \in Keys : cache[k] # Nothing => cache[k] = OnDevice[k]

(* A handle that passed ValidateHandle since a directory was last moved or *)
(* removed still is the directory at its path, by every name on the way.   *)
ValidHandlesResolve ==
    ~damaged => \A h \in DOMAIN handle :
        Held(h) /\ handle[h].valid => Resolves(OnDevice, handle[h].path, PlaceOf(handle[h]))

(* The directories are a tree: a directory is named by one entry, which is *)
(* in the directory its '..' names, and its cluster is in use; with no     *)
(* failure nothing else is in use, and every directory can be reached.     *)
IsTree ==
    LET Entered(d) == {a \in Address : a[1] \in allocated /\ a[2] \in Directories(a[1])
                                         /\ entries[a[1]][a[2]].first = d}
    IN ~damaged => \A d \in Clusters :
        /\ Entered(d) # {} => d \in allocated \ {Root}
        /\ \A a \in Entered(d) : Entered(d) = {a} /\ dot_dot[d] = a[1]
        /\ faults = 0 /\ d \in allocated => \E path \in Paths : \E way \in Ways(path) :
              /\ Arrives(path, way) /\ Leads(OnDevice, path, way)
              /\ d = At(way, Len(way))

(* No operation through whatever handle writes an entry into a cluster     *)
(* that is not in use, or is not in use any longer (the test at            *)
(* fat32_directory_test.cpp:862); a cluster is emptied before its use.     *)
EntriesGoToDirectories ==
    [][~damaged => \A c \in Clusters :
        entries'[c] # entries[c] => c \in allocated \/ entries'[c] = Empty]_vars
=============================================================================
