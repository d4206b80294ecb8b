# A TLA+ model of the FAT32 filesystem

This directory holds TLA+ modules that model the FAT32 filesystem of this
repository, TLC configurations that check them on small volumes, and proofs,
checked by TLAPS, of the properties that matter most. `PROJECT.json` is the
index: components, runs, the source lines behind every definition, hazards,
findings, theorems, and for every checked property a plausible bug that breaks
it (the operators named `X_Variant` in the modules).

## The system

The repository is a FAT32 driver for a bare-metal kernel: C++ without an
operating system below it, several tasks above it. A call enters at
`FAT32Directory` or `FAT32File`, takes the lock of its volume, and ends before
the lock is given back; below the lock everything is sequential code on a block
device that may fail at any access. Only two things are shared by tasks without
that lock: the volumes themselves, which are looked up before they are locked,
and the map of open files, which has a lock of its own.

| component | state it keeps | operations | what makes it correct |
|---|---|---|---|
| block IO adapter, FAT side (`fat32_blockio_adapter`) | on the device: the copies of the FAT, FSInfo; in memory: the high-water mark of the allocator, whether FSInfo was invalidated, the mirroring flag | NextClusterInChain, PreviousClusterInChain, UpdateFATTableEntry, FindNextEmptyCluster, ReleaseChain | copies agree in every block an update answered SUCCESS for; FSInfo is never wrong; the allocator answers free clusters and finds every one; loops end on damaged tables |
| geometry (Mount, conversions to sectors) | the fields of the boot record | Mount, FATClusterToSector, FATEntryToSector | every cluster of an accepted volume lies in the partition, its entry in the FAT, no 32-bit sum wraps |
| open files (`fat32_file`) | current cluster, offset in it, offset in the file, a copy of size and first cluster | Seek, SeekEnd, Read, Write, Append, Close | bytes stay where they were written; chains never meet, never lead into free clusters, never leak while the device works |
| directories (`fat32_directory`) | a handle: first cluster, entry address, path, generation | OpenFile, DeleteFile, CreateDirectory, RemoveDirectory, RenameEntry, GetDirectory, GetEntry, VisitDirectory | a name leads to one object; a handle that is accepted is the directory at its path; the directories are a tree; a partly failed operation leaves no entry that names free clusters, no two entries on one chain |
| directory clusters (`fat32_directory_cluster`) | slots: long-name parts, short entry, deleted, end marker | CreateEntry, RemoveEntry, FindDirectoryEntry, iteration, AddNewCluster | an entry is complete or absent; the end marker ends the directory; names are unique |
| filesystem object (`fat32_filesystem`) | adapter, cache, lock, directory generation | Mount, Lock, GetDirectory (path resolution) | handles of removed, renamed or replaced directories are refused |
| path cache (`fat32_directory_cache`) | a fixed pool of nodes in hash buckets and a recency list | Find, Add, Remove, RemoveWithChildren, Clear | a least-recently-used map; never an answer that a rename or removal made wrong |
| open file map, locks (`file_map`, `filesystem_lock`) | open files by UUID, their identities and modes; a recursive lock per volume, a lock for the map | AddFile, RemoveFile, IsFileOpen, GetFileByUUID | a writer excludes every other handle of the same entry; an open file keeps its entry; locks are taken volume first, map second |
| partitions (`master_boot_record`) | the list of partitions being built | GetPartitions | FAT32 partitions that can be mounted, in order, each once, the first boots |
| names and paths (`fat32_filenames`, `filesystem_path`) | none | parsing, short names, numeric tails, checksums | two entries never get one short name |
| dates, result codes | none | decoding | plain data |

External to the repository's core and not modelled beyond what the code uses:
the block device, the registry of OS entities, the allocator and containers.

What is hard to test here: any device access may fail or be the last before
power is lost, and each multi-step update (claim, link, enter, remove, release)
must leave something sane at every point; boundaries (end of a cluster, end of
a FAT block, end of the volume, a full volume) are met only with particular
sizes; damaged volumes contain cycles; handles, caches and the high-water mark
are memory of something the device holds, and every change has to invalidate
what it makes wrong; tasks meet between the lookup of a volume and its lock, and
between two accesses to the map; a boot record is a dozen numbers whose sums and
products have to be right before anything is read.

## Modules

* `FatEntries` - the values of a FAT entry and the tests on them. Clusters are
  `2 .. MaxCluster`; the 28-bit special values become two values above them in
  the code's order.
* `FatTable` - the abstract table: one outstanding call, which may fail before
  or after it took effect, never touches another entry, and answers success
  only when its whole effect is there.
* `FAT32BlockIOAdapter` - the adapter, one step per device access. `fat` and
  `fsinfo` are on the device; `fsinfo_invalidated` and `last_empty_cluster`
  are the fields of those names; `op`, `pc`, `cluster`, `value`, `fat_index`,
  `buffered`, `wrapped` and `steps` are the call in progress and its locals.
  An action is one turn of a loop, or one access with its two outcomes.
  `Remount` is a power failure or an unmount followed by a mount.
* `FAT32File` - the open files of one directory, with the parts of
  `FAT32Directory` that create, delete and update their entries. The table is
  the one `FatTable` describes: an update succeeds, fails before it took
  effect, or, with mirrored FATs only, fails after. `handle` is `FAT32File`'s
  fields; `exists`, `first` and `size` are the entries on the device; `op` is
  the operation in progress. A byte of data is the pair of file and offset it
  was written for, so that "the right byte" can be said.
* `FAT32DirectoryCluster` - the entries of one directory: creation (of files and
  of directories), removal and renaming, with the search for a hole of free
  slots, the growth of the directory and the choice of the alias. `slot`,
  `clusters` and `allocated` are on the device: the slots by their distance
  from the directory's start, how many clusters are linked, which clusters
  entries may lead to are allocated. `op` is the operation in progress: its
  `step` is the place in `CreateEntry`, `RemoveEntry` or `RenameEntry`, `start`,
  `marker` and `at` are the iterators' positions. A step is one access to the
  device with its two outcomes, or one scan. A name is an alias (a basis and a
  numeric tail) or a long name, of which only the number of its parts and the
  alias it leads to count. The checksum a long-name slot carries is the alias
  it was computed from. With mirrored FATs (`Mirrored`) the link to a new cluster
  may fail after it reached the active FAT; the rollback then frees a cluster the
  directory leads to, which is `lost` from then on. Its next owner writes there
  (`OverwriteLost`), of which the directory sees slots that are none of its own;
  `loose` says that the last cluster is lost and has not been given away yet.
* `LeastRecentlyUsedMap` - what the path cache promises: a sequence of names
  with their directories, the most recently used first.
* `FAT32DirectoryCache` - the path cache, with its hash chains, its recency list
  and its free list in one pool of slots; `cache` holds the fields of the class
  and of its slots. A call is a step, except that `Remove` and
  `RemoveWithChildren` go over the recency list one slot at a time (`op`). It
  implements `LeastRecentlyUsedMap` under a mapping that forgets a directory
  when its loop begins.
* `FAT32DirectoryTree` - the directories of a volume as its callers see them.
  On the device: `entries` (what is at the places of each directory), `dot_dot`
  and `allocated`. In memory: `cache`, the lookups `FAT32Filesystem` remembers,
  and `handle`, the `FAT32Directory` objects callers keep, each with its path,
  the address of its entry and its first cluster. Of the generation numbers only
  their comparison counts: `valid` says that a handle was validated at the
  current generation. An operation is one step with all its outcomes: what a
  failure may leave (a lost cluster, two entries on a chain, no entry) is what
  `FAT32DirectoryCluster` shows step by step. `GetDirectory(cache, path)` is
  the set of answers of a resolution with the caches it may leave, for a device
  that may fail and a cache that may be full.
* `OpenFileMap` - tasks that call the filesystem at the same time. `owner` and
  `map_owner` are the holders of the locks, `records` the map of open files,
  `call` each task's stack of calls: a call made under another (`Append` calls
  `SeekEnd` and `Write`, the callback of `VisitDirectory` calls back in) is a
  frame on it. A step is what happens between two points at which another task
  may come in; the test and the insertion of `AddFile` are two steps.
* `FAT32Mount` - from the master boot record to sectors: `GetPartitions` one
  slot at a time, `Mount` with every check it makes, and the sectors the adapter
  computes for a cluster, a FAT entry and its mirrors. `MaxWord` is the largest
  32-bit number: a checked sum or product is refused when it exceeds it.
* `FAT32BlockIOAdapter_proofs`, `FAT32File_proofs`, `FAT32FileContents_proofs`
  (on top of it: what chains hold, and which clusters are in use),
  `FAT32DirectoryCluster_proofs`, `FAT32DirectoryCache_proofs`,
  `FAT32DirectoryTree_proofs`, `OpenFileMap_proofs`, `FAT32Mount_proofs` -
  theorems.
* `MCBlockIOAdapter`, `MCFile`, `MCDirectoryCluster`, `MCDirectoryCache`,
  `MCDirectoryTree`, `MCOpenFileMap`, `MCMount` - the tables, names, boot
  records and symmetry TLC uses.

`FAT32File` does not instantiate the adapter: it uses the interface the adapter
is proved to implement (`AdapterImplementsFatTable`). `UpdateFATTableEntry` in
`FAT32File` has exactly the outcomes `FatTable` leaves: `ApplyUpdate` then
`Succeed`, `Fail`, or `ApplyUpdate` then `Fail`.

The four views of a directory operation fit together in the same way. That an
operation on a volume is not interleaved with another is what `OpenFileMap`
shows of the locks (`OneTaskPerVolume`), and the other modules take it from
there; that the file at an address is the one an
open handle was given is `OpenFilesStay`, which `FAT32File` relies on in
`DeleteFile`. `FAT32DirectoryTree` takes the outcomes of `CreateEntry` and
`RemoveEntry` from `FAT32DirectoryCluster` and the forgetting of names from
`LeastRecentlyUsedMap`, except for which name a full cache gives up: any.

## Runs

| run | module | bounds | shows |
|---|---|---|---|
| `adapter` | `MCBlockIOAdapter` | 4 clusters over two FAT blocks, 2 FATs, 5 initial tables (sane, full, cyclic, with a defective entry and with chains into free entries), 2 calls | all nine properties of the adapter, with refinement and liveness |
| `adapter_boundary` | `MCBlockIOAdapter` | last cluster is the last entry of a block | finding: the search fails instead of wrapping |
| `file` | `MCFile` | 2 files, 4 clusters (one is the directory's) of 2 bytes, reads and writes of up to 3 bytes, calls of `Append`, largest file 4 bytes, FATs without mirrors, one failure or crash | the properties of files; appends start at the end |
| `file_loops` | `MCFile` | 1 file, files opened for append or not, mirrored FATs, two failures | all loops end, also on chains that a half-done mirrored update damaged |
| `file_mirrored` | `MCFile` | as `file`, mirrored | finding: a rolled back link leaves the chain on a free cluster |
| `directory` | `MCDirectoryCluster` | 3 clusters of 3 slots; an 8.3 name, a long name of one part with the same alias, a long name of four parts that needs a numeric tail; one directory object; mirrored FATs; one failure of the device or of the power | the properties of one directory, while it runs into no lost cluster |
| `directory_free_cluster` | `MCDirectoryCluster` | the same, without mirrors | finding: an entry is left on a freed cluster |
| `directory_rename` | `MCDirectoryCluster` | the same, without mirrors | finding: a failed rename loses the entry |
| `directory_cache` | `MCDirectoryCache` | 3 slots, 2 buckets, 2 directories with 2 names each and a name that cannot be kept | the lists of the cache agree, it implements the map, forgetting ends |
| `directory_tree` | `MCDirectoryTree` | the root and 2 clusters, 2 entries in a directory, a name of its own alias and a long name with another, paths of 2 names, a cache of 2, a handle besides the root's, one failure | cached names, accepted handles and the tree stay right |
| `open_files` | `MCOpenFileMap` | 2 tasks, 1 volume, 2 entries, 2 open files, callbacks one deep | one task at a time on a volume, writers exclude others, open files stay, no circle of waiting tasks |
| `mount` | `MCMount` | 2 slots, words up to 15, 3 FAT entries in a block, clusters of 1, 2 or 4 sectors, boot records around every limit | accepted volumes fit, the list is in order |

Why these bounds are enough to meet the interesting cases. Two clusters per cell
of the case analysis are needed: with two blocks of FAT entries the search
crosses a block and wraps, with two FATs a mirror can fall behind, with two
calls a call meets what an interrupted one left (every initial table stands for
the history before). Two bytes per cluster give writes that start, end, or do
neither at a cluster boundary; three data clusters for two files of at most two
clusters give a full volume in the middle of a write and reuse of freed
clusters; the largest file size is below the volume's. One failure leaves every
intermediate state of every operation behind; `file_loops` adds a second failure
on the state the first one left. That an append starts at the end is checked for
calls of `Append`; a `Write` to a file that was opened for append seeks in the
same way, and `AppendsStartAtTheEnd` is proved for both. `MaxCalls`,
`MaxFaults`, `MaxOpen`, `MaxLength` and `SeekTargets` bound the environment, not
the code. A `Remount` with an operation in progress counts as a failure; one
between operations does not.

In a directory with three slots per cluster a name of four parts crosses one
boundary or two, its hole needs all three scans, and nine slots are few enough
that the directory fills up; the names collide in their alias, so that a tail
has to be searched; deletions in any order leave holes of every size, orphaned
runs included.

A cache of three slots has a first, a middle and a last slot on the recency list
and in the chain of a bucket; the fourth name makes it give one up.

With two clusters below the root a directory can hold another, be replaced by
one with the same name, the same entry, or the same cluster, and a handle to it,
or to what was below it, be used after any of that. Two names that lead to one
directory (a long name and its alias) are both cached; a third lookup makes the
cache give one up. A failure in that run is one that leaves something behind.

Two tasks and one volume meet at every lock; one level of callbacks, with the
nesting of `Append`, makes stacks of three calls; two open files let one entry
be opened twice. A second volume adds no interaction while callbacks stay on
theirs (see below); that is left to the proofs, which are for any number.

A word of 15 makes every sum and product of Mount overflow with fields that are
still few: the boot records of the run differ in each field across each limit.
The proof of `MountedVolumesFit` is for any word size, 32 bits included.

`CHECK_DEADLOCK FALSE` appears only in the adapter's runs, where behaviours end
when `MaxCalls` is used up under `Spec` without `Remount` being required.

Fairness. `FairSpec` adds weak fairness of `Step` only: a call that has begun
is straight-line code and loops that hold the processor and the volume's lock,
and nothing waits (for the cache: of `ForgetSlot`, the turn of its loop). No
fairness is assumed of callers, of remounts, or of a device access succeeding:
the failed outcome also is a step.

## Properties

Adapter: `FSInfoNeverContradictsFAT`, `SuccessReachesEveryCopy`,
`InactiveFATsUntouched`, `AllocatedWasFree`, `AllocatorSeesEveryFreeCluster`,
`PreviousAnswersAreRight`, `EveryCallReturns`, `ImplementsFatTable`.

Files: `NoLinkToFreeCluster` and `NoCrossLinks` hold at every step whatever
fails (without mirroring; see the findings). `EveryByteInPlace`,
`NothingLeaks` and `HandlesKnowTheirEntry` are claimed
while no access has failed: after a failure the code may leak clusters and a
handle may know a size the device does not. `StoredBytesSurvive` is the promise
that remains after failures: bytes that were in place below the size on the
device stay so until their file is deleted. `AppendStartsAtTheEnd` is about the
arithmetic of positions at cluster boundaries, whatever failed before as long as
FATs are not mirrored; with mirrors it is claimed while nothing has failed.
`EveryCallReturns` is about the same boundaries and about chains that a failure
damaged, a half-done mirrored update included.

Directories: `EndsWithMarker`, `OthersSurvive` and `AliasesAreUnique` hold at
every step whatever fails, while the directory is `whole`: it leads to no
cluster that a rollback freed (finding 1). Once it does, entries written there
are at the mercy of the cluster's next owner, and nothing is claimed of them.
Without mirrors a directory stays whole (theorem `UnmirroredStaysWhole`), and
with them all but this one place of failure is covered.
`LongNamesLeadToTheirEntry` ties the three parties to a long name together: the
parts on the device, the entry they stand before, and what a lookup by that name
finds. It and `FailsForAReason` are claimed while nothing has failed: a failure
leaves parts of long names behind (see the known limits), and it is itself a
reason. `RenameLeavesOneAtMost` is about a rename that met at most one failure.

Directory tree: `CacheAgreesWithDevice` and `ValidHandlesResolve` are about the
two things kept in memory of what the device holds: no sequence of renames,
removals and reuses of a cluster, through whatever handle, leaves a cached name
or an accepted handle that leads elsewhere than the device. `IsTree` says that
each directory is named once, in the directory its `..` names, on a cluster in
use, and, while nothing failed, that nothing else is in use.
`EntriesGoToDirectories` is the point of it all: no step writes entries into a
cluster that is not a directory's. All are claimed until a failure has left two
entries on one chain or an entry on a free cluster (`damaged`), which findings 3
and 4 show to be possible.

Open files: `OneTaskPerVolume` is what the volumes' recursive lock is for: with
calls taking it again, callbacks under it and waits for the map's lock in
between, no two tasks hold it, and none keeps it. `WritersExcludeOthers` relates
the test of `AddFile` to the insertion, with every other task between them;
`OpenFilesStay` relates the check of `DeleteFile` and `RenameEntry` to the
change they make later, and a file found in the map to its use after the map's
lock was given back; `NobodyWaitsInACircle` is the absence of deadlock, for
every set of tasks.

Mount: `MountedVolumesFit` relates what Mount accepts to what the adapter
computes later from the fields it kept; `ListIsInOrder` what is listed to the
table, also when a slot fails.

Path cache: `ListsAgree` is the structure every piecewise change of the links
has to restore, `ImplementsMap` is the promise; `ForgettingEnds` is about the
loop that releases slots from the list it walks.

## Findings

1. *A rolled back link may leave the chain on a free cluster*
   (`file_mirrored`). `Write` claims a cluster, links it, and if the link fails
   frees it again. With mirrored FATs a failed link may have reached the FAT
   readers use; the rollback then frees a cluster the chain points at, against
   the comment at `fat32_file.cpp:346` and the assertion at
   `fat32_file_test.cpp:286`, whose test fails the first write only. A directory
   that grows does the same (`AddNewCluster`,
   `fat32_directory_cluster.cpp:910-919`, against the comment at `:906`); in
   `FAT32DirectoryCluster` it is `LinkNewCluster` followed by
   `ReleaseNewCluster`.
2. *The allocator does not wrap on some volumes* (`adapter_boundary`). If the
   last cluster's entry is the last of a FAT block, the scan tries to read the
   next block before it tests for the end of the volume, and the range check
   refuses. Such volumes exist: the FAT, not the data region, limits the
   clusters. Clusters freed below the high-water mark are then not reused until
   the next mount, contrary to the comment at
   `fat32_blockio_adapter.cpp:528-530`.
3. *An entry is left on a freed cluster* (`directory_free_cluster`). When the
   new entry cannot be read back, `CreateEntry` removes it; if that fails too,
   or if it is the read of the next cluster that fails after the entry was
   written, `CreateDirectory` frees the cluster although the entry is there,
   against the comment at `fat32_directory_cluster.cpp:442-444`.
4. *A failed rename can lose the entry* (`directory_rename`). If the removal of
   the old entry deletes its slot and then fails on the cluster before it,
   `RenameEntry` removes the new entry as well: none is left, against
   the test at `fat32_directory_test.cpp:368`.

Known limits, met while modelling, that no run checks:

* A write that fails in its second cluster leaves the handle beyond the size;
  `Size() - byte_offset_into_file_` then wraps and a read takes bytes of the
  clusters' tail, other than the comment at `fat32_file.cpp:165` says.
* Parts of a long name that a failure left carry the checksum of an alias; when
  the next entry gets that alias and the slot behind them, it answers to their
  name (`fat32_directory_cluster.h:1462`), other than the comment at
  `fat32_directory_cluster.cpp:1300` says.
* A handle to a directory that was removed and replaced by one with the same
  path, entry and first cluster is accepted: it is the new directory's in
  everything the code compares; the test at `fat32_directory_test.cpp:133-135`
  says that no on-disk check can tell them apart. `ValidHandlesResolve` allows
  it: such a handle does lead where its path does.
* A directory that another driver filled to the last slot has no end marker, and
  there a hole at the very end is refused
  (`fat32_directory_cluster.cpp:815-820`). Directories this driver made always
  have one (`EndsWithMarker`), so the models start there.
* The locks of two volumes have no order. A callback of `VisitDirectory` that
  calls into another volume, while one there calls into this, waits forever;
  `filesystem_lock.h:70` lets callbacks call back in and does not say where. In
  `OpenFileMap` they stay on the volume they visit.
* `Lock` looks the volume up and then locks it (`fat32_filesystem.h:169-178`);
  the comment above it says it does both in one step. Nothing in the repository
  unmounts a volume but the registry's owner, who, in the model, waits for the
  calls on it (`IsBusy`).
* Mount compares the volume with its partition, not with the device or with
  other partitions, and does not keep cluster numbers below the mark of a
  defective cluster, which only a volume beyond FAT32's own limit would reach.

`FAT32File` contains the consequences of 1 (with `Mirrored`) and 2 (`NoneFrom`:
a search may fail although clusters below its start are free), and
`FAT32DirectoryCluster` those of 1.

## Proofs

All theorems are for every value of the constants that satisfy the modules'
`ASSUME`s (any number of clusters, files, FATs, entries per block, bytes per
cluster, any set of initial tables, any number of slots, names, handles and
failures). Some assumptions are there for the proofs, and each is what the code
or its format guarantees: `LongNameAssumption` (a name of 20 parts and its alias
fit into two clusters: a cluster has at least one sector of 16 entries),
`NothingAssumption` and the last conjunct of `CacheAssumption` (the value that
marks an absent thing is none of the things), and that the names a directory or a
file is created with are among those that can be looked up.

* `TypeCorrect` (one in each proof module). The type invariant is not inductive
  by itself: `TypeInv` adds the bounds on `cluster` and `steps` at each place of
  a call, respectively that an operation's file is a file.
* `FSInfoCorrect`: `FSInfoInv` adds that once `pc` is past the invalidation
  (`active`, `mirror`) or the flag is set, FSInfo holds no count.
* `MirroringCorrect`: `MirrorInv` says that the copies before `fat_index` agree
  with the active one in the block being written. Copies need not have agreed
  before: the loop writes whole blocks.
* `AllocatorCorrect`: `SearchInv` says that the buffered block is the block of
  the cluster looked at; it needs that a cluster and its successor share a
  block unless the successor is a multiple of the block's entries.
* `AllocatorComplete` assumes `(MaxCluster + 1) % EntriesPerBlock # 0`: where the
  last cluster's entry ends a block, finding 2 is the counterexample.
  `CompleteInv` says that a search that has wrapped has seen no free cluster
  below the one it looks at.
* `PreviousCorrect`: `WalkInv` says that there is a trail of `steps` clusters,
  each linked to the next, to the one looked at. A trail longer than the volume
  has clusters meets one twice, by the pigeonhole principle, so a chain that is
  called corrupt has a cycle.
* `AdapterImplementsFatTable`: step simulation, one case per action, under the
  refinement mapping `Table`: an update has happened, for the table, from the
  moment the active FAT was written.
* `ChainsNeverReachFreeClusters`, `ChainsNeverCross` (assuming `~Mirrored`):
  the inductive invariant `ChainInv` speaks of every cluster something names -
  an entry, a link, or the pending cluster of the operation: it is allocated,
  named once, and not the directory's. The pending cluster has to be included
  because between claim and link, and between the removal of an entry and the
  release of its chain, only the operation knows it.
* `AppendsStartAtTheEnd`: `ContentInv` relates each handle to the chain of its
  file: every chain is as long as its size says, and a handle's cluster is the
  one its position falls into, with the exception that a position at the end of
  a cluster may be on either side of the boundary. It holds whatever fails,
  short of a mirrored update that failed half way (finding 1).
* `StoredBytesAreKept` (assuming `~Mirrored`) is an action property: from
  `ContentInv` and `ChainInv`, a step changes the table only at free clusters, at
  clusters nothing names, or at the last one of a chain (`TableChanges`), and a
  walk that meets none of these is the same before and after (`WalkFrame`).
* `HandlesKnowEntries`, `BytesAreInPlace`: `ByteInv`, while nothing has failed,
  adds that every byte below the size and below the position of an open handle
  is in its place: in the middle of a write a handle is past the end of its file.
* `NothingIsLeaked`: `Used` says that a cluster in use is the directory's, in a
  file's chain, the one an operation has claimed and not yet named, or in the
  rest of the chain that is being released (`WalkFreed`).
* `DirectoryEndsWithMarker`, `OperationsKeepOthers`, `TypeCorrect` of
  directories: `SlotInv` adds to the end marker's invariant what each place of
  an operation relies on. The one that matters is `Running`: while a run is
  written, its remaining slots are empty, the slot behind it exists, and if the
  run takes the end marker, all behind it is free. It follows from the hole's
  definition when the scan finds it (`ScanFindsStep`), and each cluster written
  keeps it (`WriteRunStep`). `HasNew`, `HasOld` and `HasAt` say that what is to
  be deleted lies before the end marker. All this is an invariant while the
  directory is whole. `TypeInv`, which bounds what is lost and says that it was
  lost by mirrored FATs (`LostByMirror`), is one always, and the theorems' first
  step is that the directory was whole until now if it is so now (`LostForGood`,
  `WholeInvAlways`): no step gives a lost cluster back. `UnmirroredStaysWhole`
  follows from `LostByMirror` and frees the theorems of their condition where
  FATs are not mirrored.
* `AliasesStayUnique`: `AliasInv` adds that the alias chosen in `Lookup` is no
  other entry's until the entry is written. It relies on `OperationsKeepOthers`:
  no entry appears behind its back.
* `LongNamesLead`, `FailuresHaveReasons`, `RenamesLeaveOne` share one invariant,
  `RunInv` and, while nothing has failed, `CleanInv`. `RunsWhole`: every entry
  with a long name has its run. `SoFar`: the run being written is right up to
  where the writing is. `Trying`: the clusters that were added are still free,
  and so is the slot before them, so the third scan finds a hole for a name that
  fits into two clusters (`HoleExists`). `OldStays`, `RollingBack` and
  `RemovesRun`: a rename removes its old entry first and its new one only after
  a failure, and what is removed is an entry or what is left of a run whose next
  slot is already deleted - this is why a removal never eats into the run of
  another entry (`RunDeleted`). `Followed`: while nothing has failed, a part of
  a long name is followed by the next part or its entry, except at the place of
  the operation; it makes the run before an entry that entry's own (`RunIsOwn`),
  which with `NamesDiffer` and `NameIsFree` gives that the new entry is found
  again.
* `ListsAlwaysAgree`: the invariant `Agree` says of each list that it is
  `Linked`: its links stay in a set of slots, no two lead to one slot, every slot
  but the first is led to, and there is a rank that grows along the links. From
  this a walk meets exactly that set (`LinkedMet`): it does not turn back because
  of the rank, is no longer than the pool by the pigeonhole principle, and misses
  no slot because the missed one of the least rank would have one before it that
  is met. Four lemmas say what insertion in front, removal of the first, bypassing
  a slot and changes elsewhere do to a list; `Unlink`, `Unchain`, `Release`,
  `Insert` and `MakeMostRecent` are combinations of them.
* `CacheIsRight`, `HandlesResolve`, `DirectoriesAreATree`,
  `EntriesStayInDirectories`: `TreeInv` says that, until the tree is damaged,
  the device is sound (names differ, one entry leads to a directory, `..` leads
  back), what is cached is what is on it, and a handle that is valid leads where
  its path does. An operation changes what resolving a path reads only at the
  name it is about, and one that takes a name away invalidates the handles.
  `IsTree`'s last part needs a way down to every directory; a way is a function,
  and removing a leaf breaks no way to another directory.
* `OneTaskPerVolumeCorrect`, `WritersCorrect`, `OpenFilesCorrect`,
  `DeadlockFree` and `TypeCorrect` of the open file map follow from one
  inductive invariant, `Inv`, with a part for each thing a step relies on.
  `CallInv`: what each frame of a stack knows, by its step, and that only
  `Append` and `VisitDirectory` have calls above them. `HoldInv`: a frame that
  is `locked` belongs to the task that owns its volume, one that inserts or is
  about to leave the map has the map's lock, and one that acts on a file is of
  the file's holder. `FilesInv`: an open file's entry exists, and what a call
  found stays true where it relies on it - no conflicting handle until the
  insertion, because the map's lock is held; no handle at all until the change,
  because opening one needs the volume's lock; the file found in the map still
  open, because only its holder closes it. `LockInv`: a lock that is taken is
  taken by a call under way, the map's by one that waits for nothing, and all
  calls of a task are on one volume - this is where callbacks that stay on their
  volume are needed.
* `MountedVolumesCorrect`: from the conjuncts of `IsAccepted` alone, that the
  sectors of two clusters are apart, that the last one ends before the
  partition, and that the entry of the largest cluster is in the FAT, are facts
  of products and divisions; each is a lemma. The invariant says of every
  mounted volume that it is the adapter of an accepted boot record.
* `ListCorrect`: the list holds slots below the one looked at.

Facts about what is reached along links are proved without an induction theorem,
which the provers cannot instantiate: `LeastElement` states that a non-empty set
of numbers has a least element (from the well-foundedness of the subset relation
on finite sets), and each induction is an argument about the least
counterexample.

Checked by TLC only: liveness (`EveryCallReturns`, `ForgettingEnds`); that the
cache is the map of the names used last (`ImplementsMap`), whose mapping filters
sequences with operators the provers do not have; and the four properties that
runs expect to be violated, except that `NoLinkToFreeCluster` and
`AllocatorSeesEveryFreeCluster` are theorems where the findings do not apply
(`~Mirrored`, respectively the last cluster not at the end of a block).

## What is not modelled, and assumptions

* Reading or writing one block or cluster is atomic: it succeeds or leaves the
  old contents. Torn sectors are outside the driver's own claims.
* The upper four bits of a FAT entry, which updates preserve, carry no meaning.
* The path cache's counts of hits and misses, and the bytes and hashes of names.
* Times, attributes other than the need to set ATTR_ARCHIVE, and the mode
  checks that refuse a call before it does anything.
* In `FAT32File`, one handle per file: the file map lets a writer exclude all
  others; several readers of one file do not change what is on the device.
* In `FAT32DirectoryCluster`, of what the new owner of a lost cluster writes only
  how far it reaches; not that the owner frees the cluster or links another one
  to it, which the directory would follow as well. Nothing is claimed of a
  directory from the moment it loses one.
* In `FAT32DirectoryTree`, no mirrored link that fails half way: its directories
  do not grow.
* In `OpenFileMap`, a second lock of the map by the task that holds it is not
  seen (no call makes one), and a wrapper is used by one task, its holder, as
  the comment at `file_map.h:113-114` says; a call that acts on a file does not
  disturb the entries of others (`FAT32File`, `FAT32DirectoryCluster`). Fairness
  of the spin locks is not assumed, and nothing is claimed that would need it.
* In `FAT32DirectoryTree`, a directory is one cluster (its growth is
  `FAT32DirectoryCluster`'s), a file has no chain (`FAT32File`), and handles of
  a volume that was unmounted are gone: they name a volume that no longer
  exists.
* In `FAT32Mount`, the bytes of a boot record that only tell it from something
  else (signature, version, fields that must be zero, the size of a sector) are
  one Boolean, `recognised`.
* Names: a file of `FAT32File` is a name; that an entry for it can be created
  and found again is what `FAT32DirectoryCluster` is about. There, the
  characters of names are left out, and with them collisions of the 8-bit
  checksum, the way the digits of a numeric tail shorten the base name, volume
  labels, and the entries `.` and `..`. Cycles in a directory's own chain are
  left to the adapter's walks.

* Not modelled at all: the texts of names and paths, their parsing, shortening
  and checksum (functions of text without state, whose results
  `FAT32DirectoryCluster` takes as constants), dates and times, result codes and
  their messages, and the statistics of the filesystem object.

## Plan

All components with state are modelled, and every safety invariant and action
property that a run checks is a theorem. What is left:

1. The safety part of `ImplementsMap`: the recency list as a sequence, and what
   filtering and moving to the front do to it.
2. Theorems of `RenameKeepsTheObject` and `NoEntryOnFreeCluster` for as long as
   nothing, respectively no read-back, has failed.
