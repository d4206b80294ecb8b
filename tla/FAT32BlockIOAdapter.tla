------------------------ MODULE FAT32BlockIOAdapter ------------------------
(***************************************************************************)
(* The FAT side of the block IO adapter (fat32_blockio_adapter.cpp): every *)
(* call that reads or changes the file allocation table, one step per      *)
(* access to the device.  The caller holds the lock of the volume, so one  *)
(* call runs at a time; any access may fail, and the power may fail        *)
(* between any two of them.                                                *)
(*                                                                         *)
(* A failed write leaves the block as it was.  A block read from the       *)
(* device is a copy of the table's entries: nothing else writes them while *)
(* the call runs.                                                          *)
(***************************************************************************)
EXTENDS FatEntries, FiniteSets

CONSTANTS
    EntriesPerBlock,    \* fat32_entries_per_block_
    NumberOfFats,       \* number_of_fats_
    RootCluster,        \* root_directory_cluster_
    InitialTables,      \* the tables a foreign system may have left
    MaxCalls            \* bound on the calls of a behaviour

ASSUME AdapterAssumption ==
    /\ EntriesPerBlock \in Nat \ {0}
    /\ NumberOfFats \in Nat \ {0}
    /\ RootCluster \in Clusters
    /\ InitialTables \subseteq [Clusters -> Entry]
    /\ MaxCalls \in Nat

Fats == 0 .. NumberOfFats - 1
Block(c) == c \div EntriesPerBlock

\* Contents of the FSInfo sector; a count is the number of free clusters.
UnknownCount == -1      \* FSI_Free_Count = 0xFFFFFFFF
NoSignature  == -2      \* not an FSInfo sector
NoSector     == -3      \* BPB_FSInfo names no sector

VARIABLES
    mirror_fats,        \* BPB_ExtFlags bit 7 clear
    active_fat,         \* the copy every reader uses
    fat,                \* on the device: one table per copy
    fsinfo,             \* on the device: FSI_Free_Count
    fsinfo_invalidated, \* in memory, since mount
    last_empty_cluster, \* in memory, since mount
    op,                 \* the public call in progress or answered last
    pc,                 \* where it is; "idle" when it has returned
    cluster,            \* current_cluster of the call's loop
    value,              \* new_value, next_cluster or the cluster looked for
    fat_index,          \* loop variable of the mirroring
    buffered,           \* the block in current_fat of the search
    wrapped,            \* the search has gone back to cluster 2
    steps,              \* loop count of PreviousClusterInChain
    result,             \* what the last call answered
    calls               \* calls made so far

bpb     == <<mirror_fats, active_fat>>
device  == <<fat, fsinfo>>
memory  == <<fsinfo_invalidated, last_empty_cluster>>
locals  == <<cluster, value, fat_index, buffered, wrapped, steps>>
control == <<op, pc, result, calls>>
vars    == <<bpb, device, memory, locals, control>>

Codes == {"SUCCESS", "CLUSTER_OUT_OF_RANGE", "FAT_READ_ERROR",
          "FAT_WRITE_ERROR", "DEVICE_READ_ERROR", "DEVICE_WRITE_ERROR",
          "DEVICE_FULL", "ALREADY_AT_FIRST", "NOT_PRESENT", "CORRUPT",
          "NONE"}
Ops == {"none", "update", "release", "find", "previous"}
Places == {"idle", "fsinfo", "active", "mirror", "release", "scan", "walk"}

active == fat[active_fat]
FreeClusters(t) == {c \in Clusters : t[c] = Free}

TypeOK ==
    /\ mirror_fats \in BOOLEAN
    /\ active_fat \in Fats
    /\ fat \in [Fats -> [Clusters -> Entry]]
    /\ fsinfo \in Nat \cup {UnknownCount, NoSignature, NoSector}
    /\ fsinfo_invalidated \in BOOLEAN
    /\ last_empty_cluster \in {0} \cup Clusters
    /\ op \in Ops
    /\ pc \in Places
    /\ cluster \in 0 .. EOF
    /\ value \in 0 .. EOF
    /\ fat_index \in Nat
    /\ buffered \in Nat
    /\ wrapped \in BOOLEAN
    /\ steps \in 0 .. MaxCluster
    /\ result \in Codes
    /\ calls \in 0 .. MaxCalls

(* Mount: the flags of the BPB, copies that agree, and a free count that   *)
(* whoever unmounted the volume computed, or already gave up.              *)
Init ==
    /\ mirror_fats \in BOOLEAN
    /\ active_fat \in IF mirror_fats THEN {0} ELSE Fats
    /\ \E t \in InitialTables :
        /\ fat = [f \in Fats |-> t]
        /\ fsinfo \in {Cardinality(FreeClusters(t)), UnknownCount,
                       NoSignature, NoSector}
    /\ fsinfo_invalidated = FALSE
    /\ last_empty_cluster = 0
    /\ op = "none"
    /\ pc = "idle"
    /\ cluster = 0
    /\ value = 0
    /\ fat_index = 0
    /\ buffered = 0
    /\ wrapped = FALSE
    /\ steps = 0
    /\ result = "NONE"
    /\ calls = 0

-----------------------------------------------------------------------------
(* A call starts when the previous one has returned.                       *)
Call(name) ==
    /\ pc = "idle"
    /\ calls < MaxCalls
    /\ calls' = calls + 1
    /\ op' = name
    /\ UNCHANGED bpb

(* The call answers `code`.  The answer of a search or of a step back is   *)
(* left in `cluster`.                                                      *)
Return(code) ==
    /\ pc' = "idle"
    /\ result' = code

Goto(place) == pc' = place /\ result' = "NONE"
Continue == UNCHANGED <<op, calls, bpb>>

UpdateFATTableEntry(c, v) ==
    /\ Call("update")
    /\ cluster' = c
    /\ value' = v
    /\ IF OutOfRange(c) \/ ~ValidFATValue(v)
       THEN Return("CLUSTER_OUT_OF_RANGE")
       ELSE Goto("fsinfo")
    /\ fat_index' = 0 /\ buffered' = 0 /\ wrapped' = FALSE /\ steps' = 0
    /\ UNCHANGED <<device, memory>>

\* Faulty variant: the flag is set before the sector is known to be written.
InvalidateFSInfoOnce_FlagFirst ==
    /\ pc = "fsinfo"
    /\ Continue
    /\ fsinfo_invalidated' = TRUE
    /\ \/ fsinfo' = UnknownCount /\ Goto("active")
       \/ fsinfo_invalidated /\ Goto("active") /\ UNCHANGED fsinfo
       \/ Return("DEVICE_WRITE_ERROR") /\ UNCHANGED fsinfo
    /\ UNCHANGED <<fat, last_empty_cluster, locals>>
(* Every change of the FAT passes here first.  The flag is set only after  *)
(* the sector was written, or was found to hold no FSInfo.                 *)
InvalidateFSInfoOnce ==
    /\ pc = "fsinfo"
    /\ Continue
    /\ IF fsinfo_invalidated \/ fsinfo = NoSector
       THEN Goto("active") /\ UNCHANGED <<fsinfo, fsinfo_invalidated>>
       ELSE \/ /\ Return("DEVICE_READ_ERROR")
               /\ UNCHANGED <<fsinfo, fsinfo_invalidated>>
            \/ /\ fsinfo # NoSignature
               /\ Return("DEVICE_WRITE_ERROR")
               /\ UNCHANGED <<fsinfo, fsinfo_invalidated>>
            \/ /\ fsinfo' = IF fsinfo = NoSignature THEN fsinfo
                            ELSE UnknownCount
               /\ fsinfo_invalidated' = TRUE
               /\ Goto("active")
    /\ UNCHANGED <<fat, last_empty_cluster, locals>>

\* Faulty variant: the chain is walked but its entries are kept.
new_value_Kept == value
\* The value the update in progress stores: ReleaseChain frees, and keeps the
\* next cluster of its loop in `value`.
new_value == IF op = "release" THEN Free ELSE value

\* Faulty variant: the chain's first cluster is freed and the rest forgotten.
UpdateDone_FirstOnly == Return("SUCCESS") /\ UNCHANGED cluster
(* An update has reached every copy.  ReleaseChain goes on with the next   *)
(* cluster of the chain unless that was the last.                          *)
UpdateDone ==
    IF op = "release" /\ ~EndOfChain(value)
    THEN Goto("release") /\ cluster' = value
    ELSE Return("SUCCESS") /\ UNCHANGED cluster

(* UpdateFATTableEntry on the copy that readers use: read the block, store *)
(* the entry, write the block.                                             *)
WriteActiveFAT ==
    /\ pc = "active"
    /\ Continue
    /\ \/ /\ Return("FAT_READ_ERROR")
          /\ UNCHANGED <<fat, fat_index>>
       \/ /\ Return("FAT_WRITE_ERROR")
          /\ UNCHANGED <<fat, fat_index>>
       \/ /\ fat' = [fat EXCEPT ![active_fat][cluster] = new_value]
          /\ fat_index' = 1
          /\ Goto("mirror")
    /\ UNCHANGED <<fsinfo, memory, cluster, value, buffered, wrapped, steps>>

\* Faulty variant: only the changed entry goes to the other copies.
CopyBlock_EntryOnly(to, from, c) == [to EXCEPT ![c] = from[c]]
(* The other copies get the whole block that was written to the first, so  *)
(* a copy that fell behind catches up in that block.                       *)
CopyBlock(to, from, c) ==
    [d \in Clusters |-> IF Block(d) = Block(c) THEN from[d] ELSE to[d]]

\* Faulty variant: the extended flags of the BPB are not looked at.
AnotherCopy_AnyFlags == fat_index < NumberOfFats
\* The condition of the mirroring loop.
AnotherCopy == mirror_fats /\ fat_index < NumberOfFats

WriteMirrorFAT ==
    /\ pc = "mirror"
    /\ AnotherCopy
    /\ Continue
    /\ \/ Return("FAT_WRITE_ERROR") /\ UNCHANGED <<fat, fat_index>>
       \/ /\ fat' = [fat EXCEPT ![fat_index] =
                        CopyBlock(fat[fat_index], active, cluster)]
          /\ fat_index' = fat_index + 1
          /\ Goto("mirror")
    /\ UNCHANGED <<fsinfo, memory, cluster, value, buffered, wrapped, steps>>

EveryCopyWritten ==
    /\ pc = "mirror"
    /\ ~AnotherCopy
    /\ Continue
    /\ UpdateDone
    /\ UNCHANGED <<device, memory, value, fat_index, buffered, wrapped, steps>>

ReleaseChain(first) ==
    /\ Call("release")
    /\ cluster' = first
    /\ IF OutOfRange(first)
       THEN Return("CLUSTER_OUT_OF_RANGE")
       ELSE Goto("release")
    /\ value' = 0 /\ fat_index' = 0
    /\ buffered' = 0 /\ wrapped' = FALSE /\ steps' = 0
    /\ UNCHANGED <<device, memory>>

(* One turn of the loop: NextClusterInChain, then the update that frees.   *)
(* A chain that ran into a free or reserved entry stops here.              *)
ReleaseNext ==
    /\ pc = "release"
    /\ Continue
    /\ IF OutOfRange(cluster)
       THEN Return("CLUSTER_OUT_OF_RANGE") /\ UNCHANGED value
       ELSE \/ Return("FAT_READ_ERROR") /\ UNCHANGED value
            \/ Goto("fsinfo") /\ value' = active[cluster]
    /\ UNCHANGED <<device, memory, cluster, fat_index, buffered, wrapped,
                   steps>>

-----------------------------------------------------------------------------
(* The search for a free entry reads the table block by block.  Entries 0  *)
(* and 1 are reserved, and those beyond the last cluster pad the last      *)
(* block with zeros.                                                       *)
TableEntry(c) == IF c \in Clusters THEN active[c]
                 ELSE IF c < 2 THEN EOF ELSE Free

\* ReadFATBlock(c): the block that holds c, or an error.
ReadFATBlock(c) ==
    \/ Return("FAT_READ_ERROR") /\ buffered' = 0
    \/ Goto("scan") /\ buffered' = Block(c)

\* The entry the loop looks at: its place in the block that is in the buffer.
BufferedEntry(c) ==
    TableEntry((buffered * EntriesPerBlock) + (c % EntriesPerBlock))

StartOfSearch(start) ==
    IF start = 0
    THEN IF last_empty_cluster > RootCluster THEN last_empty_cluster
         ELSE RootCluster
    ELSE IF start > MaxCluster THEN 2 ELSE start

FindNextEmptyCluster(start) ==
    /\ Call("find")
    /\ cluster' = StartOfSearch(start)
    /\ value' = 0 /\ fat_index' = 0 /\ wrapped' = FALSE /\ steps' = 0
    /\ IF OutOfRange(cluster')
       THEN Return("CLUSTER_OUT_OF_RANGE") /\ buffered' = 0
       ELSE ReadFATBlock(cluster')
    /\ UNCHANGED <<device, memory>>

\* Faulty variant: the wrap keeps the block that is in the buffer.
ScanPastTheEnd_StaleBlock ==
    /\ pc = "scan"
    /\ cluster > MaxCluster
    /\ Continue
    /\ IF wrapped
       THEN Return("DEVICE_FULL") /\ UNCHANGED <<cluster, wrapped>>
       ELSE wrapped' = TRUE /\ cluster' = 2 /\ Goto("scan")
    /\ UNCHANGED <<device, memory, value, fat_index, buffered, steps>>
\* Faulty variant: the search never goes back below where it began.
ScanPastTheEnd_NoWrap ==
    /\ pc = "scan"
    /\ cluster > MaxCluster
    /\ Continue
    /\ Return("DEVICE_FULL")
    /\ UNCHANGED <<device, memory, locals>>
(* The scan starts at a high-water mark, so it goes round once.            *)
ScanPastTheEnd ==
    /\ pc = "scan"
    /\ cluster > MaxCluster
    /\ Continue
    /\ IF wrapped
       THEN /\ Return("DEVICE_FULL")
            /\ UNCHANGED <<cluster, buffered, wrapped>>
       ELSE wrapped' = TRUE /\ cluster' = 2 /\ ReadFATBlock(2)
    /\ UNCHANGED <<device, memory, value, fat_index, steps>>

ScanFound ==
    /\ pc = "scan"
    /\ cluster <= MaxCluster
    /\ BufferedEntry(cluster) = Free
    /\ last_empty_cluster' = IF cluster > last_empty_cluster THEN cluster
                             ELSE last_empty_cluster
    /\ Return("SUCCESS")
    /\ Continue
    /\ UNCHANGED <<device, fsinfo_invalidated, locals>>

(* The block is read again when the scan enters the next one - also when   *)
(* the next one would begin just past the last cluster of the volume.      *)
ScanAdvance ==
    /\ pc = "scan"
    /\ cluster <= MaxCluster
    /\ BufferedEntry(cluster) # Free
    /\ cluster' = cluster + 1
    /\ IF cluster' % EntriesPerBlock # 0
       THEN Goto("scan") /\ UNCHANGED buffered
       ELSE IF OutOfRange(cluster')
            THEN Return("CLUSTER_OUT_OF_RANGE") /\ UNCHANGED buffered
            ELSE ReadFATBlock(cluster')
    /\ Continue
    /\ UNCHANGED <<device, memory, value, fat_index, wrapped, steps>>

-----------------------------------------------------------------------------
(* The entry before c: the chain is walked from its first cluster.         *)
PreviousClusterInChain(first, c) ==
    /\ Call("previous")
    /\ cluster' = first
    /\ value' = c
    /\ fat_index' = 0 /\ buffered' = 0 /\ wrapped' = FALSE /\ steps' = 0
    /\ IF OutOfRange(first) \/ OutOfRange(c)
       THEN Return("CLUSTER_OUT_OF_RANGE")
       ELSE IF c = first THEN Return("ALREADY_AT_FIRST") ELSE Goto("walk")
    /\ UNCHANGED <<device, memory>>

\* Faulty variants: one step too many, and too few for the longest chain.
WalkIsTooLong_Late == steps > MaxCluster
WalkIsTooLong_Early == steps + 1 > MaxCluster - 2
\* A chain with more steps than the volume has clusters is a cycle.
WalkIsTooLong == steps + 1 > MaxCluster

WalkNext ==
    /\ pc = "walk"
    /\ Continue
    /\ \/ /\ WalkIsTooLong
          /\ Return("CORRUPT")
          /\ UNCHANGED <<cluster, steps>>
       \/ /\ ~WalkIsTooLong
          /\ steps' = steps + 1
          /\ IF OutOfRange(cluster)
             THEN Return("CLUSTER_OUT_OF_RANGE") /\ UNCHANGED cluster
             ELSE \/ Return("FAT_READ_ERROR") /\ UNCHANGED cluster
                  \/ /\ active[cluster] = value
                     /\ Return("SUCCESS")
                     /\ UNCHANGED cluster
                  \/ /\ active[cluster] # value
                     /\ cluster' = active[cluster]
                     /\ IF EndOfChain(cluster') THEN Return("NOT_PRESENT")
                        ELSE Goto("walk")
    /\ UNCHANGED <<device, memory, value, fat_index, buffered, wrapped>>

-----------------------------------------------------------------------------
(* Power fails, or the volume is unmounted, and it is mounted again: the   *)
(* copies stay as they are, the adapter is a new object.  In between, a    *)
(* system that counts the free clusters may have written FSInfo.           *)
Remount ==
    /\ op' = "none"
    /\ Return("NONE")
    /\ fsinfo' \in IF fsinfo \in {NoSector, NoSignature} THEN {fsinfo}
                   ELSE {fsinfo, Cardinality(FreeClusters(active))}
    /\ fsinfo_invalidated' = FALSE
    /\ last_empty_cluster' = 0
    /\ cluster' = 0 /\ value' = 0 /\ fat_index' = 0
    /\ buffered' = 0 /\ wrapped' = FALSE /\ steps' = 0
    /\ UNCHANGED <<fat, calls, bpb>>

Step ==
    \/ InvalidateFSInfoOnce \/ WriteActiveFAT
    \/ WriteMirrorFAT \/ EveryCopyWritten
    \/ ReleaseNext
    \/ ScanPastTheEnd \/ ScanFound \/ ScanAdvance
    \/ WalkNext

Next ==
    \/ \E c \in 0 .. Defective, v \in 0 .. EOF : UpdateFATTableEntry(c, v)
    \/ \E c \in 0 .. Defective :
        \/ ReleaseChain(c)
        \/ FindNextEmptyCluster(c)
        \/ \E d \in 0 .. Defective : PreviousClusterInChain(c, d)
    \/ Step
    \/ Remount

Spec == Init /\ [][Next]_vars

\* The calls are straight-line code and loops that hold the processor.
FairSpec == Spec /\ WF_vars(Step)

-----------------------------------------------------------------------------
Returned(name, code) == pc = "idle" /\ op = name /\ result = code

(* FSInfo's free count is either the number of clusters the active FAT     *)
(* shows free, or marked unknown - at every instant, so also after a crash *)
(* in the middle of the first update since mount (InvalidateFSInfoOnce     *)
(* before UpdateFATTableEntry changes anything).                           *)
FSInfoNeverContradictsFAT ==
    fsinfo \in Nat => fsinfo = Cardinality(FreeClusters(active))

(* When an update answers SUCCESS, every mirrored copy holds the same      *)
(* block as the copy that is read - whatever earlier update of that block  *)
(* was interrupted by a failed write or a crash (UpdateFATTableEntry).     *)
SuccessReachesEveryCopy ==
    (mirror_fats /\ Returned("update", "SUCCESS")) =>
        \A f \in Fats, c \in Clusters :
            Block(c) = Block(cluster) => fat[f][c] = active[c]

(* With mirroring off, no copy but the active one is ever written.         *)
InactiveFATsUntouched ==
    [][~mirror_fats => \A f \in Fats \ {active_fat} : fat'[f] = fat[f]]_vars

(* The cluster FindNextEmptyCluster answers is a cluster of the volume     *)
(* that is free, and it is at or below the high-water mark.                *)
AllocatedWasFree ==
    Returned("find", "SUCCESS") =>
        /\ cluster \in FreeClusters(active)
        /\ cluster <= last_empty_cluster

(* The search gives up only when no cluster of the volume is free, however *)
(* high the mark it starts from: a started search (its start is in range)  *)
(* that was not stopped by a read error has seen every entry.              *)
AllocatorSeesEveryFreeCluster ==
    \/ Returned("find", "DEVICE_FULL")
    \/ Returned("find", "CLUSTER_OUT_OF_RANGE") /\ cluster # 1
    => FreeClusters(active) = {}

(* A predecessor that PreviousClusterInChain answers precedes the cluster, *)
(* and a chain is called corrupt only if the table has a cycle.            *)
HasCycle(t) ==
    \E loop \in SUBSET Clusters \ {{}} : \A c \in loop : t[c] \in loop
PreviousAnswersAreRight ==
    /\ Returned("previous", "SUCCESS") => active[cluster] = value
    /\ Returned("previous", "CORRUPT") => HasCycle(active)

(* Every call returns, on any table: a cyclic chain is released once round *)
(* and walked back a bounded number of times, the search wraps once.       *)
EveryCallReturns == (pc # "idle") ~> (pc = "idle")

\* The table that readers see implements FatTable.
Table == INSTANCE FatTable WITH
    table   <- active,
    request <- IF pc = "idle" THEN "none"
               ELSE IF op \in {"update", "release"} THEN op ELSE "query",
    at      <- IF pc = "idle" \/ op \notin {"update", "release"} THEN 0
               ELSE IF pc # "mirror" THEN cluster
               ELSE IF op = "update" THEN EOF ELSE value,
    entry   <- IF pc = "idle" \/ op # "update" THEN 0 ELSE value,
    answer  <- pc = "idle" /\ result = "SUCCESS"

ImplementsFatTable == Table!Spec
=============================================================================
