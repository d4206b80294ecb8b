----------------------------- MODULE FAT32Mount -----------------------------
(***************************************************************************)
(* From the master boot record to the sectors of a volume: GetPartitions,  *)
(* FAT32BlockIOAdapter::Mount with its checks in 32 bits, and the sectors  *)
(* the adapter then reads and writes for a cluster and for a FAT entry.    *)
(*                                                                         *)
(* Numbers are natural; where the code's are 32 bits wide the model says   *)
(* that a result is no larger than MaxWord, as CheckedAddU32 and           *)
(* CheckedMulU32 do.                                                       *)
(***************************************************************************)
EXTENDS Integers, Sequences

CONSTANTS
    MaxWord,            \* 0xFFFFFFFF
    EntriesPerBlock,    \* FAT entries in a block of the device
    MaxSectorsPerCluster,
    NumberOfSlots,      \* MBR_NUMBER_OF_PARTITION_ENTRIES
    FirstSectors,       \* bound: where partitions begin
    Tables,             \* bound: the partition tables
    BootRecords,        \* bound: what is at those sectors
    Nothing

Words == 0 .. MaxWord
Slots == 1 .. NumberOfSlots
Partition == [is_fat32 : BOOLEAN, first : FirstSectors, count : Words]

(* recognised: what tells a FAT32 boot record of this device's block size  *)
(* from anything else - signature, version, the fields that are zero.      *)
BootRecord == [recognised : BOOLEAN, reserved : Words, number_of_fats : Words,
               sectors_per_fat : Words, sectors_per_cluster : Words, total : Words,
               root : Words, mirrored : BOOLEAN, active_fat : Words, fsinfo : Words]

ASSUME MountAssumption ==
    /\ MaxWord \in Nat /\ NumberOfSlots \in Nat \ {0}
    /\ EntriesPerBlock \in Nat \ {0}
    /\ MaxSectorsPerCluster \in Nat
    /\ FirstSectors \subseteq Words
    /\ Tables \subseteq [Slots -> Partition]
    /\ BootRecords \subseteq [FirstSectors -> BootRecord]
    /\ Nothing \notin Int

VARIABLES
    table,      \* on the device: the entries of the master boot record
    boot,       \* on the device: the boot record at a sector
    slot,       \* GetPartitions: the entry it looks at, or 0
    listed,     \* the partitions it has answered so far
    volume      \* the adapters mounted

disk == <<table, boot>>
vars == <<table, boot, slot, listed, volume>>

\* fat_lba is the active FAT's.
Adapter == [root : Words, sectors_per_cluster : Words, sectors_per_fat : Words,
            number_of_fats : Words, fat_lba : Words, data_lba : Words,
            maximum_cluster : Words, fsinfo_sector : Words, mirror_fats : BOOLEAN]

TypeOK ==
    /\ table \in [Slots -> Partition]
    /\ boot \in [FirstSectors -> BootRecord]
    /\ slot \in 0 .. NumberOfSlots
    /\ listed \in Seq([slot : Slots, is_boot : BOOLEAN])
    /\ volume \in [Slots -> Adapter \cup {Nothing}]

Init ==
    /\ table \in Tables
    /\ boot \in BootRecords
    /\ slot = 0
    /\ listed = <<>>
    /\ volume = [i \in Slots |-> Nothing]

-----------------------------------------------------------------------------
(* FAT32BlockIOAdapter::Mount of the boot record r at sector first of a    *)
(* partition of count sectors.                                             *)

Fits(n) == n <= MaxWord
FATSectors(r) == r.number_of_fats * r.sectors_per_fat
NonDataSectors(r) == r.reserved + FATSectors(r)
DataSectors(r) == r.total - NonDataSectors(r)
FATLBA(first, r) == first + r.reserved
DataLBA(first, r) == FATLBA(first, r) + FATSectors(r)
EndLBA(first, r) == first + r.total
EntriesInFAT(r) == r.sectors_per_fat * EntriesPerBlock
MaxClusterFromData(r) == DataSectors(r) \div r.sectors_per_cluster + 1
MaximumCluster_FromData(r) == MaxClusterFromData(r)
MaximumCluster(r) ==
    IF EntriesInFAT(r) - 1 < MaxClusterFromData(r) THEN EntriesInFAT(r) - 1
    ELSE MaxClusterFromData(r)
ActiveFAT(r) == IF r.mirrored THEN 0 ELSE r.active_fat

IsPowerOfTwo(n) == \E k \in 0 .. n : n = 2 ^ k
FieldsAreLegal(r) ==
    /\ r.recognised
    /\ r.sectors_per_cluster \in 1 .. MaxSectorsPerCluster
    /\ IsPowerOfTwo(r.sectors_per_cluster)
    /\ r.reserved # 0 /\ r.number_of_fats # 0 /\ r.sectors_per_fat # 0
    /\ r.total # 0 /\ r.root >= 2
RegionsFit(first, count, r) ==
    /\ Fits(FATSectors(r)) /\ Fits(NonDataSectors(r))
    /\ NonDataSectors(r) < r.total
    /\ DataSectors(r) >= r.sectors_per_cluster
    /\ count # 0 => r.total <= count
    /\ Fits(FATLBA(first, r)) /\ Fits(DataLBA(first, r)) /\ Fits(EndLBA(first, r))
    /\ DataLBA(first, r) < EndLBA(first, r)
ClustersFit(first, r) ==
    /\ Fits(EntriesInFAT(r)) /\ EntriesInFAT(r) > 2
    /\ Fits(MaxClusterFromData(r))
    /\ r.root <= MaximumCluster(r)
    /\ ActiveFAT(r) < r.number_of_fats
    /\ Fits(FATLBA(first, r) + ActiveFAT(r) * r.sectors_per_fat)
IsAccepted(first, count, r) ==
    FieldsAreLegal(r) /\ RegionsFit(first, count, r) /\ ClustersFit(first, r)

NewAdapter(first, r) ==
    [root |-> r.root, sectors_per_cluster |-> r.sectors_per_cluster,
     sectors_per_fat |-> r.sectors_per_fat, number_of_fats |-> r.number_of_fats,
     fat_lba |-> FATLBA(first, r) + ActiveFAT(r) * r.sectors_per_fat,
     data_lba |-> DataLBA(first, r), maximum_cluster |-> MaximumCluster(r),
     fsinfo_sector |-> IF r.fsinfo # 0 /\ r.fsinfo < r.reserved THEN first + r.fsinfo ELSE 0,
     mirror_fats |-> r.mirrored]

-----------------------------------------------------------------------------
(* Where the adapter a reads and writes: the block of an entry of the FAT  *)
(* and, when it is updated, of its mirrors; the sectors of a cluster.      *)

IsClusterOutOfRange(a, cluster) == cluster < 2 \/ cluster > a.maximum_cluster
Checked(n) == IF Fits(n) THEN n ELSE Nothing

FATClusterToSector(a, cluster) ==
    IF IsClusterOutOfRange(a, cluster) \/ ~Fits((cluster - 2) * a.sectors_per_cluster)
    THEN Nothing
    ELSE Checked(a.data_lba + (cluster - 2) * a.sectors_per_cluster)
ClusterSectors(a, cluster) ==
    FATClusterToSector(a, cluster) ..
        FATClusterToSector(a, cluster) + a.sectors_per_cluster - 1

FATEntryToSector(a, cluster) ==
    IF IsClusterOutOfRange(a, cluster) THEN Nothing
    ELSE Checked(a.fat_lba + cluster \div EntriesPerBlock)
EntryOffset(cluster) == cluster % EntriesPerBlock
Mirrors(a) == IF a.mirror_fats THEN 1 .. a.number_of_fats - 1 ELSE {}
MirrorSector(a, cluster, fat_index) ==
    IF ~Fits(fat_index * a.sectors_per_fat) THEN Nothing
    ELSE Checked(FATEntryToSector(a, cluster) + fat_index * a.sectors_per_fat)

-----------------------------------------------------------------------------
(* GetPartitions.  A read of the device may fail, and the label may; what  *)
(* was listed before stays listed.  It is called until it lists something. *)

ReadMasterBootRecord ==
    /\ slot = 0 /\ listed = <<>>
    /\ slot' = 1
    /\ UNCHANGED <<disk, listed, volume>>

NextSlot == IF slot = NumberOfSlots THEN 0 ELSE slot + 1
Mounts(i) == IsAccepted(table[i].first, table[i].count, boot[table[i].first])
SkipSlot ==
    /\ slot # 0 /\ ~table[slot].is_fat32
    /\ slot' = NextSlot
    /\ UNCHANGED <<disk, listed, volume>>
IsBoot_FirstSlot(i) == i = 1
IsBoot(i) == listed = <<>>
ListPartition ==
    /\ slot # 0 /\ table[slot].is_fat32 /\ Mounts(slot)
    /\ listed' = Append(listed, [slot |-> slot, is_boot |-> IsBoot(slot)])
    /\ slot' = NextSlot
    /\ UNCHANGED <<disk, volume>>
GetPartitionsFails ==
    /\ slot # 0 /\ table[slot].is_fat32
    /\ slot' = 0
    /\ UNCHANGED <<disk, listed, volume>>

\* FAT32Filesystem::Mount of a partition that was listed, under another name
\* each time; the read of the boot record may fail.
Mount(i) ==
    /\ slot = 0
    /\ \E n \in DOMAIN listed : listed[n].slot = i
    /\ Mounts(i)
    /\ volume' = [volume EXCEPT ![i] = NewAdapter(table[i].first, boot[table[i].first])]
    /\ UNCHANGED <<disk, slot, listed>>
Unmount(i) ==
    /\ volume[i] # Nothing
    /\ volume' = [volume EXCEPT ![i] = Nothing]
    /\ UNCHANGED <<disk, slot, listed>>

Next ==
    \/ ReadMasterBootRecord \/ SkipSlot \/ ListPartition \/ GetPartitionsFails
    \/ \E i \in Slots : Mount(i) \/ Unmount(i)

Spec == Init /\ [][Next]_vars

-----------------------------------------------------------------------------
(* Every cluster of a mounted volume has sectors of its own in the data    *)
(* region, and no check in 32 bits refuses it.                             *)
ClustersAreApart(a, end) ==
    \A c \in 2 .. a.maximum_cluster :
        /\ FATClusterToSector(a, c) # Nothing
        /\ ClusterSectors(a, c) \subseteq a.data_lba .. end - 1
        /\ \A d \in 2 .. a.maximum_cluster :
            c # d => ClusterSectors(a, c) \cap ClusterSectors(a, d) = {}

(* Every cluster has an entry of its own in the FAT in use and in each of  *)
(* its mirrors; the FATs begin at sector fat and end where the data begins.*)
EntriesAreApart(a, fat) ==
    \A c \in 2 .. a.maximum_cluster :
        LET s == FATEntryToSector(a, c)
        IN /\ s # Nothing /\ s \in a.fat_lba .. a.fat_lba + a.sectors_per_fat - 1
           /\ a.fat_lba >= fat /\ a.fat_lba + a.sectors_per_fat <= a.data_lba
           /\ \A i \in Mirrors(a) :
                /\ MirrorSector(a, c, i) # Nothing
                /\ MirrorSector(a, c, i) \in fat + i * a.sectors_per_fat ..
                                               fat + (i + 1) * a.sectors_per_fat - 1
                /\ MirrorSector(a, c, i) < a.data_lba
           /\ \A d \in 2 .. a.maximum_cluster :
                s = FATEntryToSector(a, d) /\ EntryOffset(c) = EntryOffset(d) => c = d

(* What Mount accepts it can address: FSInfo, every FAT entry, mirror and  *)
(* cluster have their place within the partition, apart from each other,   *)
(* and no sum or product of 32 bits wraps or is refused                    *)
(* (fat32_blockio_adapter.cpp:125-241).                                    *)
MountedVolumesFit ==
    \A i \in Slots : volume[i] # Nothing =>
        LET a == volume[i]
            first == table[i].first
            r == boot[first]
        IN /\ ClustersAreApart(a, EndLBA(first, r))
           /\ EntriesAreApart(a, FATLBA(first, r))
           /\ a.fsinfo_sector \in {0} \cup first + 1 .. FATLBA(first, r) - 1
           /\ table[i].count # 0 => EndLBA(first, r) <= first + table[i].count
           /\ a.root \in 2 .. a.maximum_cluster

(* GetPartitions lists FAT32 partitions of the table that can be mounted,  *)
(* in order and each once, up to where it is or failed; the first boots,   *)
(* whatever slot it is in (master_boot_record.cpp:129-130).                *)
ListIsInOrder ==
    /\ \A n \in DOMAIN listed :
        /\ table[listed[n].slot].is_fat32 /\ Mounts(listed[n].slot)
        /\ listed[n].is_boot <=> n = 1
        /\ \A m \in 1 .. n - 1 : listed[m].slot < listed[n].slot
    /\ slot # 0 => \A i \in 1 .. slot - 1 :
        table[i].is_fat32 => \E n \in DOMAIN listed : listed[n].slot = i
=============================================================================
