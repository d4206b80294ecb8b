-------------------------- MODULE FAT32Mount_proofs --------------------------
(***************************************************************************)
(* Proofs about FAT32Mount: for every word size, block size, partition     *)
(* table and boot record, what Mount accepts the adapter can address.      *)
(***************************************************************************)
EXTENDS FAT32Mount, TLAPS

(* A mounted adapter is the one its boot record describes.                 *)
AdapterOf(i) == NewAdapter(table[i].first, boot[table[i].first])
MountInv ==
    /\ table \in [Slots -> Partition]
    /\ boot \in [FirstSectors -> BootRecord]
    /\ volume \in [Slots -> Adapter \cup {Nothing}]
    /\ \A i \in Slots : volume[i] # Nothing => Mounts(i) /\ volume[i] = AdapterOf(i)

-----------------------------------------------------------------------------
(* Products and quotients of natural numbers.                              *)
LEMMA Quotient ==
    ASSUME NEW n \in Nat, NEW k \in Nat \ {0}
    PROVE  /\ n \div k \in Nat /\ (n \div k) * k <= n
           /\ n = (k * (n \div k)) + (n % k) /\ n % k \in 0 .. k - 1
  OBVIOUS

LEMMA QuotientBelow ==
    ASSUME NEW c \in Nat, NEW m \in Nat, NEW k \in Nat \ {0}, c < m * k
    PROVE  c \div k < m
  OBVIOUS

LEMMA ProductGrows ==
    ASSUME NEW a \in Nat, NEW b \in Nat, NEW k \in Nat, a <= b
    PROVE  a * k \in Nat /\ a * k <= b * k
  OBVIOUS

LEMMA NextProduct ==
    ASSUME NEW a \in Nat, NEW b \in Nat, NEW k \in Nat, a < b
    PROVE  (a * k) + k <= b * k
  OBVIOUS

(* What Mount has checked of a boot record it accepts.                     *)
LEMMA AcceptedRecord ==
    ASSUME NEW first \in Words, NEW count \in Words, NEW r \in BootRecord,
           IsAccepted(first, count, r)
    PROVE  /\ r.sectors_per_cluster \in Nat \ {0}
           /\ r.sectors_per_fat \in Nat \ {0} /\ r.number_of_fats \in Nat \ {0}
           /\ FATSectors(r) \in Nat /\ DataSectors(r) \in Nat
           /\ FATLBA(first, r) \in Words /\ DataLBA(first, r) \in Words
           /\ EndLBA(first, r) \in Words
           /\ EndLBA(first, r) = DataLBA(first, r) + DataSectors(r)
           /\ MaxClusterFromData(r) \in Nat /\ MaximumCluster(r) \in Words
           /\ ActiveFAT(r) \in Nat /\ ActiveFAT(r) < r.number_of_fats
           /\ NewAdapter(first, r) \in Adapter
<1>1. /\ MaxWord \in Nat /\ EntriesPerBlock \in Nat \ {0}
  BY MountAssumption
<1>2. /\ r.reserved \in Nat /\ r.number_of_fats \in Nat \ {0}
      /\ r.sectors_per_fat \in Nat \ {0} /\ r.sectors_per_cluster \in Nat \ {0}
      /\ r.total \in Nat /\ r.active_fat \in Nat /\ r.fsinfo \in Nat /\ first \in Nat
      /\ r.root \in Words /\ r.sectors_per_cluster \in Words
      /\ r.sectors_per_fat \in Words /\ r.number_of_fats \in Words
      /\ r.mirrored \in BOOLEAN
  BY <1>1 DEF IsAccepted, FieldsAreLegal, BootRecord, Words
<1>3. FATSectors(r) \in Nat /\ EntriesInFAT(r) \in Nat
  BY <1>1, <1>2 DEF FATSectors, EntriesInFAT
<1>4. /\ DataSectors(r) \in Nat
      /\ FATLBA(first, r) \in Words /\ DataLBA(first, r) \in Words
      /\ EndLBA(first, r) \in Words
      /\ EndLBA(first, r) = DataLBA(first, r) + DataSectors(r)
  BY <1>1, <1>2, <1>3, SMTT(30) DEF IsAccepted, RegionsFit, DataSectors, NonDataSectors,
                                    FATLBA, DataLBA, EndLBA, Fits, Words
<1>5. MaxClusterFromData(r) \in Nat
  BY <1>2, <1>4, Quotient DEF MaxClusterFromData
<1>6. MaximumCluster(r) \in Words
  BY <1>1, <1>3, <1>5 DEF IsAccepted, ClustersFit, MaximumCluster, Fits, Words
<1>7. ActiveFAT(r) \in Nat /\ ActiveFAT(r) < r.number_of_fats
  BY <1>2 DEF IsAccepted, ClustersFit, ActiveFAT
<1>8. ActiveFAT(r) * r.sectors_per_fat \in Nat
  BY <1>2, <1>7, ProductGrows
<1>9. FATLBA(first, r) + (ActiveFAT(r) * r.sectors_per_fat) \in Words
  BY <1>1, <1>4, <1>8 DEF IsAccepted, ClustersFit, Fits, Words
<1>10. (IF r.fsinfo # 0 /\ r.fsinfo < r.reserved THEN first + r.fsinfo ELSE 0) \in Words
  BY <1>1, <1>2, <1>4 DEF FATLBA, Words
<1>11. NewAdapter(first, r) \in Adapter
  BY <1>2, <1>4, <1>6, <1>9, <1>10 DEF NewAdapter, Adapter
<1> QED BY <1>2, <1>3, <1>4, <1>5, <1>6, <1>7, <1>11

(* The sectors of a cluster lie in the data region, and begin behind those *)
(* of the clusters before.                                                 *)
LEMMA ClusterPlace ==
    ASSUME NEW first \in Words, NEW count \in Words, NEW r \in BootRecord,
           IsAccepted(first, count, r), NEW c \in 2 .. MaximumCluster(r)
    PROVE  /\ (c - 2) * r.sectors_per_cluster \in Nat
           /\ FATClusterToSector(NewAdapter(first, r), c)
                = DataLBA(first, r) + ((c - 2) * r.sectors_per_cluster)
           /\ DataLBA(first, r) + ((c - 2) * r.sectors_per_cluster) + r.sectors_per_cluster
                <= EndLBA(first, r)
<1> DEFINE k == r.sectors_per_cluster
           a == NewAdapter(first, r)
           q == DataSectors(r) \div k
<1>1. /\ k \in Nat \ {0} /\ DataSectors(r) \in Nat /\ MaximumCluster(r) \in Nat
      /\ DataLBA(first, r) \in Nat /\ EndLBA(first, r) \in Nat
      /\ EndLBA(first, r) <= MaxWord /\ MaxWord \in Nat
      /\ EndLBA(first, r) = DataLBA(first, r) + DataSectors(r)
  BY AcceptedRecord, MountAssumption DEF Words
<1>2. q \in Nat /\ q * k <= DataSectors(r)
  BY <1>1, Quotient
<1>3. c \in Nat /\ c >= 2 /\ c <= MaximumCluster(r)
  BY <1>1
<1>4. MaximumCluster(r) <= q + 1
  BY <1>1, <1>2, MountAssumption DEF MaximumCluster, MaxClusterFromData, EntriesInFAT, IsAccepted, ClustersFit, BootRecord, Words
<1>5. c - 2 \in Nat /\ c - 2 < q
  BY <1>2, <1>3, <1>4, <1>1
<1>6. (c - 2) * k \in Nat /\ ((c - 2) * k) + k <= q * k
  BY <1>1, <1>2, <1>5, NextProduct, ProductGrows
<1>7. q * k \in Nat
  BY <1>1, <1>2, ProductGrows
<1>8. DataLBA(first, r) + ((c - 2) * k) + k <= EndLBA(first, r)
  BY <1>1, <1>2, <1>6, <1>7
<1>9. /\ a.maximum_cluster = MaximumCluster(r) /\ a.sectors_per_cluster = k
      /\ a.data_lba = DataLBA(first, r)
  BY DEF NewAdapter
<1>10. /\ (c - 2) * k <= MaxWord /\ DataLBA(first, r) + ((c - 2) * k) <= MaxWord
  BY <1>1, <1>6, <1>8
<1>11. FATClusterToSector(a, c) = DataLBA(first, r) + ((c - 2) * k)
  BY <1>1, <1>3, <1>9, <1>10 DEF FATClusterToSector, IsClusterOutOfRange, Checked, Fits
<1> QED BY <1>6, <1>8, <1>11

LEMMA AcceptedClustersAreApart ==
    ASSUME NEW first \in Words, NEW count \in Words, NEW r \in BootRecord,
           IsAccepted(first, count, r)
    PROVE  ClustersAreApart(NewAdapter(first, r), EndLBA(first, r))
<1> DEFINE a == NewAdapter(first, r)
           k == r.sectors_per_cluster
           data == DataLBA(first, r)
           at(c) == (c - 2) * k
<1>1. /\ k \in Nat \ {0} /\ MaximumCluster(r) \in Nat
      /\ data \in Nat /\ EndLBA(first, r) \in Nat
  BY AcceptedRecord, MountAssumption DEF Words
<1>2. /\ a.maximum_cluster = MaximumCluster(r) /\ a.sectors_per_cluster = k
      /\ a.data_lba = data
  BY DEF NewAdapter
<1>3. ASSUME NEW c \in 2 .. MaximumCluster(r)
      PROVE  /\ at(c) \in Nat /\ data + at(c) + k <= EndLBA(first, r)
             /\ FATClusterToSector(a, c) = data + at(c)
             /\ ClusterSectors(a, c) = data + at(c) .. data + at(c) + k - 1
  BY <1>2, ClusterPlace DEF ClusterSectors
<1>4. ASSUME NEW c \in 2 .. MaximumCluster(r), NEW d \in 2 .. MaximumCluster(r), c < d
      PROVE  ClusterSectors(a, c) \cap ClusterSectors(a, d) = {}
  <2>1. c - 2 \in Nat /\ d - 2 \in Nat /\ c - 2 < d - 2
    BY <1>1, <1>4
  <2>2. at(c) + k <= at(d)
    BY <1>1, <2>1, NextProduct
  <2> HIDE DEF at, k, data
  <2> QED BY <1>1, <1>3, <2>2, SMTT(30)
<1>5. ASSUME NEW c \in 2 .. MaximumCluster(r)
      PROVE  /\ FATClusterToSector(a, c) # Nothing
             /\ ClusterSectors(a, c) \subseteq data .. EndLBA(first, r) - 1
  <2>1. data + at(c) \in Int
    BY <1>1, <1>3
  <2> HIDE DEF at, k, data
  <2> QED BY <1>1, <1>3, <2>1, MountAssumption, SMTT(30)
<1>6. ASSUME NEW c \in 2 .. MaximumCluster(r), NEW d \in 2 .. MaximumCluster(r), c # d
      PROVE  ClusterSectors(a, c) \cap ClusterSectors(a, d) = {}
  <2>1. c < d \/ d < c
    BY <1>1, <1>6
  <2> QED BY <1>4, <2>1
<1> QED BY <1>2, <1>5, <1>6 DEF ClustersAreApart

(* The entry of a cluster lies in the active FAT, which is one of the FATs. *)
LEMMA EntryPlace ==
    ASSUME NEW first \in Words, NEW count \in Words, NEW r \in BootRecord,
           IsAccepted(first, count, r), NEW c \in 2 .. MaximumCluster(r)
    PROVE  LET a == NewAdapter(first, r)
           IN /\ c \div EntriesPerBlock \in Nat
              /\ c \div EntriesPerBlock < r.sectors_per_fat
              /\ a.fat_lba >= FATLBA(first, r)
              /\ a.fat_lba + r.sectors_per_fat <= DataLBA(first, r)
              /\ FATEntryToSector(a, c) = a.fat_lba + (c \div EntriesPerBlock)
<1> DEFINE a == NewAdapter(first, r)
           n == r.sectors_per_fat
           b == c \div EntriesPerBlock
           active == ActiveFAT(r)
<1>1. /\ n \in Nat \ {0} /\ MaximumCluster(r) \in Nat /\ r.number_of_fats \in Nat
      /\ FATLBA(first, r) \in Nat /\ DataLBA(first, r) \in Nat
      /\ DataLBA(first, r) <= MaxWord /\ MaxWord \in Nat
      /\ active \in Nat /\ active < r.number_of_fats
      /\ EntriesPerBlock \in Nat \ {0}
  BY AcceptedRecord, MountAssumption DEF Words
<1>2. c \in Nat /\ c >= 2 /\ c <= MaximumCluster(r)
  BY <1>1
<1>3. EntriesInFAT(r) = n * EntriesPerBlock /\ EntriesInFAT(r) \in Nat
  BY <1>1, ProductGrows DEF EntriesInFAT
<1>4. MaxClusterFromData(r) \in Nat
  BY AcceptedRecord
<1>5. c < n * EntriesPerBlock
  BY <1>2, <1>3, <1>4 DEF MaximumCluster
<1>6. b \in Nat /\ b < n
  BY <1>1, <1>2, <1>5, Quotient, QuotientBelow
<1>7. /\ active * n \in Nat
      /\ (active * n) + n <= r.number_of_fats * n
      /\ r.number_of_fats * n \in Nat
  BY <1>1, NextProduct, ProductGrows
<1>8. a.fat_lba = FATLBA(first, r) + (active * n) /\ a.maximum_cluster = MaximumCluster(r)
  BY DEF NewAdapter
<1>9. DataLBA(first, r) = FATLBA(first, r) + (r.number_of_fats * n)
  BY DEF DataLBA, FATSectors
<1>10. a.fat_lba >= FATLBA(first, r) /\ a.fat_lba + n <= DataLBA(first, r) /\ a.fat_lba \in Nat
  BY <1>1, <1>7, <1>8, <1>9
<1>11. a.fat_lba + b <= MaxWord
  BY <1>1, <1>6, <1>10
<1>12. FATEntryToSector(a, c) = a.fat_lba + b
  BY <1>1, <1>2, <1>8, <1>11 DEF FATEntryToSector, IsClusterOutOfRange, Checked, Fits
<1> QED BY <1>6, <1>10, <1>12

\* With mirroring the active FAT is the first.
LEMMA MirrorPlace ==
    ASSUME NEW first \in Words, NEW count \in Words, NEW r \in BootRecord,
           IsAccepted(first, count, r), NEW c \in 2 .. MaximumCluster(r),
           NEW i \in Mirrors(NewAdapter(first, r))
    PROVE  LET a == NewAdapter(first, r)
               n == r.sectors_per_fat
               fat == FATLBA(first, r)
           IN /\ MirrorSector(a, c, i) # Nothing
              /\ MirrorSector(a, c, i) \in fat + i * n .. fat + (i + 1) * n - 1
              /\ MirrorSector(a, c, i) < DataLBA(first, r)
<1> DEFINE a == NewAdapter(first, r)
           n == r.sectors_per_fat
           b == c \div EntriesPerBlock
           fat == FATLBA(first, r)
<1>1. /\ n \in Nat \ {0} /\ r.number_of_fats \in Nat
      /\ fat \in Nat /\ DataLBA(first, r) \in Nat
      /\ DataLBA(first, r) <= MaxWord /\ MaxWord \in Nat
  BY AcceptedRecord, MountAssumption DEF Words
<1>2. /\ a.mirror_fats = r.mirrored /\ a.sectors_per_fat = n
      /\ a.number_of_fats = r.number_of_fats
      /\ a.fat_lba = fat + (ActiveFAT(r) * n)
  BY DEF NewAdapter
<1>3. r.mirrored /\ i \in 1 .. r.number_of_fats - 1
  BY <1>2 DEF Mirrors
<1>4. a.fat_lba = fat
  <2>1. ActiveFAT(r) = 0
    BY <1>3 DEF ActiveFAT
  <2>2. 0 * n = 0
    BY <1>1
  <2> QED BY <1>1, <1>2, <2>1, <2>2
<1>5. b \in Nat /\ b < n /\ FATEntryToSector(a, c) = fat + b
  BY <1>4, EntryPlace
<1>6. i \in Nat /\ i < r.number_of_fats /\ i + 1 \in Nat
  BY <1>1, <1>3
<1>7. /\ i * n \in Nat /\ (i * n) + n <= r.number_of_fats * n
      /\ r.number_of_fats * n \in Nat
  BY <1>1, <1>6, NextProduct, ProductGrows
<1>8. (i + 1) * n = (i * n) + n
  BY <1>1, <1>6
<1>9. DataLBA(first, r) = fat + (r.number_of_fats * n)
  BY DEF DataLBA, FATSectors
<1>10. i * n <= MaxWord /\ fat + b + (i * n) <= MaxWord /\ fat + b + (i * n) < DataLBA(first, r)
  BY <1>1, <1>5, <1>7, <1>9
<1>11. MirrorSector(a, c, i) = fat + b + (i * n)
  BY <1>2, <1>5, <1>10 DEF MirrorSector, Checked, Fits
<1> HIDE DEF a, n, b, fat
<1>12. MirrorSector(a, c, i) \in Int
  BY <1>1, <1>5, <1>7, <1>11
<1>13. MirrorSector(a, c, i) \in fat + (i * n) .. fat + ((i + 1) * n) - 1
  BY <1>1, <1>5, <1>7, <1>8, <1>11
<1> QED BY <1>10, <1>11, <1>12, <1>13, MountAssumption DEF a, n, b, fat

LEMMA AcceptedEntriesAreApart ==
    ASSUME NEW first \in Words, NEW count \in Words, NEW r \in BootRecord,
           IsAccepted(first, count, r)
    PROVE  EntriesAreApart(NewAdapter(first, r), FATLBA(first, r))
<1> DEFINE a == NewAdapter(first, r)
           n == r.sectors_per_fat
           fat == FATLBA(first, r)
<1>1. /\ MaximumCluster(r) \in Nat /\ EntriesPerBlock \in Nat \ {0}
      /\ n \in Nat /\ fat \in Nat /\ DataLBA(first, r) \in Nat /\ a.fat_lba \in Nat
  BY AcceptedRecord, MountAssumption DEF Words, Adapter
<1>2. /\ a.maximum_cluster = MaximumCluster(r) /\ a.sectors_per_fat = n
      /\ a.data_lba = DataLBA(first, r)
  BY DEF NewAdapter
<1>3. ASSUME NEW c \in 2 .. MaximumCluster(r)
      PROVE  /\ FATEntryToSector(a, c) # Nothing
             /\ FATEntryToSector(a, c) \in a.fat_lba .. a.fat_lba + n - 1
             /\ a.fat_lba >= fat /\ a.fat_lba + n <= DataLBA(first, r)
  <2>1. /\ c \div EntriesPerBlock \in Nat /\ c \div EntriesPerBlock < n
        /\ a.fat_lba >= fat /\ a.fat_lba + n <= DataLBA(first, r)
        /\ FATEntryToSector(a, c) = a.fat_lba + (c \div EntriesPerBlock)
    BY EntryPlace
  <2> HIDE DEF a, n, fat
  <2> QED BY <1>1, <2>1, MountAssumption
<1>4. ASSUME NEW c \in 2 .. MaximumCluster(r), NEW d \in 2 .. MaximumCluster(r),
             FATEntryToSector(a, c) = FATEntryToSector(a, d),
             EntryOffset(c) = EntryOffset(d)
      PROVE  c = d
  <2>1. /\ FATEntryToSector(a, c) = a.fat_lba + (c \div EntriesPerBlock)
        /\ FATEntryToSector(a, d) = a.fat_lba + (d \div EntriesPerBlock)
        /\ c \div EntriesPerBlock \in Nat /\ d \div EntriesPerBlock \in Nat
    BY EntryPlace
  <2>2. c \div EntriesPerBlock = d \div EntriesPerBlock
    <3>1. a.fat_lba + (c \div EntriesPerBlock) = a.fat_lba + (d \div EntriesPerBlock)
      BY <1>4, <2>1
    <3>2. \A x, y, z \in Nat : x + y = x + z => y = z
      OBVIOUS
    <3> QED BY ONLY <1>1, <2>1, <3>1, <3>2
  <2>3. c \in Nat /\ d \in Nat
    BY <1>1
  <2>4. /\ c = (EntriesPerBlock * (c \div EntriesPerBlock)) + (c % EntriesPerBlock)
        /\ d = (EntriesPerBlock * (d \div EntriesPerBlock)) + (d % EntriesPerBlock)
    BY <1>1, <2>3, Quotient
  <2> QED BY <1>4, <2>2, <2>4 DEF EntryOffset
<1>5. ASSUME NEW c \in 2 .. MaximumCluster(r), NEW i \in Mirrors(a)
      PROVE  /\ MirrorSector(a, c, i) # Nothing
             /\ MirrorSector(a, c, i) \in fat + i * n .. fat + (i + 1) * n - 1
             /\ MirrorSector(a, c, i) < DataLBA(first, r)
  BY MirrorPlace
<1> HIDE DEF a, n, fat
<1>6. EntriesAreApart(a, fat)
  BY <1>2, <1>3, <1>4, <1>5 DEF EntriesAreApart
<1> QED BY <1>6 DEF a, fat

-----------------------------------------------------------------------------
LEMMA InitMount == Init => MountInv
  BY MountAssumption DEF Init, MountInv

LEMMA MountStep == MountInv /\ [Next]_vars => MountInv'
<1> SUFFICES ASSUME MountInv, [Next]_vars PROVE MountInv'
  OBVIOUS
<1> USE DEF MountInv
<1>1. CASE UNCHANGED <<table, boot, volume>>
  BY <1>1 DEF AdapterOf, Mounts
<1>2. ASSUME NEW i \in Slots, Mount(i) PROVE MountInv'
  <2>1. AdapterOf(i) \in Adapter
    <3>1. table[i].first \in Words /\ table[i].count \in Words
      BY MountAssumption DEF Partition
    <3>2. boot[table[i].first] \in BootRecord
      BY DEF Partition
    <3> QED BY <1>2, <3>1, <3>2, AcceptedRecord DEF Mount, Mounts, AdapterOf
  <2>2. volume' \in [Slots -> Adapter \cup {Nothing}]
    BY <1>2, <2>1 DEF Mount, AdapterOf
  <2> QED BY <1>2, <2>2 DEF Mount, Mounts, AdapterOf, disk
<1>3. ASSUME NEW i \in Slots, Unmount(i) PROVE MountInv'
  BY <1>3 DEF Unmount, Mounts, AdapterOf, disk
<1> QED
  BY <1>1, <1>2, <1>3 DEF Next, ReadMasterBootRecord, SkipSlot, ListPartition,
                          GetPartitionsFails, disk, vars

(* Every cluster, FAT entry and mirror of a mounted volume has a place of  *)
(* its own within the partition, whatever the boot record said.            *)
THEOREM MountedVolumesCorrect == Spec => []MountedVolumesFit
<1>1. MountInv => MountedVolumesFit
  <2> SUFFICES ASSUME MountInv, NEW i \in Slots, volume[i] # Nothing
               PROVE  LET a == volume[i]
                          first == table[i].first
                          r == boot[first]
                      IN /\ ClustersAreApart(a, EndLBA(first, r))
                         /\ EntriesAreApart(a, FATLBA(first, r))
                         /\ a.fsinfo_sector \in {0} \cup first + 1 .. FATLBA(first, r) - 1
                         /\ table[i].count # 0 => EndLBA(first, r) <= first + table[i].count
                         /\ a.root \in 2 .. a.maximum_cluster
    BY DEF MountedVolumesFit
  <2> DEFINE first == table[i].first
             count == table[i].count
             r == boot[first]
             a == NewAdapter(first, r)
  <2>1. /\ first \in Words /\ count \in Words /\ r \in BootRecord
        /\ IsAccepted(first, count, r) /\ volume[i] = a
    BY MountAssumption DEF MountInv, Partition, Mounts, AdapterOf
  <2> HIDE DEF first, count, r
  <2>2. ClustersAreApart(a, EndLBA(first, r)) /\ EntriesAreApart(a, FATLBA(first, r))
    BY <2>1, AcceptedClustersAreApart, AcceptedEntriesAreApart
  <2>3. /\ first \in Nat /\ r.fsinfo \in Nat /\ r.reserved \in Nat /\ r.total \in Nat
        /\ r.root \in Nat /\ count \in Nat /\ MaximumCluster(r) \in Nat
    BY <2>1, AcceptedRecord, MountAssumption DEF BootRecord, Words
  <2>4. a.fsinfo_sector \in {0} \cup first + 1 .. FATLBA(first, r) - 1
    BY <2>3 DEF NewAdapter, FATLBA
  <2>5. count # 0 => EndLBA(first, r) <= first + count
    BY <2>1, <2>3 DEF IsAccepted, RegionsFit, EndLBA
  <2>6. a.root \in 2 .. a.maximum_cluster
    BY <2>1, <2>3 DEF IsAccepted, FieldsAreLegal, ClustersFit, NewAdapter
  <2> QED BY <2>1, <2>2, <2>4, <2>5, <2>6 DEF first, count, r
<1> QED BY <1>1, InitMount, MountStep, PTL DEF Spec

-----------------------------------------------------------------------------
(* While GetPartitions looks at an entry, what it listed comes before.     *)
ListInv ==
    /\ listed \in Seq([slot : Slots, is_boot : BOOLEAN])
    /\ slot \in 0 .. NumberOfSlots
    /\ slot # 0 => \A n \in DOMAIN listed : listed[n].slot < slot
    /\ ListIsInOrder

LEMMA InitList == Init => ListInv
  BY MountAssumption DEF Init, ListInv, ListIsInOrder

LEMMA ListStep == ListInv /\ [Next]_vars => ListInv'
<1> SUFFICES ASSUME ListInv, [Next]_vars PROVE ListInv'
  OBVIOUS
<1> DEFINE N == Len(listed)
<1>1. /\ NumberOfSlots \in Nat \ {0} /\ N \in Nat /\ DOMAIN listed = 1 .. N
      /\ listed \in Seq([slot : Slots, is_boot : BOOLEAN])
      /\ \A n \in 1 .. N : listed[n] \in [slot : Slots, is_boot : BOOLEAN]
  <2> DEFINE Item == [slot : Slots, is_boot : BOOLEAN]
  <2>1. NumberOfSlots \in Nat \ {0} /\ listed \in Seq(Item)
    BY MountAssumption DEF ListInv
  <2> HIDE DEF Item
  <2>2. N \in Nat /\ DOMAIN listed = 1 .. N /\ \A n \in 1 .. N : listed[n] \in Item
    BY <2>1
  <2> QED BY <2>1, <2>2 DEF Item
<1>2. CASE UNCHANGED <<table, boot, slot, listed>>
  BY <1>2 DEF ListInv, ListIsInOrder, Mounts
<1>3. CASE ReadMasterBootRecord \/ GetPartitionsFails
  BY <1>1, <1>3 DEF ReadMasterBootRecord, GetPartitionsFails, disk, ListInv, ListIsInOrder, Mounts
<1>4. CASE SkipSlot
  BY <1>1, <1>4 DEF SkipSlot, NextSlot, disk, ListInv, ListIsInOrder, Mounts, Slots
<1>5. CASE ListPartition
  <2> DEFINE e == [slot |-> slot, is_boot |-> listed = <<>>]
  <2>1. /\ slot \in Slots /\ table[slot].is_fat32 /\ Mounts(slot)
        /\ listed' = Append(listed, e) /\ slot' = NextSlot
        /\ UNCHANGED <<table, boot>>
    BY <1>1, <1>5 DEF ListPartition, IsBoot, disk, ListInv, Slots
  <2>2. e \in [slot : Slots, is_boot : BOOLEAN] /\ e.slot = slot
    BY <2>1
  <2>3. e.is_boot <=> N = 0
    <3>1. listed = <<>> <=> N = 0
      BY <1>1
    <3> QED BY <3>1
  <2> HIDE DEF e
  <2>4. /\ listed' \in Seq([slot : Slots, is_boot : BOOLEAN])
        /\ DOMAIN listed' = 1 .. N + 1
        /\ \A n \in 1 .. N : listed'[n] = listed[n]
        /\ listed'[N + 1] = e
    BY <1>1, <2>1, <2>2
  <2>5. \A n \in 1 .. N : listed[n].slot < slot /\ slot # 0
    BY <1>1, <2>1 DEF ListInv, Slots
  <2> HIDE DEF N
  <2>6. /\ slot' \in 0 .. NumberOfSlots
        /\ slot' # 0 => slot' = slot + 1
    BY <1>1, <2>1 DEF NextSlot, Slots
  <2>7. slot' # 0 => \A n \in DOMAIN listed' : listed'[n].slot < slot'
    BY <1>1, <2>1, <2>2, <2>4, <2>5, <2>6 DEF Slots
  <2>8. ASSUME NEW n \in 1 .. N + 1
        PROVE  /\ table[listed'[n].slot].is_fat32 /\ Mounts(listed'[n].slot)
               /\ listed'[n].is_boot <=> n = 1
               /\ \A m \in 1 .. n - 1 : listed'[m].slot < listed'[n].slot
    <3>1. CASE n = N + 1
      <4>1. listed'[n] = e
        BY <2>4, <3>1
      <4>2. e.is_boot <=> n = 1
        BY <1>1, <2>3, <3>1
      <4>3. \A m \in 1 .. n - 1 : listed'[m].slot < slot
        BY <1>1, <2>4, <2>5, <3>1
      <4> QED BY <2>1, <2>2, <4>1, <4>2, <4>3
    <3>2. CASE n \in 1 .. N
      <4>1. /\ listed'[n] = listed[n]
            /\ \A m \in 1 .. n - 1 : listed'[m] = listed[m]
        BY <1>1, <2>4, <3>2
      <4>2. /\ table[listed[n].slot].is_fat32 /\ Mounts(listed[n].slot)
            /\ listed[n].is_boot <=> n = 1
            /\ \A m \in 1 .. n - 1 : listed[m].slot < listed[n].slot
        BY <1>1, <3>2 DEF ListInv, ListIsInOrder
      <4> QED BY <4>1, <4>2
    <3> QED BY <1>1, <3>1, <3>2
  <2>9. ASSUME slot' # 0, NEW i \in 1 .. slot' - 1, table[i].is_fat32
        PROVE  \E n \in 1 .. N + 1 : listed'[n].slot = i
    <3>1. CASE i = slot
      BY <1>1, <2>2, <2>4, <3>1
    <3>2. CASE i \in 1 .. slot - 1
      <4>1. PICK n \in 1 .. N : listed[n].slot = i
        BY <1>1, <2>5, <2>9, <3>2, <2>1 DEF ListInv, ListIsInOrder, Slots
      <4>2. n \in 1 .. N + 1 /\ listed'[n].slot = i
        BY <1>1, <2>4, <4>1
      <4> QED BY <4>2
    <3> QED BY <1>1, <2>1, <2>6, <2>9, <3>1, <3>2 DEF Slots
  <2>10. ListIsInOrder'
    BY <2>1, <2>4, <2>8, <2>9 DEF ListIsInOrder, Mounts
  <2> QED BY <2>4, <2>6, <2>7, <2>10 DEF ListInv
<1>6. ASSUME NEW i \in Slots, Mount(i) \/ Unmount(i) PROVE ListInv'
  BY <1>2, <1>6 DEF Mount, Unmount, disk
<1> QED BY <1>2, <1>3, <1>4, <1>5, <1>6 DEF Next, vars

(* GetPartitions lists, in order and once, the FAT32 partitions that can   *)
(* be mounted, and the first of them boots.                                *)
THEOREM ListCorrect == Spec => []ListIsInOrder
<1>1. ListInv => ListIsInOrder
  BY DEF ListInv
<1> QED BY <1>1, InitList, ListStep, PTL DEF Spec

(* The fields of an adapter that is mounted are words: no sum or product   *)
(* Mount keeps has outgrown them.                                          *)
THEOREM TypeCorrect == Spec => []TypeOK
<1>1. MountInv /\ ListInv => TypeOK
  BY DEF MountInv, ListInv, TypeOK
<1> QED BY <1>1, InitMount, MountStep, InitList, ListStep, PTL DEF Spec
=============================================================================
