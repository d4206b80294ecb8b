----------------------------- MODULE FatEntries -----------------------------
(***************************************************************************)
(* The values an entry of the file allocation table can hold, and the      *)
(* tests the code applies to them.  Entries are 28 bits in the code; here  *)
(* the clusters are 2 .. MaxCluster and the two special classes lie just   *)
(* above, in the code's order: defective below the EOF threshold.          *)
(***************************************************************************)
EXTENDS Integers

CONSTANT MaxCluster             \* maximum_cluster_number_ of the volume

ASSUME MaxClusterAssumption == MaxCluster \in Nat /\ MaxCluster >= 2

Clusters  == 2 .. MaxCluster
Free      == 0                  \* FAT32EntryFree
Defective == MaxCluster + 1     \* FAT32EntryDefective
EOF       == MaxCluster + 2     \* FAT32EntryAllocatedAndEndOfFile, and every
                                \* other value from FAT32EntryEOFThreshold up
Entry     == {Free, Defective, EOF} \cup Clusters

OutOfRange(c) == c < 2 \/ c > MaxCluster
ValidFATValue(v) == v = Free \/ ~OutOfRange(v) \/ v >= Defective
EndOfChain(v) == v >= EOF
=============================================================================
