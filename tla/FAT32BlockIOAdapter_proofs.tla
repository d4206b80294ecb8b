--------------------- MODULE FAT32BlockIOAdapter_proofs ---------------------
(***************************************************************************)
(* Proofs about FAT32BlockIOAdapter, for every volume: any number of       *)
(* clusters, of entries per block, of copies of the FAT, any initial table *)
(* and any number of calls.                                                *)
(***************************************************************************)
EXTENDS FAT32BlockIOAdapter, FiniteSetTheorems, TLAPS

(* The parts of the inductive invariant.                                   *)

\* An update that has begun has arguments that were checked, and a release
\* has read the next cluster before it frees this one.
UpdateIsChecked ==
    /\ pc \in {"fsinfo", "active", "mirror"} =>
        /\ op \in {"update", "release"}
        /\ cluster \in Clusters
        /\ new_value \in Entry
    /\ pc \in {"fsinfo", "active"} /\ op = "release" => value = active[cluster]
    /\ pc = "release" => op = "release"

\* A search is at a cluster of the table, or just past the last one.
ScanIsChecked == pc = "scan" => op = "find" /\ cluster >= 2
WalkIsQuery == pc = "walk" => op = "previous"

\* Readers use copy 0 when the copies are mirrored; the loop begins at 1.
MirrorsFollowCopyZero ==
    /\ mirror_fats => active_fat = 0
    /\ pc = "mirror" => fat_index >= 1

TypeInv ==
    /\ TypeOK
    /\ UpdateIsChecked
    /\ ScanIsChecked
    /\ WalkIsQuery
    /\ MirrorsFollowCopyZero

-----------------------------------------------------------------------------
(* The number of free clusters is a number.                                *)
LEMMA FreeCountIsNat == \A t : Cardinality(FreeClusters(t)) \in Nat
<1> SUFFICES ASSUME NEW t PROVE Cardinality(FreeClusters(t)) \in Nat
  OBVIOUS
<1>1. IsFiniteSet(Clusters)
  BY FS_Interval, MaxClusterAssumption DEF Clusters
<1>2. FreeClusters(t) \subseteq Clusters
  BY DEF FreeClusters
<1> QED BY <1>1, <1>2, FS_Subset, FS_CardinalityType

(* The block of a cluster is a natural number.                             *)
LEMMA BlockIsNat == \A c \in Nat : Block(c) \in Nat
BY AdapterAssumption, Z3 DEF Block

(* The ranges of the variables, with the entries of the table inside.      *)
LEMMA Bounds ==
    /\ MaxCalls \in Nat /\ MaxCluster \in Nat /\ EOF \in Nat
    /\ 0 \in 0 .. EOF /\ 2 \in 0 .. EOF
    /\ 0 \in 0 .. MaxCluster /\ 0 \in 0 .. MaxCalls
    /\ 0 .. Defective \subseteq 0 .. EOF
    /\ Entry \subseteq 0 .. EOF
    /\ Clusters \subseteq 0 .. EOF
    /\ {0} \cup Clusters \subseteq 0 .. EOF
BY MaxClusterAssumption, AdapterAssumption
   DEF Entry, Clusters, Free, Defective, EOF

LEMMA EntryIsBounded == Entry \subseteq 0 .. EOF /\ Clusters \subseteq 0 .. EOF
BY Bounds

(* What passes the checks of UpdateFATTableEntry is a cluster and an entry.*)
LEMMA CheckedArguments ==
    /\ \A c \in 0 .. EOF : ~OutOfRange(c) => c \in Clusters
    /\ \A v \in 0 .. EOF : ValidFATValue(v) => v \in Entry
BY MaxClusterAssumption
   DEF OutOfRange, ValidFATValue, Entry, Clusters, Free, Defective, EOF

USE DEF bpb, device, memory, locals, control, vars

(* The initial states are well typed.                                      *)
LEMMA InitTypeInv == Init => TypeInv
<1> SUFFICES ASSUME Init PROVE TypeInv
  OBVIOUS
<1>1. fat \in [Fats -> [Clusters -> Entry]]
  BY AdapterAssumption DEF Init
<1>2. fsinfo \in Nat \cup {UnknownCount, NoSignature, NoSector}
  BY FreeCountIsNat DEF Init
<1>3. active_fat \in Fats /\ (mirror_fats => active_fat = 0)
  BY AdapterAssumption DEF Init, Fats
<1>4. TypeOK
  BY <1>1, <1>2, <1>3, Bounds DEF Init, TypeOK, Codes, Ops, Places
<1> QED BY <1>3, <1>4
      DEF Init, TypeInv, UpdateIsChecked, ScanIsChecked, WalkIsQuery,
          MirrorsFollowCopyZero

(* The entry of a cluster in range is an entry of the table.               *)
LEMMA EntryOfCluster ==
    TypeOK /\ ~OutOfRange(cluster) =>
        /\ cluster \in Clusters
        /\ active[cluster] \in Entry
        /\ active[cluster] \in 0 .. EOF
<1> SUFFICES ASSUME TypeOK, ~OutOfRange(cluster)
             PROVE  cluster \in Clusters /\ active[cluster] \in Entry
  BY EntryIsBounded
<1>1. cluster \in Clusters
  BY CheckedArguments DEF TypeOK
<1> QED BY <1>1 DEF TypeOK, active

(* A step back stays where it is, or moves to the next entry of the chain. *)
LEMMA WalkNextMoves ==
    WalkNext => \/ cluster' = cluster
                \/ ~OutOfRange(cluster) /\ cluster' = active[cluster]
BY DEF WalkNext

(* Every step keeps the types.                                             *)
LEMMA NextTypeInv == TypeInv /\ [Next]_vars => TypeInv'
<1> SUFFICES ASSUME TypeInv, [Next]_vars PROVE TypeInv'
  OBVIOUS
<1> USE DEF TypeInv, TypeOK, UpdateIsChecked, ScanIsChecked, WalkIsQuery,
        MirrorsFollowCopyZero, Codes, Ops, Places, Goto, Return, Continue,
        active, new_value
<1>0. ASSUME NEW name \in Ops, Call(name)
      PROVE /\ calls' \in 0 .. MaxCalls
            /\ op' = name /\ pc = "idle" /\ UNCHANGED bpb
  BY <1>0, Bounds DEF Call
<1>1. ASSUME NEW c \in 0 .. Defective, NEW v \in 0 .. EOF,
             UpdateFATTableEntry(c, v)
      PROVE TypeInv'
  <2>1. c \in 0 .. EOF
    BY Bounds
  <2>2. pc' \in {"idle", "fsinfo"} /\ result' \in Codes
    BY <1>1 DEF UpdateFATTableEntry
  <2>3. pc' = "fsinfo" => c \in Clusters /\ v \in Entry
    BY <1>1, <2>1, CheckedArguments DEF UpdateFATTableEntry
  <2> QED BY <1>0, <1>1, <2>1, <2>2, <2>3, Bounds DEF UpdateFATTableEntry
<1>2. ASSUME NEW c \in 0 .. Defective, ReleaseChain(c)
      PROVE TypeInv'
  <2>1. pc' \in {"idle", "release"} /\ result' \in Codes
    BY <1>2 DEF ReleaseChain
  <2> QED BY <1>0, <1>2, <2>1, Bounds DEF ReleaseChain
<1>3. ASSUME NEW c \in 0 .. Defective, FindNextEmptyCluster(c)
      PROVE TypeInv'
  <2>1. cluster' \in 0 .. EOF
    BY <1>3, Bounds, AdapterAssumption
       DEF FindNextEmptyCluster, StartOfSearch
  <2>2. pc' = "scan" => cluster' >= 2
    BY <1>3, <2>1 DEF FindNextEmptyCluster, ReadFATBlock, OutOfRange
  <2>3. buffered' \in Nat
    BY <1>3, <2>1, BlockIsNat, Bounds DEF FindNextEmptyCluster, ReadFATBlock
  <2>4. pc' \in {"idle", "scan"} /\ result' \in Codes
    BY <1>3 DEF FindNextEmptyCluster, ReadFATBlock
  <2> QED BY <1>0, <1>3, <2>1, <2>2, <2>3, <2>4, Bounds
          DEF FindNextEmptyCluster
<1>4. ASSUME NEW c \in 0 .. Defective, NEW d \in 0 .. Defective,
             PreviousClusterInChain(c, d)
      PROVE TypeInv'
  <2>1. pc' \in {"idle", "walk"} /\ result' \in Codes
    BY <1>4 DEF PreviousClusterInChain
  <2> QED BY <1>0, <1>4, <2>1, Bounds DEF PreviousClusterInChain
<1>5. CASE InvalidateFSInfoOnce
  BY <1>5 DEF InvalidateFSInfoOnce
<1>6. CASE WriteActiveFAT
  <2>1. fat' \in [Fats -> [Clusters -> Entry]]
    BY <1>6 DEF WriteActiveFAT
  <2> QED BY <1>6, <2>1 DEF WriteActiveFAT
<1>7. CASE WriteMirrorFAT
  <2>1. CopyBlock(fat[fat_index], active, cluster) \in [Clusters -> Entry]
        \/ fat_index \notin Fats
    BY DEF CopyBlock
  <2>2. fat' \in [Fats -> [Clusters -> Entry]]
    BY <1>7, <2>1 DEF WriteMirrorFAT
  <2> QED BY <1>7, <2>2 DEF WriteMirrorFAT
<1>8. CASE EveryCopyWritten
  BY <1>8, EntryIsBounded DEF EveryCopyWritten, UpdateDone
<1>9. CASE ReleaseNext
  <2>1. ASSUME ~OutOfRange(cluster)
        PROVE cluster \in Clusters /\ active[cluster] \in Entry
    BY <2>1, EntryOfCluster
  <2> QED BY <1>9, <2>1, EntryIsBounded DEF ReleaseNext, Entry
<1>10. CASE ScanPastTheEnd
  <2>1. buffered' \in Nat
    BY <1>10, BlockIsNat DEF ScanPastTheEnd, ReadFATBlock
  <2>2. pc' \in {"idle", "scan"} /\ result' \in Codes
    BY <1>10 DEF ScanPastTheEnd, ReadFATBlock
  <2>3. cluster' \in {cluster, 2} /\ wrapped' = TRUE
    BY <1>10 DEF ScanPastTheEnd
  <2>4. cluster' \in 0 .. EOF /\ cluster' >= 2
    BY <1>10, <2>3, Bounds DEF ScanPastTheEnd
  <2> QED BY <1>10, <2>1, <2>2, <2>3, <2>4 DEF ScanPastTheEnd
<1>11. CASE ScanFound
  <2>1. last_empty_cluster' \in {0} \cup Clusters
    BY <1>11, MaxClusterAssumption DEF ScanFound, Clusters
  <2> QED BY <1>11, <2>1 DEF ScanFound
<1>12. CASE ScanAdvance
  <2>1. cluster' \in 0 .. EOF /\ cluster' >= 2
    BY <1>12, MaxClusterAssumption DEF ScanAdvance, EOF
  <2>2. buffered' \in Nat
    BY <1>12, <2>1, BlockIsNat, Bounds DEF ScanAdvance, ReadFATBlock
  <2>3. pc' \in {"idle", "scan"} /\ result' \in Codes
    BY <1>12 DEF ScanAdvance, ReadFATBlock
  <2> QED BY <1>12, <2>1, <2>2, <2>3 DEF ScanAdvance
<1>13. CASE WalkNext
  <2>1. cluster' \in 0 .. EOF
    <3>1. \/ cluster' = cluster
          \/ ~OutOfRange(cluster) /\ cluster' = active[cluster]
      BY <1>13, WalkNextMoves
    <3> QED BY <3>1, EntryOfCluster
  <2>2. steps' \in 0 .. MaxCluster
    BY <1>13, Bounds DEF WalkNext, WalkIsTooLong
  <2>3. pc' \in {"idle", "walk"} /\ result' \in Codes
    BY <1>13 DEF WalkNext
  <2> QED BY <1>13, <2>1, <2>2, <2>3 DEF WalkNext
<1>14. CASE Remount
  <2>1. fsinfo' \in Nat \cup {UnknownCount, NoSignature, NoSector}
    BY <1>14, FreeCountIsNat DEF Remount
  <2> QED BY <1>14, <2>1, Bounds DEF Remount
<1>15. CASE UNCHANGED vars
  BY <1>15
<1> QED BY <1>1, <1>2, <1>3, <1>4, <1>5, <1>6, <1>7, <1>8, <1>9, <1>10,
          <1>11, <1>12, <1>13, <1>14, <1>15 DEF Next, Step

(* What a call in progress knows of its arguments: UpdateFATTableEntry,    *)
(* ReleaseChain and the search check them once, where they begin.          *)
LEMMA TypeInvHolds == Spec => []TypeInv
BY InitTypeInv, NextTypeInv, PTL DEF Spec

(* The adapter's state has its types: every entry written to a copy of the *)
(* FAT is an entry, every loop variable stays in its range.                *)
THEOREM TypeCorrect == Spec => []TypeOK
<1>1. TypeInv => TypeOK
  BY DEF TypeInv
<1> QED BY <1>1, TypeInvHolds, PTL

-----------------------------------------------------------------------------
(* The free count.  Its inductive form says when FSInfo can no longer hold *)
(* a count: once this mount has invalidated it, and wherever an update is  *)
(* about to change the table, or has.                                      *)
FSInfoInv ==
    /\ FSInfoNeverContradictsFAT
    /\ fsinfo_invalidated => fsinfo \notin Nat
    /\ pc \in {"active", "mirror"} => fsinfo \notin Nat

LEMMA InitFSInfoInv == Init => FSInfoInv
<1> SUFFICES ASSUME Init PROVE FSInfoInv
  OBVIOUS
<1>1. PICK t \in InitialTables :
        /\ fat = [f \in Fats |-> t]
        /\ fsinfo \in {Cardinality(FreeClusters(t)), UnknownCount,
                       NoSignature, NoSector}
  BY DEF Init
<1>2. active = t
  BY <1>1, InitTypeInv DEF active, TypeInv, TypeOK
<1>3. FSInfoNeverContradictsFAT
  BY <1>1, <1>2
     DEF FSInfoNeverContradictsFAT, UnknownCount, NoSignature, NoSector
<1> QED BY <1>3 DEF Init, FSInfoInv

LEMMA NextFSInfoInv == FSInfoInv /\ [Next]_vars => FSInfoInv'
<1> SUFFICES ASSUME FSInfoInv, [Next]_vars PROVE FSInfoInv'
  OBVIOUS
<1> USE DEF FSInfoInv, FSInfoNeverContradictsFAT, active, Goto, Return,
        Continue
<1>0. UnknownCount \notin Nat /\ NoSignature \notin Nat /\ NoSector \notin Nat
  BY DEF UnknownCount, NoSignature, NoSector
<1>1. ASSUME NEW c, NEW v, UpdateFATTableEntry(c, v) PROVE FSInfoInv'
  BY <1>1 DEF UpdateFATTableEntry, Call
<1>2. ASSUME NEW c, ReleaseChain(c) PROVE FSInfoInv'
  BY <1>2 DEF ReleaseChain, Call
<1>3. ASSUME NEW c, FindNextEmptyCluster(c) PROVE FSInfoInv'
  BY <1>3 DEF FindNextEmptyCluster, ReadFATBlock, Call
<1>4. ASSUME NEW c, NEW d, PreviousClusterInChain(c, d) PROVE FSInfoInv'
  BY <1>4 DEF PreviousClusterInChain, Call
<1>5. CASE InvalidateFSInfoOnce
  BY <1>0, <1>5 DEF InvalidateFSInfoOnce
<1>6. CASE WriteActiveFAT
  BY <1>6 DEF WriteActiveFAT
<1>7. CASE WriteMirrorFAT
  BY <1>7 DEF WriteMirrorFAT
<1>8. CASE EveryCopyWritten
  BY <1>8 DEF EveryCopyWritten, UpdateDone
<1>9. CASE ReleaseNext
  BY <1>9 DEF ReleaseNext
<1>10. CASE ScanPastTheEnd
  BY <1>10 DEF ScanPastTheEnd, ReadFATBlock
<1>11. CASE ScanFound
  BY <1>11 DEF ScanFound
<1>12. CASE ScanAdvance
  BY <1>12 DEF ScanAdvance, ReadFATBlock
<1>13. CASE WalkNext
  BY <1>13 DEF WalkNext
<1>14. CASE Remount
  BY <1>14 DEF Remount
<1>15. CASE UNCHANGED vars
  BY <1>15
<1> QED BY <1>1, <1>2, <1>3, <1>4, <1>5, <1>6, <1>7, <1>8, <1>9, <1>10,
          <1>11, <1>12, <1>13, <1>14, <1>15 DEF Next, Step

(* FSInfo's free count is never wrong, whatever device access fails and    *)
(* wherever the power does (InvalidateFSInfoOnce comes before the first    *)
(* change of the FAT since mount).                                         *)
THEOREM FSInfoCorrect == Spec => []FSInfoNeverContradictsFAT
<1>1. FSInfoInv => FSInfoNeverContradictsFAT
  BY DEF FSInfoInv
<1> QED BY <1>1, InitFSInfoInv, NextFSInfoInv, PTL DEF Spec

-----------------------------------------------------------------------------
(* With mirroring off, only the copy that is read is ever written.         *)
THEOREM InactiveUntouched == Spec => InactiveFATsUntouched
<1> DEFINE Untouched ==
      ~mirror_fats => \A f \in Fats \ {active_fat} : fat'[f] = fat[f]
<1>1. TypeInv /\ [Next]_vars => [Untouched]_vars
  <2> SUFFICES ASSUME TypeInv, Next PROVE Untouched
    OBVIOUS
  <2>1. CASE WriteActiveFAT
    BY <2>1 DEF WriteActiveFAT, TypeInv, TypeOK
  <2>2. CASE WriteMirrorFAT
    BY <2>2 DEF WriteMirrorFAT, AnotherCopy
  <2>3. CASE ~WriteActiveFAT /\ ~WriteMirrorFAT
    <3>1. UNCHANGED fat
      BY <2>3 DEF Next, Step, UpdateFATTableEntry, ReleaseChain,
           FindNextEmptyCluster, PreviousClusterInChain,
           InvalidateFSInfoOnce, EveryCopyWritten, ReleaseNext,
           ScanPastTheEnd, ScanFound, ScanAdvance, WalkNext, Remount
    <3> QED BY <3>1
  <2> QED BY <2>1, <2>2, <2>3
<1> QED BY <1>1, TypeInvHolds, PTL DEF Spec, InactiveFATsUntouched

-----------------------------------------------------------------------------
(* Mirroring.  While the copies are written one after the other, those     *)
(* before fat_index hold the block that was written to the first.          *)
BlockIsMirrored(f) ==
    \A c \in Clusters : Block(c) = Block(cluster) => fat[f][c] = active[c]

MirrorInv ==
    /\ SuccessReachesEveryCopy
    /\ mirror_fats /\ pc = "mirror" =>
         \A f \in Fats : f < fat_index => BlockIsMirrored(f)

LEMMA NextMirrorInv == TypeInv /\ MirrorInv /\ [Next]_vars => MirrorInv'
<1> SUFFICES ASSUME TypeInv, MirrorInv, [Next]_vars PROVE MirrorInv'
  OBVIOUS
<1> USE DEF MirrorInv, SuccessReachesEveryCopy, BlockIsMirrored, Returned,
        active, Goto, Return, Continue
<1>1. ASSUME NEW c, NEW v, UpdateFATTableEntry(c, v) PROVE MirrorInv'
  BY <1>1 DEF UpdateFATTableEntry, Call
<1>2. ASSUME NEW c, ReleaseChain(c) PROVE MirrorInv'
  BY <1>2 DEF ReleaseChain, Call
<1>3. ASSUME NEW c, FindNextEmptyCluster(c) PROVE MirrorInv'
  BY <1>3 DEF FindNextEmptyCluster, ReadFATBlock, Call
<1>4. ASSUME NEW c, NEW d, PreviousClusterInChain(c, d) PROVE MirrorInv'
  BY <1>4 DEF PreviousClusterInChain, Call
<1>5. CASE InvalidateFSInfoOnce
  BY <1>5 DEF InvalidateFSInfoOnce
<1>6. CASE WriteActiveFAT
  <2>1. CASE mirror_fats /\ pc' = "mirror"
    <3>1. active_fat = 0 /\ active_fat' = 0 /\ fat_index' = 1
      BY <1>6, <2>1 DEF WriteActiveFAT, TypeInv, MirrorsFollowCopyZero, bpb
    <3>2. \A f \in Fats : f < 1 => f = 0
      BY DEF Fats
    <3> QED BY <1>6, <2>1, <3>1, <3>2 DEF WriteActiveFAT
  <2>2. CASE ~(mirror_fats /\ pc' = "mirror")
    BY <1>6, <2>2 DEF WriteActiveFAT
  <2> QED BY <2>1, <2>2
<1>7. CASE WriteMirrorFAT
  <2>1. mirror_fats /\ fat_index \in Fats \ {0} /\ active_fat = 0
    BY <1>7, AdapterAssumption
       DEF WriteMirrorFAT, AnotherCopy, TypeInv, TypeOK, Fats,
           MirrorsFollowCopyZero
  <2>2. CASE pc' = "mirror"
    <3>1. /\ fat' = [fat EXCEPT ![fat_index] =
                        CopyBlock(fat[fat_index], active, cluster)]
          /\ fat_index' = fat_index + 1
          /\ UNCHANGED <<active_fat, cluster>>
      BY <1>7, <2>2 DEF WriteMirrorFAT
    <3>2. \A c \in Clusters : Block(c) = Block(cluster) =>
              fat'[fat_index][c] = fat[0][c]
      BY <2>1, <3>1 DEF CopyBlock, TypeInv, TypeOK
    <3>3. \A f \in Fats \ {fat_index} : fat'[f] = fat[f]
      BY <3>1 DEF TypeInv, TypeOK
    <3>4. \A f \in Fats : f < fat_index + 1 => f = fat_index \/ f < fat_index
      BY DEF Fats, TypeInv, TypeOK
    <3>5. pc = "mirror" /\ 0 \in Fats
      BY <1>7, AdapterAssumption DEF WriteMirrorFAT, Fats
    <3> QED BY <2>1, <2>2, <3>1, <3>2, <3>3, <3>4, <3>5
  <2>3. CASE pc' # "mirror"
    BY <1>7, <2>3 DEF WriteMirrorFAT
  <2> QED BY <2>2, <2>3
<1>8. CASE EveryCopyWritten
  <2>1. CASE mirror_fats' /\ Returned("update", "SUCCESS")'
    <3>1. mirror_fats /\ pc = "mirror" /\ ~(fat_index < NumberOfFats)
      BY <1>8, <2>1 DEF EveryCopyWritten, AnotherCopy
    <3>2. \A f \in Fats : f < fat_index
      BY <3>1, AdapterAssumption DEF Fats, TypeInv, TypeOK
    <3>3. cluster' = cluster
      BY <1>8, <2>1 DEF EveryCopyWritten, UpdateDone
    <3> QED BY <1>8, <2>1, <3>1, <3>2, <3>3 DEF EveryCopyWritten
  <2>2. CASE ~(mirror_fats' /\ Returned("update", "SUCCESS")')
    BY <1>8, <2>2 DEF EveryCopyWritten, UpdateDone
  <2> QED BY <2>1, <2>2
<1>9. CASE ReleaseNext
  BY <1>9 DEF ReleaseNext
<1>10. CASE ScanPastTheEnd
  BY <1>10 DEF ScanPastTheEnd, ReadFATBlock
<1>11. CASE ScanFound
  BY <1>11 DEF ScanFound, TypeInv, ScanIsChecked
<1>12. CASE ScanAdvance
  BY <1>12 DEF ScanAdvance, ReadFATBlock
<1>13. CASE WalkNext
  BY <1>13 DEF WalkNext, TypeInv, WalkIsQuery
<1>14. CASE Remount
  BY <1>14 DEF Remount
<1>15. CASE UNCHANGED vars
  BY <1>15
<1> QED BY <1>1, <1>2, <1>3, <1>4, <1>5, <1>6, <1>7, <1>8, <1>9, <1>10,
          <1>11, <1>12, <1>13, <1>14, <1>15 DEF Next, Step

(* An update that answers SUCCESS left every mirrored copy with the same   *)
(* block, whatever earlier updates of that block left undone.              *)
THEOREM MirroringCorrect == Spec => []SuccessReachesEveryCopy
<1>1. Init => MirrorInv
  BY DEF Init, MirrorInv, SuccessReachesEveryCopy, Returned
<1>2. MirrorInv => SuccessReachesEveryCopy
  BY DEF MirrorInv
<1> QED BY <1>1, <1>2, NextMirrorInv, TypeInvHolds, PTL DEF Spec

-----------------------------------------------------------------------------
(* Refinement: each step of the adapter is a step of FatTable, or none.    *)
LEMMA InitRefines == Init => Table!Init
<1> SUFFICES ASSUME Init PROVE Table!Init
  OBVIOUS
<1>1. active \in [Clusters -> Entry]
  BY InitTypeInv DEF TypeInv, TypeOK, active
<1>2. Table!Clusters = Clusters /\ Table!Entry = Entry
  BY DEF Table!Clusters, Clusters, Table!Entry, Entry, Table!Free,
         Table!Defective, Table!EOF, Free, Defective, EOF
<1> QED BY <1>1, <1>2 DEF Init, Table!Init

(* A call that is refused where it begins, or fails, or is cut by a crash. *)
LEMMA FailRefines ==
    (/\ pc' = "idle"
     /\ result' # "SUCCESS"
     /\ UNCHANGED active) => Table!Fail
BY DEF Table!Fail

LEMMA NextRefines == TypeInv /\ [Next]_vars => [Table!Next]_(Table!tvars)
<1> SUFFICES ASSUME TypeInv, [Next]_vars PROVE Table!Next \/ UNCHANGED Table!tvars
  OBVIOUS
<1> USE DEF TypeInv, UpdateIsChecked, ScanIsChecked, WalkIsQuery, Goto,
        Return, Continue, Table!Next, Table!tvars
<1>1. ASSUME NEW c \in 0 .. Defective, NEW v \in 0 .. EOF,
             UpdateFATTableEntry(c, v)
      PROVE Table!Next
  <2>1. UNCHANGED active /\ pc = "idle" /\ op' = "update"
    BY <1>1 DEF UpdateFATTableEntry, Call, active
  <2>2. CASE OutOfRange(c) \/ ~ValidFATValue(v)
    BY <1>1, <2>1, <2>2, FailRefines DEF UpdateFATTableEntry
  <2>3. CASE ~(OutOfRange(c) \/ ~ValidFATValue(v))
    <3>1. c \in Clusters /\ v \in Entry
      BY <2>3, CheckedArguments, Bounds
    <3>2. pc' = "fsinfo" /\ cluster' = c /\ value' = v /\ result' = "NONE"
      BY <1>1, <2>3 DEF UpdateFATTableEntry
    <3>3. Table!AskUpdate
      BY <2>1, <3>1, <3>2
         DEF Table!AskUpdate, Table!Clusters, Table!Entry, Clusters, Entry,
             Table!Free, Table!Defective, Table!EOF, Free, Defective, EOF
    <3> QED BY <3>3
  <2> QED BY <2>2, <2>3
<1>2. ASSUME NEW c \in 0 .. Defective, ReleaseChain(c)
      PROVE Table!Next
  <2>1. UNCHANGED active /\ pc = "idle" /\ op' = "release"
    BY <1>2 DEF ReleaseChain, Call, active
  <2>2. CASE OutOfRange(c)
    BY <1>2, <2>1, <2>2, FailRefines DEF ReleaseChain
  <2>3. CASE ~OutOfRange(c)
    <3>1. c \in Clusters
      BY <2>3, CheckedArguments, Bounds
    <3>2. pc' = "release" /\ cluster' = c /\ result' = "NONE"
      BY <1>2, <2>3 DEF ReleaseChain
    <3>3. Table!AskRelease
      BY <2>1, <3>1, <3>2
         DEF Table!AskRelease, Table!Clusters, Clusters, Table!Free, Free
    <3> QED BY <3>3
  <2> QED BY <2>2, <2>3
<1>3. ASSUME NEW c \in 0 .. Defective, FindNextEmptyCluster(c)
      PROVE Table!Next
  <2>1. /\ UNCHANGED active /\ pc = "idle" /\ op' = "find"
        /\ pc' \in {"idle", "scan"} /\ result' # "SUCCESS"
    BY <1>3 DEF FindNextEmptyCluster, ReadFATBlock, Call, active
  <2> QED BY <2>1, FailRefines DEF Table!AskQuery
<1>4. ASSUME NEW c \in 0 .. Defective, NEW d \in 0 .. Defective,
             PreviousClusterInChain(c, d)
      PROVE Table!Next
  <2>1. /\ UNCHANGED active /\ pc = "idle" /\ op' = "previous"
        /\ pc' \in {"idle", "walk"} /\ result' # "SUCCESS"
    BY <1>4 DEF PreviousClusterInChain, Call, active
  <2> QED BY <2>1, FailRefines DEF Table!AskQuery
<1>5. CASE InvalidateFSInfoOnce
  <2>1. UNCHANGED <<active, op, cluster, value>> /\ pc = "fsinfo"
    BY <1>5 DEF InvalidateFSInfoOnce, active
  <2>2. \/ pc' = "active"
        \/ pc' = "idle" /\ result' # "SUCCESS"
    BY <1>5 DEF InvalidateFSInfoOnce
  <2> QED BY <2>1, <2>2, FailRefines
<1>6. CASE WriteActiveFAT
  <2>1. /\ UNCHANGED <<op, cluster, value>> /\ pc = "active"
        /\ cluster \in Clusters /\ op \in {"update", "release"}
    BY <1>6 DEF WriteActiveFAT
  <2>2. CASE pc' = "mirror"
    <3>1. active' = [active EXCEPT ![cluster] = new_value]
      BY <1>6, <2>2 DEF WriteActiveFAT, TypeOK, active
    <3>2. CASE op = "update"
      <4>1. Table!ApplyUpdate
        BY <2>1, <2>2, <3>1, <3>2
           DEF Table!ApplyUpdate, Table!Clusters, Clusters, Table!EOF, EOF,
               new_value
      <4> QED BY <4>1
    <3>3. CASE op = "release"
      <4>1. Table!ApplyRelease
        BY <2>1, <2>2, <3>1, <3>3
           DEF Table!ApplyRelease, Table!Clusters, Clusters, Table!Free,
               Free, new_value
      <4> QED BY <4>1
    <3> QED BY <2>1, <3>2, <3>3
  <2>3. CASE pc' # "mirror"
    BY <1>6, <2>3, FailRefines DEF WriteActiveFAT, active
  <2> QED BY <2>2, <2>3
<1>7. CASE WriteMirrorFAT
  <2>1. /\ UNCHANGED <<op, cluster, value>> /\ pc = "mirror"
        /\ pc' \in {"mirror", "idle"} /\ result' # "SUCCESS"
    BY <1>7 DEF WriteMirrorFAT
  <2>2. UNCHANGED active
    <3>1. fat_index # active_fat
      BY <1>7, AdapterAssumption
         DEF WriteMirrorFAT, AnotherCopy, MirrorsFollowCopyZero
    <3> QED BY <1>7, <3>1 DEF WriteMirrorFAT, TypeOK, active
  <2> QED BY <2>1, <2>2, FailRefines
<1>8. CASE EveryCopyWritten
  <2>1. /\ UNCHANGED <<active, op, value>> /\ pc = "mirror"
        /\ op \in {"update", "release"}
    BY <1>8 DEF EveryCopyWritten, active
  <2>2. CASE op = "release" /\ ~EndOfChain(value)
    BY <1>8, <2>1, <2>2 DEF EveryCopyWritten, UpdateDone
  <2>3. CASE ~(op = "release" /\ ~EndOfChain(value))
    <3>1. pc' = "idle" /\ result' = "SUCCESS"
      BY <1>8, <2>3 DEF EveryCopyWritten, UpdateDone
    <3>2. EndOfChain(EOF)
      BY MaxClusterAssumption DEF EndOfChain, EOF
    <3>3. Table!Succeed
      BY <2>1, <2>3, <3>1, <3>2
         DEF Table!Succeed, Table!EndOfChain, EndOfChain, Table!EOF, EOF
    <3> QED BY <3>3
  <2> QED BY <2>2, <2>3
<1>9. CASE ReleaseNext
  <2>1. /\ UNCHANGED <<active, op, cluster>> /\ pc = "release"
        /\ pc' \in {"fsinfo", "idle"} /\ result' # "SUCCESS"
    BY <1>9 DEF ReleaseNext, active
  <2> QED BY <2>1, FailRefines
<1>10. CASE ScanPastTheEnd
  <2>1. /\ UNCHANGED <<active, op>> /\ pc = "scan"
        /\ pc' \in {"scan", "idle"} /\ result' # "SUCCESS"
    BY <1>10 DEF ScanPastTheEnd, ReadFATBlock, active
  <2> QED BY <2>1, FailRefines
<1>11. CASE ScanFound
  <2>1. /\ UNCHANGED <<active, op>> /\ pc = "scan"
        /\ pc' = "idle" /\ result' = "SUCCESS"
    BY <1>11 DEF ScanFound, active
  <2>2. Table!Succeed
    BY <2>1 DEF Table!Succeed
  <2> QED BY <2>2
<1>12. CASE ScanAdvance
  <2>1. /\ UNCHANGED <<active, op>> /\ pc = "scan"
        /\ pc' \in {"scan", "idle"} /\ result' # "SUCCESS"
    BY <1>12 DEF ScanAdvance, ReadFATBlock, active
  <2> QED BY <2>1, FailRefines
<1>13. CASE WalkNext
  <2>1. /\ UNCHANGED <<active, op>> /\ pc = "walk"
        /\ pc' \in {"walk", "idle"} /\ (pc' = "walk" => result' # "SUCCESS")
    BY <1>13 DEF WalkNext, active
  <2>2. CASE pc' = "idle" /\ result' = "SUCCESS"
    <3>1. Table!Succeed
      BY <2>1, <2>2 DEF Table!Succeed
    <3> QED BY <3>1
  <2> QED BY <2>1, <2>2, FailRefines
<1>14. CASE Remount
  BY <1>14, FailRefines DEF Remount, active
<1>15. CASE UNCHANGED vars
  BY <1>15 DEF active
<1> QED BY <1>1, <1>2, <1>3, <1>4, <1>5, <1>6, <1>7, <1>8, <1>9, <1>10,
          <1>11, <1>12, <1>13, <1>14, <1>15 DEF Next, Step

(* The table that readers see is a FatTable: the block by block updates,   *)
(* the mirroring, the FSInfo bookkeeping and the searches never do to it   *)
(* what the abstract calls may not.                                        *)
THEOREM AdapterImplementsFatTable == Spec => ImplementsFatTable
BY InitRefines, NextRefines, TypeInvHolds, PTL
   DEF Spec, ImplementsFatTable, Table!Spec

-----------------------------------------------------------------------------
(* The allocator.  Where an entry lies in its block, and when the next one *)
(* lies in the same block.                                                 *)
LEMMA PlaceInBlock ==
    ASSUME NEW c \in Nat
    PROVE  /\ (Block(c) * EntriesPerBlock) + (c % EntriesPerBlock) = c
           /\ c % EntriesPerBlock \in 0 .. EntriesPerBlock - 1
           /\ Block(c) \in Nat
<1> DEFINE E == EntriesPerBlock
<1>1. E \in Nat \ {0}
  BY AdapterAssumption
<1>2. ((c \div E) * E) + (c % E) = c
  BY <1>1, Z3
<1>3. c % E \in 0 .. E - 1
  BY <1>1
<1> QED BY <1>2, <1>3, BlockIsNat DEF Block

LEMMA SmallMultiple ==
    ASSUME NEW n \in Nat, NEW k \in Int, k * n < n, -n < k * n
    PROVE  k = 0
<1>1. CASE k >= 1
  <2>1. (k - 1) * n >= 0
    BY <1>1, Z3
  <2>2. (k - 1) * n = (k * n) - n
    BY Z3
  <2> QED BY <2>1, <2>2
<1>2. CASE k <= -1
  <2>1. (-1 - k) * n >= 0
    BY <1>2, Z3
  <2>2. (-1 - k) * n = -n - (k * n)
    BY Z3
  <2> QED BY <2>1, <2>2
<1> QED BY <1>1, <1>2

LEMMA NextInSameBlock ==
    ASSUME NEW c \in Nat, (c + 1) % EntriesPerBlock # 0
    PROVE  Block(c + 1) = Block(c)
<1> DEFINE E == EntriesPerBlock
           q == Block(c)
           r == c % E
           q1 == Block(c + 1)
           r1 == (c + 1) % E
<1>1. E \in Nat \ {0}
  BY AdapterAssumption
<1>2. q \in Nat /\ r \in 0 .. E - 1 /\ (q * E) + r = c
  BY PlaceInBlock
<1>3. q1 \in Nat /\ r1 \in 1 .. E - 1 /\ (q1 * E) + r1 = c + 1
  <2>1. c + 1 \in Nat
    OBVIOUS
  <2>2. q1 \in Nat /\ r1 \in 0 .. E - 1 /\ (q1 * E) + r1 = c + 1
    BY <2>1, PlaceInBlock
  <2>3. r1 # 0
    OBVIOUS
  <2> HIDE DEF q1, r1
  <2> QED BY <1>1, <2>2, <2>3
<1> HIDE DEF q, r, q1, r1, E
<1>4. (q1 - q) * E = (q1 * E) - (q * E)
  BY <1>1, <1>2, <1>3, Z3
<1>5. q1 * E \in Int /\ q * E \in Int
  BY <1>1, <1>2, <1>3
<1>6. (q1 - q) * E < E /\ -E < (q1 - q) * E
  BY <1>1, <1>2, <1>3, <1>4, <1>5
<1>7. q1 - q = 0
  BY <1>1, <1>2, <1>3, <1>6, SmallMultiple
<1>8. q1 = q
  BY <1>2, <1>3, <1>7
<1> QED BY <1>8 DEF q, q1

(* While the search looks at a cluster of the table, the block in its      *)
(* buffer is the one that cluster lies in - across block boundaries and    *)
(* when it goes back to cluster 2.                                         *)
SearchInv ==
    /\ AllocatedWasFree
    /\ pc = "scan" /\ cluster <= MaxCluster => buffered = Block(cluster)

LEMMA NextSearchInv == TypeInv /\ SearchInv /\ [Next]_vars => SearchInv'
<1> SUFFICES ASSUME TypeInv, SearchInv, [Next]_vars PROVE SearchInv'
  OBVIOUS
<1> USE DEF SearchInv, AllocatedWasFree, Returned, FreeClusters, active, Goto,
        Return, Continue
<1>1. ASSUME NEW c, NEW v, UpdateFATTableEntry(c, v) PROVE SearchInv'
  BY <1>1 DEF UpdateFATTableEntry, Call
<1>2. ASSUME NEW c, ReleaseChain(c) PROVE SearchInv'
  BY <1>2 DEF ReleaseChain, Call
<1>3. ASSUME NEW c, FindNextEmptyCluster(c) PROVE SearchInv'
  BY <1>3 DEF FindNextEmptyCluster, ReadFATBlock
<1>4. ASSUME NEW c, NEW d, PreviousClusterInChain(c, d) PROVE SearchInv'
  BY <1>4 DEF PreviousClusterInChain, Call
<1>5. CASE InvalidateFSInfoOnce
  BY <1>5 DEF InvalidateFSInfoOnce, TypeInv, UpdateIsChecked
<1>6. CASE WriteActiveFAT
  BY <1>6 DEF WriteActiveFAT, TypeInv, UpdateIsChecked
<1>7. CASE WriteMirrorFAT
  BY <1>7 DEF WriteMirrorFAT, TypeInv, UpdateIsChecked
<1>8. CASE EveryCopyWritten
  BY <1>8 DEF EveryCopyWritten, UpdateDone, TypeInv, UpdateIsChecked
<1>9. CASE ReleaseNext
  BY <1>9 DEF ReleaseNext
<1>10. CASE ScanPastTheEnd
  BY <1>10 DEF ScanPastTheEnd, ReadFATBlock
<1>11. CASE ScanFound
  <2>1. /\ cluster \in Nat /\ cluster <= MaxCluster /\ cluster >= 2
        /\ cluster \in Clusters /\ buffered = Block(cluster)
    BY <1>11, MaxClusterAssumption
       DEF ScanFound, TypeInv, TypeOK, ScanIsChecked, Clusters, EOF
  <2>2. BufferedEntry(cluster) = active[cluster]
    BY <2>1, PlaceInBlock DEF BufferedEntry, TableEntry
  <2>3. active[cluster] = Free /\ UNCHANGED <<fat, active_fat, cluster>>
    BY <1>11, <2>2 DEF ScanFound
  <2>4. cluster <= last_empty_cluster'
    BY <1>11, <2>1, MaxClusterAssumption
       DEF ScanFound, TypeInv, TypeOK, Clusters
  <2>5. pc' = "idle"
    BY <1>11 DEF ScanFound
  <2> QED BY <2>1, <2>3, <2>4, <2>5
<1>12. CASE ScanAdvance
  <2>1. cluster \in Nat /\ cluster' = cluster + 1 /\ buffered = Block(cluster)
    BY <1>12, MaxClusterAssumption DEF ScanAdvance, TypeInv, TypeOK, EOF
  <2>2. CASE cluster' % EntriesPerBlock # 0
    <3>1. Block(cluster') = Block(cluster)
      BY <2>1, <2>2, NextInSameBlock
    <3> QED BY <1>12, <2>1, <2>2, <3>1 DEF ScanAdvance
  <2>3. CASE cluster' % EntriesPerBlock = 0
    BY <1>12, <2>3 DEF ScanAdvance, ReadFATBlock
  <2> QED BY <2>2, <2>3
<1>13. CASE WalkNext
  BY <1>13 DEF WalkNext, TypeInv, WalkIsQuery
<1>14. CASE Remount
  BY <1>14 DEF Remount
<1>15. CASE UNCHANGED vars
  BY <1>15
<1> QED BY <1>1, <1>2, <1>3, <1>4, <1>5, <1>6, <1>7, <1>8, <1>9, <1>10,
          <1>11, <1>12, <1>13, <1>14, <1>15 DEF Next, Step

(* What FindNextEmptyCluster answers is a free cluster of the volume, at   *)
(* or below the high-water mark, for every number of entries per block.    *)
THEOREM AllocatorCorrect == Spec => []AllocatedWasFree
<1>1. Init => SearchInv
  BY DEF Init, SearchInv, AllocatedWasFree, Returned
<1>2. SearchInv => AllocatedWasFree
  BY DEF SearchInv
<1> QED BY <1>1, <1>2, NextSearchInv, TypeInvHolds, PTL DEF Spec

-----------------------------------------------------------------------------
(* The search that gives up.  Once it has gone back to cluster 2 it has    *)
(* seen every cluster before the one it is at, and no block begins just    *)
(* past the last cluster, so it does not stop there before.                *)
CompleteInv ==
    /\ Returned("find", "DEVICE_FULL") => FreeClusters(active) = {}
    /\ Returned("find", "CLUSTER_OUT_OF_RANGE") => cluster = 1
    /\ pc = "scan" /\ wrapped => \A c \in Clusters : c < cluster => active[c] # Free

LEMMA SearchStartsInRange ==
    ASSUME TypeInv, NEW c \in 0 .. Defective, OutOfRange(StartOfSearch(c))
    PROVE  StartOfSearch(c) = 1
BY MaxClusterAssumption, AdapterAssumption
   DEF StartOfSearch, OutOfRange, TypeInv, TypeOK, Clusters, Defective

LEMMA NextCompleteInv ==
    ASSUME (MaxCluster + 1) % EntriesPerBlock # 0,
           TypeInv, SearchInv, CompleteInv, [Next]_vars
    PROVE  CompleteInv'
<1> USE DEF CompleteInv, Returned, FreeClusters, active, Goto, Return, Continue
<1>1. ASSUME NEW c, NEW v, UpdateFATTableEntry(c, v) PROVE CompleteInv'
  BY <1>1 DEF UpdateFATTableEntry, Call
<1>2. ASSUME NEW c, ReleaseChain(c) PROVE CompleteInv'
  BY <1>2 DEF ReleaseChain, Call
<1>3. ASSUME NEW c \in 0 .. Defective, FindNextEmptyCluster(c) PROVE CompleteInv'
  <2>1. cluster' = StartOfSearch(c) /\ wrapped' = FALSE
    BY <1>3 DEF FindNextEmptyCluster
  <2>2. pc' = "idle" /\ result' = "CLUSTER_OUT_OF_RANGE" => OutOfRange(cluster')
    BY <1>3 DEF FindNextEmptyCluster, ReadFATBlock
  <2>3. result' # "DEVICE_FULL"
    BY <1>3 DEF FindNextEmptyCluster, ReadFATBlock
  <2> QED BY <2>1, <2>2, <2>3, SearchStartsInRange
<1>4. ASSUME NEW c, NEW d, PreviousClusterInChain(c, d) PROVE CompleteInv'
  BY <1>4 DEF PreviousClusterInChain, Call
<1>5. CASE InvalidateFSInfoOnce
  BY <1>5 DEF InvalidateFSInfoOnce, TypeInv, UpdateIsChecked
<1>6. CASE WriteActiveFAT
  BY <1>6 DEF WriteActiveFAT, TypeInv, UpdateIsChecked
<1>7. CASE WriteMirrorFAT
  BY <1>7 DEF WriteMirrorFAT, TypeInv, UpdateIsChecked
<1>8. CASE EveryCopyWritten
  BY <1>8 DEF EveryCopyWritten, UpdateDone, TypeInv, UpdateIsChecked
<1>9. CASE ReleaseNext
  BY <1>9 DEF ReleaseNext, TypeInv, UpdateIsChecked
<1>10. CASE ScanPastTheEnd
  <2>1. cluster \in Nat /\ cluster > MaxCluster
    BY <1>10, MaxClusterAssumption DEF ScanPastTheEnd, TypeInv, TypeOK, EOF
  <2>2. CASE wrapped
    <3>1. \A c \in Clusters : c < cluster
      BY <2>1, MaxClusterAssumption DEF Clusters
    <3> QED BY <1>10, <2>2, <3>1 DEF ScanPastTheEnd
  <2>3. CASE ~wrapped
    <3>1. \A c \in Clusters : ~(c < 2)
      BY DEF Clusters
    <3> QED BY <1>10, <2>3, <3>1 DEF ScanPastTheEnd, ReadFATBlock
  <2> QED BY <2>2, <2>3
<1>11. CASE ScanFound
  BY <1>11 DEF ScanFound
<1>12. CASE ScanAdvance
  <2>1. /\ cluster \in Nat /\ cluster' = cluster + 1 /\ buffered = Block(cluster)
        /\ cluster \in Clusters /\ cluster >= 2 /\ cluster <= MaxCluster
    BY <1>12, MaxClusterAssumption
       DEF ScanAdvance, TypeInv, TypeOK, ScanIsChecked, SearchInv, Clusters, EOF
  <2>2. active[cluster] # Free
    <3>1. BufferedEntry(cluster) = active[cluster]
      BY <2>1, PlaceInBlock DEF BufferedEntry, TableEntry
    <3> QED BY <1>12, <3>1 DEF ScanAdvance
  <2>3. OutOfRange(cluster') => cluster' % EntriesPerBlock # 0
    <3>1. OutOfRange(cluster') => cluster' = MaxCluster + 1
      BY <2>1, MaxClusterAssumption DEF OutOfRange
    <3> QED BY <3>1
  <2>4. \/ pc' = "scan"
        \/ pc' = "idle" /\ result' = "FAT_READ_ERROR"
    BY <1>12, <2>3 DEF ScanAdvance, ReadFATBlock
  <2>5. \A c \in Clusters : c < cluster' => c < cluster \/ c = cluster
    BY <2>1 DEF Clusters
  <2>6. wrapped' = wrapped /\ active' = active /\ pc = "scan"
    BY <1>12 DEF ScanAdvance
  <2> QED BY <2>2, <2>4, <2>5, <2>6
<1>13. CASE WalkNext
  BY <1>13 DEF WalkNext, TypeInv, WalkIsQuery
<1>14. CASE Remount
  BY <1>14 DEF Remount
<1>15. CASE UNCHANGED vars
  BY <1>15
<1> QED BY <1>1, <1>2, <1>3, <1>4, <1>5, <1>6, <1>7, <1>8, <1>9, <1>10,
          <1>11, <1>12, <1>13, <1>14, <1>15 DEF Next, Step

(* FindNextEmptyCluster gives up only on a full volume, wherever its       *)
(* high-water mark is - on every volume whose last cluster is not the last *)
(* entry of a block of the FAT.  (On the others ReadFATBlock refuses the   *)
(* cluster past the last one, fat32_blockio_adapter.cpp:560, and the run   *)
(* adapter_boundary shows what is missed.)                                 *)
THEOREM AllocatorComplete ==
    ASSUME (MaxCluster + 1) % EntriesPerBlock # 0
    PROVE  Spec => []AllocatorSeesEveryFreeCluster
<1>1. Init => SearchInv /\ CompleteInv
  BY DEF Init, SearchInv, AllocatedWasFree, CompleteInv, Returned
<1>2. TypeInv /\ SearchInv /\ CompleteInv /\ [Next]_vars => CompleteInv'
  BY NextCompleteInv
<1>3. CompleteInv => AllocatorSeesEveryFreeCluster
  BY DEF CompleteInv, AllocatorSeesEveryFreeCluster
<1> QED BY <1>1, <1>2, <1>3, NextSearchInv, TypeInvHolds, PTL DEF Spec

-----------------------------------------------------------------------------
(* The walk back.  The clusters seen so far follow one another in the      *)
(* table; when there are more of them than the volume has, one came twice. *)
Trail(t, c, f, n) ==
    /\ f \in [0 .. n -> Nat] /\ f[n] = c
    /\ \A k \in 0 .. n - 1 : f[k] \in Clusters /\ f[k + 1] = t[f[k]]

WalkInv ==
    /\ PreviousAnswersAreRight
    /\ pc = "walk" => \E f : Trail(active, cluster, f, steps)

LEMMA LongTrail ==
    ASSUME NEW t, NEW c, NEW f, NEW n \in Nat, n >= MaxCluster, Trail(t, c, f, n)
    PROVE  HasCycle(t)
<1> DEFINE g == [k \in 0 .. n - 1 |-> f[k]]
<1>1. g \in [0 .. n - 1 -> Clusters]
  BY DEF Trail
<1>2. /\ IsFiniteSet(0 .. n - 1) /\ IsFiniteSet(Clusters)
      /\ Cardinality(Clusters) < Cardinality(0 .. n - 1)
  <2>1. IsFiniteSet(0 .. n - 1) /\ Cardinality(0 .. n - 1) = n
    BY FS_Interval, MaxClusterAssumption
  <2>2. IsFiniteSet(Clusters) /\ Cardinality(Clusters) = MaxCluster - 1
    BY FS_Interval, MaxClusterAssumption DEF Clusters
  <2> QED BY <2>1, <2>2, MaxClusterAssumption
<1> HIDE DEF g
<1>3. PICK x, y \in 0 .. n - 1 : x # y /\ g[x] = g[y]
  BY <1>1, <1>2, FS_PigeonHole
<1>4. PICK i, j \in 0 .. n - 1 : i < j /\ f[i] = f[j]
  <2>1. f[x] = f[y]
    BY <1>3 DEF g
  <2>2. CASE x < y
    BY <2>1, <2>2
  <2>3. CASE y < x
    BY <2>1, <2>3
  <2> QED BY <1>3, <2>2, <2>3
<1> DEFINE loop == {f[k] : k \in i .. j - 1}
<1>5. \A k \in i .. j - 1 : f[k] \in Clusters /\ f[k + 1] = t[f[k]]
  BY DEF Trail
<1>6. loop \subseteq Clusters /\ f[i] \in loop
  BY <1>4, <1>5
<1>7. ASSUME NEW a \in loop PROVE t[a] \in loop
  <2>1. PICK k \in i .. j - 1 : a = f[k]
    OBVIOUS
  <2>2. t[a] = f[k + 1]
    BY <1>5, <2>1
  <2>3. CASE k = j - 1
    <3>1. t[a] = f[j]
      BY <2>2, <2>3
    <3> QED BY <1>4, <1>6, <3>1
  <2>4. CASE k # j - 1
    <3>1. k + 1 \in i .. j - 1
      BY <2>4
    <3> QED BY <2>2, <3>1
  <2> QED BY <2>3, <2>4
<1> HIDE DEF loop
<1> QED BY <1>6, <1>7 DEF HasCycle

LEMMA LongerTrail ==
    ASSUME NEW t, NEW c \in Clusters, NEW f, NEW n \in Nat, Trail(t, c, f, n),
           t[c] \in Nat
    PROVE  \E g : Trail(t, t[c], g, n + 1)
<1> DEFINE g == [k \in 0 .. n + 1 |-> IF k = n + 1 THEN t[c] ELSE f[k]]
<1>1. g[n + 1] = t[c] /\ \A k \in 0 .. n : g[k] = f[k]
  OBVIOUS
<1>2. g \in [0 .. n + 1 -> Nat]
  BY DEF Trail
<1> HIDE DEF g
<1>3. ASSUME NEW k \in 0 .. n PROVE g[k] \in Clusters /\ g[k + 1] = t[g[k]]
  <2>1. CASE k = n
    BY <1>1, <2>1 DEF Trail
  <2>2. CASE k # n
    <3>1. k \in 0 .. n - 1 /\ k + 1 \in 0 .. n
      BY <2>2
    <3> QED BY <1>1, <3>1 DEF Trail
  <2> QED BY <2>1, <2>2
<1>4. (n + 1) - 1 = n
  OBVIOUS
<1>5. Trail(t, t[c], g, n + 1)
  BY <1>1, <1>2, <1>3, <1>4 DEF Trail
<1> QED BY <1>5

LEMMA NextWalkInv == TypeInv /\ WalkInv /\ [Next]_vars => WalkInv'
<1> SUFFICES ASSUME TypeInv, WalkInv, [Next]_vars PROVE WalkInv'
  OBVIOUS
<1> USE DEF WalkInv, PreviousAnswersAreRight, Returned, active, Goto, Return, Continue
<1>1. ASSUME NEW c, NEW v, UpdateFATTableEntry(c, v) PROVE WalkInv'
  BY <1>1 DEF UpdateFATTableEntry, Call
<1>2. ASSUME NEW c, ReleaseChain(c) PROVE WalkInv'
  BY <1>2 DEF ReleaseChain, Call
<1>3. ASSUME NEW c, FindNextEmptyCluster(c) PROVE WalkInv'
  BY <1>3 DEF FindNextEmptyCluster, ReadFATBlock, Call
<1>4. ASSUME NEW c \in 0 .. Defective, NEW d, PreviousClusterInChain(c, d) PROVE WalkInv'
  <2>1. /\ op' = "previous" /\ steps' = 0 /\ cluster' = c
        /\ pc' = "idle" => result' \notin {"SUCCESS", "CORRUPT"}
    BY <1>4 DEF PreviousClusterInChain, Call
  <2> DEFINE f == [k \in 0 .. 0 |-> c]
  <2>2. f \in [0 .. 0 -> Nat] /\ f[0] = c
    BY MaxClusterAssumption DEF Defective
  <2> HIDE DEF f
  <2>3. Trail(active, cluster, f, 0)'
    BY <2>1, <2>2 DEF Trail
  <2> QED BY <2>1, <2>3
<1>5. CASE InvalidateFSInfoOnce
  BY <1>5 DEF InvalidateFSInfoOnce, TypeInv, UpdateIsChecked
<1>6. CASE WriteActiveFAT
  BY <1>6 DEF WriteActiveFAT, TypeInv, UpdateIsChecked
<1>7. CASE WriteMirrorFAT
  BY <1>7 DEF WriteMirrorFAT, TypeInv, UpdateIsChecked
<1>8. CASE EveryCopyWritten
  BY <1>8 DEF EveryCopyWritten, UpdateDone, TypeInv, UpdateIsChecked
<1>9. CASE ReleaseNext
  BY <1>9 DEF ReleaseNext, TypeInv, UpdateIsChecked
<1>10. CASE ScanPastTheEnd
  BY <1>10 DEF ScanPastTheEnd, ReadFATBlock, TypeInv, ScanIsChecked
<1>11. CASE ScanFound
  BY <1>11 DEF ScanFound, TypeInv, ScanIsChecked
<1>12. CASE ScanAdvance
  BY <1>12 DEF ScanAdvance, ReadFATBlock, TypeInv, ScanIsChecked
<1>13. CASE WalkNext
  <2>1. PICK f : Trail(active, cluster, f, steps)
    BY <1>13 DEF WalkNext
  <2>2. UNCHANGED <<fat, active_fat, value, op>> /\ steps \in Nat
    BY <1>13, MaxClusterAssumption DEF WalkNext, TypeInv, TypeOK
  <2>3. CASE pc' = "idle" /\ result' = "CORRUPT"
    <3>1. steps >= MaxCluster
      BY <1>13, <2>2, <2>3, MaxClusterAssumption DEF WalkNext, WalkIsTooLong
    <3>2. HasCycle(active)
      BY <2>1, <2>2, <3>1, LongTrail
    <3> QED BY <2>2, <2>3, <3>2
  <2>4. CASE pc' = "idle" /\ result' = "SUCCESS"
    BY <1>13, <2>2, <2>4 DEF WalkNext
  <2>5. CASE pc' = "idle" /\ result' \notin {"SUCCESS", "CORRUPT"}
    BY <2>5
  <2>6. CASE pc' = "walk"
    <3>1. /\ steps' = steps + 1 /\ ~OutOfRange(cluster)
          /\ cluster' = active[cluster]
      BY <1>13, <2>6 DEF WalkNext
    <3>2. cluster \in Clusters /\ active[cluster] \in Nat
      BY <3>1, EntryOfCluster, MaxClusterAssumption DEF TypeInv, EOF
    <3>3. active' = active
      BY <2>2
    <3>4. \E g : Trail(active, active[cluster], g, steps + 1)
      BY <2>1, <2>2, <3>2, LongerTrail
    <3>5. \E g : Trail(active', cluster', g, steps')
      BY <3>1, <3>3, <3>4
    <3> QED BY <2>6, <3>5
  <2>7. pc' \in {"idle", "walk"}
    BY <1>13 DEF WalkNext
  <2> QED BY <2>3, <2>4, <2>5, <2>6, <2>7
<1>14. CASE Remount
  BY <1>14 DEF Remount
<1>15. CASE UNCHANGED vars
  BY <1>15 DEF Trail
<1> QED BY <1>1, <1>2, <1>3, <1>4, <1>5, <1>6, <1>7, <1>8, <1>9, <1>10,
          <1>11, <1>12, <1>13, <1>14, <1>15 DEF Next, Step

(* PreviousClusterInChain answers a cluster that precedes the one it was   *)
(* asked about, and calls only a chain that runs into a cycle corrupt,     *)
(* however many clusters the volume has.                                   *)
THEOREM PreviousCorrect == Spec => []PreviousAnswersAreRight
<1>1. Init => WalkInv
  BY DEF Init, WalkInv, PreviousAnswersAreRight, Returned
<1>2. WalkInv => PreviousAnswersAreRight
  BY DEF WalkInv
<1> QED BY <1>1, <1>2, NextWalkInv, TypeInvHolds, PTL DEF Spec
=============================================================================
