-------------------- MODULE FAT32DirectoryCluster_proofs --------------------
(***************************************************************************)
(* Proofs about FAT32DirectoryCluster, for directories of any size, with   *)
(* clusters of any size, any set of names and any number of failures.      *)
(***************************************************************************)
EXTENDS FAT32DirectoryCluster, FiniteSetTheorems, WellFoundedInduction, TLAPS

(* The parts of the inductive invariant: what each place of an operation   *)
(* may rely on.                                                            *)

\* A cluster that is claimed is to be a directory's.
Claiming == op.step = "claim" => op.object \in Objects

\* A cluster is added below the limit, and linked when it is zeroed.
Growing == op.step \in {"zero", "link"} => clusters < MaxClusters
Zeroed ==
    op.step = "link" => \A a \in ClusterSlots(clusters) : slot[a].kind = "end"

\* The rest of the run is still empty and the slot behind it exists; no end
\* marker is before the run, and if it was in the run all is free behind.
Running ==
    op.step = "write" =>
        /\ Behind \in Directory /\ op.at <= Behind
        /\ \A b \in 0 .. op.at - 1 : slot[b].kind # "end"
        /\ \A b \in op.at .. Behind - 1 : Empty(b)
        /\ op.marker => \A b \in Directory : b >= Behind => slot[b].kind = "end"

\* The slots that are to be deleted are before the end marker.
HasNew ==
    op.step \in {"check", "undo", "rollback"}
        \/ (op.step = "remove" /\ op.why = "rename")
    => NewEntry \in Directory /\ slot[NewEntry].kind # "end"
HasOld ==
    op.why \in {"rename", "delete"} =>
        op.old \in Directory /\ slot[op.old].kind # "end"
HasAt ==
    op.step \in {"remove", "undo", "rollback"} =>
        op.at \in Directory /\ slot[op.at].kind # "end"

OpInv == Claiming /\ Growing /\ Zeroed /\ Running /\ HasNew /\ HasOld /\ HasAt

\* What EndsWithMarker and AliasesAreUnique say of a directory that is whole.
MarkerIsLast ==
    /\ \A a, b \in Directory :
          slot[a].kind = "end" /\ a <= b => slot[b].kind = "end"
    /\ slot[(clusters * K) - 1].kind = "end"
    /\ \A a \in Directory : slot[a].kind # "stale"
AliasesDiffer ==
    \A a, b \in Entries : a # b => slot[a].alias # slot[b].alias
SlotInv == TypeOK /\ MarkerIsLast /\ OpInv

\* What holds after a cluster was lost, too: the new entry is in the directory,
\* and only a half-done update of mirrored FATs loses one.
Placed ==
    op.step \in {"write", "check", "undo"}
        \/ (op.step \in {"remove", "rollback"} /\ op.why = "rename")
    => NewEntry \in Addresses
LostByMirror ==
    lost # {} \/ loose \/ op.step = "unlink" => Mirrored /\ faults > 0
TypeInv == TypeOK /\ Claiming /\ Growing /\ Placed /\ LostByMirror

\* What OthersSurvive says of a step in a directory that is whole.
OthersStep ==
    /\ Entries \ Entries' \subseteq {op.at}
    /\ Entries' \ Entries \subseteq {NewEntry}
    /\ \A a \in Entries \cap Entries' : slot'[a] = slot[a]

\* The alias that was chosen is still no other entry's.
AliasIsFree ==
    /\ op.step \in {"scan", "zero", "link"} =>
        \A a \in Entries : slot[a].alias # op.alias
    /\ op.step = "write" =>
        \A a \in Entries : a = NewEntry \/ slot[a].alias # op.alias
AliasInv == AliasIsFree /\ AliasesDiffer

-----------------------------------------------------------------------------
(* Addresses of the slots of the directory, of its next cluster, and of    *)
(* the first slot behind a cluster.                                        *)
LEMMA Products ==
    /\ K \in Nat \ {0} /\ MaxClusters \in Nat
    /\ \A c \in Nat : c * K \in Nat /\ (c + 1) * K = (c * K) + K
    /\ \A c, d \in Nat : c <= d => c * K <= d * K
<1>1. K \in Nat \ {0} /\ MaxClusters \in Nat
  BY DirectoryAssumption DEF K
<1>2. \A c \in Nat : c * K \in Nat /\ (c + 1) * K = (c * K) + K
  BY <1>1, Z3
<1>3. ASSUME NEW c \in Nat, NEW d \in Nat, c <= d PROVE c * K <= d * K
  <2>1. d = c + (d - c) /\ d - c \in Nat
    BY <1>3
  <2>2. d * K = (c * K) + ((d - c) * K) /\ (d - c) * K >= 0
    BY <1>1, <2>1, Z3
  <2> QED BY <1>1, <1>2, <2>2, Z3
<1> QED BY <1>1, <1>2, <1>3

LEMMA DirectorySlots ==
    ASSUME clusters \in 1 .. MaxClusters
    PROVE  /\ clusters * K \in Nat \ {0}
           /\ Directory \subseteq Addresses
           /\ \A a \in Directory : 0 .. a \subseteq Directory
           /\ (clusters * K) - 1 \in Directory
<1>1. clusters \in Nat /\ clusters <= MaxClusters /\ 1 <= clusters
  BY Products
<1>2. clusters * K \in Nat /\ MaxClusters * K \in Nat /\ clusters * K <= MaxClusters * K
  BY <1>1, Products
<1>3. 1 * K <= clusters * K /\ 1 * K = K
  BY <1>1, Products
<1> QED BY <1>2, <1>3, Products DEF Directory, Addresses

LEMMA NextClusterSlots ==
    ASSUME clusters \in 1 .. MaxClusters, clusters < MaxClusters
    PROVE  /\ ClusterSlots(clusters) \subseteq Addresses
           /\ \A a \in ClusterSlots(clusters) : a \notin Directory
           /\ 0 .. ((clusters + 1) * K) - 1 = Directory \cup ClusterSlots(clusters)
           /\ ((clusters + 1) * K) - 1 \in ClusterSlots(clusters)
<1>1. clusters \in Nat /\ clusters + 1 \in Nat /\ clusters + 1 <= MaxClusters
  BY Products
<1>2. /\ clusters * K \in Nat /\ MaxClusters * K \in Nat
      /\ (clusters + 1) * K = (clusters * K) + K
      /\ (clusters + 1) * K <= MaxClusters * K
  BY <1>1, Products
<1> QED BY <1>2, Products DEF Directory, Addresses, ClusterSlots

LEMMA ClusterOf ==
    ASSUME NEW a \in Nat
    PROVE  /\ a \div K \in Nat
           /\ (a \div K) * K \in Nat /\ (a \div K) * K <= a
           /\ Top(a) \in Nat /\ a < Top(a)
<1>1. /\ a \div K \in Nat
      /\ (a \div K) * K \in Nat /\ (a \div K) * K <= a
      /\ a < ((a \div K) * K) + K
  BY Products, Z3
<1>2. Top(a) = ((a \div K) * K) + K
  BY <1>1, Products DEF Top
<1> QED BY <1>1, <1>2, Products

LEMMA RunIsPositive ==
    ASSUME TypeOK
    PROVE  /\ Length \in Nat \ {0} /\ Behind \in Nat /\ NewEntry \in Nat
           /\ NewEntry = Behind - 1 /\ op.start <= NewEntry /\ op.start \in Nat
<1>1. op \in Operation /\ op.start \in Nat
  BY Products DEF TypeOK, Operation, Addresses
<1>2. Length \in Nat \ {0}
  BY DirectoryAssumption DEF Length
<1> QED BY <1>1, <1>2 DEF Behind, NewEntry

(* Where the operation writes or deletes next is in a cluster.             *)
LEMMA Place ==
    ASSUME TypeOK
    PROVE  /\ op \in Operation /\ op.at \in Nat
           /\ Top(op.at) \in Nat /\ op.at < Top(op.at)
<1>1. op \in Operation /\ op.at \in Addresses
  BY DEF TypeOK, Operation
<1>2. op.at \in Nat
  BY <1>1, Products DEF Addresses
<1> QED BY <1>1, <1>2, ClusterOf

USE DEF chain, disk, vars

(* A call that returns, or goes on to free its cluster, relies on nothing. *)
LEMMA EndingOp ==
    ASSUME TypeOK,
           op' = Idle \/ (op.why = "mkdir" /\ op' = [op EXCEPT !.step = "free"])
    PROVE  op' \in Operation /\ OpInv'
<1>1. op \in Operation /\ 0 \in Addresses
  <2>1. op \in Operation
    BY DEF TypeOK
  <2>2. MaxClusters * K >= 1
    <3>1. 1 * K <= MaxClusters * K /\ 1 * K = K
      BY Products, DirectoryAssumption
    <3> QED BY <3>1, Products
  <2> QED BY <2>1, <2>2, Products DEF Addresses
<1>2. Idle \in Operation /\ Idle.step = "idle" /\ Idle.why = "none"
  BY <1>1 DEF Idle, Operation, Steps, Aliases, NoAlias
<1>3. op'.step \in {"idle", "free"} /\ op'.why \in {"none", "mkdir"} /\ op' \in Operation
  BY <1>1, <1>2 DEF Operation, Steps
<1> QED BY <1>3 DEF OpInv, Claiming, Growing, Zeroed, Running, HasNew, HasOld, HasAt

LEMMA ResultTyped ==
    ASSUME TypeOK, NEW how \in {"refused", "full", "failed"},
           CreateFails(how) \/ Return(how)
    PROVE  /\ op' \in Operation /\ OpInv'
           /\ result' \in {"none", "ok", "refused", "full", "failed"}
<1>1. op' = Idle \/ (op.why = "mkdir" /\ op' = [op EXCEPT !.step = "free"])
  BY DEF CreateFails, Return
<1> QED BY <1>1, EndingOp DEF CreateFails, Return

LEMMA FaultTyped == TypeOK /\ (Fault \/ UNCHANGED faults) => faults' \in 0 .. MaxFaults
BY DirectoryAssumption DEF Fault, TypeOK

(* Nothing about slots changes when neither the slots nor the chain do.    *)
LEMMA SameSlots ==
    ASSUME UNCHANGED <<slot, clusters>>
    PROVE  /\ Entries' = Entries
           /\ MarkerIsLast => MarkerIsLast'
           /\ AliasesDiffer => AliasesDiffer'
BY DEF Entries, Directory, Visible, MarkerIsLast, AliasesDiffer

-----------------------------------------------------------------------------
(* Each step keeps SlotInv.  First the steps that change no slot.          *)
LEMMA InitSlotInv == Init => SlotInv
<1> SUFFICES ASSUME Init PROVE SlotInv
  OBVIOUS
<1>1. clusters = 1 /\ clusters \in 1 .. MaxClusters
  BY DirectoryAssumption DEF Init
<1>2. 1 * K = K
  BY Products
<1>3. Directory = 0 .. K - 1 /\ Directory \subseteq Addresses /\ 0 \in Addresses
  BY <1>1, <1>2, DirectorySlots, Products DEF Directory
<1>4. slot \in [Addresses -> Slot]
  BY DEF Init, End, Stale, Blank, Slot, Aliases, NoAlias
<1>5. op \in Operation /\ op.step = "idle" /\ op.why = "none"
  BY <1>3 DEF Init, Idle, Operation, Steps, Aliases, NoAlias
<1>6. TypeOK
  <2>1. lost = {} /\ loose = FALSE /\ allocated = {} /\ result = "none" /\ faults = 0
    BY DEF Init
  <2>2. lost \subseteq 0 .. MaxClusters - 1 /\ loose \in BOOLEAN /\ allocated \subseteq Objects
    BY <2>1, Zenon
  <2> QED BY <1>1, <1>4, <1>5, <2>1, <2>2, DirectoryAssumption DEF TypeOK
<1>7. \A a \in Directory : slot[a].kind = "end"
  BY <1>3, Products DEF Init, End, Blank
<1>8. MarkerIsLast
  BY <1>1, <1>7, DirectorySlots DEF MarkerIsLast
<1>9. OpInv
  BY <1>5 DEF OpInv, Claiming, Growing, Zeroed, Running, HasNew, HasOld, HasAt
<1> QED BY <1>6, <1>8, <1>9 DEF SlotInv

LEMMA BeginStep ==
    ASSUME SlotInv, NEW n \in Names,
           \/ CreateFile(n)
           \/ \E o \in Objects : CreateDirectory(n, o)
           \/ \E a \in Addresses : \/ Delete(n, a)
                                   \/ \E new \in Names : Rename(n, new, a)
    PROVE  SlotInv'
<1> USE DEF SlotInv
<1>1. UNCHANGED <<slot, chain, allocated, result, faults>>
  BY DEF CreateFile, CreateDirectory, Delete, Rename
<1>2. 0 \in Addresses
  BY DirectorySlots, Products DEF TypeOK, Addresses
<1>3. Idle \in Operation
  BY <1>2 DEF Idle, Operation, Steps, Aliases, NoAlias
<1>4. CASE CreateFile(n) \/ \E o \in Objects : CreateDirectory(n, o)
  <2>1. /\ op' \in Operation
        /\ op'.step \in {"claim", "lookup"} /\ op'.why \in {"file", "mkdir"}
        /\ op'.step = "claim" => op'.object \in Objects
    BY <1>3, <1>4, ZenonT(60) DEF CreateFile, CreateDirectory, Operation, Steps
  <2>2. OpInv'
    BY <2>1 DEF OpInv, Claiming, Growing, Zeroed, Running, HasNew, HasOld, HasAt
  <2> QED BY <1>1, <2>1, <2>2, SameSlots DEF TypeOK
<1>5. ASSUME NEW a \in Addresses,
             Delete(n, a) \/ \E new \in Names : Rename(n, new, a)
      PROVE  SlotInv'
  <2>1. a \in Directory /\ slot[a].kind = "entry" /\ slot[a].object \in Objects \cup {NoObject}
    BY <1>5, DirectorySlots DEF Delete, Rename, Finds, Entries, Visible, TypeOK, Slot
  <2>2. /\ op' \in Operation /\ op'.old = a
        /\ \/ op'.step = "lookup"
           \/ op'.step = "remove" /\ op'.why = "delete" /\ op'.at = a
    <3>1. CASE Delete(n, a)
      BY <1>3, <2>1, <3>1 DEF Delete, Operation, Steps
    <3>2. ASSUME NEW new \in Names, Rename(n, new, a)
          PROVE  op' \in Operation /\ op'.old = a /\ op'.step = "lookup"
      BY <1>3, <2>1, <3>2 DEF Rename, Operation, Steps
    <3> QED BY <1>5, <3>1, <3>2
  <2>3. OpInv'
    BY <1>1, <2>1, <2>2 DEF OpInv, Claiming, Growing, Zeroed, Running, HasNew, HasOld, HasAt,
                            Directory
  <2> QED BY <1>1, <2>2, <2>3, SameSlots DEF TypeOK
<1> QED BY <1>4, <1>5

LEMMA ClaimStep == ASSUME SlotInv, ClaimCluster PROVE SlotInv'
<1> USE DEF SlotInv
<1>1. op \in Operation /\ op.object \in Objects
  BY DEF ClaimCluster, TypeOK, OpInv, Claiming
<1>2. UNCHANGED <<slot, chain>> /\ faults' \in 0 .. MaxFaults /\ allocated' \subseteq Objects
  BY <1>1, FaultTyped DEF ClaimCluster, Allocate, TypeOK
<1>3. ASSUME Return("failed") PROVE SlotInv'
  BY <1>2, <1>3, ResultTyped, SameSlots DEF TypeOK
<1>4. ASSUME Goto("lookup") PROVE SlotInv'
  <2>1. op' \in Operation /\ op'.step = "lookup" /\ op'.why = op.why /\ op'.old = op.old
    BY <1>1, <1>4 DEF Goto, Operation, Steps
  <2>2. OpInv'
    BY <1>2, <2>1 DEF OpInv, Claiming, Growing, Zeroed, Running, HasNew, HasOld, HasAt, Directory
  <2> QED BY <1>2, <1>4, <2>1, <2>2, SameSlots DEF TypeOK, Goto
<1> QED BY <1>3, <1>4 DEF ClaimCluster, Allocate

LEMMA LookupStep == ASSUME SlotInv, Lookup PROVE SlotInv'
<1> USE DEF SlotInv
<1>1. UNCHANGED <<slot, chain, allocated>> /\ faults' \in 0 .. MaxFaults
  BY FaultTyped DEF Lookup
<1>2. ASSUME CreateFails("failed") \/ CreateFails("refused") PROVE SlotInv'
  BY <1>1, <1>2, ResultTyped, SameSlots DEF TypeOK
<1>3. ASSUME NEW k \in 0 .. Cardinality(Entries) + 1, NEW b \in Bases,
             op' = [op EXCEPT !.step = "scan", !.alias = <<b, k>>],
             result' = result
      PROVE  SlotInv'
  <2>1. k \in Nat
    OBVIOUS
  <2>2. op \in Operation /\ <<b, k>> \in Aliases
    BY <2>1 DEF TypeOK, Aliases
  <2>3. op' \in Operation /\ op'.step = "scan" /\ op'.why = op.why /\ op'.old = op.old
    BY <1>3, <2>2 DEF Operation, Steps
  <2>4. OpInv'
    BY <1>1, <2>3 DEF OpInv, Claiming, Growing, Zeroed, Running, HasNew, HasOld, HasAt, Directory
  <2> QED BY <1>1, <1>3, <2>3, <2>4, SameSlots DEF TypeOK
<1> QED BY <1>2, <1>3 DEF Lookup

(* The hole that was found: no end marker before it, room behind it.       *)
LEMMA ScanFindsStep == ASSUME SlotInv, ScanFinds PROVE SlotInv'
<1> USE DEF SlotInv
<1>1. UNCHANGED <<slot, chain, allocated>> /\ faults' \in 0 .. MaxFaults
  BY FaultTyped DEF ScanFinds
<1>2. ASSUME CreateFails("failed") PROVE SlotInv'
  BY <1>1, <1>2, ResultTyped, SameSlots DEF TypeOK
<1>3. ASSUME NEW a \in Directory, Hole(a, Length), result' = result,
             op' = [op EXCEPT !.step = "write", !.start = a, !.at = a,
                        !.marker = \E b \in a .. a + Length - 1 :
                                        slot[b].kind = "end"]
      PROVE  SlotInv'
  <2>1. op \in Operation /\ Length \in Nat \ {0} /\ a \in Nat /\ a \in Addresses
    BY RunIsPositive, DirectorySlots DEF TypeOK, Directory
  <2> DEFINE m == \E b \in a .. a + Length - 1 : slot[b].kind = "end"
  <2>2. m \in BOOLEAN
    OBVIOUS
  <2>3. op' = [op EXCEPT !.step = "write", !.start = a, !.at = a, !.marker = m]
    BY <1>3
  <2> HIDE DEF m
  <2>4. /\ op' \in Operation /\ op'.step = "write" /\ op'.start = a /\ op'.at = a
        /\ op'.marker = m /\ op'.why = op.why /\ op'.old = op.old /\ op'.name = op.name
    BY <2>1, <2>2, <2>3 DEF Operation, Steps
  <2>5. Length' = Length /\ Behind' = a + Length /\ NewEntry' = a + Length - 1
    BY <2>4 DEF Length, Behind, NewEntry
  <2>6. \A b \in a .. a + Length - 1 : b \in Directory /\ Empty(b)
    BY <1>3 DEF Hole, Fits
  <2>7. a + Length - 1 \in Directory /\ a + Length \in Nat
    BY <2>1, <2>6
  <2>8. \A b \in 0 .. a - 1 : slot[b].kind # "end"
    <3>1. ASSUME NEW b \in 0 .. a - 1, slot[b].kind = "end" PROVE FALSE
      <4>1. b \in Directory /\ a - 1 \in Directory /\ b <= a - 1 /\ a > 0
        BY <2>1, DirectorySlots DEF TypeOK, Directory
      <4>2. slot[a - 1].kind = "end"
        BY <3>1, <4>1 DEF MarkerIsLast
      <4> QED BY <1>3, <4>1, <4>2 DEF Hole, Empty
    <3> QED BY <3>1
  <2>9. a + Length \in Directory
    <3>1. CASE ~m
      <4>1. slot[a + Length - 1].kind # "end"
        BY <2>1, <3>1 DEF m
      <4>2. a + Length - 1 # (clusters * K) - 1
        BY <4>1 DEF MarkerIsLast
      <4> QED BY <2>1, <2>7, <4>2, DirectorySlots DEF TypeOK, Directory
    <3>2. CASE m
      <4>1. ~ \A b \in a .. a + Length - 1 : slot[b].kind # "end"
        BY <3>2 DEF m
      <4> QED BY <1>3, <4>1 DEF Hole, Fits
    <3> QED BY <3>1, <3>2
  <2>10. m => \A b \in Directory : b >= a + Length => slot[b].kind = "end"
    <3>1. ASSUME NEW c \in a .. a + Length - 1, slot[c].kind = "end",
                 NEW b \in Directory, b >= a + Length
          PROVE  slot[b].kind = "end"
      <4>1. c \in Directory /\ c <= b
        BY <2>1, <2>6, <3>1 DEF Directory
      <4> QED BY <3>1, <4>1 DEF MarkerIsLast
    <3> QED BY <3>1 DEF m
  <2>11. /\ Directory' = Directory /\ slot' = slot /\ \A b : Empty(b)' = Empty(b)
    BY <1>1 DEF Directory, Empty
  <2>12. Running'
    <3>1. Behind' \in Directory' /\ op'.at <= Behind'
      BY <2>1, <2>4, <2>5, <2>9, <2>11
    <3>2. \A b \in 0 .. op'.at - 1 : slot'[b].kind # "end"
      BY <2>4, <2>8, <2>11
    <3>3. \A b \in op'.at .. Behind' - 1 : Empty(b)'
      <4>1. ASSUME NEW b \in a .. a + Length - 1 PROVE Empty(b)'
        <5>1. Empty(b)
          BY <2>6
        <5> QED BY <2>11, <5>1
      <4>2. op'.at .. Behind' - 1 = a .. a + Length - 1
        BY <2>1, <2>4, <2>5
      <4> QED BY <4>1, <4>2, Zenon
    <3>4. op'.marker => \A b \in Directory' : b >= Behind' => slot'[b].kind = "end"
      BY <2>4, <2>5, <2>10, <2>11
    <3> QED BY <3>1, <3>2, <3>3, <3>4 DEF Running
  <2>13. OpInv'
    BY <2>4, <2>11, <2>12 DEF OpInv, Claiming, Growing, Zeroed, HasNew, HasOld, HasAt
  <2> QED BY <1>1, <1>3, <2>4, <2>13, SameSlots DEF TypeOK
<1> QED BY <1>2, <1>3 DEF ScanFinds

LEMMA ScanFindsNoneStep == ASSUME SlotInv, ScanFindsNone PROVE SlotInv'
<1> USE DEF SlotInv
<1>1. UNCHANGED <<slot, chain, allocated, faults>>
  BY DEF ScanFindsNone
<1>2. CASE loose \/ clusters = MaxClusters
  <2>1. CreateFails("failed") \/ CreateFails("full")
    BY <1>2 DEF ScanFindsNone
  <2> QED BY <1>1, <2>1, ResultTyped, SameSlots DEF TypeOK
<1>3. CASE ~loose /\ clusters # MaxClusters
  <2>1. clusters < MaxClusters /\ op \in Operation
    BY <1>3, Products DEF TypeOK
  <2>2. /\ op' \in Operation /\ op'.step = "zero" /\ op'.why = op.why
        /\ op'.old = op.old /\ result' = result
    BY <1>3, <2>1 DEF ScanFindsNone, Goto, Operation, Steps
  <2>3. OpInv'
    BY <1>1, <2>1, <2>2 DEF OpInv, Claiming, Growing, Zeroed, Running, HasNew, HasOld, HasAt,
                            Directory
  <2> QED BY <1>1, <2>2, <2>3, SameSlots DEF TypeOK
<1> QED BY <1>2, <1>3

(* The cluster that is zeroed is behind the directory until it is linked.  *)
LEMMA ZeroNewClusterStep ==
    ASSUME SlotInv, ZeroNewCluster
    PROVE  SlotInv' /\ Entries' = Entries /\ \A a \in Directory : slot'[a] = slot[a]
<1> USE DEF SlotInv
<1>1. UNCHANGED <<chain, allocated>> /\ faults' \in 0 .. MaxFaults
  BY FaultTyped DEF ZeroNewCluster
<1>2. CASE CreateFails("failed") /\ UNCHANGED slot
  BY <1>1, <1>2, ResultTyped, SameSlots DEF TypeOK
<1>3. CASE /\ slot' = [a \in Addresses |->
                          IF a \in ClusterSlots(clusters) THEN End ELSE slot[a]]
           /\ Goto("link")
  <2>1. clusters < MaxClusters /\ op \in Operation
    BY DEF ZeroNewCluster, OpInv, Growing, TypeOK
  <2>2. /\ op' \in Operation /\ op'.step = "link" /\ op'.why = op.why
        /\ op'.old = op.old /\ result' = result
    BY <1>3, <2>1 DEF Goto, Operation, Steps
  <2>3. \A a \in Directory : slot'[a] = slot[a]
    BY <1>3, <2>1, NextClusterSlots, DirectorySlots DEF TypeOK
  <2>4. \A a \in ClusterSlots(clusters) : slot'[a].kind = "end"
    BY <1>3, <2>1, NextClusterSlots DEF TypeOK, End, Blank
  <2>5. slot' \in [Addresses -> Slot]
    <3>1. End \in Slot
      BY DEF End, Blank, Slot, Aliases, NoAlias
    <3> QED BY <1>3, <3>1 DEF TypeOK
  <2>6. Directory' = Directory
    BY <1>1 DEF Directory
  <2>7. MarkerIsLast'
    BY <1>1, <2>3, <2>6, DirectorySlots DEF MarkerIsLast, TypeOK
  <2>8. \A a \in Directory : Visible(a)' = Visible(a)
    BY <2>3, DirectorySlots DEF Visible, TypeOK
  <2>9. Entries' = Entries
    BY <2>6, <2>8 DEF Entries
  <2>10. OpInv'
    BY <1>1, <2>1, <2>2, <2>3, <2>4, <2>6
    DEF OpInv, Claiming, Growing, Zeroed, Running, HasNew, HasOld, HasAt, ClusterSlots
  <2> QED BY <1>1, <2>2, <2>3, <2>5, <2>7, <2>9, <2>10 DEF TypeOK
<1> QED BY <1>2, <1>3 DEF ZeroNewCluster

LEMMA LinkNewClusterStep ==
    ASSUME SlotInv, LinkNewCluster PROVE SlotInv' /\ Entries' = Entries
<1> USE DEF SlotInv
<1>1. UNCHANGED <<slot, lost, loose, allocated>> /\ faults' \in 0 .. MaxFaults
  BY FaultTyped DEF LinkNewCluster
<1>2. CASE CreateFails("failed") /\ UNCHANGED clusters
  BY <1>1, <1>2, ResultTyped, SameSlots DEF TypeOK
<1>3. CASE /\ clusters' = clusters + 1
           /\ \/ Goto("unlink")
              \/ IF ScanAgain
                 THEN /\ op' = [op EXCEPT !.step = "scan", !.tries = @ + 1]
                      /\ UNCHANGED result
                 ELSE CreateFails("failed")
  <2>1. op.step = "link" /\ clusters < MaxClusters /\ clusters \in 1 .. MaxClusters
    BY DEF LinkNewCluster, OpInv, Growing, TypeOK
  <2>2. clusters' \in 1 .. MaxClusters
    BY <1>3, <2>1, Products
  <2>3. \A a \in ClusterSlots(clusters) : slot[a].kind = "end"
    BY <2>1 DEF OpInv, Zeroed
  <2>4. Directory' = Directory \cup ClusterSlots(clusters)
    BY <1>3, <2>1, NextClusterSlots DEF Directory
  <2>5. \A a \in Directory, b \in ClusterSlots(clusters) : a < b
    BY <2>1, Products DEF Directory, ClusterSlots
  <2>6. MarkerIsLast'
    <3>1. ASSUME NEW a \in Directory', NEW b \in Directory',
                 slot[a].kind = "end", a <= b
          PROVE  slot[b].kind = "end"
      <4>1. CASE b \in ClusterSlots(clusters)
        BY <2>3, <4>1
      <4>2. CASE b \in Directory
        <5>1. a \in Directory
          BY <2>4, <2>5, <3>1, <4>2 DEF Directory, ClusterSlots
        <5> QED BY <3>1, <4>2, <5>1 DEF MarkerIsLast
      <4> QED BY <2>4, <4>1, <4>2
    <3>2. slot[(clusters' * K) - 1].kind = "end"
      BY <1>3, <2>1, <2>3, NextClusterSlots
    <3>3. \A a \in Directory' : slot[a].kind # "stale"
      BY <2>3, <2>4 DEF MarkerIsLast
    <3> QED BY <1>1, <3>1, <3>2, <3>3 DEF MarkerIsLast
  <2>7. Entries' = Entries
    BY <1>1, <2>3, <2>4 DEF Entries, Visible
  <2>8. CASE CreateFails("failed")
    BY <1>1, <2>2, <2>6, <2>7, <2>8, ResultTyped DEF TypeOK
  <2>9. CASE Goto("unlink")
    <3>1. /\ op' \in Operation /\ op'.step = "unlink" /\ op'.why = op.why
          /\ op'.old = op.old /\ result' = result
      BY <2>9 DEF Goto, TypeOK, Operation, Steps
    <3>2. OpInv'
      BY <1>1, <2>4, <3>1 DEF OpInv, Claiming, Growing, Zeroed, Running, HasNew, HasOld, HasAt
    <3> QED BY <1>1, <2>2, <2>6, <2>7, <3>1, <3>2 DEF TypeOK
  <2>10. CASE ScanAgain /\ op' = [op EXCEPT !.step = "scan", !.tries = @ + 1]
                        /\ UNCHANGED result
    <3>1. op \in Operation /\ op.tries \in 0 .. 3 /\ op.tries + 1 \in 0 .. 3
      BY <2>10 DEF TypeOK, Operation, ScanAgain
    <3>2. /\ op' \in Operation /\ op'.step = "scan" /\ op'.why = op.why
          /\ op'.old = op.old /\ result' = result
      BY <2>10, <3>1, ZenonT(60) DEF Operation, Steps
    <3>3. OpInv'
      BY <1>1, <2>4, <3>2 DEF OpInv, Claiming, Growing, Zeroed, Running, HasNew, HasOld, HasAt
    <3> QED BY <1>1, <2>2, <2>6, <2>7, <3>2, <3>3 DEF TypeOK
  <2> QED BY <1>3, <2>8, <2>9, <2>10
<1> QED BY <1>2, <1>3 DEF LinkNewCluster

LEMMA LossTyped ==
    ASSUME TypeOK, ReleaseNewCluster
    PROVE  lost' \subseteq 0 .. MaxClusters - 1 /\ loose' \in BOOLEAN
<1>1. clusters - 1 \in 0 .. MaxClusters - 1
  BY Products DEF TypeOK
<1>2. CASE UNCHANGED <<lost, loose>>
  BY <1>2 DEF TypeOK
<1>3. CASE lost' = lost \cup {clusters - 1} /\ loose' = TRUE
  <2>1. lost \subseteq 0 .. MaxClusters - 1
    BY DEF TypeOK
  <2> QED BY <1>1, <1>3, <2>1, Zenon
<1> QED BY <1>2, <1>3 DEF ReleaseNewCluster

(* The rollback of a link changes no slot; what it frees is lost.          *)
LEMMA ReleaseNewClusterStep == ASSUME SlotInv, ReleaseNewCluster PROVE SlotInv'
<1> USE DEF SlotInv
<1>1. UNCHANGED <<slot, clusters, allocated>> /\ faults' \in 0 .. MaxFaults
  BY FaultTyped DEF ReleaseNewCluster
<1>2. lost' \subseteq 0 .. MaxClusters - 1 /\ loose' \in BOOLEAN
  BY LossTyped DEF TypeOK
<1>3. /\ op' \in Operation /\ OpInv'
      /\ result' \in {"none", "ok", "refused", "full", "failed"}
  BY ResultTyped DEF ReleaseNewCluster
<1> QED BY <1>1, <1>2, <1>3, SameSlots DEF TypeOK

(* A cluster of the run is written: the slots that are lost were empty, an *)
(* end marker is lost only if all behind the run is free.                  *)
LEMMA ClusterWritten ==
    ASSUME SlotInv, op.step = "write", UNCHANGED clusters,
           slot' = [a \in Addresses |-> Written(a)]
    PROVE  /\ slot' \in [Addresses -> Slot] /\ MarkerIsLast'
           /\ \A a \in Directory : slot[a].kind # "end" => slot'[a].kind # "end"
           /\ Entries \subseteq Entries' /\ Entries' \subseteq Entries \cup {NewEntry}
           /\ \A a \in Entries : slot'[a] = slot[a]
           /\ \A a \in Entries' : a \in Entries \/ slot'[a].alias = op.alias
<1> USE DEF SlotInv
<1>1. /\ Behind \in Nat /\ NewEntry = Behind - 1 /\ NewEntry \in Nat
      /\ op \in Operation /\ op.at \in Nat /\ Top(op.at) \in Nat
  BY RunIsPositive, Place
<1>2. Directory \subseteq Addresses /\ \A a \in Directory : 0 .. a \subseteq Directory
  BY DirectorySlots DEF TypeOK
<1>3. /\ Behind \in Directory /\ op.at <= Behind
      /\ \A b \in 0 .. op.at - 1 : slot[b].kind # "end"
      /\ \A b \in op.at .. Behind - 1 : Empty(b)
      /\ op.marker => \A b \in Directory : b >= Behind => slot[b].kind = "end"
  BY DEF OpInv, Running
<1> DEFINE T == Top(op.at)
           Run(a) == a \in op.at .. T - 1 /\ a < Behind
           Mark(a) == ~Run(a) /\ a = Behind /\ a < T /\ op.marker
<1>4. \A a \in Addresses :
        /\ Run(a) => slot'[a] = NewSlot(a)
        /\ Mark(a) => slot'[a] = End
        /\ ~Run(a) /\ ~Mark(a) => slot'[a] = slot[a]
  BY DEF Written
<1>5. T \in Nat
  BY <1>1
<1> HIDE DEF T
<1>6. \A a : NewSlot(a).kind = IF a = NewEntry THEN "entry" ELSE "lfn"
  BY DEF NewSlot
<1>7. \A a \in Addresses : Run(a) => Empty(a) /\ a <= NewEntry /\ a \in Nat
  BY <1>1, <1>3, <1>5
<1>8. \A a \in Addresses : Mark(a) => slot[a].kind = "end" /\ End.kind = "end"
  <2>1. ASSUME NEW a \in Addresses, Mark(a) PROVE slot[a].kind = "end"
    <3>1. a = Behind /\ op.marker /\ a >= Behind
      BY <1>1, <2>1
    <3> QED BY <1>3, <3>1
  <2> QED BY <2>1 DEF End, Blank
<1>9. slot' \in [Addresses -> Slot]
  <2>1. End \in Slot
    BY DEF End, Blank, Slot, Aliases, NoAlias
  <2>2. ASSUME NEW a \in Addresses, Run(a) PROVE NewSlot(a) \in Slot
    <3>1. NewEntry - a \in Nat
      BY <1>1, <1>7, <2>2
    <3> QED BY <1>1, <3>1 DEF NewSlot, Slot, Operation
  <2> HIDE DEF Run, Mark
  <2>3. \A a \in Addresses : slot'[a] \in Slot
    BY <1>4, <2>1, <2>2 DEF TypeOK
  <2> QED BY <2>3
<1>10. \A a \in Directory : slot[a].kind # "end" => slot'[a].kind # "end"
  BY <1>2, <1>4, <1>6, <1>8
<1>11. MarkerIsLast'
  <2>1. Directory' = Directory
    BY DEF Directory
  <2>2. ASSUME NEW a \in Directory, NEW b \in Directory, slot'[a].kind = "end", a <= b
        PROVE  slot'[b].kind = "end"
    <3>1. ~Run(a) /\ a \in Nat /\ b \in Nat
      BY <1>2, <1>4, <1>6, <2>2 DEF Directory
    <3>2. slot[a].kind = "end"
      BY <1>2, <1>4, <1>8, <2>2, <3>1
    <3>3. ~(a \in 0 .. op.at - 1)
      BY <1>3, <3>2
    <3>4. ~Run(b)
      BY <1>1, <1>5, <2>2, <3>1, <3>3
    <3>5. slot[b].kind = "end"
      BY <2>2, <3>2 DEF MarkerIsLast
    <3> QED BY <1>2, <1>4, <1>8, <3>4, <3>5
  <2>3. slot'[(clusters * K) - 1].kind = "end"
    <3>1. (clusters * K) - 1 \in Directory /\ Behind <= (clusters * K) - 1
      BY <1>3, DirectorySlots DEF TypeOK, Directory
    <3>2. ~Run((clusters * K) - 1)
      BY <1>1, <3>1 DEF Directory
    <3> QED BY <1>2, <1>4, <1>8, <3>1, <3>2 DEF MarkerIsLast
  <2>4. \A a \in Directory : slot'[a].kind # "stale"
    BY <1>2, <1>4, <1>6, <1>8 DEF MarkerIsLast
  <2> QED BY <2>1, <2>2, <2>3, <2>4 DEF MarkerIsLast
<1>12. ASSUME NEW a \in Entries PROVE a \in Entries' /\ slot'[a] = slot[a]
  <2>1. /\ a \in Directory /\ a \in Addresses /\ slot[a].kind = "entry"
        /\ 0 .. a \subseteq Directory /\ \A b \in 0 .. a : slot[b].kind # "end"
    BY <1>2, <1>12 DEF Entries, Visible
  <2>2. ~Run(a) /\ ~Mark(a)
    BY <1>7, <1>8, <2>1 DEF Empty
  <2>3. slot'[a] = slot[a]
    BY <1>4, <2>1, <2>2
  <2>4. \A b \in 0 .. a : slot'[b].kind # "end"
    BY <1>10, <2>1
  <2> QED BY <2>1, <2>3, <2>4 DEF Entries, Visible, Directory
<1>13. ASSUME NEW a \in Entries' PROVE a \in Entries \/ (a = NewEntry /\ slot'[a].alias = op.alias)
  <2>1. a \in Directory /\ a \in Addresses /\ slot'[a].kind = "entry"
    BY <1>2, <1>13 DEF Entries, Visible, Directory
  <2>2. CASE Run(a)
    <3>1. a = NewEntry /\ slot'[a] = NewSlot(a)
      BY <1>4, <1>6, <2>1, <2>2
    <3> QED BY <3>1 DEF NewSlot
  <2>3. CASE ~Run(a)
    <3>1. slot[a].kind = "entry"
      BY <1>4, <1>8, <2>1, <2>3
    <3>2. \A b \in 0 .. a : b \in Directory /\ b <= a
      BY <1>2, <2>1 DEF Directory
    <3>3. \A b \in 0 .. a : slot[b].kind # "end"
      BY <2>1, <3>1, <3>2 DEF MarkerIsLast
    <3> QED BY <2>1, <3>1, <3>3 DEF Entries, Visible
  <2> QED BY <2>2, <2>3
<1> QED BY <1>9, <1>10, <1>11, <1>12, <1>13

LEMMA WriteRunStep == ASSUME SlotInv, WriteRun PROVE SlotInv' /\ OthersStep
<1> USE DEF SlotInv
<1>1. UNCHANGED <<chain, allocated>> /\ faults' \in 0 .. MaxFaults /\ op.step = "write"
  BY FaultTyped DEF WriteRun
<1>2. CASE CreateFails("failed") /\ UNCHANGED slot
  BY <1>1, <1>2, ResultTyped, SameSlots DEF TypeOK, OthersStep
<1>3. CASE slot' = [a \in Addresses |-> Written(a)]
  <2>1. /\ slot' \in [Addresses -> Slot] /\ MarkerIsLast' /\ OthersStep
        /\ \A a \in Directory : slot[a].kind # "end" => slot'[a].kind # "end"
    BY <1>1, <1>3, ClusterWritten DEF OthersStep
  <2>2. /\ Behind \in Nat /\ NewEntry = Behind - 1 /\ NewEntry \in Nat
        /\ op \in Operation /\ op.at \in Nat /\ Top(op.at) \in Nat /\ op.at < Top(op.at)
    BY RunIsPositive, Place
  <2>3. Directory' = Directory /\ Directory \subseteq Addresses
    BY <1>1, DirectorySlots DEF TypeOK, Directory
  <2>4. CASE CreateFails("failed")
    BY <1>1, <2>1, <2>4, ResultTyped DEF TypeOK
  <2>5. CASE Behind < Top(op.at) /\ Goto("check")
    <3>1. /\ op' \in Operation /\ op'.step = "check" /\ op'.why = op.why
          /\ op'.old = op.old /\ op'.start = op.start /\ op'.name = op.name
          /\ result' = result
      BY <2>2, <2>5 DEF Goto, Operation, Steps
    <3>2. NewEntry' = NewEntry
      BY <3>1 DEF NewEntry, Length
    <3>3. NewEntry \in Directory
      <4>1. Behind \in Directory /\ NewEntry \in 0 .. Behind
        BY <1>1, <2>2 DEF OpInv, Running
      <4> QED BY <4>1, DirectorySlots DEF TypeOK
    <3>4. slot'[NewEntry].kind # "end"
      <4>1. CASE NewEntry < op.at
        <5>1. NewEntry \in 0 .. op.at - 1
          BY <2>2, <4>1
        <5> QED BY <1>1, <2>1, <3>3, <5>1 DEF OpInv, Running
      <4>2. CASE NewEntry >= op.at
        <5>1. NewEntry \in op.at .. Top(op.at) - 1 /\ NewEntry < Behind
          BY <2>2, <2>5, <4>2
        <5>2. slot'[NewEntry] = NewSlot(NewEntry)
          BY <1>3, <2>3, <3>3, <5>1 DEF Written
        <5> QED BY <5>2 DEF NewSlot
      <4> QED BY <2>2, <4>1, <4>2
    <3>5. OpInv'
      BY <2>1, <2>3, <3>1, <3>2, <3>3, <3>4
      DEF OpInv, Claiming, Growing, Zeroed, Running, HasNew, HasOld, HasAt
    <3> QED BY <1>1, <2>1, <3>1, <3>5 DEF TypeOK
  <2>6. CASE /\ Behind >= Top(op.at) /\ Top(op.at) \in Directory
             /\ op' = [op EXCEPT !.at = Top(op.at)] /\ result' = result
    <3> DEFINE T == Top(op.at)
    <3>1. /\ op' \in Operation /\ op'.step = "write" /\ op'.why = op.why
          /\ op'.old = op.old /\ op'.start = op.start /\ op'.name = op.name
          /\ op'.marker = op.marker /\ op'.at = T
      BY <1>1, <2>2, <2>3, <2>6 DEF Operation, Steps
    <3>2. Behind' = Behind
      BY <3>1 DEF Behind, Length
    <3>3. T \in Nat /\ op.at < T /\ T <= Behind /\ Behind \in Directory
      BY <1>1, <2>2, <2>6 DEF OpInv, Running
    <3>4. \A a \in Directory :
            /\ a < op.at => slot'[a] = slot[a]
            /\ a \in op.at .. T - 1 => slot'[a] = NewSlot(a)
            /\ a >= T => slot'[a] = slot[a]
      BY <1>3, <2>2, <2>3, <3>3 DEF Written, Directory
    <3> HIDE DEF T
    <3>5. \A b \in 0 .. T - 1 : b \in Directory /\ slot'[b].kind # "end"
      <4>1. ASSUME NEW b \in 0 .. T - 1 PROVE b \in Directory /\ slot'[b].kind # "end"
        <5>1. b \in Directory
          <6>1. b \in 0 .. Behind
            BY <2>2, <3>3, <4>1
          <6> QED BY <3>3, <6>1, DirectorySlots DEF TypeOK
        <5>2. CASE b < op.at
          <6>1. b \in 0 .. op.at - 1
            BY <2>2, <3>3, <4>1, <5>2
          <6> QED BY <1>1, <3>4, <5>1, <5>2, <6>1 DEF OpInv, Running
        <5>3. CASE b >= op.at
          <6>1. slot'[b] = NewSlot(b)
            BY <2>2, <3>3, <3>4, <4>1, <5>1, <5>3
          <6> QED BY <5>1, <6>1 DEF NewSlot
        <5> QED BY <2>2, <3>3, <4>1, <5>1, <5>2, <5>3
      <4> QED BY <4>1
    <3>6. \A b \in T .. Behind - 1 : Empty(b)'
      <4>1. ASSUME NEW b \in T .. Behind - 1 PROVE Empty(b)'
        <5>1. b \in Directory /\ b \in op.at .. Behind - 1 /\ b >= T
          <6>1. b \in 0 .. Behind /\ b \in op.at .. Behind - 1 /\ b >= T
            BY <2>2, <3>3, <4>1
          <6> QED BY <3>3, <6>1, DirectorySlots DEF TypeOK
        <5>2. Empty(b) /\ slot'[b] = slot[b]
          BY <1>1, <3>4, <5>1 DEF OpInv, Running
        <5> QED BY <5>2 DEF Empty
      <4> QED BY <4>1
    <3>7. op.marker => \A b \in Directory : b >= Behind => slot'[b].kind = "end"
      BY <1>1, <2>2, <3>3, <3>4 DEF OpInv, Running, Directory
    <3>8. Running'
      <4>1. Behind' \in Directory' /\ op'.at <= Behind'
        BY <2>3, <3>1, <3>2, <3>3
      <4>2. \A b \in 0 .. op'.at - 1 : slot'[b].kind # "end"
        BY <3>1, <3>5
      <4>3. \A b \in op'.at .. Behind' - 1 : Empty(b)'
        BY <3>1, <3>2, <3>6
      <4>4. op'.marker => \A b \in Directory' : b >= Behind' => slot'[b].kind = "end"
        BY <2>3, <3>1, <3>2, <3>7
      <4> QED BY <4>1, <4>2, <4>3, <4>4 DEF Running
    <3>9. OpInv'
      BY <2>1, <2>3, <3>1, <3>8
      DEF OpInv, Claiming, Growing, Zeroed, HasNew, HasOld, HasAt
    <3> QED BY <1>1, <2>1, <2>6, <3>1, <3>9 DEF TypeOK
  <2> QED BY <1>3, <2>4, <2>5, <2>6 DEF WriteRun
<1> QED BY <1>2, <1>3 DEF WriteRun

LEMMA ReadBackStep == ASSUME SlotInv, ReadBack PROVE SlotInv'
<1> USE DEF SlotInv
<1>1. UNCHANGED <<slot, chain, allocated>> /\ faults' \in 0 .. MaxFaults
  BY FaultTyped DEF ReadBack
<1>2. /\ op \in Operation /\ NewEntry \in Directory /\ NewEntry \in Addresses
      /\ slot[NewEntry].kind # "end"
  BY DirectorySlots DEF ReadBack, OpInv, HasNew, TypeOK
<1>3. Directory' = Directory
  BY <1>1 DEF Directory
<1>4. CASE Return("ok")
  <2>1. op' = Idle
    BY <1>4 DEF Return
  <2> QED BY <1>1, <1>4, <2>1, EndingOp, SameSlots DEF TypeOK, Return
<1>5. ASSUME op' = [op EXCEPT !.step = "undo", !.at = NewEntry], result' = result
      PROVE  SlotInv'
  <2>1. /\ op' \in Operation /\ op'.step = "undo" /\ op'.why = op.why /\ op'.old = op.old
        /\ op'.at = NewEntry /\ op'.start = op.start /\ op'.name = op.name
    BY <1>2, <1>5 DEF Operation, Steps
  <2>2. NewEntry' = NewEntry
    BY <2>1 DEF NewEntry, Length
  <2>3. OpInv'
    BY <1>1, <1>2, <1>3, <2>1, <2>2
    DEF OpInv, Claiming, Growing, Zeroed, Running, HasNew, HasOld, HasAt
  <2> QED BY <1>1, <1>5, <2>1, <2>3, SameSlots DEF TypeOK
<1>6. ASSUME op.why = "rename", op' = [op EXCEPT !.step = "remove", !.at = op.old],
             result' = result
      PROVE  SlotInv'
  <2>1. op.old \in Directory /\ op.old \in Addresses /\ slot[op.old].kind # "end"
    BY <1>6, DirectorySlots DEF OpInv, HasOld, TypeOK
  <2>2. /\ op' \in Operation /\ op'.step = "remove" /\ op'.why = op.why /\ op'.old = op.old
        /\ op'.at = op.old /\ op'.start = op.start /\ op'.name = op.name
    BY <1>2, <1>6, <2>1 DEF Operation, Steps
  <2>3. NewEntry' = NewEntry
    BY <2>2 DEF NewEntry, Length
  <2>4. OpInv'
    BY <1>1, <1>2, <1>3, <2>1, <2>2, <2>3
    DEF OpInv, Claiming, Growing, Zeroed, Running, HasNew, HasOld, HasAt
  <2> QED BY <1>1, <1>6, <2>2, <2>4, SameSlots DEF TypeOK
<1> QED BY <1>4, <1>5, <1>6 DEF ReadBack

LEMMA FreeClusterStep == ASSUME SlotInv, FreeCluster PROVE SlotInv'
<1> USE DEF SlotInv
<1>1. /\ UNCHANGED <<slot, chain>> /\ faults' \in 0 .. MaxFaults
      /\ allocated' \subseteq Objects /\ op' = Idle /\ result' = result
  BY FaultTyped DEF FreeCluster, Allocate, TypeOK, Return
<1> QED BY <1>1, EndingOp, SameSlots DEF TypeOK

LEMMA ReleaseObjectStep == ASSUME SlotInv, ReleaseObject PROVE SlotInv'
<1> USE DEF SlotInv
<1>1. /\ UNCHANGED <<slot, chain>> /\ faults' \in 0 .. MaxFaults
      /\ allocated' \subseteq Objects /\ op' = Idle /\ result' \in {"ok", "failed"}
  BY FaultTyped DEF ReleaseObject, TypeOK, Return
<1> QED BY <1>1, EndingOp, SameSlots DEF TypeOK

LEMMA PowerFailsStep == ASSUME SlotInv, PowerFails PROVE SlotInv'
<1> USE DEF SlotInv
<1>1. /\ UNCHANGED <<slot, chain, allocated>> /\ faults' \in 0 .. MaxFaults
      /\ op' = Idle /\ result' = "none"
  BY FaultTyped DEF PowerFails, TypeOK
<1> QED BY <1>1, EndingOp, SameSlots DEF TypeOK

-----------------------------------------------------------------------------
(* One cluster's slots of a run are deleted: all but the slot of op.at are *)
(* parts of a long name, and none is behind the end marker.                *)
LEMMA SlotsDeleted ==
    ASSUME SlotInv, op.step \in {"remove", "undo", "rollback"}, UNCHANGED clusters,
           slot' = [a \in Addresses |-> IF a \in Doomed THEN Deleted ELSE slot[a]]
    PROVE  /\ slot' \in [Addresses -> Slot] /\ MarkerIsLast'
           /\ \A a \in Directory : slot'[a].kind = "end" <=> slot[a].kind = "end"
           /\ Entries' \subseteq Entries /\ Entries \ Entries' \subseteq {op.at}
           /\ \A a \in Entries' : slot'[a] = slot[a]
           /\ Below >= 0 => Below \in Directory /\ Below \in Addresses
                                  /\ slot'[Below] = slot[Below]
<1> USE DEF SlotInv
<1>1. /\ op.at \in Directory /\ slot[op.at].kind # "end" /\ op.at \in Nat
      /\ Directory' = Directory /\ Directory \subseteq Addresses
      /\ \A a \in Directory : 0 .. a \subseteq Directory
  BY Place, DirectorySlots DEF TypeOK, OpInv, HasAt, Directory
<1> DEFINE first == (op.at \div K) * K
<1>2. first \in Nat /\ first <= op.at /\ Below = first - 1
  BY <1>1, ClusterOf DEF Below
<1>3. \A a \in Doomed :
        /\ a \in first .. op.at
        /\ a # op.at => slot[a].kind = "lfn"
  BY <1>1, <1>2, Products DEF Doomed, ClusterSlots
<1> HIDE DEF first
<1>4. \A a \in Doomed : a \in Directory /\ slot[a].kind # "end"
  <2>1. ASSUME NEW a \in Doomed PROVE a \in Directory /\ slot[a].kind # "end"
    <3>1. a \in 0 .. op.at
      BY <1>1, <1>2, <1>3
    <3> QED BY <1>1, <1>3, <3>1
  <2> QED BY <2>1
<1>5. \A a \in Addresses :
        /\ a \in Doomed => slot'[a] = Deleted
        /\ a \notin Doomed => slot'[a] = slot[a]
  OBVIOUS
<1>6. Deleted \in Slot /\ Deleted.kind = "deleted"
  BY DEF Deleted, Blank, Slot, Aliases, NoAlias
<1>7. slot' \in [Addresses -> Slot]
  BY <1>6 DEF TypeOK
<1>8. \A a \in Directory : slot'[a].kind = "end" <=> slot[a].kind = "end"
  BY <1>1, <1>4, <1>5, <1>6
<1>9. \A a \in Directory : slot'[a].kind # "stale"
  BY <1>1, <1>5, <1>6 DEF MarkerIsLast
<1>10. MarkerIsLast'
  BY <1>1, <1>8, <1>9, DirectorySlots DEF MarkerIsLast, TypeOK
<1>11. ASSUME NEW a \in Entries' PROVE a \in Entries /\ slot'[a] = slot[a]
  <2>1. /\ a \in Directory /\ slot'[a].kind = "entry" /\ 0 .. a \subseteq Directory
        /\ \A b \in 0 .. a : slot'[b].kind # "end"
    BY <1>1, <1>11 DEF Entries, Visible
  <2>2. slot'[a] = slot[a]
    BY <1>1, <1>5, <1>6, <2>1
  <2> QED BY <1>8, <2>1, <2>2 DEF Entries, Visible
<1>12. ASSUME NEW a \in Entries, a # op.at PROVE a \in Entries'
  <2>1. /\ a \in Directory /\ slot[a].kind = "entry" /\ 0 .. a \subseteq Directory
        /\ \A b \in 0 .. a : slot[b].kind # "end"
    BY <1>1, <1>12 DEF Entries, Visible
  <2>2. slot'[a] = slot[a]
    BY <1>1, <1>3, <1>5, <1>12, <2>1
  <2>3. \A b \in 0 .. a : slot'[b].kind # "end"
    BY <1>8, <2>1
  <2> QED BY <1>1, <2>1, <2>2, <2>3 DEF Entries, Visible
<1>13. ASSUME Below >= 0
       PROVE  Below \in Directory /\ Below \in Addresses /\ slot'[Below] = slot[Below]
  <2>1. Below \in 0 .. op.at /\ Below \notin first .. op.at
    BY <1>1, <1>2, <1>13
  <2> QED BY <1>1, <1>3, <1>5, <2>1
<1> QED BY <1>7, <1>8, <1>10, <1>11, <1>12, <1>13

LEMMA RemoveRunStep ==
    ASSUME SlotInv, RemoveRun PROVE SlotInv' /\ OthersStep /\ Entries' \subseteq Entries
<1> USE DEF SlotInv
<1>1. /\ UNCHANGED <<chain, allocated>> /\ faults' \in 0 .. MaxFaults
      /\ op.step \in {"remove", "undo", "rollback"} /\ op \in Operation
  BY FaultTyped DEF RemoveRun, TypeOK
<1>2. /\ slot' \in [Addresses -> Slot] /\ MarkerIsLast' /\ OthersStep
      /\ Entries' \subseteq Entries
      /\ \A a \in Directory : slot'[a].kind = "end" <=> slot[a].kind = "end"
  <2>1. CASE slot' = slot
    BY <1>1, <2>1, SameSlots DEF TypeOK, OthersStep
  <2>2. CASE slot' = [a \in Addresses |-> IF a \in Doomed THEN Deleted ELSE slot[a]]
    BY <1>1, <2>2, SlotsDeleted DEF OthersStep
  <2> QED BY <2>1, <2>2 DEF RemoveRun
<1>3. Directory' = Directory
  BY <1>1 DEF Directory
<1>4. ASSUME CreateFails("failed") \/ Return("failed") PROVE SlotInv'
  BY <1>1, <1>2, <1>4, ResultTyped DEF TypeOK
<1>5. ASSUME Return("ok") PROVE SlotInv'
  <2>1. op' = Idle
    BY <1>5 DEF Return
  <2> QED BY <1>1, <1>2, <1>5, <2>1, EndingOp DEF TypeOK, Return
<1>6. ASSUME Goto("release") PROVE SlotInv'
  <2>1. /\ op' \in Operation /\ op'.step = "release" /\ op'.why = op.why
        /\ op'.old = op.old /\ result' = result
    BY <1>1, <1>6 DEF Goto, Operation, Steps
  <2>2. OpInv'
    BY <1>2, <1>3, <2>1 DEF OpInv, Claiming, Growing, Zeroed, Running, HasNew, HasOld, HasAt
  <2> QED BY <1>1, <1>2, <2>1, <2>2 DEF TypeOK
<1>7. ASSUME op.step = "remove", op.why = "rename", result' = result,
             op' = [op EXCEPT !.step = "rollback", !.at = NewEntry]
      PROVE  SlotInv'
  <2>1. NewEntry \in Directory /\ NewEntry \in Addresses /\ slot[NewEntry].kind # "end"
    BY <1>7, DirectorySlots DEF OpInv, HasNew, TypeOK
  <2>2. /\ op' \in Operation /\ op'.step = "rollback" /\ op'.why = op.why
        /\ op'.old = op.old /\ op'.at = NewEntry /\ op'.start = op.start
        /\ op'.name = op.name
    BY <1>1, <1>7, <2>1 DEF Operation, Steps
  <2>3. NewEntry' = NewEntry
    BY <2>2 DEF NewEntry, Length
  <2>4. OpInv'
    BY <1>2, <1>3, <2>1, <2>2, <2>3
    DEF OpInv, Claiming, Growing, Zeroed, Running, HasNew, HasOld, HasAt
  <2> QED BY <1>1, <1>2, <1>7, <2>2, <2>4 DEF TypeOK
<1>8. ASSUME Below >= 0, slot[Below].kind = "lfn", result' = result,
             op' = [op EXCEPT !.at = Below],
             slot' = [a \in Addresses |-> IF a \in Doomed THEN Deleted ELSE slot[a]]
      PROVE  SlotInv'
  <2>1. Below \in Directory /\ Below \in Addresses /\ slot'[Below].kind = "lfn"
    BY <1>1, <1>8, SlotsDeleted
  <2>2. /\ op' \in Operation /\ op'.step = op.step /\ op'.why = op.why
        /\ op'.old = op.old /\ op'.at = Below /\ op'.start = op.start
        /\ op'.name = op.name
    BY <1>1, <1>8, <2>1 DEF Operation
  <2>3. NewEntry' = NewEntry
    BY <2>2 DEF NewEntry, Length
  <2>4. OpInv'
    BY <1>1, <1>2, <1>3, <2>1, <2>2, <2>3
    DEF OpInv, Claiming, Growing, Zeroed, Running, HasNew, HasOld, HasAt
  <2> QED BY <1>1, <1>2, <1>8, <2>2, <2>4 DEF TypeOK
<1>9. ASSUME Removed PROVE SlotInv'
  BY <1>4, <1>5, <1>6, <1>9 DEF Removed
<1>10. ASSUME RemoveFails PROVE SlotInv'
  BY <1>4, <1>7, <1>10 DEF RemoveFails
<1>11. SlotInv'
  BY <1>8, <1>9, <1>10 DEF RemoveRun, ReachesBelow
<1> QED BY <1>2, <1>11

-----------------------------------------------------------------------------
(* In a directory that is whole, every step keeps the invariant and all    *)
(* entries but the operation's own; only the write of a run makes one.     *)
LEMMA SlotInvStep ==
    ASSUME SlotInv, whole, [Next]_vars
    PROVE  SlotInv' /\ OthersStep /\ (WriteRun \/ Entries' \subseteq Entries)
<1> DEFINE Keeps == SlotInv' /\ OthersStep /\ (WriteRun \/ Entries' \subseteq Entries)
<1>1. ASSUME UNCHANGED <<slot, clusters>>, SlotInv' PROVE Keeps
  BY <1>1, SameSlots DEF OthersStep
<1>2. CASE UNCHANGED vars
  <2>1. SlotInv'
    BY <1>2 DEF SlotInv, TypeOK, MarkerIsLast, OpInv, Claiming, Growing, Zeroed, Running,
                HasNew, HasOld, HasAt, Directory, Operation, ClusterSlots, Behind, NewEntry,
                Length, Empty
  <2> QED BY <1>1, <1>2, <2>1
<1>3. ASSUME NEW n \in Names,
             \/ CreateFile(n)
             \/ \E o \in Objects : CreateDirectory(n, o)
             \/ \E a \in Addresses : \/ Delete(n, a)
                                     \/ \E new \in Names : Rename(n, new, a)
      PROVE  Keeps
  <2>1. UNCHANGED <<slot, clusters>>
    BY <1>3 DEF CreateFile, CreateDirectory, Delete, Rename
  <2>2. SlotInv'
    BY <1>3, BeginStep
  <2> QED BY <1>1, <2>1, <2>2
<1>4. CASE ClaimCluster
  BY <1>1, <1>4, ClaimStep DEF ClaimCluster
<1>5. CASE Lookup
  BY <1>1, <1>5, LookupStep DEF Lookup
<1>6. CASE ScanFinds
  BY <1>1, <1>6, ScanFindsStep DEF ScanFinds
<1>7. CASE ScanFindsNone
  BY <1>1, <1>7, ScanFindsNoneStep DEF ScanFindsNone
<1>8. CASE ZeroNewCluster
  BY <1>8, ZeroNewClusterStep DEF OthersStep, Entries
<1>9. CASE LinkNewCluster
  BY <1>9, LinkNewClusterStep DEF LinkNewCluster, OthersStep
<1>10. CASE WriteRun
  BY <1>10, WriteRunStep
<1>11. CASE ReadBack
  BY <1>1, <1>11, ReadBackStep DEF ReadBack
<1>12. CASE FreeCluster
  BY <1>1, <1>12, FreeClusterStep DEF FreeCluster
<1>13. CASE RemoveRun
  BY <1>13, RemoveRunStep
<1>14. CASE ReleaseObject
  BY <1>1, <1>14, ReleaseObjectStep DEF ReleaseObject
<1>15. CASE PowerFails
  BY <1>1, <1>15, PowerFailsStep DEF PowerFails
<1>16. CASE ReleaseNewCluster
  BY <1>1, <1>16, ReleaseNewClusterStep DEF ReleaseNewCluster
<1>17. ~OverwriteLost
  BY DEF whole, OverwriteLost
<1> QED
  BY <1>2, <1>3, <1>4, <1>5, <1>6, <1>7, <1>8, <1>9, <1>10, <1>11, <1>12, <1>13, <1>14, <1>15,
     <1>16, <1>17
  DEF Next, Step

-----------------------------------------------------------------------------
(* What every step keeps, whole or not.                                    *)
LEMMA InitTypeInv == Init => TypeInv
<1>1. Init => TypeOK
  BY InitSlotInv DEF SlotInv
<1>2. Init => Claiming /\ Growing /\ Placed /\ LostByMirror
  BY DEF Init, Idle, Claiming, Growing, Placed, LostByMirror
<1> QED BY <1>1, <1>2 DEF TypeInv

(* A call that ends, or only moves on to a step that relies on nothing new.*)
LEMMA EndingType ==
    ASSUME TypeOK, NEW how \in {"refused", "full", "failed"},
           CreateFails(how) \/ Return(how) \/ Return("ok") \/ Return(result)
    PROVE  /\ op' \in Operation /\ Claiming' /\ Growing' /\ Placed'
           /\ op'.step \in {"idle", "free"}
           /\ result' \in {"none", "ok", "refused", "full", "failed"}
<1>1. op' = Idle \/ (op.why = "mkdir" /\ op' = [op EXCEPT !.step = "free"])
  BY DEF CreateFails, Return
<1>2. op' \in Operation
  BY <1>1, EndingOp
<1>3. op'.step \in {"idle", "free"}
  BY <1>1 DEF TypeOK, Operation, Idle
<1> QED BY <1>2, <1>3 DEF CreateFails, Return, TypeOK, Claiming, Growing, Placed

LEMMA LossStays ==
    ASSUME TypeInv, UNCHANGED <<lost, loose>>, op'.step # "unlink",
           Fault \/ UNCHANGED faults
    PROVE  LostByMirror'
BY DEF TypeInv, TypeOK, LostByMirror, Fault

LEMMA SlotStep ==
    ASSUME TypeInv, Step,
           ZeroNewCluster \/ WriteRun \/ RemoveRun
    PROVE  slot' \in [Addresses -> Slot]
<1>1. slot \in [Addresses -> Slot] /\ op \in Operation
  BY DEF TypeInv, TypeOK
<1>2. End \in Slot /\ Deleted \in Slot
  BY DEF End, Deleted, Blank, Slot, Aliases, NoAlias
<1>3. \A a \in Addresses : a < Behind => NewSlot(a) \in Slot
  <2>1. ASSUME NEW a \in Addresses, a < Behind PROVE NewSlot(a) \in Slot
    <3>1. NewEntry - a \in Nat
      BY <2>1, RunIsPositive, Products DEF TypeInv, Addresses
    <3> QED BY <1>1, <3>1 DEF NewSlot, Slot, Operation
  <2> QED BY <2>1
<1>4. \A a \in Addresses : Written(a) \in Slot
  BY <1>1, <1>2, <1>3 DEF Written
<1> QED BY <1>1, <1>2, <1>4 DEF ZeroNewCluster, WriteRun, RemoveRun

LEMMA TypeInvStep == ASSUME TypeInv, [Next]_vars PROVE TypeInv'
<1> USE DEF TypeInv
<1>0. /\ op \in Operation /\ result \in {"none", "ok", "refused", "full", "failed"}
      /\ clusters \in 1 .. MaxClusters /\ Directory \subseteq Addresses
      /\ NewEntry = op.start + Length - 1
  BY DirectorySlots DEF TypeOK, NewEntry
<1> DEFINE Typed == op' \in Operation /\ Claiming' /\ Growing' /\ Placed'
                    /\ result' \in {"none", "ok", "refused", "full", "failed"}
<1>1. ASSUME UNCHANGED <<slot, chain>>, Typed, op'.step # "unlink",
             Fault \/ UNCHANGED faults, allocated' \subseteq Objects
      PROVE  TypeInv'
  BY <1>1, LossStays, FaultTyped DEF TypeOK
<1>2. CASE UNCHANGED vars
  BY <1>2 DEF TypeOK, Claiming, Growing, Placed, LostByMirror, NewEntry, Length
<1>3. ASSUME NEW n \in Names,
             \/ CreateFile(n)
             \/ \E o \in Objects : CreateDirectory(n, o)
             \/ \E a \in Addresses : \/ Delete(n, a)
                                     \/ \E new \in Names : Rename(n, new, a)
      PROVE  TypeInv'
  <2>1. /\ UNCHANGED <<slot, chain, allocated, result, faults>>
        /\ Idle \in Operation
    <3>1. 0 \in Addresses
      BY <1>0, DirectorySlots, Products DEF TypeOK, Addresses
    <3>2. Idle \in Operation
      BY <3>1 DEF Idle, Operation, Steps, Aliases, NoAlias
    <3> QED BY <1>3, <3>2 DEF CreateFile, CreateDirectory, Delete, Rename
  <2>2. /\ op' \in Operation
        /\ \/ op'.step = "lookup"
           \/ op'.step = "claim" /\ op'.object \in Objects
           \/ op'.step = "remove" /\ op'.why = "delete"
    <3>1. CASE CreateFile(n) \/ \E o \in Objects : CreateDirectory(n, o)
      BY <2>1, <3>1, ZenonT(60) DEF CreateFile, CreateDirectory, Operation, Steps
    <3>2. ASSUME NEW a \in Addresses,
                 Delete(n, a) \/ \E new \in Names : Rename(n, new, a)
          PROVE  /\ op' \in Operation
                 /\ op'.step = "lookup" \/ (op'.step = "remove" /\ op'.why = "delete")
      <4>1. slot[a].object \in Objects \cup {NoObject}
        BY DEF TypeOK, Slot
      <4>2. CASE Delete(n, a)
        BY <2>1, <4>1, <4>2 DEF Delete, Operation, Steps
      <4>3. ASSUME NEW new \in Names, Rename(n, new, a)
            PROVE  op' \in Operation /\ op'.step = "lookup"
        BY <2>1, <4>1, <4>3 DEF Rename, Operation, Steps
      <4> QED BY <3>2, <4>2, <4>3
    <3> QED BY <1>3, <3>1, <3>2
  <2>3. Typed /\ op'.step # "unlink"
    BY <1>0, <2>1, <2>2 DEF Claiming, Growing, Placed
  <2> QED BY <1>1, <2>1, <2>3 DEF TypeOK
<1>4. CASE ClaimCluster
  <2>1. UNCHANGED <<slot, chain>> /\ (Fault \/ UNCHANGED faults) /\ allocated' \subseteq Objects
    BY <1>4 DEF ClaimCluster, Allocate, TypeOK, Claiming
  <2>2. CASE Return("failed")
    BY <1>1, <2>1, <2>2, EndingType
  <2>3. CASE Goto("lookup")
    <3>1. op' \in Operation /\ op'.step = "lookup" /\ result' = result
      BY <1>0, <2>3 DEF Goto, Operation, Steps
    <3> QED BY <1>0, <1>1, <2>1, <3>1 DEF Claiming, Growing, Placed
  <2> QED BY <1>4, <2>2, <2>3 DEF ClaimCluster, Allocate
<1>5. CASE Lookup
  <2>1. UNCHANGED <<slot, chain, allocated>> /\ (Fault \/ UNCHANGED faults)
    BY <1>5 DEF Lookup
  <2>2. CASE CreateFails("failed") \/ CreateFails("refused")
    BY <1>1, <2>1, <2>2, EndingType DEF TypeOK
  <2>3. ASSUME NEW k \in 0 .. Cardinality(Entries) + 1, NEW b \in Bases, result' = result,
               op' = [op EXCEPT !.step = "scan", !.alias = <<b, k>>]
        PROVE  TypeInv'
    <3>1. <<b, k>> \in Aliases
      BY DEF Aliases
    <3>2. op' \in Operation /\ op'.step = "scan"
      BY <1>0, <2>3, <3>1 DEF Operation, Steps
    <3> QED BY <1>0, <1>1, <2>1, <2>3, <3>2 DEF Claiming, Growing, Placed, TypeOK
  <2> QED BY <1>5, <2>2, <2>3 DEF Lookup
<1>6. CASE ScanFinds
  <2>1. UNCHANGED <<slot, chain, allocated>> /\ (Fault \/ UNCHANGED faults)
    BY <1>6 DEF ScanFinds
  <2>2. CASE CreateFails("failed")
    BY <1>1, <2>1, <2>2, EndingType DEF TypeOK
  <2>3. ASSUME NEW a \in Directory, Hole(a, Length), result' = result,
               op' = [op EXCEPT !.step = "write", !.start = a, !.at = a,
                        !.marker = \E b \in a .. a + Length - 1 : slot[b].kind = "end"]
        PROVE  TypeInv'
    <3>1. Length \in Nat \ {0} /\ a \in Nat /\ a \in Addresses
      BY <1>0, RunIsPositive DEF Directory
    <3>2. a + Length - 1 \in Directory
      <4>1. a + Length - 1 \in a .. a + Length - 1
        BY <3>1
      <4> QED BY <2>3, <4>1 DEF Hole, Fits
    <3> DEFINE m == \E b \in a .. a + Length - 1 : slot[b].kind = "end"
    <3>3. m \in BOOLEAN /\ op' = [op EXCEPT !.step = "write", !.start = a, !.at = a, !.marker = m]
      BY <2>3
    <3> HIDE DEF m
    <3>4. op' \in Operation /\ op'.step = "write" /\ op'.start = a /\ op'.name = op.name
      BY <1>0, <3>1, <3>3 DEF Operation, Steps
    <3>5. NewEntry' = a + Length - 1
      BY <3>4 DEF NewEntry, Length
    <3>6. Typed
      BY <1>0, <2>1, <2>3, <3>2, <3>4, <3>5 DEF Claiming, Growing, Placed, Addresses
    <3> QED BY <1>1, <2>1, <3>4, <3>6 DEF TypeOK
  <2> QED BY <1>6, <2>2, <2>3 DEF ScanFinds
<1>7. CASE ScanFindsNone
  <2>1. UNCHANGED <<slot, chain, allocated, faults>>
    BY <1>7 DEF ScanFindsNone
  <2>2. CASE CreateFails("failed") \/ CreateFails("full")
    BY <1>1, <2>1, <2>2, EndingType DEF TypeOK
  <2>3. CASE clusters # MaxClusters /\ Goto("zero")
    <3>1. op' \in Operation /\ op'.step = "zero" /\ result' = result
      BY <1>0, <2>3 DEF Goto, Operation, Steps
    <3>2. clusters' < MaxClusters
      BY <1>0, <2>1, <2>3, Products
    <3> QED BY <1>0, <1>1, <2>1, <3>1, <3>2 DEF Claiming, Growing, Placed, TypeOK
  <2> QED BY <1>7, <2>2, <2>3 DEF ScanFindsNone
<1>8. CASE ZeroNewCluster
  <2>1. UNCHANGED <<chain, allocated>> /\ (Fault \/ UNCHANGED faults)
    BY <1>8 DEF ZeroNewCluster
  <2>2. slot' \in [Addresses -> Slot]
    BY <1>8, SlotStep DEF Step
  <2>3. Typed /\ op'.step # "unlink"
    <3>1. CASE CreateFails("failed")
      BY <3>1, EndingType
    <3>2. CASE Goto("link")
      <4>1. op' \in Operation /\ op'.step = "link" /\ result' = result
        BY <1>0, <3>2 DEF Goto, Operation, Steps
      <4> QED BY <1>0, <1>8, <2>1, <4>1 DEF ZeroNewCluster, Claiming, Growing, Placed
    <3> QED BY <1>8, <3>1, <3>2 DEF ZeroNewCluster
  <2> QED BY <2>1, <2>2, <2>3, LossStays, FaultTyped DEF TypeOK
<1>9. CASE LinkNewCluster
  <2>1. /\ UNCHANGED <<slot, lost, loose, allocated>> /\ (Fault \/ UNCHANGED faults)
        /\ op.step = "link"
    BY <1>9 DEF LinkNewCluster
  <2>2. clusters' \in 1 .. MaxClusters
    BY <1>0, <1>9, <2>1, Products DEF LinkNewCluster, Growing
  <2>3. /\ Typed /\ (op'.step = "unlink" => Mirrored /\ Fault)
    <3>1. CASE CreateFails("failed")
      BY <3>1, EndingType
    <3>2. CASE Mirrored /\ Fault /\ Goto("unlink")
      <4>1. op' \in Operation /\ op'.step = "unlink" /\ result' = result
        BY <1>0, <3>2 DEF Goto, Operation, Steps
      <4> QED BY <1>0, <3>2, <4>1 DEF Claiming, Growing, Placed
    <3>3. CASE ScanAgain /\ op' = [op EXCEPT !.step = "scan", !.tries = @ + 1]
                         /\ UNCHANGED result
      <4>1. op.tries \in 0 .. 3 /\ op.tries + 1 \in 0 .. 3
        BY <1>0, <3>3 DEF Operation, ScanAgain
      <4>2. op' \in Operation /\ op'.step = "scan"
        BY <1>0, <3>3, <4>1, ZenonT(60) DEF Operation, Steps
      <4> QED BY <1>0, <3>3, <4>2 DEF Claiming, Growing, Placed
    <3> QED BY <1>9, <3>1, <3>2, <3>3 DEF LinkNewCluster
  <2>4. LostByMirror'
    BY <2>1, <2>3 DEF LostByMirror, Fault, TypeOK
  <2> QED BY <2>1, <2>2, <2>3, <2>4, FaultTyped DEF TypeOK
<1>10. CASE ReleaseNewCluster
  <2>1. /\ UNCHANGED <<slot, clusters, allocated>> /\ (Fault \/ UNCHANGED faults)
        /\ op.step = "unlink" /\ CreateFails("failed")
    BY <1>10 DEF ReleaseNewCluster
  <2>2. lost' \subseteq 0 .. MaxClusters - 1 /\ loose' \in BOOLEAN
    BY <1>10, LossTyped
  <2>3. Typed /\ op'.step # "unlink"
    BY <2>1, EndingType
  <2>4. LostByMirror'
    BY <2>1, <2>3 DEF LostByMirror, Fault, TypeOK
  <2> QED BY <2>1, <2>2, <2>3, <2>4, FaultTyped DEF TypeOK
<1>11. CASE WriteRun
  <2>1. UNCHANGED <<chain, allocated>> /\ (Fault \/ UNCHANGED faults) /\ op.step = "write"
    BY <1>11 DEF WriteRun
  <2>2. slot' \in [Addresses -> Slot]
    BY <1>11, SlotStep DEF Step
  <2>3. Typed /\ op'.step # "unlink"
    <3>1. CASE CreateFails("failed")
      BY <3>1, EndingType
    <3>2. CASE Goto("check")
      <4>1. /\ op' \in Operation /\ op'.step = "check" /\ op'.start = op.start
            /\ op'.name = op.name /\ result' = result
        BY <1>0, <3>2 DEF Goto, Operation, Steps
      <4>2. NewEntry' = NewEntry
        BY <4>1 DEF NewEntry, Length
      <4> QED BY <1>0, <2>1, <4>1, <4>2 DEF Claiming, Growing, Placed, Addresses
    <3>3. CASE Top(op.at) \in Directory /\ op' = [op EXCEPT !.at = Top(op.at)]
               /\ UNCHANGED result
      <4>1. /\ op' \in Operation /\ op'.step = "write" /\ op'.start = op.start
            /\ op'.name = op.name
        BY <1>0, <2>1, <3>3 DEF Operation
      <4>2. NewEntry' = NewEntry
        BY <4>1 DEF NewEntry, Length
      <4> QED BY <1>0, <2>1, <3>3, <4>1, <4>2 DEF Claiming, Growing, Placed, Addresses
    <3> QED BY <1>11, <3>1, <3>2, <3>3 DEF WriteRun
  <2> QED BY <2>1, <2>2, <2>3, LossStays, FaultTyped DEF TypeOK
<1>12. CASE ReadBack
  <2>1. UNCHANGED <<slot, chain, allocated>> /\ (Fault \/ UNCHANGED faults) /\ op.step = "check"
    BY <1>12 DEF ReadBack
  <2>2. CASE Return("ok")
    BY <1>1, <2>1, <2>2, EndingType DEF TypeOK
  <2>3. ASSUME NEW at \in Addresses, NEW step \in {"undo", "remove"}, result' = result,
               op' = [op EXCEPT !.step = step, !.at = at]
        PROVE  TypeInv'
    <3>1. /\ op' \in Operation /\ op'.step = step /\ op'.start = op.start
          /\ op'.name = op.name
      BY <1>0, <2>3 DEF Operation, Steps
    <3>2. NewEntry' = NewEntry
      BY <3>1 DEF NewEntry, Length
    <3> QED BY <1>0, <1>1, <2>1, <2>3, <3>1, <3>2 DEF Claiming, Growing, Placed, TypeOK, Addresses
  <2>4. NewEntry \in Addresses /\ op.old \in Addresses
    BY <1>0, <2>1 DEF Placed, Operation
  <2> QED BY <1>12, <2>2, <2>3, <2>4 DEF ReadBack
<1>13. CASE FreeCluster
  <2>1. /\ UNCHANGED <<slot, chain>> /\ (Fault \/ UNCHANGED faults)
        /\ allocated' \subseteq Objects /\ Return(result)
    BY <1>13 DEF FreeCluster, Allocate, TypeOK
  <2> QED BY <1>1, <2>1, EndingType
<1>14. CASE RemoveRun
  <2>1. /\ UNCHANGED <<chain, allocated>> /\ (Fault \/ UNCHANGED faults)
        /\ op.step \in {"remove", "undo", "rollback"}
    BY <1>14 DEF RemoveRun
  <2>2. slot' \in [Addresses -> Slot]
    BY <1>14, SlotStep DEF Step
  <2>3. ASSUME CreateFails("failed") \/ Return("failed") \/ Return("ok")
        PROVE  Typed /\ op'.step # "unlink"
    BY <2>3, EndingType
  <2>4. ASSUME Goto("release") PROVE Typed /\ op'.step # "unlink"
    <3>1. op' \in Operation /\ op'.step = "release" /\ result' = result
      BY <1>0, <2>4 DEF Goto, Operation, Steps
    <3> QED BY <1>0, <3>1 DEF Claiming, Growing, Placed
  <2>5. ASSUME NEW at \in Addresses, result' = result,
               \/ op' = [op EXCEPT !.at = at]
               \/ /\ op.step = "remove" /\ op.why = "rename"
                  /\ op' = [op EXCEPT !.step = "rollback", !.at = at]
        PROVE  Typed /\ op'.step # "unlink"
    <3>1. /\ op' \in Operation /\ op'.start = op.start /\ op'.name = op.name
          /\ op'.why = op.why
          /\ \/ op'.step = op.step
             \/ op'.step = "rollback" /\ op.step = "remove" /\ op.why = "rename"
      BY <1>0, <2>5 DEF Operation, Steps
    <3>2. NewEntry' = NewEntry
      BY <3>1 DEF NewEntry, Length
    <3> QED BY <1>0, <2>1, <2>5, <3>1, <3>2 DEF Claiming, Growing, Placed, Addresses
  <2>6. Removed => Typed /\ op'.step # "unlink"
    BY <2>3, <2>4 DEF Removed
  <2>7. RemoveFails => Typed /\ op'.step # "unlink"
    <3>1. op.step = "remove" /\ op.why = "rename" => NewEntry \in Addresses
      BY DEF Placed
    <3> QED BY <2>3, <2>5, <3>1 DEF RemoveFails
  <2>8. Below >= 0 => Below \in Addresses
    <3>1. op.at \in Addresses /\ op.at \in Nat
      BY <1>0, Products DEF Operation, Addresses
    <3>2. (op.at \div K) * K \in Nat /\ (op.at \div K) * K <= op.at
      BY <3>1, ClusterOf
    <3> QED BY <3>1, <3>2, Products DEF Below, Addresses
  <2>9. Typed /\ op'.step # "unlink"
    BY <1>14, <2>5, <2>6, <2>7, <2>8 DEF RemoveRun, ReachesBelow
  <2> QED BY <2>1, <2>2, <2>9, LossStays, FaultTyped DEF TypeOK
<1>15. CASE ReleaseObject
  <2>1. /\ UNCHANGED <<slot, chain>> /\ (Fault \/ UNCHANGED faults)
        /\ allocated' \subseteq Objects /\ (Return("ok") \/ Return("failed"))
    BY <1>15 DEF ReleaseObject, TypeOK
  <2> QED BY <1>1, <2>1, EndingType
<1>16. CASE PowerFails
  <2>1. /\ UNCHANGED <<slot, chain, allocated>> /\ Fault /\ op' = Idle /\ result' = "none"
    BY <1>16 DEF PowerFails
  <2>2. op' \in Operation /\ op'.step = "idle"
    BY <2>1, EndingOp DEF Idle
  <2> QED BY <1>1, <2>1, <2>2 DEF Claiming, Growing, Placed, TypeOK
<1>17. CASE OverwriteLost
  <2>1. /\ UNCHANGED <<clusters, lost, allocated, op, result, faults>>
        /\ lost # {} /\ loose' \in BOOLEAN
    BY <1>17 DEF OverwriteLost, TypeOK
  <2>2. slot' \in [Addresses -> Slot]
    <3>1. Stale \in Slot /\ End \in Slot
      BY DEF Stale, End, Blank, Slot, Aliases, NoAlias
    <3> QED BY <1>17, <3>1 DEF OverwriteLost, TypeOK
  <2>3. Claiming' /\ Growing' /\ Placed' /\ LostByMirror'
    BY <2>1 DEF Claiming, Growing, Placed, LostByMirror, NewEntry, Length
  <2> QED BY <2>1, <2>2, <2>3 DEF TypeOK
<1> QED
  BY <1>2, <1>3, <1>4, <1>5, <1>6, <1>7, <1>8, <1>9, <1>10, <1>11, <1>12, <1>13, <1>14, <1>15,
     <1>16, <1>17
  DEF Next, Step

(* A cluster that is lost stays lost: a directory was whole before each    *)
(* step after which it is.                                                 *)
LEMMA LostForGood == ASSUME [Next]_vars, whole' PROVE whole
BY DEF whole, Next, Step, CreateFile, CreateDirectory, Delete, Rename, ClaimCluster, Lookup,
       ScanFinds, ScanFindsNone, ZeroNewCluster, LinkNewCluster, ReleaseNewCluster, WriteRun,
       ReadBack, FreeCluster, RemoveRun, ReleaseObject, PowerFails, OverwriteLost

LEMMA WholeInvAlways == Spec => [](TypeInv /\ (whole => SlotInv))
<1> DEFINE WholeInv == TypeInv /\ (whole => SlotInv)
<1>1. Init => WholeInv
  BY InitSlotInv, InitTypeInv
<1>2. WholeInv /\ [Next]_vars => WholeInv'
  BY SlotInvStep, TypeInvStep, LostForGood
<1> QED BY <1>1, <1>2, PTL DEF Spec

(* The state stays well-formed: addresses of every operation stay within   *)
(* the directory, and a scan is not repeated more than three times.        *)
THEOREM TypeCorrect == Spec => []TypeOK
BY WholeInvAlways, PTL DEF TypeInv

(* Without mirrored FATs a directory stays whole, whatever fails.          *)
THEOREM UnmirroredStaysWhole == ASSUME ~Mirrored PROVE Spec => []whole
<1>1. TypeInv => whole
  BY DEF TypeInv, LostByMirror, whole
<1> QED BY <1>1, WholeInvAlways, PTL

(* As long as a directory of any size is whole it ends with an end marker, *)
(* with nothing behind the first and no slot of an unwritten cluster: no   *)
(* failure but the half-done link of a mirrored volume can change that.    *)
THEOREM DirectoryEndsWithMarker == Spec => []EndsWithMarker
<1>1. (whole => SlotInv) => EndsWithMarker
  BY DEF SlotInv, MarkerIsLast, EndsWithMarker
<1> QED BY <1>1, WholeInvAlways, PTL

(* In a directory that is whole no step makes, changes or removes an entry *)
(* that is not its operation's, be it one that fails or the one after it.  *)
THEOREM OperationsKeepOthers == Spec => OthersSurvive
<1>1. (whole => SlotInv) /\ [Next]_vars => [whole => OthersStep]_vars
  BY SlotInvStep
<1> QED BY <1>1, WholeInvAlways, PTL DEF Spec, OthersSurvive, OthersStep

-----------------------------------------------------------------------------
(* The alias chosen by CreateEntry stays free until the entry is written.  *)
LEMMA EndsQuietly ==
    ASSUME TypeOK, NEW how, CreateFails(how) \/ Return(how)
    PROVE  op'.step \in {"idle", "free"}
BY DEF CreateFails, Return, TypeOK, Operation, Idle

LEMMA AliasChosen ==
    ASSUME NEW n, NEW alias, ~InUse(n), AliasFor(n, alias)
    PROVE  \A a \in Entries : slot[a].alias # alias
<1>1. CASE n \in ShortNames /\ alias = n
  BY <1>1 DEF InUse, Answers
<1>2. CASE \E k \in 1 .. Cardinality(Entries) + 1 :
                FreeTail(Base[n], k) /\ alias = <<Base[n], k>>
  BY <1>2 DEF FreeTail
<1>3. CASE ~InUse(<<Base[n], 0>>) /\ alias = <<Base[n], 0>>
  BY <1>3 DEF InUse, Answers
<1> QED BY <1>1, <1>2, <1>3 DEF AliasFor

LEMMA AliasInvStep == ASSUME SlotInv, whole, AliasInv, [Next]_vars PROVE AliasInv'
<1> USE DEF AliasInv
<1>1. OthersStep /\ TypeOK /\ op \in Operation
  BY SlotInvStep DEF SlotInv, TypeOK
<1>2. \A a \in Entries' : a \in Entries => slot'[a] = slot[a]
  BY <1>1 DEF OthersStep
<1>3. ASSUME Entries' \subseteq Entries PROVE AliasesDiffer'
  BY <1>2, <1>3 DEF AliasesDiffer
<1>4. ASSUME op'.step \notin {"scan", "zero", "link", "write"}, Entries' \subseteq Entries
      PROVE  AliasInv'
  BY <1>3, <1>4 DEF AliasIsFree
<1>5. CASE WriteRun
  <2>1. op.step = "write" /\ UNCHANGED clusters
    BY <1>5 DEF WriteRun
  <2>2. CASE CreateFails("failed") /\ UNCHANGED slot
    BY <1>1, <1>4, <2>1, <2>2, EndsQuietly, SameSlots
  <2>3. CASE slot' = [a \in Addresses |-> Written(a)]
    <3>1. \A a \in Entries : a = NewEntry \/ slot[a].alias # op.alias
      BY <2>1 DEF AliasIsFree
    <3>2. \A a \in Entries' : a \in Entries \/ (a = NewEntry /\ slot'[a].alias = op.alias)
      BY <2>1, <2>3, ClusterWritten
    <3>3. AliasesDiffer'
      BY <1>2, <3>1, <3>2 DEF AliasesDiffer
    <3>4. CASE CreateFails("failed") \/ Goto("check")
      <4>1. op'.step \in {"idle", "free", "check"}
        BY <1>1, <3>4, EndsQuietly DEF Goto, Operation
      <4> QED BY <3>3, <4>1 DEF AliasIsFree
    <3>5. CASE op' = [op EXCEPT !.at = Top(op.at)]
      <4>1. /\ op'.step = "write" /\ op'.alias = op.alias /\ op'.start = op.start
            /\ op'.name = op.name
        BY <1>1, <2>1, <3>5 DEF Operation
      <4>2. NewEntry' = NewEntry
        BY <4>1 DEF NewEntry, Length
      <4>3. \A a \in Entries' : a = NewEntry \/ slot'[a].alias # op.alias
        BY <1>2, <3>1, <3>2
      <4> QED BY <3>3, <4>1, <4>2, <4>3 DEF AliasIsFree
    <3> QED BY <1>5, <3>4, <3>5 DEF WriteRun
  <2> QED BY <1>5, <2>2, <2>3 DEF WriteRun
<1>6. CASE ~WriteRun
  <2>1. Entries' \subseteq Entries
    BY <1>6, SlotInvStep
  <2>2. ASSUME op.step \in {"scan", "zero", "link"},
               op'.step \in {"scan", "zero", "link", "write"}, op'.alias = op.alias
        PROVE  AliasInv'
    <3>1. \A a \in Entries' : slot'[a].alias # op'.alias
      BY <1>2, <2>1, <2>2 DEF AliasIsFree
    <3> QED BY <1>3, <2>1, <2>2, <3>1 DEF AliasIsFree
  <2>3. CASE UNCHANGED vars
    <3>1. NewEntry' = NewEntry /\ Entries' = Entries /\ slot' = slot /\ op' = op
      BY <2>3, SameSlots DEF NewEntry, Length
    <3> QED BY <1>3, <2>1, <3>1 DEF AliasIsFree
  <2>4. ASSUME NEW n \in Names,
               \/ CreateFile(n)
               \/ \E o \in Objects : CreateDirectory(n, o)
               \/ \E a \in Addresses : \/ Delete(n, a)
                                       \/ \E new \in Names : Rename(n, new, a)
        PROVE  AliasInv'
    <3>1. op'.step \in {"claim", "lookup", "remove"}
      BY <2>4 DEF CreateFile, CreateDirectory, Delete, Rename, Idle
    <3> QED BY <1>4, <2>1, <3>1
  <2>5. CASE ClaimCluster
    <3>1. op'.step \in {"idle", "free", "lookup"}
      BY <1>1, <2>5, EndsQuietly DEF ClaimCluster, Allocate, Goto, Operation
    <3> QED BY <1>4, <2>1, <3>1
  <2>6. CASE Lookup
    <3>1. CASE CreateFails("failed") \/ CreateFails("refused")
      BY <1>1, <1>4, <2>1, <3>1, EndsQuietly
    <3>2. ASSUME NEW k \in 0 .. Cardinality(Entries) + 1, NEW b \in Bases,
                 ~InUse(op.name), AliasFor(op.name, <<b, k>>),
                 op' = [op EXCEPT !.step = "scan", !.alias = <<b, k>>]
          PROVE  AliasInv'
      <4>1. op'.step = "scan" /\ op'.alias = <<b, k>>
        BY <1>1, <3>2 DEF Operation
      <4>2. \A a \in Entries : slot[a].alias # <<b, k>>
        BY <3>2, AliasChosen
      <4>3. \A a \in Entries' : slot'[a].alias # op'.alias
        BY <1>2, <2>1, <4>1, <4>2
      <4> QED BY <1>3, <2>1, <4>1, <4>3 DEF AliasIsFree
    <3> QED BY <2>6, <3>1, <3>2 DEF Lookup
  <2>7. CASE ScanFinds
    <3>1. CASE CreateFails("failed")
      BY <1>1, <1>4, <2>1, <3>1, EndsQuietly
    <3>2. ASSUME NEW a \in Directory,
                 op' = [op EXCEPT !.step = "write", !.start = a, !.at = a,
                            !.marker = \E b \in a .. a + Length - 1 :
                                            slot[b].kind = "end"]
          PROVE  op'.step = "write" /\ op'.alias = op.alias
      BY <1>1, <3>2 DEF Operation
    <3> QED BY <2>2, <2>7, <3>1, <3>2 DEF ScanFinds
  <2>8. CASE ScanFindsNone
    <3>1. CASE CreateFails("full") \/ CreateFails("failed")
      BY <1>1, <1>4, <2>1, <3>1, EndsQuietly
    <3>2. CASE Goto("zero")
      <4>1. op'.step = "zero" /\ op'.alias = op.alias
        BY <1>1, <3>2 DEF Goto, Operation
      <4> QED BY <2>2, <2>8, <4>1 DEF ScanFindsNone
    <3> QED BY <2>8, <3>1, <3>2 DEF ScanFindsNone
  <2>9. CASE ZeroNewCluster
    <3>1. CASE CreateFails("failed")
      BY <1>1, <1>4, <2>1, <3>1, EndsQuietly
    <3>2. CASE Goto("link")
      <4>1. op'.step = "link" /\ op'.alias = op.alias
        BY <1>1, <3>2 DEF Goto, Operation
      <4> QED BY <2>2, <2>9, <4>1 DEF ZeroNewCluster
    <3> QED BY <2>9, <3>1, <3>2 DEF ZeroNewCluster
  <2>10. CASE LinkNewCluster
    <3>1. CASE CreateFails("failed")
      BY <1>1, <1>4, <2>1, <3>1, EndsQuietly
    <3>2. CASE op' = [op EXCEPT !.step = "scan", !.tries = @ + 1]
      <4>1. op'.step = "scan" /\ op'.alias = op.alias
        BY <1>1, <3>2 DEF Operation
      <4> QED BY <2>2, <2>10, <4>1 DEF LinkNewCluster
    <3>3. CASE Goto("unlink")
      <4>1. op'.step = "unlink"
        BY <1>1, <3>3 DEF Goto, Operation
      <4> QED BY <1>4, <2>1, <4>1
    <3> QED BY <2>10, <3>1, <3>2, <3>3 DEF LinkNewCluster
  <2>11. CASE ReadBack
    <3>1. op'.step \in {"idle", "free", "undo", "remove"}
      BY <1>1, <2>11, EndsQuietly DEF ReadBack, Operation
    <3> QED BY <1>4, <2>1, <3>1
  <2>12. CASE FreeCluster \/ ReleaseObject \/ PowerFails
    <3>1. op'.step = "idle"
      BY <2>12 DEF FreeCluster, Allocate, ReleaseObject, PowerFails, Return, Idle
    <3> QED BY <1>4, <2>1, <3>1
  <2>13. CASE RemoveRun
    <3>1. op'.step \in {"idle", "free", "release", "rollback", "remove", "undo"}
      <4>1. op.step \in {"remove", "undo", "rollback"}
        BY <2>13 DEF RemoveRun
      <4>2. ASSUME Removed \/ RemoveFails
            PROVE  op'.step \in {"idle", "free", "release", "rollback"}
        BY <1>1, <4>2, EndsQuietly DEF Removed, RemoveFails, Goto, Operation
      <4>3. ASSUME op' = [op EXCEPT !.at = Below] PROVE op'.step = op.step
        BY <1>1, <4>3 DEF Operation
      <4> QED BY <2>13, <4>1, <4>2, <4>3 DEF RemoveRun
    <3> QED BY <1>4, <2>1, <3>1
  <2>14. CASE ReleaseNewCluster
    <3>1. op'.step \in {"idle", "free"}
      BY <1>1, <2>14, EndsQuietly DEF ReleaseNewCluster
    <3> QED BY <1>4, <2>1, <3>1
  <2>15. ~OverwriteLost
    BY DEF whole, OverwriteLost
  <2> QED
    BY <1>6, <2>3, <2>4, <2>5, <2>6, <2>7, <2>8, <2>9, <2>10, <2>11, <2>12, <2>13, <2>14, <2>15
    DEF Next, Step
<1> QED BY <1>5, <1>6

(* No two entries of a directory that is whole have one alias, for any     *)
(* number of entries and failures: the alias is still free when the entry  *)
(* is written, and no entry that was deleted or cut off comes back.        *)
THEOREM AliasesStayUnique == Spec => []AliasesAreUnique
<1>1. Init => AliasInv
  <2> SUFFICES ASSUME Init PROVE AliasInv
    OBVIOUS
  <2>1. Directory \subseteq Addresses
    BY InitSlotInv, DirectorySlots DEF SlotInv, TypeOK
  <2>2. \A a \in Addresses : slot[a] \in {End, Stale}
    BY DEF Init
  <2>3. End.kind = "end" /\ Stale.kind = "stale"
    BY DEF End, Stale, Blank
  <2>4. Entries = {}
    BY <2>1, <2>2, <2>3 DEF Entries, Visible
  <2> QED BY <2>4 DEF AliasInv, AliasIsFree, AliasesDiffer
<1> DEFINE Inv == whole => AliasInv
<1>2. (whole => SlotInv) /\ Inv /\ [Next]_vars => Inv'
  BY AliasInvStep, LostForGood
<1>3. Inv => AliasesAreUnique
  BY DEF AliasInv, AliasesDiffer, AliasesAreUnique
<1> QED BY <1>1, <1>2, <1>3, WholeInvAlways, PTL DEF Spec

-----------------------------------------------------------------------------
(* What long names lead to, and why operations fail.  Trying: the slots    *)
(* that were added are free.  Chosen: the alias of a short name is itself. *)
Trying ==
    /\ op.step \in {"claim", "lookup"} => op.tries = 0
    /\ op.step \in {"zero", "link"} => op.tries < 2
    /\ op.step \in {"scan", "zero", "link"} =>
        /\ op.tries <= 2 /\ op.tries < clusters
        /\ \A b \in Directory :
            b >= ((clusters - op.tries) * K) - 1 => slot[b].kind = "end"
Choosing == {"scan", "zero", "link", "write", "check"}
Chosen == op.step \in Choosing => op.name \in LongNames \/ op.alias = op.name

\* Every entry with a long name has its run, and the run being written is
\* right as far as it goes.
RunsWhole ==
    \A a \in Entries : slot[a].name \in LongNames => RunNames(a, slot[a].name)
SoFar ==
    /\ op.step = "write" =>
        /\ op.start <= op.at
        /\ \A b \in op.start .. op.at - 1 : slot[b] = NewSlot(b)
    /\ op.step = "check" => \A b \in op.start .. NewEntry : slot[b] = NewSlot(b)

\* The old entry of a rename stays until the new one is there, is the first
\* slot to go, and the new one is removed after a failure only.
OldStays ==
    op.why = "rename" =>
        /\ op.step \in Choosing \cup {"claim", "lookup"} => slot[op.old].kind = "entry"
        /\ op.step \in {"write", "check"} => op.old \notin op.start .. NewEntry
        /\ op.step = "remove" =>
            /\ slot[NewEntry].kind = "entry" /\ NewEntry # op.old
            /\ \/ op.at = op.old
               \/ slot[op.old].kind = "deleted" /\ slot[op.at].kind = "lfn"
RollingBack ==
    op.step = "rollback" =>
        faults > 0 /\ (op.at = NewEntry \/ slot[NewEntry].kind = "deleted")

\* What is removed is an entry, or what is left of the run of one.
Removing == op.step \in {"remove", "undo", "rollback"}
RemovesRun ==
    Removing => \/ slot[op.at].kind = "entry"
                \/ /\ slot[op.at].kind = "lfn"
                   /\ op.at + 1 \in Directory /\ slot[op.at + 1].kind = "deleted"
RunInv == /\ Trying /\ Chosen /\ RunsWhole /\ SoFar
          /\ OldStays /\ RollingBack /\ RemovesRun

\* While nothing failed: no part of a long name is left alone but at the
\* place the operation is at, names differ, and the new name is free.
GoesOn(b) ==
    /\ b + 1 \in Directory
    /\ \/ slot[b + 1].kind = "lfn" /\ ~LastPart(b + 1)
       \/ slot[b + 1].kind = "entry" /\ slot[b + 1].name = slot[b].name
AllGoOn == \A b \in Directory : slot[b].kind = "lfn" => GoesOn(b)
Followed ==
    \A b \in Directory : slot[b].kind = "lfn" =>
        \/ GoesOn(b)
        \/ op.step = "write" /\ b = op.at - 1 /\ op.start < op.at
        \/ Removing /\ b = op.at
NamesDiffer ==
    \A a, b \in Entries :
        a # b /\ slot[a].name \in LongNames => slot[a].name # slot[b].name
NameIsFree ==
    op.step \in Choosing =>
        \A a \in Entries :
            \/ op.step \in {"write", "check"} /\ a = NewEntry
            \/ /\ slot[a].alias # op.name
               /\ op.name \in LongNames => slot[a].name # op.name
NoFailure == result # "failed" /\ op.step \notin {"undo", "rollback"}
CleanInv == clean => Followed /\ NamesDiffer /\ NameIsFree /\ NoFailure

(* Induction, as the existence of a least element.                         *)
LEMMA LeastElement ==
    ASSUME NEW T \in SUBSET Nat, T # {}
    PROVE  \E m \in T : \A k \in T : m <= k
<1> DEFINE R == StrictSubsetOrdering(Nat)
           S == FiniteSubsetsOf(Nat)
           I == {0 .. m : m \in T}
<1>1. IsWellFoundedOn(R, S)
  BY FS_StrictSubsetOrderingWellFounded
<1>2. \A m \in T : 0 .. m \in S
  BY FS_Interval DEF FiniteSubsetsOf
<1>3. I \subseteq S /\ I # {}
  BY <1>2
<1>4. \A k, m \in T : k < m => <<0 .. k, 0 .. m>> \in R
  <2> SUFFICES ASSUME NEW k \in T, NEW m \in T, k < m
               PROVE  <<0 .. k, 0 .. m>> \in R
    OBVIOUS
  <2>1. 0 .. k \subseteq 0 .. m /\ m \in 0 .. m /\ m \notin 0 .. k
    OBVIOUS
  <2>2. 0 .. k \in SUBSET Nat /\ 0 .. m \in SUBSET Nat /\ 0 .. k # 0 .. m
    BY <2>1
  <2> QED BY <2>1, <2>2 DEF StrictSubsetOrdering
<1>5. \E x \in I : \A y \in I : ~(<<y, x>> \in R)
  <2> HIDE DEF I, R, S
  <2> QED BY <1>1, <1>3, WFMin
<1>6. PICK m \in T : \A y \in I : ~(<<y, 0 .. m>> \in R)
  BY <1>5
<1>7. \A k \in T : ~(k < m)
  BY <1>4, <1>6
<1> QED BY <1>7

LEMMA Fails == ASSUME TypeOK, Fault PROVE ~clean' /\ faults' > 0
BY DirectoryAssumption DEF TypeOK, Fault, clean

LEMMA SameRun ==
    ASSUME op'.name = op.name, op'.start = op.start
    PROVE  Length' = Length /\ Behind' = Behind /\ NewEntry' = NewEntry
BY DEF Length, Behind, NewEntry

LEMMA SameNewSlots ==
    ASSUME op'.name = op.name, op'.start = op.start,
           op'.alias = op.alias, op'.object = op.object
    PROVE  \A b : NewSlot(b)' = NewSlot(b)
BY SameRun DEF NewSlot

(* Runs and names where the slots of the directory and its entries stay.   *)
LEMMA RunsStay ==
    ASSUME TypeOK, RunsWhole, Entries' = Entries,
           \A a \in Directory : slot'[a] = slot[a]
    PROVE  RunsWhole' /\ (NamesDiffer => NamesDiffer')
<1>1. ASSUME NEW a \in Entries, NEW n \in LongNames, RunNames(a, n) PROVE RunNames(a, n)'
  <2>1. a \in Directory /\ a \in Nat
    BY DEF Entries, Directory
  <2>2. Parts[n] \in Nat
    BY DirectoryAssumption
  <2>3. ASSUME NEW i \in 1 .. Parts[n], a - i >= 0 PROVE slot'[a - i] = slot[a - i]
    <3>1. a - i \in 0 .. a
      BY <2>1, <2>2, <2>3
    <3> QED BY <2>1, <3>1, DirectorySlots DEF TypeOK
  <2> QED BY <1>1, <2>1, <2>3 DEF RunNames, Entries
<1>2. \A a \in Entries : slot'[a] = slot[a]
  BY DEF Entries
<1> QED BY <1>1, <1>2 DEF RunsWhole, NamesDiffer

LEMMA RunsSame ==
    ASSUME TypeOK, RunsWhole, UNCHANGED <<slot, clusters>>
    PROVE  RunsWhole' /\ (NamesDiffer => NamesDiffer') /\ (AllGoOn => AllGoOn')
<1>1. Entries' = Entries /\ Directory' = Directory
  BY SameSlots DEF Directory
<1>2. AllGoOn => AllGoOn'
  BY <1>1 DEF AllGoOn, GoesOn, LastPart
<1> QED BY <1>1, <1>2, RunsStay

LEMMA AllFollowed ==
    /\ AllGoOn => Followed
    /\ Followed /\ op.step # "write" /\ ~Removing => AllGoOn
BY DEF AllGoOn, Followed

(* An operation that is over needs nothing more.                           *)
LEMMA EndKeepsRuns ==
    ASSUME TypeOK, RunsWhole, UNCHANGED <<slot, clusters>>,
           op'.step \in {"idle", "free", "release"}
    PROVE  RunInv'
BY RunsSame DEF RunInv, Trying, Chosen, SoFar, OldStays, RollingBack, RemovesRun, Choosing, Removing

LEMMA EndKeepsNames ==
    ASSUME TypeOK, RunsWhole, UNCHANGED <<slot, clusters>>, AllGoOn, NamesDiffer,
           op'.step \in {"idle", "free", "release", "claim", "lookup"},
           result' # "failed"
    PROVE  CleanInv'
<1>1. Followed'
  BY RunsSame DEF AllGoOn, Followed
<1> QED BY <1>1, RunsSame DEF CleanInv, NameIsFree, NoFailure, Choosing

LEMMA BeginKeeps ==
    ASSUME SlotInv, RunInv, CleanInv, NEW n \in Names,
           \/ CreateFile(n)
           \/ \E o \in Objects : CreateDirectory(n, o)
           \/ \E a \in Addresses : \/ Delete(n, a)
                                   \/ \E new \in Names : Rename(n, new, a)
    PROVE  RunInv' /\ CleanInv'
<1> USE DEF SlotInv
<1>1. UNCHANGED <<slot, chain, allocated, result, faults>> /\ op = Idle
  BY DEF CreateFile, CreateDirectory, Delete, Rename
<1>2. op.step = "idle" /\ ~Removing
  BY <1>1 DEF Idle, Removing
<1>3. RunsWhole' /\ (clean' => clean) /\ (clean => AllGoOn /\ NamesDiffer /\ result # "failed")
  BY <1>1, <1>2, RunsSame, AllFollowed DEF RunInv, CleanInv, NoFailure, clean
<1>4. CASE op'.step \in {"claim", "lookup"} /\ op'.tries = 0
           /\ (op'.why = "rename" => slot[op'.old].kind = "entry")
  <2>1. RunInv'
    BY <1>1, <1>3, <1>4
    DEF RunInv, Trying, Chosen, SoFar, OldStays, RollingBack, RemovesRun, Choosing, Removing
  <2>2. CleanInv'
    <3>1. CASE clean'
      BY <1>1, <1>3, <1>4, <3>1, EndKeepsNames DEF RunInv
    <3>2. CASE ~clean'
      BY <3>2 DEF CleanInv
    <3> QED BY <3>1, <3>2
  <2> QED BY <2>1, <2>2
<1>5. CASE op'.step = "remove" /\ op'.why = "delete" /\ slot[op'.at].kind = "entry"
  <2>1. RunInv'
    BY <1>1, <1>3, <1>5
    DEF RunInv, Trying, Chosen, SoFar, OldStays, RollingBack, RemovesRun, Choosing, Removing
  <2>2. ASSUME clean' PROVE (Followed /\ NamesDiffer)'
    BY <1>1, <1>3, <2>2, RunsSame DEF RunInv, AllGoOn, Followed
  <2>3. ASSUME clean' PROVE (NameIsFree /\ NoFailure)'
    BY <1>1, <1>3, <1>5, <2>3 DEF NameIsFree, NoFailure, Choosing
  <2> QED BY <2>1, <2>2, <2>3 DEF CleanInv
<1>6. CASE CreateFile(n) \/ \E o \in Objects : CreateDirectory(n, o)
  <2>1. op'.step \in {"claim", "lookup"} /\ op'.tries = 0 /\ op'.why \in {"file", "mkdir"}
    BY <1>6 DEF CreateFile, CreateDirectory, Idle
  <2> QED BY <1>4, <2>1
<1>7. ASSUME NEW a \in Addresses, Delete(n, a) \/ \E new \in Names : Rename(n, new, a)
      PROVE  RunInv' /\ CleanInv'
  <2>1. slot[a].kind = "entry"
    BY <1>7 DEF Delete, Rename, Finds, Entries, Visible
  <2>2. CASE Delete(n, a)
    <3>1. op'.step = "remove" /\ op'.why = "delete" /\ op'.at = a
      BY <2>2 DEF Delete, Idle
    <3> QED BY <1>5, <2>1, <3>1
  <2>3. CASE \E new \in Names : Rename(n, new, a)
    <3>1. op'.step = "lookup" /\ op'.tries = 0 /\ op'.old = a
      BY <2>3 DEF Rename, Idle
    <3> QED BY <1>4, <2>1, <3>1
  <2> QED BY <1>7, <2>2, <2>3
<1> QED BY <1>6, <1>7

(* A step that ends the operation, or fails, and writes no slot.           *)
LEMMA EndKeeps ==
    ASSUME SlotInv, RunInv, CleanInv, UNCHANGED <<slot, clusters>>,
           op'.step \in {"idle", "free", "release"},
           clean' => clean /\ result' # "failed",
           (op.step # "write" /\ ~Removing) \/ ~clean'
    PROVE  RunInv' /\ CleanInv'
<1>1. TypeOK /\ RunsWhole
  BY DEF SlotInv, RunInv
<1>2. RunInv'
  BY <1>1, EndKeepsRuns
<1>3. CASE clean'
  <2>1. AllGoOn /\ NamesDiffer
    BY <1>3, AllFollowed DEF CleanInv
  <2> QED BY <1>1, <1>2, <1>3, <2>1, EndKeepsNames
<1>4. CASE ~clean'
  BY <1>2, <1>4 DEF CleanInv
<1> QED BY <1>3, <1>4

LEMMA FailKeeps ==
    ASSUME SlotInv, RunInv, CleanInv, UNCHANGED <<slot, clusters>>, Fault,
           CreateFails("failed") \/ Return("failed") \/ op' = Idle
    PROVE  RunInv' /\ CleanInv'
<1>1. TypeOK /\ ~clean'
  BY Fails DEF SlotInv
<1>2. op'.step \in {"idle", "free"}
  BY <1>1, EndsQuietly DEF Idle
<1> QED BY <1>1, <1>2, EndKeeps

LEMMA ClaimKeeps ==
    ASSUME SlotInv, RunInv, CleanInv, ClaimCluster PROVE RunInv' /\ CleanInv'
<1>1. UNCHANGED <<slot, clusters>> /\ TypeOK /\ op \in Operation /\ op.step = "claim"
  BY DEF ClaimCluster, SlotInv, TypeOK
<1>2. CASE Fault /\ Return("failed")
  BY <1>1, <1>2, FailKeeps
<1>3. CASE Goto("lookup") /\ UNCHANGED faults
  <2>1. /\ op'.step = "lookup" /\ op'.why = op.why /\ op'.tries = op.tries /\ result' = result
        /\ op.tries = 0 /\ ~Removing
    BY <1>1, <1>3 DEF Goto, Operation, RunInv, Trying, Removing
  <2>2. op'.old = op.old /\ (clean' => clean)
    BY <1>1, <1>3 DEF Goto, Operation, clean
  <2>3. RunsWhole /\ (op.why = "rename" => slot[op.old].kind = "entry")
    BY <1>1 DEF RunInv, OldStays
  <2>4. RunInv'
    BY <1>1, <2>1, <2>2, <2>3, RunsSame
    DEF RunInv, Trying, Chosen, SoFar, OldStays, RollingBack, RemovesRun, Choosing, Removing
  <2>5. CASE clean'
    <3>1. AllGoOn /\ NamesDiffer /\ result' # "failed"
      BY <1>1, <2>1, <2>2, <2>5, AllFollowed DEF CleanInv, NoFailure
    <3> QED BY <1>1, <2>1, <2>3, <2>4, <3>1, EndKeepsNames
  <2>6. CASE ~clean'
    BY <2>4, <2>6 DEF CleanInv
  <2> QED BY <2>5, <2>6
<1> QED BY <1>2, <1>3 DEF ClaimCluster, Allocate

(* Steps of the search for a hole: entries stay, what is added is free.    *)
LEMMA SearchKeeps ==
    ASSUME SlotInv, RunInv, CleanInv,
           op.step \in {"lookup", "scan", "zero", "link"},
           op'.step \in {"scan", "zero", "link"},
           op'.why = op.why, op'.old = op.old, Trying', Chosen',
           Entries' = Entries, Directory \subseteq Directory',
           \A a \in Directory : slot'[a] = slot[a],
           \A b \in Directory' : b \notin Directory => slot'[b].kind # "lfn",
           clean' => clean, result' = result,
           op.step # "lookup" => op'.name = op.name /\ op'.alias = op.alias,
           op.step = "lookup" => NameIsFree'
    PROVE  RunInv' /\ CleanInv'
<1> USE DEF SlotInv
<1>1. TypeOK /\ RunsWhole /\ RunsWhole' /\ (NamesDiffer => NamesDiffer')
  BY RunsStay DEF RunInv
<1>2. op.why = "rename" => op.old \in Directory /\ slot[op.old].kind = "entry"
  BY DEF RunInv, OldStays, OpInv, HasOld, Choosing
<1>3. OldStays'
  BY <1>2 DEF OldStays
<1>4. RunInv'
  BY <1>1, <1>3 DEF RunInv, SoFar, RollingBack, RemovesRun, Removing
<1>5. CASE clean'
  <2>1. AllGoOn /\ NamesDiffer /\ NameIsFree /\ result # "failed"
    BY <1>5, AllFollowed DEF CleanInv, NoFailure, Removing
  <2>2. Followed'
    <3>1. ASSUME NEW b \in Directory', slot'[b].kind = "lfn" PROVE GoesOn(b)'
      <4>1. b \in Directory /\ slot[b].kind = "lfn"
        BY <3>1
      <4>2. GoesOn(b) /\ b + 1 \in Directory
        BY <2>1, <4>1 DEF AllGoOn, GoesOn
      <4>3. slot'[b] = slot[b] /\ slot'[b + 1] = slot[b + 1] /\ b + 1 \in Directory'
        BY <4>1, <4>2
      <4> QED BY <4>2, <4>3 DEF GoesOn, LastPart
    <3> QED BY <3>1 DEF Followed
  <2>3. NameIsFree'
    <3>1. CASE op.step = "lookup"
      BY <3>1
    <3>2. CASE op.step # "lookup"
      <4>1. \A a \in Entries : slot'[a] = slot[a]
        BY DEF Entries
      <4>2. \A a \in Entries : /\ slot[a].alias # op.name
                               /\ op.name \in LongNames => slot[a].name # op.name
        BY <2>1, <3>2 DEF NameIsFree, Choosing
      <4> QED BY <3>2, <4>1, <4>2 DEF NameIsFree
    <3> QED BY <3>1, <3>2
  <2> QED BY <1>1, <1>4, <2>1, <2>2, <2>3 DEF CleanInv, NoFailure
<1>6. CASE ~clean'
  BY <1>4, <1>6 DEF CleanInv
<1> QED BY <1>5, <1>6

LEMMA LookupKeeps ==
    ASSUME SlotInv, RunInv, CleanInv, Lookup PROVE RunInv' /\ CleanInv'
<1> USE DEF SlotInv
<1>1. UNCHANGED <<slot, clusters>> /\ TypeOK /\ op \in Operation /\ op.step = "lookup"
  BY DEF Lookup, TypeOK
<1>2. CASE Fault /\ CreateFails("failed")
  BY <1>1, <1>2, FailKeeps
<1>3. CASE CreateFails("refused") /\ UNCHANGED faults
  <2>1. op'.step \in {"idle", "free"} /\ result' # "failed" /\ (clean' => clean) /\ ~Removing
    BY <1>1, <1>3, EndsQuietly DEF CreateFails, clean, Removing
  <2> QED BY <1>1, <2>1, EndKeeps
<1>4. ASSUME ~InUse(op.name), UNCHANGED <<result, faults>>,
             NEW k \in 0 .. Cardinality(Entries) + 1, NEW b \in Bases,
             AliasFor(op.name, <<b, k>>),
             op' = [op EXCEPT !.step = "scan", !.alias = <<b, k>>]
      PROVE  RunInv' /\ CleanInv'
  <2>1. /\ op'.step = "scan" /\ op'.alias = <<b, k>> /\ op'.name = op.name
        /\ op'.why = op.why /\ op'.old = op.old /\ op'.tries = 0
    BY <1>1, <1>4 DEF Operation, RunInv, Trying
  <2>2. Entries' = Entries /\ Directory' = Directory
    BY <1>1, SameSlots DEF Directory
  <2>3. Chosen'
    BY <1>4, <2>1 DEF Chosen, AliasFor
  <2>4. Trying'
    <3>1. clusters \in Nat \ {0} /\ clusters - 0 = clusters
      BY Products DEF TypeOK
    <3>2. \A c \in Directory : c >= (clusters * K) - 1 => slot[c].kind = "end"
      BY DirectorySlots DEF MarkerIsLast, Directory, TypeOK
    <3> QED BY <1>1, <2>1, <2>2, <3>1, <3>2 DEF Trying
  <2>5. NameIsFree'
    <3>1. ASSUME NEW a \in Entries
          PROVE  /\ slot[a].alias # op.name
                 /\ op.name \in LongNames => slot[a].name # op.name
      <4>1. ~Answers(a, op.name)
        BY <1>4 DEF InUse
      <4> QED BY <4>1 DEF Answers, RunInv, RunsWhole
    <3> QED BY <1>1, <2>1, <2>2, <3>1 DEF NameIsFree
  <2>6. clean' => clean
    BY <1>4 DEF clean
  <2> QED BY <1>1, <1>4, <2>1, <2>2, <2>3, <2>4, <2>5, <2>6, SearchKeeps
<1> QED BY <1>2, <1>3, <1>4 DEF Lookup

(* After two clusters were added there is room for the longest name.       *)
LEMMA HoleExists ==
    ASSUME SlotInv, RunInv, op.step = "scan", op.tries = 2
    PROVE  \E a \in Directory : Hole(a, Length)
<1> USE DEF SlotInv
<1>1. clusters \in Nat /\ clusters > 2 /\ clusters - 2 \in Nat /\ K \in Nat \ {0}
  BY Products DEF TypeOK, RunInv, Trying
<1>2. /\ clusters * K \in Nat /\ (clusters - 2) * K \in Nat
      /\ clusters * K = ((clusters - 2) * K) + (2 * K)
  <2>1. /\ ((clusters - 2) + 1) * K = ((clusters - 2) * K) + K
        /\ ((clusters - 1) + 1) * K = ((clusters - 1) * K) + K
    BY <1>1, Products
  <2>2. (clusters - 2) + 1 = clusters - 1 /\ (clusters - 1) + 1 = clusters
    BY <1>1
  <2> QED BY <1>1, <2>1, <2>2, Products
<1> DEFINE M == ((clusters - 2) * K) - 1
<1>3. M \in Nat /\ M + (2 * K) = (clusters * K) - 1
  <2>1. 1 * K <= (clusters - 2) * K /\ 1 * K = K
    BY <1>1, Products
  <2> QED BY <1>1, <1>2, <2>1
<1>4. \A b \in Directory : b >= M => slot[b].kind = "end"
  BY DEF RunInv, Trying
<1> HIDE DEF M
<1>5. Length \in Nat \ {0} /\ Length <= 2 * K
  BY <1>1, RunIsPositive, LongNameAssumption DEF Length, K
<1> DEFINE S == {a \in 0 .. M : \A b \in a .. M : Empty(b)}
<1>6. M \in S
  <2>1. M \in Directory
    BY <1>1, <1>3 DEF Directory
  <2> QED BY <1>3, <1>4, <2>1 DEF Empty
<1>7. PICK m \in S : \A k \in S : m <= k
  <2>1. S \in SUBSET Nat
    BY <1>3
  <2> HIDE DEF S
  <2> QED BY <1>6, <2>1, LeastElement
<1>8. m \in Nat /\ m <= M /\ m \in Directory
  BY <1>1, <1>2, <1>3, <1>7 DEF Directory
<1>9. ASSUME NEW b \in m .. m + Length PROVE b \in Directory /\ Empty(b)
  <2>1. b \in Directory
    BY <1>1, <1>2, <1>3, <1>5, <1>8 DEF Directory
  <2>2. CASE b >= M
    BY <1>4, <2>1, <2>2 DEF Empty
  <2>3. CASE ~(b >= M)
    <3>1. b \in m .. M
      BY <1>3, <1>5, <1>8, <2>3
    <3>2. \A c \in m .. M : Empty(c)
      BY <1>7
    <3> QED BY <2>1, <3>1, <3>2
  <2> QED BY <2>1, <2>2, <2>3
<1>10. Fits(m, Length)
  <2>1. m .. m + Length - 1 \subseteq m .. m + Length /\ m + Length \in m .. m + Length
    BY <1>5, <1>8
  <2>2. \A b \in m .. m + Length - 1 : b \in Directory /\ Empty(b)
    BY <1>9, <2>1
  <2>3. m + Length \in Directory /\ Empty(m + Length)
    BY <1>9, <2>1
  <2> QED BY <2>2, <2>3 DEF Fits
<1>11. m > 0 => ~Empty(m - 1)
  <2> SUFFICES ASSUME m > 0, Empty(m - 1) PROVE FALSE
    OBVIOUS
  <2>1. m - 1 \in 0 .. M /\ \A b \in m - 1 .. M : b = m - 1 \/ b \in m .. M
    BY <1>3, <1>8
  <2>2. m - 1 \in S
    BY <1>7, <2>1
  <2> QED BY <1>7, <1>8, <2>2
<1> QED BY <1>8, <1>10, <1>11 DEF Hole

LEMMA ScanFindsKeeps ==
    ASSUME SlotInv, RunInv, CleanInv, ScanFinds PROVE RunInv' /\ CleanInv'
<1> USE DEF SlotInv
<1>1. /\ UNCHANGED <<slot, clusters>> /\ TypeOK /\ op \in Operation
      /\ op.step = "scan" /\ ~Removing
  BY DEF ScanFinds, TypeOK, Removing
<1>2. CASE Fault /\ CreateFails("failed")
  BY <1>1, <1>2, FailKeeps
<1>3. ASSUME NEW a \in Directory, Hole(a, Length), UNCHANGED <<result, faults>>,
             op' = [op EXCEPT !.step = "write", !.start = a, !.at = a,
                        !.marker = \E b \in a .. a + Length - 1 :
                                        slot[b].kind = "end"]
      PROVE  RunInv' /\ CleanInv'
  <2>1. /\ op'.step = "write" /\ op'.start = a /\ op'.at = a /\ op'.why = op.why
        /\ op'.old = op.old /\ op'.name = op.name /\ op'.alias = op.alias
    BY <1>1, <1>3 DEF Operation
  <2>2. NewEntry' = a + Length - 1 /\ a \in Nat
    BY <2>1 DEF NewEntry, Length, Directory
  <2>3. Entries' = Entries
    BY <1>1, SameSlots
  <2>4. \A b \in a .. a + Length - 1 : Empty(b)
    BY <1>3 DEF Hole, Fits
  <2>5. op.why = "rename" => slot[op.old].kind = "entry"
    BY <1>1 DEF RunInv, OldStays, Choosing
  <2>6. OldStays'
    BY <1>1, <2>1, <2>2, <2>4, <2>5 DEF OldStays, Empty
  <2>7. RunsWhole' /\ (NamesDiffer => NamesDiffer') /\ (AllGoOn => AllGoOn')
    BY <1>1, RunsSame DEF RunInv
  <2>8. SoFar'
    BY <2>1, <2>2 DEF SoFar
  <2>9. Chosen'
    BY <1>1, <2>1 DEF Chosen, RunInv, Choosing
  <2>10. RunInv'
    BY <2>1, <2>6, <2>7, <2>8, <2>9 DEF RunInv, Trying, RollingBack, RemovesRun, Removing
  <2>11. CASE clean'
    <3>1. AllGoOn /\ NamesDiffer /\ NameIsFree /\ result # "failed"
      BY <1>1, <1>3, <2>11, AllFollowed DEF CleanInv, NoFailure, clean
    <3>2. Followed'
      BY <2>7, <3>1 DEF AllGoOn, Followed
    <3>3. \A c \in Entries :
            /\ slot[c].alias # op.name
            /\ op.name \in LongNames => slot[c].name # op.name
      BY <1>1, <3>1 DEF NameIsFree, Choosing
    <3>4. NameIsFree'
      <4>1. \A c \in Entries' :
              /\ slot'[c].alias # op'.name
              /\ op'.name \in LongNames => slot'[c].name # op'.name
        BY <1>1, <2>1, <2>3, <3>3
      <4> QED BY <4>1 DEF NameIsFree
    <3> QED BY <1>3, <2>1, <2>7, <2>10, <3>1, <3>2, <3>4 DEF CleanInv, NoFailure
  <2>12. CASE ~clean'
    BY <2>10, <2>12 DEF CleanInv
  <2> QED BY <2>10, <2>11, <2>12
<1> QED BY <1>2, <1>3 DEF ScanFinds

LEMMA ScanFindsNoneKeeps ==
    ASSUME SlotInv, LostByMirror, RunInv, CleanInv, ScanFindsNone PROVE RunInv' /\ CleanInv'
<1> USE DEF SlotInv
<1>1. /\ UNCHANGED <<slot, clusters, faults>> /\ TypeOK /\ op \in Operation
      /\ op.step = "scan" /\ ~Removing
  BY DEF ScanFindsNone, TypeOK, Removing
<1>2. CASE CreateFails("full")
  <2>1. op'.step \in {"idle", "free"} /\ result' # "failed" /\ (clean' => clean)
    BY <1>1, <1>2, EndsQuietly DEF CreateFails, clean
  <2> QED BY <1>1, <2>1, EndKeeps
<1>3. CASE Goto("zero")
  <2>1. /\ op'.step = "zero" /\ op'.name = op.name /\ op'.why = op.why /\ result' = result
        /\ op'.old = op.old /\ op'.tries = op.tries /\ op'.alias = op.alias
    BY <1>1, <1>3 DEF Goto, Operation
  <2>2. Entries' = Entries /\ Directory' = Directory
    BY <1>1, SameSlots DEF Directory
  <2>3. op.tries \in 0 .. 3 /\ op.tries <= 2 /\ op.tries # 2
    BY <1>1, HoleExists DEF ScanFindsNone, Operation, RunInv, Trying
  <2>4. Trying'
    BY <1>1, <2>1, <2>2, <2>3 DEF Trying, RunInv
  <2>5. Chosen'
    BY <1>1, <2>1 DEF Chosen, RunInv, Choosing
  <2>6. clean' => clean
    BY <1>1 DEF clean
  <2> QED BY <1>1, <2>1, <2>2, <2>4, <2>5, <2>6, SearchKeeps
<1>4. CASE loose /\ CreateFails("failed")
  <2>1. op'.step \in {"idle", "free"} /\ ~clean'
    BY <1>1, <1>4, EndsQuietly DEF clean, LostByMirror, TypeOK
  <2> QED BY <1>1, <2>1, EndKeeps
<1> QED BY <1>2, <1>3, <1>4 DEF ScanFindsNone

LEMMA ZeroKeeps ==
    ASSUME SlotInv, RunInv, CleanInv, ZeroNewCluster PROVE RunInv' /\ CleanInv'
<1>1. UNCHANGED clusters /\ TypeOK /\ op \in Operation /\ op.step = "zero"
  BY DEF ZeroNewCluster, SlotInv, TypeOK
<1>2. CASE Fault /\ CreateFails("failed") /\ UNCHANGED slot
  BY <1>1, <1>2, FailKeeps
<1>3. CASE Goto("link") /\ UNCHANGED faults
  <2>1. /\ op'.step = "link" /\ op'.name = op.name /\ op'.why = op.why /\ result' = result
        /\ op'.old = op.old /\ op'.tries = op.tries /\ op'.alias = op.alias
    BY <1>1, <1>3 DEF Goto, Operation
  <2>2. Entries' = Entries /\ Directory' = Directory /\ \A a \in Directory : slot'[a] = slot[a]
    BY <1>1, ZeroNewClusterStep DEF Directory
  <2>3. Trying'
    BY <1>1, <2>1, <2>2 DEF Trying, RunInv
  <2>4. Chosen'
    BY <1>1, <2>1 DEF Chosen, RunInv, Choosing
  <2>5. clean' => clean
    BY <1>3 DEF clean
  <2> QED BY <1>1, <2>1, <2>2, <2>3, <2>4, <2>5, SearchKeeps
<1> QED BY <1>2, <1>3 DEF ZeroNewCluster

LEMMA LinkKeeps ==
    ASSUME SlotInv, RunInv, CleanInv, LinkNewCluster PROVE RunInv' /\ CleanInv'
<1>1. /\ UNCHANGED slot /\ TypeOK /\ op \in Operation /\ op.step = "link"
      /\ op.tries \in 0 .. 3 /\ op.tries < 2 /\ op.tries < clusters
  BY DEF LinkNewCluster, SlotInv, TypeOK, Operation, RunInv, Trying
<1>2. CASE Fault /\ CreateFails("failed") /\ UNCHANGED clusters
  BY <1>1, <1>2, FailKeeps
<1>3. CASE clusters' = clusters + 1 /\ UNCHANGED <<faults, result>>
           /\ op' = [op EXCEPT !.step = "scan", !.tries = @ + 1]
  <2>1. /\ op'.step = "scan" /\ op'.name = op.name /\ op'.why = op.why
        /\ op'.old = op.old /\ op'.tries = op.tries + 1 /\ op'.alias = op.alias
    BY <1>1, <1>3 DEF Operation
  <2>2. clusters < MaxClusters /\ clusters \in 1 .. MaxClusters
    BY <1>1 DEF SlotInv, OpInv, Growing, TypeOK
  <2>3. \A a \in ClusterSlots(clusters) : slot[a].kind = "end"
    BY <1>1 DEF SlotInv, OpInv, Zeroed
  <2>4. Directory' = Directory \cup ClusterSlots(clusters)
    BY <1>3, <2>2, NextClusterSlots DEF Directory
  <2>5. Entries' = Entries
    BY LinkNewClusterStep
  <2>6. Trying'
    <3>1. clusters \in Nat
      BY <2>2, Products
    <3>2. clusters' - op'.tries = clusters - op.tries /\ op'.tries <= 2 /\ op'.tries < clusters'
      BY <1>1, <1>3, <2>1, <3>1
    <3>3. \A b \in Directory : b >= ((clusters - op.tries) * K) - 1 => slot[b].kind = "end"
      BY <1>1 DEF RunInv, Trying
    <3> QED BY <1>1, <2>1, <2>3, <2>4, <3>2, <3>3 DEF Trying
  <2>7. Chosen'
    BY <1>1, <2>1 DEF Chosen, RunInv, Choosing
  <2>8. clean' => clean
    BY <1>3 DEF clean
  <2>9. \A b \in Directory' : b \notin Directory => slot'[b].kind # "lfn"
    BY <1>1, <2>3, <2>4
  <2> QED BY <1>1, <1>3, <2>1, <2>4, <2>5, <2>6, <2>7, <2>8, <2>9, SearchKeeps
<1>4. CASE Fault /\ Goto("unlink")
  <2>1. Entries' = Entries /\ ~clean' /\ op'.step = "unlink"
    BY <1>1, <1>4, LinkNewClusterStep, Fails DEF Goto, Operation
  <2>2. RunsWhole'
    BY <1>1, <2>1 DEF RunInv, RunsWhole, RunNames
  <2>3. RunInv'
    BY <2>1, <2>2
    DEF RunInv, Trying, Chosen, SoFar, OldStays, RollingBack, RemovesRun, Choosing, Removing
  <2> QED BY <2>1, <2>3 DEF CleanInv
<1> QED BY <1>1, <1>2, <1>3, <1>4 DEF LinkNewCluster, ScanAgain

LEMMA UnlinkKeeps ==
    ASSUME SlotInv, LostByMirror, RunInv, CleanInv, ReleaseNewCluster
    PROVE  RunInv' /\ CleanInv'
<1>1. UNCHANGED <<slot, clusters>> /\ TypeOK /\ op.step = "unlink" /\ CreateFails("failed")
  BY DEF ReleaseNewCluster, SlotInv
<1>2. ~clean'
  BY <1>1 DEF ReleaseNewCluster, LostByMirror, Fault, clean, TypeOK
<1>3. op'.step \in {"idle", "free"}
  BY <1>1, EndsQuietly
<1> QED BY <1>1, <1>2, <1>3, EndKeeps

LEMMA ReleaseKeeps ==
    ASSUME SlotInv, RunInv, CleanInv, FreeCluster \/ ReleaseObject \/ PowerFails
    PROVE  RunInv' /\ CleanInv'
<1>1. UNCHANGED <<slot, clusters>> /\ TypeOK
  BY DEF FreeCluster, ReleaseObject, PowerFails, SlotInv
<1>2. CASE Fault /\ op' = Idle
  BY <1>1, <1>2, FailKeeps
<1>3. CASE op.step \in {"free", "release"} /\ UNCHANGED faults
           /\ (Return(result) \/ Return("ok"))
  <2>1. op'.step = "idle" /\ (clean' => clean) /\ ~Removing /\ op.step # "write"
    BY <1>3 DEF Return, Idle, clean, Removing
  <2>2. clean => result # "failed"
    BY DEF CleanInv, NoFailure
  <2>3. clean' => result' # "failed"
    BY <1>3, <2>1, <2>2 DEF Return
  <2> QED BY <1>1, <2>1, <2>3, EndKeeps
<1> QED BY <1>2, <1>3 DEF FreeCluster, Allocate, ReleaseObject, PowerFails, Return

(* While nothing failed, a run leads to the entry it was written for.      *)
LEMMA RunIsOwn ==
    ASSUME SlotInv, RunInv, CleanInv, clean,
           NEW a \in Entries, NEW n \in LongNames, RunNames(a, n)
    PROVE  slot[a].name = n
<1>1. a \in Directory /\ a \in Nat /\ slot[a].kind = "entry"
  BY DEF Entries, Directory, Visible
<1>2. Parts[n] \in Nat \ {0} /\ 1 \in 1 .. Parts[n]
  BY DirectoryAssumption
<1>3. a - 1 >= 0 /\ slot[a - 1].kind = "lfn" /\ slot[a - 1].name = n
  BY <1>2 DEF RunNames
<1> DEFINE b == a - 1
<1>4. b \in Directory /\ b + 1 = a /\ b \in Nat
  <2>1. b \in 0 .. a /\ b + 1 = a
    BY <1>1, <1>3
  <2> QED BY <1>1, <2>1, DirectorySlots DEF SlotInv, TypeOK
<1>5. slot[b].kind = "lfn" /\ slot[b].name = n
  BY <1>3
<1> HIDE DEF b
<1>6. CASE GoesOn(b)
  BY <1>1, <1>4, <1>5, <1>6 DEF GoesOn
<1>7. CASE op.step = "write" /\ b = op.at - 1 /\ op.start < op.at
  <2>1. op.at \in Nat /\ Behind \in Nat /\ NewEntry = Behind - 1
    BY Place, RunIsPositive DEF SlotInv
  <2>2. op.at = a /\ op.at <= Behind /\ \A c \in op.at .. Behind - 1 : Empty(c)
    BY <1>4, <1>7, <2>1 DEF SlotInv, OpInv, Running
  <2>3. CASE a < Behind
    <3>1. a \in op.at .. Behind - 1
      BY <1>1, <2>1, <2>2, <2>3
    <3> QED BY <1>1, <2>2, <3>1 DEF Empty
  <2>4. CASE a = Behind
    <3>1. b = NewEntry /\ b \in op.start .. op.at - 1
      BY <1>4, <1>7, <2>1, <2>2, <2>4, RunIsPositive DEF SlotInv
    <3>2. slot[b] = NewSlot(b)
      BY <1>7, <3>1 DEF RunInv, SoFar
    <3> QED BY <1>5, <3>1, <3>2 DEF NewSlot
  <2> QED BY <1>1, <2>1, <2>2, <2>3, <2>4
<1>8. CASE Removing /\ b = op.at
  BY <1>1, <1>4, <1>5, <1>8 DEF RunInv, RemovesRun
<1> QED BY <1>4, <1>5, <1>6, <1>7, <1>8 DEF CleanInv, Followed

(* While nothing failed, the new entry is what the new name finds.         *)
LEMMA FindsNew ==
    ASSUME SlotInv, RunInv, CleanInv, clean, op.step = "check"
    PROVE  Finds(op.name, NewEntry)
<1>1. /\ NewEntry \in Nat /\ Length \in Nat \ {0} /\ op.start \in Nat
      /\ NewEntry \in op.start .. NewEntry
  BY RunIsPositive DEF SlotInv
<1>2. \A b \in op.start .. NewEntry : slot[b] = NewSlot(b)
  BY DEF RunInv, SoFar
<1>3. /\ slot[NewEntry].kind = "entry" /\ slot[NewEntry].name = op.name
      /\ slot[NewEntry].alias = op.alias
  <2>1. slot[NewEntry] = NewSlot(NewEntry)
    BY <1>1, <1>2
  <2> QED BY <2>1 DEF NewSlot
<1>4. NewEntry \in Directory /\ 0 .. NewEntry \subseteq Directory
  BY DirectorySlots DEF SlotInv, TypeOK, OpInv, HasNew
<1>5. NewEntry \in Entries
  <2>1. \A b \in 0 .. NewEntry : slot[b].kind # "end"
    BY <1>1, <1>3, <1>4 DEF SlotInv, MarkerIsLast
  <2> QED BY <1>3, <1>4, <2>1 DEF Entries, Visible
<1>6. Answers(NewEntry, op.name)
  BY <1>3, <1>5 DEF Answers, RunInv, RunsWhole, Chosen, Choosing
<1>7. ASSUME NEW b \in Entries, Answers(b, op.name) PROVE b = NewEntry
  <2> SUFFICES ASSUME b # NewEntry PROVE FALSE
    OBVIOUS
  <2>1. slot[b].alias # op.name /\ (op.name \in LongNames => slot[b].name # op.name)
    BY DEF CleanInv, NameIsFree, Choosing
  <2>2. op.name \in LongNames /\ RunNames(b, op.name)
    BY <1>7, <2>1 DEF Answers
  <2> QED BY <2>1, <2>2, RunIsOwn
<1> QED BY <1>1, <1>5, <1>6, <1>7 DEF Finds

LEMMA ReadBackKeeps ==
    ASSUME SlotInv, RunInv, CleanInv, ReadBack PROVE RunInv' /\ CleanInv'
<1>1. /\ UNCHANGED <<slot, clusters>> /\ TypeOK /\ op \in Operation
      /\ op.step = "check" /\ ~Removing
  BY DEF ReadBack, SlotInv, TypeOK, Removing
<1>2. slot[NewEntry].kind = "entry" /\ NewEntry \in op.start .. NewEntry
  <2>1. NewEntry \in op.start .. NewEntry
    BY <1>1, RunIsPositive
  <2>2. slot[NewEntry] = NewSlot(NewEntry)
    BY <1>1, <2>1 DEF RunInv, SoFar
  <2> QED BY <2>1, <2>2 DEF NewSlot
<1>3. op.why = "rename" => slot[op.old].kind = "entry" /\ NewEntry # op.old
  BY <1>1, <1>2 DEF RunInv, OldStays, Choosing
<1>4. RunsWhole' /\ (NamesDiffer => NamesDiffer') /\ (AllGoOn => AllGoOn')
  BY <1>1, RunsSame DEF RunInv
<1>5. CASE op' = [op EXCEPT !.step = "undo", !.at = NewEntry]
           /\ (Fault \/ (~Finds(op.name, NewEntry) /\ UNCHANGED faults))
  <2>1. op'.step = "undo" /\ op'.at = NewEntry
    BY <1>1, <1>5 DEF Operation
  <2>2. ~clean'
    <3>1. Fault \/ (~clean /\ UNCHANGED faults)
      BY <1>1, <1>5, FindsNew
    <3> QED BY <1>1, <3>1, Fails DEF clean
  <2> QED
    BY <1>1, <1>2, <1>4, <2>1, <2>2
    DEF RunInv, CleanInv, Trying, Chosen, SoFar, OldStays, RollingBack, RemovesRun,
        Choosing, Removing
<1>6. CASE UNCHANGED faults /\ Return("ok")
  <2>1. op'.step = "idle" /\ result' # "failed" /\ (clean' => clean)
    BY <1>6 DEF Return, Idle, clean
  <2> QED BY <1>1, <2>1, EndKeeps
<1>7. CASE /\ op.why = "rename" /\ UNCHANGED <<faults, result>>
           /\ op' = [op EXCEPT !.step = "remove", !.at = op.old]
  <2>1. /\ op'.step = "remove" /\ op'.at = op.old /\ op'.old = op.old
        /\ op'.name = op.name /\ op'.start = op.start
    BY <1>1, <1>7 DEF Operation
  <2>2. NewEntry' = NewEntry
    BY <2>1, SameRun
  <2>3. RunInv'
    BY <1>1, <1>2, <1>3, <1>4, <1>7, <2>1, <2>2
    DEF RunInv, Trying, Chosen, SoFar, OldStays, RollingBack, RemovesRun, Choosing, Removing
  <2>4. CASE clean'
    <3>1. AllGoOn /\ NamesDiffer /\ result # "failed"
      BY <1>1, <1>7, <2>4, AllFollowed DEF CleanInv, NoFailure, clean
    <3>2. Followed'
      BY <1>4, <3>1 DEF AllGoOn, Followed
    <3> QED BY <1>4, <1>7, <2>1, <2>3, <3>1, <3>2 DEF CleanInv, NameIsFree, NoFailure, Choosing
  <2>5. CASE ~clean'
    BY <2>3, <2>5 DEF CleanInv
  <2> QED BY <2>4, <2>5
<1>8. \/ /\ Fault \/ (~Finds(op.name, NewEntry) /\ UNCHANGED faults)
         /\ op' = [op EXCEPT !.step = "undo", !.at = NewEntry]
      \/ /\ UNCHANGED faults
         /\ \/ /\ op.why = "rename" /\ UNCHANGED result
               /\ op' = [op EXCEPT !.step = "remove", !.at = op.old]
            \/ Return("ok")
  BY DEF ReadBack
<1> QED BY <1>5, <1>6, <1>7, <1>8

(* What the write of a cluster does to the run, to what was there, and to  *)
(* the entries.                                                            *)
LEMMA RunWritten ==
    ASSUME SlotInv, RunInv, op.step = "write", UNCHANGED clusters,
           slot' = [a \in Addresses |-> Written(a)]
    PROVE  /\ \A b \in op.start .. NewEntry : b < Top(op.at) => slot'[b] = NewSlot(b)
           /\ \A b \in Directory :
                \/ b \in op.start .. NewEntry /\ b < Top(op.at)
                \/ slot'[b] = slot[b]
                \/ slot[b].kind = "end" /\ slot'[b].kind = "end"
           /\ \A b \in Directory : ~Empty(b) => slot'[b] = slot[b]
           /\ op.start .. NewEntry \subseteq Directory
<1> USE DEF SlotInv
<1>1. /\ Behind \in Nat /\ NewEntry = Behind - 1 /\ NewEntry \in Nat /\ op.start \in Nat
      /\ op.at \in Nat /\ Top(op.at) \in Nat /\ op.at < Top(op.at)
  BY RunIsPositive, Place
<1>2. Directory \subseteq Addresses /\ \A a \in Directory : 0 .. a \subseteq Directory
  BY DirectorySlots DEF TypeOK
<1>3. /\ Behind \in Directory /\ op.at <= Behind
      /\ \A b \in op.at .. Behind - 1 : Empty(b)
      /\ op.marker => \A b \in Directory : b >= Behind => slot[b].kind = "end"
  BY DEF OpInv, Running
<1>4. op.start <= op.at /\ \A b \in op.start .. op.at - 1 : slot[b] = NewSlot(b)
  BY DEF RunInv, SoFar
<1> DEFINE T == Top(op.at)
<1>5. \A a \in Addresses :
        slot'[a] = IF a \in op.at .. T - 1 /\ a < Behind THEN NewSlot(a)
                   ELSE IF a = Behind /\ a < T /\ op.marker THEN End ELSE slot[a]
  BY DEF Written
<1>6. T \in Nat /\ op.at < T
  BY <1>1
<1> HIDE DEF T
<1>7. op.start .. NewEntry \subseteq Directory
  <2>1. op.start .. NewEntry \subseteq 0 .. Behind
    BY <1>1
  <2> QED BY <1>2, <1>3, <2>1
<1>8. ASSUME NEW b \in op.start .. NewEntry, b < T PROVE slot'[b] = NewSlot(b)
  <2>1. b \in Addresses /\ b \in Nat /\ b < Behind /\ b # Behind
    BY <1>1, <1>2, <1>7
  <2>2. CASE b < op.at
    <3>1. b \in op.start .. op.at - 1 /\ b \notin op.at .. T - 1
      BY <1>1, <1>6, <2>1, <2>2
    <3> QED BY <1>4, <1>5, <2>1, <3>1
  <2>3. CASE b >= op.at
    <3>1. b \in op.at .. T - 1
      BY <1>1, <1>6, <1>8, <2>1, <2>3
    <3> QED BY <1>5, <2>1, <3>1
  <2> QED BY <1>1, <2>1, <2>2, <2>3
<1>9. ASSUME NEW b \in Directory, ~(b \in op.start .. NewEntry /\ b < T)
      PROVE  slot'[b] = slot[b] \/ (slot[b].kind = "end" /\ slot'[b].kind = "end")
  <2>1. b \in Nat /\ b \in Addresses
    BY <1>2 DEF Directory
  <2>2. ~(b \in op.at .. T - 1 /\ b < Behind)
    BY <1>1, <1>4, <1>6, <1>9, <2>1
  <2>3. CASE b = Behind /\ b < T /\ op.marker
    <3>1. slot[b].kind = "end" /\ slot'[b] = End
      BY <1>1, <1>3, <1>5, <2>1, <2>2, <2>3
    <3> QED BY <3>1 DEF End, Blank
  <2> QED BY <1>5, <2>1, <2>2, <2>3
<1>10. ASSUME NEW b \in Directory, ~Empty(b) PROVE slot'[b] = slot[b]
  <2>1. b \in Nat
    BY DEF Directory
  <2>2. CASE b \in op.start .. NewEntry /\ b < T
    <3>1. b \notin op.at .. Behind - 1
      BY <1>3, <1>10
    <3>2. b \in op.start .. op.at - 1
      BY <1>1, <2>1, <2>2, <3>1
    <3> QED BY <1>4, <1>8, <2>2, <3>2
  <2> QED BY <1>9, <1>10, <2>2 DEF Empty
<1> QED BY <1>7, <1>8, <1>9, <1>10 DEF T

LEMMA WrittenRunsWhole ==
    ASSUME SlotInv, RunInv, op.step = "write", UNCHANGED clusters,
           slot' = [a \in Addresses |-> Written(a)]
    PROVE  /\ RunsWhole'
           /\ \A a \in Entries' : \/ a \in Entries /\ slot'[a] = slot[a]
                                  \/ a = NewEntry /\ slot'[a] = NewSlot(a)
<1> USE DEF SlotInv
<1>1. /\ \A b \in op.start .. NewEntry : b < Top(op.at) => slot'[b] = NewSlot(b)
      /\ \A b \in Directory : \/ b \in op.start .. NewEntry /\ b < Top(op.at)
                              \/ slot'[b] = slot[b]
                              \/ slot[b].kind = "end" /\ slot'[b].kind = "end"
      /\ \A b \in Directory : ~Empty(b) => slot'[b] = slot[b]
      /\ op.start .. NewEntry \subseteq Directory
  BY RunWritten
<1>2. /\ NewEntry \in Nat /\ op.start \in Nat /\ op.start <= NewEntry
      /\ Top(op.at) \in Nat /\ Length \in Nat \ {0} /\ NewEntry = Behind - 1
      /\ op.at \in Nat /\ op.at < Top(op.at) /\ Behind \in Nat
  BY RunIsPositive, Place
<1>3. ASSUME NEW a \in Entries, NEW n \in LongNames, RunNames(a, n)
      PROVE  RunNames(a, n)'
  <2>1. a \in Directory /\ a \in Nat /\ Parts[n] \in Nat
    BY DirectoryAssumption DEF Entries, Directory
  <2>2. ASSUME NEW i \in 1 .. Parts[n] PROVE slot'[a - i] = slot[a - i]
    <3>1. a - i >= 0 /\ slot[a - i].kind = "lfn"
      BY <1>3 DEF RunNames
    <3>2. a - i \in 0 .. a
      BY <2>1, <3>1
    <3>3. a - i \in Directory
      BY <2>1, <3>2, DirectorySlots DEF TypeOK
    <3> QED BY <1>1, <3>1, <3>3 DEF Empty
  <2>3. slot'[a] = slot[a]
    BY ClusterWritten
  <2> QED BY <1>3, <2>2, <2>3 DEF RunNames
<1>4. ASSUME NEW a \in Entries', a \notin Entries
      PROVE  /\ a = NewEntry /\ NewEntry < Top(op.at) /\ slot'[a] = NewSlot(a)
             /\ \A n \in LongNames : n = op.name => RunNames(a, n)'
  <2>1. a = NewEntry /\ slot'[a].kind = "entry" /\ a \in Directory
    <3>1. Directory' = Directory
      BY DEF Directory
    <3> QED BY <1>4, <3>1, ClusterWritten DEF Entries, Visible
  <2>2. NewEntry < Top(op.at)
    <3> SUFFICES ASSUME ~(NewEntry < Top(op.at)) PROVE FALSE
      OBVIOUS
    <3>1. NewEntry \in op.at .. Behind - 1
      BY <1>2
    <3>2. Empty(NewEntry)
      BY <3>1 DEF OpInv, Running
    <3> QED BY <1>1, <2>1, <3>2 DEF Empty
  <2>3. \A b \in op.start .. NewEntry : slot'[b] = NewSlot(b)
    BY <1>1, <1>2, <2>2
  <2>4. NewEntry \in op.start .. NewEntry
    BY <1>2
  <2>5. slot'[NewEntry] = NewSlot(NewEntry)
    BY <2>3, <2>4
  <2>6. slot'[NewEntry].alias = op.alias
    BY <2>5 DEF NewSlot
  <2>7. ASSUME NEW n \in LongNames, n = op.name PROVE RunNames(a, n)'
    <3>1. Parts[n] \in Nat /\ NewEntry = op.start + Parts[n]
      BY <1>2, <2>7, DirectoryAssumption DEF NewEntry, Length
    <3>2. ASSUME NEW i \in 1 .. Parts[n]
          PROVE  /\ a - i >= 0
                 /\ slot'[a - i].kind = "lfn" /\ slot'[a - i].name = n
                 /\ slot'[a - i].part = i /\ slot'[a - i].alias = op.alias
      <4>1. a - i \in op.start .. NewEntry /\ a - i # NewEntry
        BY <1>2, <2>1, <3>1
      <4>2. slot'[a - i] = NewSlot(a - i)
        BY <2>3, <4>1
      <4>3. NewEntry - (a - i) = i /\ a - i >= 0
        BY <1>2, <2>1, <4>1
      <4> QED BY <2>7, <4>1, <4>2, <4>3 DEF NewSlot
    <3>3. slot'[a].alias = op.alias
      BY <2>1, <2>6
    <3> QED BY <3>2, <3>3 DEF RunNames
  <2> QED BY <2>1, <2>2, <2>5, <2>7
<1>5. \A a \in Entries : slot'[a] = slot[a]
  BY ClusterWritten
<1>6. NewSlot(NewEntry).name = op.name
  BY DEF NewSlot
<1>7. RunsWhole'
  BY <1>3, <1>4, <1>5, <1>6 DEF RunsWhole, RunInv
<1> QED BY <1>4, <1>5, <1>7

(* ... and, while nothing failed, to what follows the parts of long names. *)
LEMMA WrittenGoesOn ==
    ASSUME SlotInv, RunInv, Followed, op.step = "write", UNCHANGED clusters,
           slot' = [a \in Addresses |-> Written(a)],
           NEW b \in Directory, slot'[b].kind = "lfn"
    PROVE  GoesOn(b)' \/ (b = Top(op.at) - 1 /\ op.start < Top(op.at)
                          /\ Top(op.at) <= Behind)
<1> USE DEF SlotInv
<1>1. /\ \A c \in op.start .. NewEntry : c < Top(op.at) => slot'[c] = NewSlot(c)
      /\ \A c \in Directory : \/ c \in op.start .. NewEntry /\ c < Top(op.at)
                              \/ slot'[c] = slot[c]
                              \/ slot[c].kind = "end" /\ slot'[c].kind = "end"
      /\ \A c \in Directory : ~Empty(c) => slot'[c] = slot[c]
      /\ op.start .. NewEntry \subseteq Directory
  BY RunWritten
<1>2. /\ NewEntry \in Nat /\ op.start \in Nat /\ op.start <= NewEntry
      /\ Top(op.at) \in Nat /\ Length \in Nat \ {0} /\ NewEntry = Behind - 1
      /\ op.at \in Nat /\ op.at < Top(op.at) /\ Behind \in Nat
      /\ NewEntry = op.start + Length - 1
  BY RunIsPositive, Place DEF NewEntry
<1>3. Directory' = Directory /\ b \in Nat
  BY DEF Directory
<1>4. CASE b \in op.start .. NewEntry /\ b < Top(op.at)
  <2>1. slot'[b] = NewSlot(b)
    BY <1>1, <1>4
  <2>2. b # NewEntry /\ slot'[b].name = op.name
    BY <2>1 DEF NewSlot
  <2>3. b + 1 \in op.start .. NewEntry /\ b + 1 \in Directory /\ b + 1 # op.start
    BY <1>1, <1>2, <1>4, <2>2
  <2>4. CASE b + 1 < Top(op.at)
    <3>1. slot'[b + 1] = NewSlot(b + 1)
      BY <1>1, <2>3, <2>4
    <3>2. CASE b + 1 = NewEntry
      <4>1. slot'[b + 1].kind = "entry" /\ slot'[b + 1].name = op.name
        BY <3>1, <3>2 DEF NewSlot
      <4> QED BY <1>3, <2>2, <2>3, <4>1 DEF GoesOn
    <3>3. CASE b + 1 # NewEntry
      <4>1. /\ slot'[b + 1].kind = "lfn" /\ slot'[b + 1].name = op.name
            /\ slot'[b + 1].part = NewEntry - (b + 1)
        BY <3>1, <3>3 DEF NewSlot
      <4>2. op.name \in LongNames /\ NewEntry = op.start + Parts[op.name]
        <5>1. Length # 1
          BY <1>2, <2>2, <2>3
        <5>2. op.name \in LongNames /\ Length = Parts[op.name] + 1
          BY <5>1 DEF Length
        <5> QED BY <1>2, <5>2, DirectoryAssumption
      <4>3. NewEntry - (b + 1) # Parts[op.name]
        BY <1>2, <2>3, <4>2, DirectoryAssumption
      <4> QED BY <1>3, <2>3, <4>1, <4>3 DEF GoesOn, LastPart
    <3> QED BY <3>2, <3>3
  <2>5. CASE ~(b + 1 < Top(op.at))
    BY <1>2, <1>3, <1>4, <2>3, <2>5
  <2> QED BY <2>4, <2>5
<1>5. CASE ~(b \in op.start .. NewEntry /\ b < Top(op.at))
  <2>1. slot'[b] = slot[b] /\ slot[b].kind = "lfn"
    BY <1>1, <1>5
  <2>2. ~(b = op.at - 1 /\ op.start < op.at)
    <3> SUFFICES ASSUME b = op.at - 1, op.start < op.at PROVE FALSE
      OBVIOUS
    <3>1. op.at <= Behind
      BY DEF OpInv, Running
    <3> QED BY <1>2, <1>3, <1>5, <3>1
  <2>3. GoesOn(b)
    BY <2>1, <2>2 DEF Followed, Removing
  <2>4. b + 1 \in Directory /\ ~Empty(b + 1)
    BY <2>3 DEF GoesOn, Empty
  <2>5. slot'[b + 1] = slot[b + 1]
    BY <1>1, <2>4
  <2> QED BY <1>3, <2>1, <2>3, <2>4, <2>5 DEF GoesOn, LastPart
<1> QED BY <1>4, <1>5

LEMMA WriteKeeps ==
    ASSUME SlotInv, RunInv, CleanInv, WriteRun PROVE RunInv' /\ CleanInv'
<1>1. /\ UNCHANGED clusters /\ TypeOK /\ op \in Operation
      /\ op.step = "write" /\ ~Removing /\ Directory' = Directory
  BY DEF WriteRun, SlotInv, TypeOK, Removing, Directory
<1>2. CASE Fault /\ CreateFails("failed") /\ UNCHANGED slot
  BY <1>1, <1>2, FailKeeps
<1>3. CASE slot' = [a \in Addresses |-> Written(a)]
  <2>1. /\ NewEntry \in Nat /\ op.start \in Nat /\ op.start <= NewEntry
        /\ Top(op.at) \in Nat /\ NewEntry = Behind - 1 /\ Behind \in Nat
        /\ op.at \in Nat /\ op.at < Top(op.at) /\ op.start <= op.at
        /\ Behind \in Directory
    BY <1>1, RunIsPositive, Place DEF RunInv, SoFar, SlotInv, OpInv, Running
  <2>2. /\ RunsWhole'
        /\ \A a \in Entries' : \/ a \in Entries /\ slot'[a] = slot[a]
                               \/ a = NewEntry /\ slot'[a] = NewSlot(a)
    BY <1>1, <1>3, WrittenRunsWhole
  <2>3. /\ \A b \in op.start .. NewEntry : b < Top(op.at) => slot'[b] = NewSlot(b)
        /\ \A b \in Directory : ~Empty(b) => slot'[b] = slot[b]
    BY <1>1, <1>3, RunWritten
  <2>4. op.why = "rename" => /\ op.old \notin op.start .. NewEntry
                             /\ slot'[op.old].kind = "entry"
    <3>1. op.why = "rename" => /\ op.old \in Directory /\ slot[op.old].kind = "entry"
                               /\ op.old \notin op.start .. NewEntry
      BY <1>1 DEF SlotInv, OpInv, HasOld, RunInv, OldStays, Choosing
    <3> QED BY <2>3, <3>1 DEF Empty
  <2>5. CASE CreateFails("failed") /\ Fault
    <3>1. op'.step \in {"idle", "free"} /\ ~clean'
      BY <1>1, <2>5, EndsQuietly, Fails
    <3> QED
      BY <2>2, <3>1
      DEF RunInv, CleanInv, Trying, Chosen, SoFar, OldStays, RollingBack, RemovesRun,
          Choosing, Removing
  <2>6. ASSUME NamesDiffer, NameIsFree PROVE NamesDiffer'
    <3>1. \A a \in Entries :
            a = NewEntry \/ (op.name \in LongNames => slot[a].name # op.name)
      BY <1>1, <2>6 DEF NameIsFree, Choosing
    <3>2. NewSlot(NewEntry).name = op.name
      BY DEF NewSlot
    <3> QED BY <2>2, <2>6, <3>1, <3>2 DEF NamesDiffer
  <2>7. ASSUME NameIsFree, op'.step \in {"write", "check"}, op'.name = op.name,
               NewEntry' = NewEntry
        PROVE  NameIsFree'
    <3>1. \A a \in Entries :
            \/ a = NewEntry
            \/ /\ slot[a].alias # op.name
               /\ op.name \in LongNames => slot[a].name # op.name
      BY <1>1, <2>7 DEF NameIsFree, Choosing
    <3> QED BY <2>2, <2>7, <3>1 DEF NameIsFree
  <2>8. CASE Behind < Top(op.at) /\ Goto("check") /\ UNCHANGED faults
    <3>1. /\ op'.step = "check" /\ op'.name = op.name /\ op'.start = op.start
          /\ op'.alias = op.alias /\ op'.object = op.object /\ op'.why = op.why
          /\ op'.old = op.old /\ result' = result
      BY <1>1, <2>8 DEF Goto, Operation
    <3>2. NewEntry' = NewEntry /\ \A b : NewSlot(b)' = NewSlot(b)
      BY <3>1, SameRun, SameNewSlots
    <3>3. SoFar'
      BY <2>1, <2>3, <2>8, <3>1, <3>2 DEF SoFar
    <3>4. RunInv'
      BY <1>1, <2>2, <2>4, <3>1, <3>2, <3>3
      DEF RunInv, Trying, Chosen, OldStays, RollingBack, RemovesRun, Choosing, Removing
    <3>5. CASE clean'
      <4>1. Followed /\ NamesDiffer /\ NameIsFree /\ result # "failed"
        BY <2>8, <3>5 DEF CleanInv, NoFailure, clean
      <4>2. AllGoOn'
        <5>1. ASSUME NEW b \in Directory, slot'[b].kind = "lfn" PROVE GoesOn(b)'
          BY <1>1, <1>3, <2>1, <2>8, <4>1, <5>1, WrittenGoesOn
        <5> QED BY <1>1, <5>1 DEF AllGoOn
      <4>3. Followed'
        BY <4>2 DEF AllGoOn, Followed
      <4> QED BY <2>6, <2>7, <3>1, <3>2, <3>4, <4>1, <4>3 DEF CleanInv, NoFailure
    <3>6. CASE ~clean'
      BY <3>4, <3>6 DEF CleanInv
    <3> QED BY <3>5, <3>6
  <2>9. CASE op' = [op EXCEPT !.at = Top(op.at)] /\ UNCHANGED <<result, faults>>
    <3> DEFINE T == Top(op.at)
    <3>1. /\ op'.step = "write" /\ op'.name = op.name /\ op'.start = op.start
          /\ op'.alias = op.alias /\ op'.object = op.object /\ op'.why = op.why
          /\ op'.old = op.old /\ op'.at = T
      BY <1>1, <2>9 DEF Operation
    <3>2. NewEntry' = NewEntry /\ \A b : NewSlot(b)' = NewSlot(b)
      BY <3>1, SameRun, SameNewSlots
    <3>3. SoFar'
      <4>1. op.start <= T
        BY <2>1
      <4>2. ASSUME T <= Behind PROVE \A b \in op.start .. T - 1 : slot'[b] = NewSlot(b)
        BY <2>1, <2>3, <4>2
      <4>3. T <= Behind
        BY WriteRunStep, <1>1, <3>1, SameRun DEF SlotInv, OpInv, Running
      <4> QED BY <3>1, <3>2, <4>1, <4>2, <4>3 DEF SoFar
    <3>4. RunInv'
      BY <1>1, <2>2, <2>4, <3>1, <3>2, <3>3
      DEF RunInv, Trying, Chosen, OldStays, RollingBack, RemovesRun, Choosing, Removing
    <3>5. CASE clean'
      <4>1. Followed /\ NamesDiffer /\ NameIsFree /\ result # "failed"
        BY <2>9, <3>5 DEF CleanInv, NoFailure, clean
      <4>2. \A b \in Directory : slot'[b].kind = "lfn" =>
                GoesOn(b)' \/ (b = T - 1 /\ op.start < T)
        BY <1>1, <1>3, <4>1, WrittenGoesOn
      <4>3. Followed'
        BY <1>1, <3>1, <4>2 DEF Followed
      <4> QED BY <2>6, <2>7, <2>9, <3>1, <3>2, <3>4, <4>1, <4>3 DEF CleanInv, NoFailure
    <3>6. CASE ~clean'
      BY <3>4, <3>6 DEF CleanInv
    <3> QED BY <3>5, <3>6
  <2>10. Behind >= Top(op.at) => Top(op.at) \in Directory
    <3> SUFFICES ASSUME Behind >= Top(op.at) PROVE Top(op.at) \in Directory
      OBVIOUS
    <3>1. Top(op.at) \in 0 .. Behind
      BY <2>1
    <3> QED BY <1>1, <2>1, <3>1, DirectorySlots DEF TypeOK
  <2> QED BY <1>1, <1>3, <2>5, <2>8, <2>9, <2>10 DEF WriteRun
<1> QED BY <1>2, <1>3 DEF WriteRun

(* What removal does to the runs of entries.                               *)
LEMMA RunDeleted ==
    ASSUME SlotInv, RunInv, Removing, UNCHANGED clusters,
           slot' = [a \in Addresses |-> IF a \in Doomed THEN Deleted ELSE slot[a]]
    PROVE  /\ op.at \in Doomed
           /\ \A a \in Doomed : /\ a \in Directory /\ a <= op.at
                                /\ slot'[a].kind = "deleted"
                                /\ a # op.at => slot[a].kind = "lfn"
           /\ \A a \in Directory : a \notin Doomed => slot'[a] = slot[a]
           /\ RunsWhole'
<1> USE DEF SlotInv
<1>1. /\ op.at \in Directory /\ op.at \in Nat /\ Directory \subseteq Addresses
      /\ \A a \in Directory : 0 .. a \subseteq Directory
  BY Place, DirectorySlots DEF TypeOK, OpInv, HasAt, Removing
<1> DEFINE first == (op.at \div K) * K
<1>2. /\ first \in Nat /\ first <= op.at /\ op.at < first + K
      /\ ClusterSlots(op.at \div K) = first .. first + K - 1
  BY <1>1, ClusterOf, Products DEF Top, ClusterSlots
<1>3. op.at \in Doomed
  <2>1. op.at \in ClusterSlots(op.at \div K)
    BY <1>1, <1>2, Products
  <2>2. ~LastPart(op.at) \/ \A b \in op.at + 1 .. op.at : ~LastPart(b)
    BY <1>1
  <2> QED BY <1>1, <2>1 DEF Doomed
<1>4. ASSUME NEW a \in Doomed
      PROVE  /\ a \in Directory /\ a <= op.at /\ slot'[a].kind = "deleted"
             /\ a # op.at => slot[a].kind = "lfn"
  <2>1. a \in first .. first + K - 1 /\ a <= op.at /\ \A b \in a .. op.at - 1 : slot[b].kind = "lfn"
    BY <1>2, <1>4 DEF Doomed
  <2> HIDE DEF first
  <2>2. a \in 0 .. op.at
    BY <1>1, <1>2, <2>1, Products
  <2>3. a # op.at => a \in a .. op.at - 1
    BY <1>1, <2>2
  <2>4. a \in Addresses /\ Deleted.kind = "deleted"
    BY <1>1, <2>2 DEF Deleted, Blank
  <2> QED BY <1>1, <2>1, <2>2, <2>3, <2>4
<1> HIDE DEF first
<1>5. \A a \in Directory : a \notin Doomed => slot'[a] = slot[a]
  BY <1>1
<1>6. ASSUME NEW a \in Entries', NEW n \in LongNames, RunNames(a, n),
             NEW i \in 1 .. Parts[n], a - i \in Doomed
      PROVE  FALSE
  <2>1. a \in Entries /\ slot'[a] = slot[a]
    BY SlotsDeleted DEF Removing
  <2>2. a \in Directory /\ a \in Nat /\ slot[a].kind = "entry" /\ Parts[n] \in Nat
    BY <2>1, DirectoryAssumption DEF Entries, Visible, Directory
  <2>3. a - i <= op.at /\ \A b \in a - i .. op.at - 1 : slot[b].kind = "lfn"
    BY <1>6 DEF Doomed
  <2>4. a >= op.at
    <3> SUFFICES ASSUME ~(a >= op.at) PROVE FALSE
      OBVIOUS
    <3>1. a \in a - i .. op.at - 1
      BY <1>1, <2>2
    <3> QED BY <2>2, <2>3, <3>1
  <2>5. a # op.at
    <3>1. a \notin Doomed
      BY <1>4, <2>1, <2>2
    <3> QED BY <1>3, <3>1
  <2> DEFINE j == a - op.at
  <2>6. j \in 1 .. Parts[n] /\ a - j = op.at /\ j \in Nat
    BY <1>1, <2>2, <2>3, <2>4, <2>5
  <2> HIDE DEF j
  <2>7. slot[op.at].kind = "lfn"
    BY <1>6, <2>6 DEF RunNames
  <2>8. slot[op.at + 1].kind = "deleted"
    BY <2>7 DEF RunInv, RemovesRun
  <2>9. CASE j = 1
    <3>1. op.at + 1 = a
      BY <1>1, <2>2, <2>6, <2>9
    <3> QED BY <2>2, <2>8, <3>1
  <2>10. CASE j # 1
    <3>1. j - 1 \in 1 .. Parts[n] /\ a - (j - 1) = op.at + 1
      BY <1>1, <2>2, <2>6, <2>10
    <3>2. slot[op.at + 1].kind = "lfn"
      BY <1>6, <3>1 DEF RunNames
    <3> QED BY <2>8, <3>2
  <2> QED BY <2>9, <2>10
<1>7. ASSUME NEW a \in Entries', NEW n \in LongNames, RunNames(a, n) PROVE RunNames(a, n)'
  <2>1. slot'[a] = slot[a] /\ a \in Directory /\ a \in Nat /\ Parts[n] \in Nat
    BY SlotsDeleted, DirectoryAssumption DEF Removing, Entries, Directory
  <2>2. ASSUME NEW i \in 1 .. Parts[n] PROVE slot'[a - i] = slot[a - i]
    <3>1. a - i >= 0
      BY <1>7 DEF RunNames
    <3>2. a - i \in 0 .. a
      BY <2>1, <3>1
    <3>3. a - i \in Directory /\ a - i \notin Doomed
      BY <1>1, <1>6, <1>7, <2>1, <3>2
    <3> QED BY <1>5, <3>3
  <2> QED BY <1>7, <2>1, <2>2 DEF RunNames
<1>8. \A a \in Entries' : a \in Entries /\ slot'[a] = slot[a]
  BY SlotsDeleted DEF Removing
<1>9. RunsWhole'
  BY <1>7, <1>8 DEF RunsWhole, RunInv
<1> QED BY <1>3, <1>4, <1>5, <1>9

LEMMA DeletedGoesOn ==
    ASSUME SlotInv, RunInv, Followed, Removing, UNCHANGED clusters,
           slot' = [a \in Addresses |-> IF a \in Doomed THEN Deleted ELSE slot[a]],
           NEW b \in Directory, slot'[b].kind = "lfn"
    PROVE  GoesOn(b)' \/ (b = Below /\ ReachesBelow)
<1> USE DEF SlotInv
<1>1. /\ op.at \in Doomed
      /\ \A a \in Doomed : /\ a \in Directory /\ a <= op.at
                           /\ slot'[a].kind = "deleted"
                           /\ a # op.at => slot[a].kind = "lfn"
      /\ \A a \in Directory : a \notin Doomed => slot'[a] = slot[a]
  BY RunDeleted
<1>2. b \notin Doomed /\ slot'[b] = slot[b] /\ slot[b].kind = "lfn" /\ b \in Nat
  BY <1>1 DEF Directory
<1>3. GoesOn(b)
  BY <1>1, <1>2 DEF Followed, Removing
<1>4. Directory' = Directory /\ b + 1 \in Directory
  BY <1>3 DEF Directory, GoesOn
<1>5. CASE b + 1 \notin Doomed
  <2>1. slot'[b + 1] = slot[b + 1]
    BY <1>1, <1>4, <1>5
  <2> QED BY <1>2, <1>3, <1>4, <2>1 DEF GoesOn, LastPart
<1>6. CASE b + 1 \in Doomed
  <2>1. ~LastPart(b + 1)
    BY <1>3 DEF GoesOn, LastPart
  <2>2. /\ op.at \in Nat /\ op.at \div K \in Nat /\ (op.at \div K) * K \in Nat /\ K \in Nat
        /\ b + 1 <= op.at
    BY <1>1, <1>6, Place, ClusterOf, Products
  <2>3. /\ b + 1 \in ClusterSlots(op.at \div K)
        /\ \A c \in b + 1 .. op.at - 1 : slot[c].kind = "lfn"
        /\ \A c \in (b + 1) + 1 .. op.at : ~LastPart(c)
    BY <1>6 DEF Doomed
  <2>4. b \notin ClusterSlots(op.at \div K)
    <3> SUFFICES ASSUME b \in ClusterSlots(op.at \div K) PROVE FALSE
      OBVIOUS
    <3>1. \A c \in b .. op.at - 1 : c = b \/ c \in b + 1 .. op.at - 1
      BY <1>2, <2>2
    <3>2. \A c \in b + 1 .. op.at : c = b + 1 \/ c \in (b + 1) + 1 .. op.at
      BY <1>2, <2>2
    <3>3. b <= op.at
      BY <1>2, <2>2
    <3>4. b \in Doomed
      BY <1>2, <2>1, <2>3, <3>1, <3>2, <3>3 DEF Doomed
    <3> QED BY <1>2, <3>4
  <2>5. b = Below
    BY <1>2, <2>2, <2>3, <2>4 DEF ClusterSlots, Below
  <2> QED BY <1>2, <1>6, <2>1, <2>5 DEF ReachesBelow
<1> QED BY <1>5, <1>6

LEMMA RemoveKeeps ==
    ASSUME SlotInv, RunInv, CleanInv, RemoveRun PROVE RunInv' /\ CleanInv'
<1>1. /\ UNCHANGED clusters /\ TypeOK /\ op \in Operation /\ Removing
      /\ op.step \in {"remove", "undo", "rollback"} /\ Directory' = Directory
      /\ op.at \in Directory
  BY DEF RemoveRun, SlotInv, TypeOK, Removing, Directory, OpInv, HasAt
<1> DEFINE Deletes == slot' = [a \in Addresses |-> IF a \in Doomed THEN Deleted ELSE slot[a]]
<1>2. /\ RunsWhole' /\ Entries' \subseteq Entries /\ \A a \in Entries' : slot'[a] = slot[a]
      /\ \A a \in Directory : slot[a].kind = "deleted" => slot'[a].kind = "deleted"
      /\ \A a \in Directory : slot[a].kind = "entry" /\ a # op.at => slot'[a].kind = "entry"
      /\ Deletes => slot'[op.at].kind = "deleted"
  <2>1. CASE slot' = slot /\ ~Deletes
    BY <1>1, <2>1, RunsSame, SameSlots DEF RunInv
  <2>2. CASE Deletes
    <3>1. /\ Entries' \subseteq Entries
          /\ \A a \in Entries' : slot'[a] = slot[a]
      BY <1>1, <2>2, SlotsDeleted
    <3>2. /\ op.at \in Doomed
          /\ \A a \in Doomed : slot'[a].kind = "deleted" /\ (a # op.at => slot[a].kind = "lfn")
          /\ \A a \in Directory : a \notin Doomed => slot'[a] = slot[a]
          /\ RunsWhole'
      BY <1>1, <2>2, RunDeleted
    <3> QED BY <3>1, <3>2
  <2> QED BY <2>1, <2>2 DEF RemoveRun
<1> HIDE DEF Deletes
<1>3. ASSUME NamesDiffer PROVE NamesDiffer'
  BY <1>2, <1>3 DEF NamesDiffer
<1>4. ASSUME op'.step \in {"idle", "free", "release"},
             clean' => clean /\ AllGoOn' /\ result' # "failed"
      PROVE  RunInv' /\ CleanInv'
  <2>1. RunInv'
    BY <1>2, <1>4
    DEF RunInv, Trying, Chosen, SoFar, OldStays, RollingBack, RemovesRun, Choosing, Removing
  <2>2. clean' => Followed' /\ NamesDiffer'
    BY <1>3, <1>4 DEF AllGoOn, Followed, CleanInv
  <2> QED BY <1>4, <2>1, <2>2 DEF CleanInv, NameIsFree, NoFailure, Choosing
\* What a rename goes on to remove is still there.
<1>5. ASSUME op.step = "remove", op.why = "rename"
      PROVE  NewEntry \in Directory /\ slot'[NewEntry].kind = "entry" /\ NewEntry # op.old
  <2>1. /\ slot[NewEntry].kind = "entry" /\ NewEntry # op.old
        /\ op.at = op.old \/ slot[op.at].kind = "lfn"
    BY <1>5 DEF RunInv, OldStays
  <2>2. NewEntry \in Directory
    BY <1>5 DEF SlotInv, OpInv, HasNew
  <2> QED BY <1>2, <2>1, <2>2
<1>6. CASE Fault /\ RemoveFails
  <2>1. ~clean' /\ faults' > 0
    BY <1>1, <1>6, Fails
  <2>2. CASE CreateFails("failed") \/ Return("failed")
    <3>1. op'.step \in {"idle", "free"}
      BY <1>1, <2>2, EndsQuietly
    <3> QED BY <1>4, <2>1, <3>1
  <2>3. CASE /\ op.step = "remove" /\ op.why = "rename"
             /\ op' = [op EXCEPT !.step = "rollback", !.at = NewEntry]
    <3>1. op'.step = "rollback" /\ op'.at = NewEntry /\ NewEntry' = NewEntry
      <4>1. op'.step = "rollback" /\ op'.at = NewEntry /\ op'.name = op.name /\ op'.start = op.start
        BY <1>1, <2>3 DEF Operation
      <4> QED BY <4>1, SameRun
    <3> QED
      BY <1>2, <1>5, <2>1, <2>3, <3>1
      DEF RunInv, CleanInv, Trying, Chosen, SoFar, OldStays, RollingBack, RemovesRun,
          Choosing, Removing
  <2> QED BY <1>6, <2>2, <2>3 DEF RemoveFails
<1>7. CASE Deletes /\ UNCHANGED faults /\ Removed /\ (ReachesBelow => slot[Below].kind # "lfn")
  <2>1. ASSUME clean' PROVE clean /\ AllGoOn' /\ op.step = "remove" /\ result # "failed"
    <3>1. clean /\ Followed /\ op.step \notin {"undo", "rollback"} /\ result # "failed"
      BY <1>7, <2>1 DEF clean, CleanInv, NoFailure
    <3>2. ASSUME NEW b \in Directory, slot'[b].kind = "lfn" PROVE GoesOn(b)'
      <4>1. GoesOn(b)' \/ (b = Below /\ ReachesBelow)
        BY <1>1, <1>7, <3>1, <3>2, DeletedGoesOn DEF RunInv, Deletes
      <4>2. ReachesBelow => slot'[Below] = slot[Below]
        BY <1>1, <1>7, SlotsDeleted DEF Deletes, ReachesBelow
      <4> QED BY <1>7, <3>2, <4>1, <4>2
    <3> QED BY <1>1, <3>1, <3>2 DEF AllGoOn
  <2>2. CASE op.step \in {"undo", "rollback"}
    <3>1. op'.step \in {"idle", "free"}
      BY <1>1, <1>7, <2>2, EndsQuietly DEF Removed
    <3> QED BY <1>4, <2>1, <2>2, <3>1
  <2>3. CASE op.step = "remove"
    <3>1. Return("ok") \/ Goto("release")
      BY <1>7, <2>3 DEF Removed
    <3>2. op'.step \in {"idle", "release"} /\ (result' = "ok" \/ result' = result)
      BY <1>1, <3>1 DEF Return, Goto, Idle, Operation
    <3> QED BY <1>4, <2>1, <3>2
  <2> QED BY <1>1, <2>2, <2>3
<1>8. CASE /\ Deletes /\ UNCHANGED <<faults, result>> /\ ReachesBelow
           /\ slot[Below].kind = "lfn" /\ op' = [op EXCEPT !.at = Below]
  <2>1. /\ op'.step = op.step /\ op'.at = Below /\ op'.old = op.old /\ op'.why = op.why
        /\ op'.name = op.name /\ op'.start = op.start
    BY <1>1, <1>8 DEF Operation
  <2>2. NewEntry' = NewEntry
    BY <2>1, SameRun
  <2>3. /\ Below \in Directory /\ slot'[Below].kind = "lfn"
        /\ Below + 1 \in Directory /\ slot'[Below + 1].kind = "deleted"
    <3>1. Below \in Directory /\ slot'[Below] = slot[Below] /\ Below + 1 \in Doomed
      BY <1>1, <1>8, SlotsDeleted DEF Deletes, ReachesBelow
    <3>2. Below + 1 \in Directory /\ slot'[Below + 1].kind = "deleted"
      BY <1>1, <1>8, <3>1, RunDeleted DEF Deletes
    <3> QED BY <1>8, <3>1, <3>2
  <2>4. OldStays'
    <3>1. op.step = "remove" /\ op.why = "rename" => slot'[op.old].kind = "deleted"
      <4>1. op.why = "rename" => op.old \in Directory
        BY DEF SlotInv, OpInv, HasOld
      <4> QED BY <1>2, <1>8, <4>1 DEF RunInv, OldStays
    <3> QED BY <1>1, <1>5, <2>1, <2>2, <2>3, <3>1 DEF OldStays, Choosing
  <2>5. RollingBack'
    <3>1. op.step = "rollback" => NewEntry \in Directory
      BY DEF SlotInv, OpInv, HasNew
    <3> QED BY <1>2, <1>8, <2>1, <2>2, <3>1 DEF RunInv, RollingBack
  <2>6. RunInv'
    BY <1>1, <1>2, <2>1, <2>3, <2>4, <2>5
    DEF RunInv, Trying, Chosen, SoFar, RemovesRun, Choosing, Removing
  <2>7. CASE clean'
    <3>1. Followed /\ NamesDiffer /\ NoFailure
      BY <1>8, <2>7 DEF clean, CleanInv
    <3>2. \A b \in Directory : slot'[b].kind = "lfn" => GoesOn(b)' \/ b = Below
      BY <1>1, <1>8, <3>1, DeletedGoesOn DEF RunInv, Deletes
    <3>3. Followed'
      BY <1>1, <2>1, <3>2 DEF Followed, Removing
    <3> QED BY <1>1, <1>3, <1>8, <2>1, <2>6, <3>1, <3>3 DEF CleanInv, NameIsFree, NoFailure, Choosing
  <2>8. CASE ~clean'
    BY <2>6, <2>8 DEF CleanInv
  <2> QED BY <2>7, <2>8
<1>9. \/ Fault /\ RemoveFails
      \/ Deletes /\ UNCHANGED faults /\ Removed /\ (ReachesBelow => slot[Below].kind # "lfn")
      \/ /\ Deletes /\ UNCHANGED <<faults, result>> /\ ReachesBelow
         /\ slot[Below].kind = "lfn" /\ op' = [op EXCEPT !.at = Below]
  BY DEF RemoveRun, Deletes
<1> QED BY <1>6, <1>7, <1>8, <1>9

(* Every step keeps the runs, and what is so while nothing failed.         *)
LEMMA RunInvStep ==
    ASSUME TypeInv, SlotInv, whole, RunInv, CleanInv, [Next]_vars
    PROVE  RunInv' /\ CleanInv'
<1>1. CASE UNCHANGED vars
  <2>1. UNCHANGED <<slot, clusters, op, result, faults>> /\ TypeOK
    BY <1>1 DEF vars, disk, SlotInv
  <2>2. Entries' = Entries /\ Directory' = Directory /\ RunsWhole'
    BY <2>1, SameSlots, RunsSame DEF Directory, RunInv
  <2>3. /\ NewEntry' = NewEntry /\ \A b : NewSlot(b)' = NewSlot(b)
    BY <2>1, SameRun, SameNewSlots
  <2>4. RunInv'
    BY <2>1, <2>2, <2>3
    DEF RunInv, Trying, Chosen, SoFar, OldStays, RollingBack, RemovesRun, Removing
  <2>5. \A b \in Directory : GoesOn(b)' = GoesOn(b)
    BY <2>1, <2>2 DEF GoesOn, LastPart
  <2>6. CleanInv'
    BY <2>1, <2>2, <2>3, <2>5
    DEF CleanInv, clean, Followed, NamesDiffer, NameIsFree, NoFailure, Removing
  <2> QED BY <2>4, <2>6
<1>2. CASE Next
  <2>1. ~OverwriteLost /\ LostByMirror
    BY DEF whole, OverwriteLost, TypeInv
  <2> QED
    BY <1>2, <2>1, BeginKeeps, ClaimKeeps, LookupKeeps, ScanFindsKeeps, ScanFindsNoneKeeps,
       ZeroKeeps, LinkKeeps, UnlinkKeeps, WriteKeeps, ReadBackKeeps, RemoveKeeps, ReleaseKeeps
    DEF Next, Step
<1> QED BY <1>1, <1>2

LEMMA InitRunInv == Init => RunInv /\ CleanInv
<1> SUFFICES ASSUME Init PROVE RunInv /\ CleanInv
  OBVIOUS
<1>1. Directory \subseteq Addresses
  BY InitSlotInv, DirectorySlots DEF SlotInv, TypeOK
<1>2. \A a \in Addresses : slot[a].kind \in {"end", "stale"}
  BY DEF Init, End, Stale, Blank
<1>3. Entries = {} /\ \A b \in Directory : slot[b].kind # "lfn"
  BY <1>1, <1>2 DEF Entries, Visible
<1>4. op.step = "idle" /\ op.why = "none" /\ result = "none"
  BY DEF Init, Idle
<1>5. RunInv
  BY <1>3, <1>4
  DEF RunInv, Trying, Chosen, RunsWhole, SoFar, OldStays, RollingBack, RemovesRun,
      Removing, Choosing
<1>6. CleanInv
  BY <1>3, <1>4 DEF CleanInv, Followed, NamesDiffer, NameIsFree, NoFailure, Choosing
<1> QED BY <1>5, <1>6

LEMMA RunInvAlways == Spec => [](TypeInv /\ (whole => SlotInv /\ RunInv /\ CleanInv))
<1> DEFINE Inv == whole => SlotInv /\ RunInv /\ CleanInv
<1>1. Init => Inv
  BY InitSlotInv, InitRunInv
<1>2. TypeInv /\ Inv /\ [Next]_vars => Inv'
  BY SlotInvStep, RunInvStep, LostForGood
<1> QED BY <1>1, <1>2, WholeInvAlways, PTL DEF Spec

LEMMA CleanIsWhole == TypeInv /\ clean => whole
BY DEF TypeInv, LostByMirror, clean, whole

(* In a directory that is whole an entry with a long name shows it at      *)
(* every instant, whatever fails and wherever the run crosses clusters;    *)
(* and while nothing has failed no long name leads to two entries.         *)
THEOREM LongNamesLead == Spec => []LongNamesLeadToTheirEntry
<1>1. ASSUME TypeInv, whole => SlotInv /\ RunInv /\ CleanInv
      PROVE  LongNamesLeadToTheirEntry
  <2>1. whole => \A a \in Entries : slot[a].name \in LongNames => RunNames(a, slot[a].name)
    BY <1>1 DEF RunInv, RunsWhole
  <2>2. ASSUME clean, NEW a \in Entries, NEW b \in Entries, a # b,
               NEW n \in LongNames, RunNames(a, n), RunNames(b, n)
        PROVE  FALSE
    <3>1. SlotInv /\ RunInv /\ CleanInv
      BY <1>1, <2>2, CleanIsWhole
    <3>2. slot[a].name = n /\ slot[b].name = n
      BY <2>2, <3>1, RunIsOwn
    <3> QED BY <2>2, <3>1, <3>2 DEF CleanInv, NamesDiffer
  <2> QED BY <2>1, <2>2 DEF LongNamesLeadToTheirEntry
<1> QED BY <1>1, RunInvAlways, PTL

(* While nothing has failed an operation is never left with a failure: the *)
(* three scans find a hole, the new entry is found again, no run breaks    *)
(* off in the middle.                                                      *)
THEOREM FailuresHaveReasons == Spec => []FailsForAReason
<1>1. TypeInv /\ (whole => SlotInv /\ RunInv /\ CleanInv) => FailsForAReason
  BY CleanIsWhole DEF CleanInv, NoFailure, FailsForAReason
<1> QED BY <1>1, RunInvAlways, PTL

(* In a directory that is whole a rename that wrote its new entry returns  *)
(* with one entry, also when the device failed once.                       *)
THEOREM RenamesLeaveOne == Spec => RenameLeavesOneAtMost
<1> DEFINE Leaves == RenameReturns => ~({op.old, NewEntry} \subseteq Entries')
<1>1. ASSUME SlotInv, RunInv, CleanInv, [Next]_vars, RenameReturns,
             {op.old, NewEntry} \subseteq Entries'
      PROVE  FALSE
  <2>1. /\ op.why = "rename" /\ op.step \in {"remove", "rollback"} /\ op' = Idle
        /\ faults' <= 1 /\ ~PowerFails /\ TypeOK /\ op \in Operation /\ Removing
    BY <1>1 DEF RenameReturns, SlotInv, TypeOK, Removing
  <2>2. RemoveRun
    <3>1. op # Idle /\ op' # op
      BY <2>1 DEF Idle
    <3>2. Step
      BY <1>1, <2>1, <3>1
      DEF Next, vars, CreateFile, CreateDirectory, Delete, Rename, OverwriteLost
    <3> QED
      BY <2>1, <3>2
      DEF Step, ClaimCluster, Lookup, ScanFinds, ScanFindsNone, ZeroNewCluster, LinkNewCluster,
          ReleaseNewCluster, WriteRun, ReadBack, FreeCluster, ReleaseObject
  <2>3. slot'[op.old].kind = "entry" /\ slot'[NewEntry].kind = "entry"
    BY <1>1 DEF Entries, Visible
  <2>4. op.old \in Directory /\ NewEntry \in Directory
    BY <1>1, <2>1 DEF SlotInv, OpInv, HasOld, HasNew
  <2>5. op'.step = "idle"
    BY <2>1 DEF Idle
  <2>6. CASE Fault /\ RemoveFails
    <3>1. op.step = "rollback"
      <4>1. op.step = "remove" => op'.step = "rollback"
        BY <2>1, <2>6 DEF RemoveFails, Operation
      <4> QED BY <2>1, <2>5, <4>1
    <3>2. faults > 0 /\ faults' = faults + 1 /\ faults \in Nat
      BY <1>1, <2>1, <2>6, <3>1, DirectoryAssumption DEF RunInv, RollingBack, Fault, TypeOK
    <3> QED BY <2>1, <3>2
  <2>7. CASE slot' = [a \in Addresses |-> IF a \in Doomed THEN Deleted ELSE slot[a]]
             /\ UNCHANGED clusters
    <3>1. /\ op.at \in Doomed /\ \A a \in Doomed : slot'[a].kind = "deleted"
          /\ \A a \in Directory : a \notin Doomed => slot'[a] = slot[a]
      BY <1>1, <2>1, <2>7, RunDeleted
    <3>2. CASE op.step = "remove"
      <4>1. op.at = op.old \/ slot[op.old].kind = "deleted"
        BY <1>1, <2>1, <3>2 DEF RunInv, OldStays
      <4> QED BY <2>3, <2>4, <3>1, <4>1
    <3>3. CASE op.step = "rollback"
      <4>1. op.at = NewEntry \/ slot[NewEntry].kind = "deleted"
        BY <1>1, <3>3 DEF RunInv, RollingBack
      <4> QED BY <2>3, <2>4, <3>1, <4>1
    <3> QED BY <2>1, <3>2, <3>3
  <2> QED BY <2>2, <2>6, <2>7 DEF RemoveRun
<1>2. RenameReturns => whole
  BY DEF RenameReturns
<1>3. (whole => SlotInv /\ RunInv /\ CleanInv) /\ [Next]_vars => [Leaves]_vars
  BY <1>1, <1>2
<1> QED BY <1>3, RunInvAlways, PTL DEF Spec, RenameLeavesOneAtMost
=============================================================================
