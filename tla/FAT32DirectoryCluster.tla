----------------------- MODULE FAT32DirectoryCluster -----------------------
(***************************************************************************)
(* The entries of one directory: creating, removing and renaming them      *)
(* (fat32_directory_cluster.cpp, with the operations of                    *)
(* fat32_directory.cpp that use it).                                       *)
(*                                                                         *)
(* A directory is a chain of clusters of SlotsPerCluster slots; addresses  *)
(* count slots from its start.  An object has an 8.3 entry, its alias,     *)
(* and, if its name is long, a run of long-name slots before it, which may *)
(* reach over the boundary of a cluster.  Clusters are written one by one; *)
(* each write is a step, may fail, and may be the last before the power    *)
(* fails.                                                                  *)
(*                                                                         *)
(* A name is an alias, if it has the 8.3 form, or a long name: what counts *)
(* of its characters is how many slots they fill and the alias they lead   *)
(* to.  A cluster is added in two steps: zeroed, then claimed and linked.  *)
(*                                                                         *)
(* With mirrored FATs a change of the FAT that fails may have reached the  *)
(* active FAT all the same.  A link that fails so is rolled back by        *)
(* freeing a cluster the chain already leads to: it is lost, and what is   *)
(* given that cluster next writes into the directory.                      *)
(***************************************************************************)
EXTENDS Integers, FiniteSets

CONSTANTS
    SlotsPerCluster,    \* entries_per_cluster_
    MaxClusters,        \* MaximumDirectoryClusters, or a volume that is full
    Bases,              \* the names aliases are derived from
    ShortNames,         \* names of the 8.3 form: <<base, numeric tail>>
    LongNames,
    Parts,              \* the long-name slots of each long name
    Base,               \* its basis
    NeedsTail,          \* whether the basis lost characters of the name
    Objects,            \* what an entry can lead to: first clusters
    NoName, NoObject,
    Mirrored,           \* whether mirrors of the active FAT are written
    MaxFaults           \* bound on failures of the device and of the power

K == SlotsPerCluster
Aliases == (Bases \cup {NoName}) \X Nat
Names == LongNames \cup ShortNames

Slot == [kind : {"end", "deleted", "lfn", "entry", "stale"},
         name : Names \cup {NoName}, part : Nat, alias : Aliases,
         object : Objects \cup {NoObject}]
NoAlias == <<NoName, 0>>
Blank == [kind |-> "end", name |-> NoName, part |-> 0, alias |-> NoAlias,
          object |-> NoObject]
End == Blank                                \* first byte 0x00
Deleted == [Blank EXCEPT !.kind = "deleted"]    \* first byte 0xE5
\* What a cluster holds that is not part of the directory yet.
Stale == [Blank EXCEPT !.kind = "stale"]

ASSUME DirectoryAssumption ==
    /\ SlotsPerCluster \in Nat \ {0} /\ MaxClusters \in Nat \ {0}
    /\ NoName \notin Bases \cup Names /\ NoObject \notin Objects
    /\ ShortNames \subseteq Bases \X Nat
    /\ LongNames \cap Aliases = {}
    /\ Parts \in [LongNames -> Nat \ {0}]
    /\ Base \in [LongNames -> Bases]
    /\ NeedsTail \in [LongNames -> BOOLEAN]
    /\ Mirrored \in BOOLEAN /\ MaxFaults \in Nat

\* A name of 20 parts and its alias fit into two clusters of 16 slots.
ASSUME LongNameAssumption ==
    \A n \in LongNames : Parts[n] + 1 <= 2 * SlotsPerCluster

Addresses == 0 .. (MaxClusters * K) - 1

VARIABLES
    slot,       \* on the device: the directory's slots, and what will hold them
    clusters,   \* on the device: the clusters linked to the directory
    lost,       \* on the device: those that were freed with the link left
    loose,      \* on the device: the FAT has the last one down as free
    allocated,  \* on the device: the objects whose cluster is allocated
    op,         \* the operation in progress, or Idle
    result,     \* how the last operation ended
    faults      \* failures of the device and of the power so far

chain == <<clusters, lost, loose>>
disk == <<slot, chain, allocated>>
vars == <<disk, op, result, faults>>

Steps == {"idle", "claim", "lookup", "scan", "zero", "link", "unlink", "write",
          "check", "undo", "free", "remove", "rollback", "release"}
\* `why` is the public operation; `start` the first slot of the run it writes
\* and `marker` whether the end marker moves behind it; `at` is where it
\* writes or deletes next; `old` the entry a rename or a delete removes.
Operation == [step : Steps, why : {"none", "file", "mkdir", "rename", "delete"},
              name : Names \cup {NoName}, alias : Aliases,
              object : Objects \cup {NoObject}, old : Addresses,
              tries : 0 .. 3, start : Addresses, marker : BOOLEAN,
              at : Addresses]
Idle == [step |-> "idle", why |-> "none", name |-> NoName, alias |-> NoAlias,
         object |-> NoObject, old |-> 0, tries |-> 0, start |-> 0,
         marker |-> FALSE, at |-> 0]

Directory == 0 .. (clusters * K) - 1
TypeOK ==
    /\ slot \in [Addresses -> Slot]
    /\ clusters \in 1 .. MaxClusters
    /\ lost \subseteq 0 .. MaxClusters - 1
    /\ loose \in BOOLEAN
    /\ allocated \subseteq Objects
    /\ op \in Operation
    /\ result \in {"none", "ok", "refused", "full", "failed"}
    /\ faults \in 0 .. MaxFaults
clean == faults = 0
\* Every cluster of the directory is its own.
whole == lost = {}

\* A new directory: one zeroed cluster; its entries . and .. are no names.
Init ==
    /\ slot = [a \in Addresses |-> IF a < K THEN End ELSE Stale]
    /\ allocated = {}
    /\ clusters = 1
    /\ lost = {}
    /\ loose = FALSE
    /\ op = Idle
    /\ result = "none"
    /\ faults = 0

-----------------------------------------------------------------------------
(* The directory as its iterators see it.                                  *)
Empty(a) == slot[a].kind \in {"end", "deleted"}
\* Entries behind the end marker do not exist.
Visible(a) == slot[a].kind = "entry" /\ \A b \in 0 .. a : slot[b].kind # "end"
Entries == {a \in Directory : Visible(a)}
LastPart(a) == slot[a].kind = "lfn" /\ slot[a].part = Parts[slot[a].name]

(* The run of k slots before a names a: it begins with the slot of the     *)
(* last part, counts down to 1, and carries the checksum of a's alias.     *)
RunNames(a, n) ==
    \A i \in 1 .. Parts[n] :
        /\ a - i >= 0
        /\ slot[a - i].kind = "lfn" /\ slot[a - i].name = n
        /\ slot[a - i].part = i /\ slot[a - i].alias = slot[a].alias

Answers(a, n) ==
    \/ n = slot[a].alias
    \/ n \in LongNames /\ RunNames(a, n)
\* Faulty variant: only aliases are compared.
InUse_AliasOnly(n) == \E a \in Entries : n = slot[a].alias
InUse(n) == \E a \in Entries : Answers(a, n)
\* FindDirectoryEntry: the first entry of its type that answers to the name.
SameType(a, b) == (slot[a].object = NoObject) = (slot[b].object = NoObject)
Finds(n, a) ==
    /\ a \in Entries
    /\ Answers(a, n)
    /\ \A b \in Entries : Answers(b, n) /\ SameType(a, b) => a <= b

-----------------------------------------------------------------------------
Fault == faults < MaxFaults /\ faults' = faults + 1
Return(how) == op' = Idle /\ result' = how
Goto(step) == op' = [op EXCEPT !.step = step] /\ UNCHANGED result

\* CreateEntry has failed: CreateDirectory frees its cluster, others return.
CreateFails(how) ==
    /\ op' = IF op.why = "mkdir" THEN [op EXCEPT !.step = "free"] ELSE Idle
    /\ result' = how

(* CreateFile and CreateDirectory; the directory's cluster is written and  *)
(* claimed before the entry is made.                                       *)
CreateFile(n) ==
    /\ op = Idle
    /\ op' = [Idle EXCEPT !.step = "lookup", !.why = "file", !.name = n]
    /\ UNCHANGED <<disk, result, faults>>

CreateDirectory(n, o) ==
    /\ op = Idle
    /\ o \notin allocated
    /\ op' = [Idle EXCEPT !.step = "claim", !.why = "mkdir", !.name = n,
                          !.object = o]
    /\ UNCHANGED <<disk, result, faults>>

\* A change of the FAT: done, or failed; with mirrors also failed and done.
Allocate(objects, Done, Failed) ==
    \/ allocated' = objects /\ Done /\ UNCHANGED faults
    \/ UNCHANGED allocated /\ Fault /\ Failed
    \/ Mirrored /\ allocated' = objects /\ Fault /\ Failed

ClaimCluster ==
    /\ op.step = "claim"
    /\ Allocate(allocated \cup {op.object}, Goto("lookup"), Return("failed"))
    /\ UNCHANGED <<slot, chain>>

(* RenameEntry: the new entry is created with the object of the old one,   *)
(* then the old one is removed.                                            *)
Rename(n, new, a) ==
    /\ op = Idle
    /\ Finds(n, a)
    /\ op' = [Idle EXCEPT !.step = "lookup", !.why = "rename", !.name = new,
                          !.object = slot[a].object, !.old = a]
    /\ UNCHANGED <<disk, result, faults>>

(* DeleteFile, RemoveDirectory.                                            *)
Delete(n, a) ==
    /\ op = Idle
    /\ Finds(n, a)
    /\ op' = [Idle EXCEPT !.step = "remove", !.why = "delete",
                          !.object = slot[a].object, !.old = a, !.at = a]
    /\ UNCHANGED <<disk, result, faults>>

-----------------------------------------------------------------------------
(* The alias of a new name: itself, or the basis, or the basis with the    *)
(* least numeric tail that no entry has.                                   *)
\* Faulty variant: the tail is the number of entries derived from the basis.
FreeTail_Counted(b, k) ==
    k = 1 + Cardinality({a \in Entries : slot[a].alias[1] = b
                                         /\ slot[a].alias[2] > 0})
FreeTail(b, k) ==
    /\ k > 0
    /\ \A a \in Entries : slot[a].alias # <<b, k>>
    /\ \A j \in 1 .. k - 1 : \E a \in Entries : slot[a].alias = <<b, j>>
AliasFor(n, alias) ==
    \/ n \in ShortNames /\ alias = n
    \/ /\ n \in LongNames
       /\ IF NeedsTail[n] \/ InUse(<<Base[n], 0>>)
          THEN \E k \in 1 .. Cardinality(Entries) + 1 :
                    FreeTail(Base[n], k) /\ alias = <<Base[n], k>>
          ELSE alias = <<Base[n], 0>>

Lookup ==
    /\ op.step = "lookup"
    /\ \/ Fault /\ CreateFails("failed")
       \/ InUse(op.name) /\ CreateFails("refused") /\ UNCHANGED faults
       \/ /\ ~InUse(op.name)
          /\ \E k \in 0 .. Cardinality(Entries) + 1, b \in Bases :
                /\ AliasFor(op.name, <<b, k>>)
                /\ op' = [op EXCEPT !.step = "scan", !.alias = <<b, k>>]
          /\ UNCHANGED <<result, faults>>
    /\ UNCHANGED disk

-----------------------------------------------------------------------------
\* The slots the new entry takes: its long-name run and itself.
Length == IF op.name \in LongNames THEN Parts[op.name] + 1 ELSE 1

(* A hole starts where the slot before it is in use.  A hole of deleted    *)
(* slots is used exactly; one that reaches the end marker must leave a     *)
(* slot for the marker.                                                    *)
\* Faulty variant: no slot is left for the end marker.
Fits_Exactly(a, n) == \A b \in a .. a + n - 1 : b \in Directory /\ Empty(b)
Fits(a, n) ==
    /\ \A b \in a .. a + n - 1 : b \in Directory /\ Empty(b)
    /\ \/ \A b \in a .. a + n - 1 : slot[b].kind # "end"
       \/ a + n \in Directory /\ Empty(a + n)
Hole(a, n) == Fits(a, n) /\ (a > 0 => ~Empty(a - 1))

\* Faulty variant: two scans, one cluster added between them.
ScanAgain_Once == op.tries < 1
\* After three scans without success FindEmptyBlockOfEntries gives up.
ScanAgain == op.tries < 2

\* FindEmptyBlockOfEntries: one scan, and a cluster more if it found no hole.
ScanFinds ==
    /\ op.step = "scan"
    /\ \/ Fault /\ CreateFails("failed")
       \/ /\ \E a \in Directory :
                /\ Hole(a, Length)
                /\ \A b \in Directory : Hole(b, Length) => a <= b
                /\ op' = [op EXCEPT !.step = "write", !.start = a, !.at = a,
                            !.marker = \E b \in a .. a + Length - 1 :
                                            slot[b].kind = "end"]
          /\ UNCHANGED <<result, faults>>
    /\ UNCHANGED disk

\* Faulty variant: nothing bounds the directory.
ScanFindsNone_Unbounded ==
    /\ op.step = "scan"
    /\ \A a \in Directory : ~Hole(a, Length)
    /\ Goto("zero")
    /\ UNCHANGED <<disk, faults>>
\* The scan follows the chain to its end; a free cluster has no next one.
ScanFindsNone ==
    /\ op.step = "scan"
    /\ \A a \in Directory : ~Hole(a, Length)
    /\ IF loose THEN CreateFails("failed")
       ELSE IF clusters = MaxClusters THEN CreateFails("full") ELSE Goto("zero")
    /\ UNCHANGED <<disk, faults>>

ClusterSlots(c) == c * K .. (c * K) + K - 1

(* AddNewCluster: a zeroed cluster is a run of end markers.                *)
ZeroNewCluster ==
    /\ op.step = "zero"
    /\ \/ Fault /\ CreateFails("failed") /\ UNCHANGED slot
       \/ /\ slot' = [a \in Addresses |->
                        IF a \in ClusterSlots(clusters) THEN End ELSE slot[a]]
          /\ Goto("link")
          /\ UNCHANGED faults
    /\ UNCHANGED <<chain, allocated>>

\* A link that failed is rolled back; one that is not in the active FAT leaves
\* nothing to be seen here.
LinkNewCluster ==
    /\ op.step = "link"
    /\ \/ Fault /\ CreateFails("failed") /\ UNCHANGED clusters
       \/ Mirrored /\ Fault /\ Goto("unlink") /\ clusters' = clusters + 1
       \/ /\ clusters' = clusters + 1
          /\ IF ScanAgain
             THEN /\ op' = [op EXCEPT !.step = "scan", !.tries = @ + 1]
                  /\ UNCHANGED result
             ELSE CreateFails("failed")
          /\ UNCHANGED faults
    /\ UNCHANGED <<slot, lost, loose, allocated>>

(* The rollback frees the cluster, in the active FAT at least, or fails:   *)
(* then the directory has grown.                                           *)
ReleaseNewCluster ==
    /\ op.step = "unlink"
    /\ CreateFails("failed")
    /\ \/ Fault /\ UNCHANGED <<lost, loose>>
       \/ /\ lost' = lost \cup {clusters - 1}
          /\ loose' = TRUE
          /\ Fault \/ UNCHANGED faults
    /\ UNCHANGED <<slot, clusters, allocated>>

(* A lost cluster is given to a file or a directory, which writes there:   *)
(* seen from this directory, slots that are none of its own, and end       *)
(* markers where the rest is zeros.                                        *)
OverwriteLost ==
    /\ op = Idle
    /\ \E c \in lost, n \in 1 .. K :
        /\ slot' = [a \in Addresses |->
                      IF a \notin ClusterSlots(c) THEN slot[a]
                      ELSE IF a < (c * K) + n THEN Stale ELSE End]
        /\ loose' = (loose /\ c # clusters - 1)
    /\ UNCHANGED <<clusters, lost, allocated, op, result, faults>>

-----------------------------------------------------------------------------
Behind == op.start + Length             \* the slot behind the new entry
NewEntry == op.start + Length - 1
Top(a) == ((a \div K) + 1) * K          \* the first slot of the next cluster

\* Faulty variant: the parts are written in ascending order.
\* What goes to slot a: the parts of the name in descending order, the entry.
NewSlot(a) ==
    IF a = NewEntry
    THEN [kind |-> "entry", name |-> op.name, part |-> 0, alias |-> op.alias,
          object |-> op.object]
    ELSE [kind |-> "lfn", name |-> op.name, part |-> NewEntry - a,
          alias |-> op.alias, object |-> NoObject]

\* Faulty variant: the end marker is written whether or not it was there.
Written_AlwaysMarked(a) ==
    IF a \in op.at .. Top(op.at) - 1 /\ a < Behind THEN NewSlot(a)
    ELSE IF a = Behind /\ a < Top(op.at) THEN End ELSE slot[a]
\* The slots after the cluster of op.at was written.
Written(a) ==
    IF a \in op.at .. Top(op.at) - 1 /\ a < Behind THEN NewSlot(a)
    ELSE IF a = Behind /\ a < Top(op.at) /\ op.marker THEN End ELSE slot[a]

(* WriteLFNSequenceAndClusterEntry, one cluster: when the run or the place *)
(* of the end marker goes beyond it, the next cluster has to be read.      *)
WriteRun ==
    /\ op.step = "write"
    /\ \/ Fault /\ CreateFails("failed") /\ UNCHANGED slot
       \/ /\ slot' = [a \in Addresses |-> Written(a)]
          /\ \/ Behind < Top(op.at) /\ Goto("check") /\ UNCHANGED faults
             \/ Behind >= Top(op.at) /\ Fault /\ CreateFails("failed")
             \/ /\ Behind >= Top(op.at)
                /\ IF Top(op.at) \in Directory
                   THEN op' = [op EXCEPT !.at = Top(op.at)] /\ UNCHANGED result
                   ELSE CreateFails("failed")
                /\ UNCHANGED faults
    /\ UNCHANGED <<chain, allocated>>

(* The new entry is read back through the ordinary lookup.                 *)
ReadBack ==
    /\ op.step = "check"
    /\ \/ /\ \/ Fault
             \/ ~Finds(op.name, NewEntry) /\ UNCHANGED faults
          /\ op' = [op EXCEPT !.step = "undo", !.at = NewEntry]
          /\ UNCHANGED result
       \/ /\ Finds(op.name, NewEntry)
          /\ IF op.why = "rename"
             THEN op' = [op EXCEPT !.step = "remove", !.at = op.old]
                  /\ UNCHANGED result
             ELSE Return("ok")
          /\ UNCHANGED faults
    /\ UNCHANGED disk

FreeCluster ==
    /\ op.step = "free"
    /\ Allocate(allocated \ {op.object}, Return(result), Return(result))
    /\ UNCHANGED <<slot, chain>>

-----------------------------------------------------------------------------
(* RemoveEntry: the slots of the cluster that belong to the entry, from    *)
(* op.at down to the slot of the name's last part or to a slot that is no  *)
(* part of a long name.                                                    *)
Doomed ==
    {a \in ClusterSlots(op.at \div K) :
        /\ a <= op.at
        /\ \A b \in a .. op.at - 1 : slot[b].kind = "lfn"
        /\ \A b \in a + 1 .. op.at : ~LastPart(b)}
\* The run goes on in the cluster before this one.
Below == ((op.at \div K) * K) - 1
ReachesBelow ==
    Below >= 0 /\ Below + 1 \in Doomed /\ ~LastPart(Below + 1)

Removed ==
    CASE op.step = "undo" -> CreateFails("failed")
      [] op.step = "rollback" -> Return("failed")
      [] op.why = "rename" -> Return("ok")
      [] OTHER -> IF op.object = NoObject THEN Return("ok") ELSE Goto("release")
\* Faulty variant: a failed rename leaves both entries.
RemoveFails_NoRollback ==
    IF op.step = "undo" THEN CreateFails("failed") ELSE Return("failed")
RemoveFails ==
    CASE op.step = "undo" -> CreateFails("failed")
      [] op.step = "remove" /\ op.why = "rename" ->
            /\ op' = [op EXCEPT !.step = "rollback", !.at = NewEntry]
            /\ UNCHANGED result
      [] OTHER -> Return("failed")

\* Faulty variant: the walk stays on the first slot of a cluster.
RemoveRun_Stays ==
    /\ op.step \in {"remove", "undo", "rollback"}
    /\ \/ Fault /\ RemoveFails /\ UNCHANGED slot
       \/ /\ slot' = [a \in Addresses |-> IF a \in Doomed THEN Deleted ELSE slot[a]]
          /\ \/ ~ReachesBelow /\ Removed /\ UNCHANGED faults
             \/ ReachesBelow /\ Fault /\ RemoveFails
             \/ /\ ReachesBelow
                /\ IF slot[Below].kind = "lfn"
                   THEN UNCHANGED <<op, result>>
                   ELSE Removed
                /\ UNCHANGED faults
    /\ UNCHANGED <<chain, allocated>>
RemoveRun ==
    /\ op.step \in {"remove", "undo", "rollback"}
    /\ \/ Fault /\ RemoveFails /\ UNCHANGED slot
       \/ /\ slot' = [a \in Addresses |-> IF a \in Doomed THEN Deleted ELSE slot[a]]
          /\ \/ ~ReachesBelow /\ Removed /\ UNCHANGED faults
             \/ ReachesBelow /\ Fault /\ RemoveFails
             \/ /\ ReachesBelow
                /\ IF slot[Below].kind = "lfn"
                   THEN op' = [op EXCEPT !.at = Below] /\ UNCHANGED result
                   ELSE Removed
                /\ UNCHANGED faults
    /\ UNCHANGED <<chain, allocated>>

\* ReleaseChain frees the first cluster first; it may fail at a later one.
ReleaseObject ==
    /\ op.step = "release"
    /\ \/ Fault /\ Return("failed")
          /\ allocated' \in {allocated, allocated \ {op.object}}
       \/ /\ allocated' = allocated \ {op.object}
          /\ Return("ok")
          /\ UNCHANGED faults
    /\ UNCHANGED <<slot, chain>>

-----------------------------------------------------------------------------
(* The power fails in the middle of an operation.                          *)
PowerFails ==
    /\ op # Idle
    /\ Fault
    /\ op' = Idle
    /\ result' = "none"
    /\ UNCHANGED disk

Step ==
    \/ ClaimCluster \/ Lookup \/ ScanFinds \/ ScanFindsNone
    \/ ZeroNewCluster \/ LinkNewCluster \/ ReleaseNewCluster
    \/ WriteRun \/ ReadBack \/ FreeCluster \/ RemoveRun \/ ReleaseObject

Next ==
    \/ \E n \in Names :
        \/ CreateFile(n)
        \/ \E o \in Objects : CreateDirectory(n, o)
        \/ \E a \in Addresses :
            \/ Delete(n, a)
            \/ \E new \in Names : Rename(n, new, a)
    \/ Step
    \/ OverwriteLost
    \/ PowerFails

Spec == Init /\ [][Next]_vars

\* The operations are loops that hold the processor and the volume's lock.
FairSpec == Spec /\ WF_vars(Step)

-----------------------------------------------------------------------------
(* As long as the directory is whole, no two entries have one alias,       *)
(* whatever failed before: the alias is chosen from one scan and written   *)
(* after others (CreateEntry).                                             *)
AliasesAreUnique ==
    whole => \A a, b \in Entries : a # b => slot[a].alias # slot[b].alias

(* An entry created under a long name shows that name at every instant, as *)
(* long as the directory is whole: its run is on the device before it and  *)
(* removed after it, also when a failure comes between the clusters of the *)
(* run.  As long as nothing has failed no long name leads to two entries   *)
(* ("Names are unique within a directory whatever the entry type, against  *)
(* both long names and 8.3 aliases", FAT32DirectoryCluster::CreateEntry).  *)
LongNamesLeadToTheirEntry ==
    /\ whole => \A a \in Entries :
                    slot[a].name \in LongNames => RunNames(a, slot[a].name)
    /\ clean => \A a, b \in Entries : a # b =>
                 \A n \in LongNames : ~(RunNames(a, n) /\ RunNames(b, n))

(* As long as the directory is whole: behind the end marker lies nothing,  *)
(* it ends with one, and no cluster is linked before it was zeroed (the    *)
(* slot FindEmptyBlockOfEntries keeps for the marker; AddNewCluster).      *)
EndsWithMarker ==
    whole =>
        /\ \A a, b \in Directory :
              slot[a].kind = "end" /\ a <= b => slot[b].kind = "end"
        /\ slot[(clusters * K) - 1].kind = "end"
        /\ \A a \in Directory : slot[a].kind # "stale"

(* In a directory that is whole no entry appears, changes or goes away but *)
(* the one the operation is about: a run never overwrites a slot in use,   *)
(* the end marker never cuts off an entry, removal stops at the name's     *)
(* first slot.                                                             *)
OthersSurvive ==
    [][whole =>
        /\ Entries \ Entries' \subseteq {op.at}
        /\ Entries' \ Entries \subseteq {NewEntry}
        /\ \A a \in Entries \cap Entries' : slot'[a] = slot[a]]_vars

(* Without a failure of the device an operation fails only because a name  *)
(* is in use or the directory cannot grow; three scans are enough for the  *)
(* longest name.                                                           *)
FailsForAReason == clean /\ op = Idle => result # "failed"

(* A rename whose new entry was written returns with one of the two        *)
(* entries gone, also when the device failed once ("remove the new one     *)
(* rather than leave the chain cross-linked", FAT32Directory::RenameEntry), *)
(* in a directory that is whole.                                           *)
RenameReturns ==
    /\ op.why = "rename" /\ op.step \in {"remove", "rollback"}
    /\ op' = Idle
    /\ whole /\ faults' <= 1 /\ ~PowerFails
RenameLeavesOneAtMost ==
    [][RenameReturns => ~({op.old, NewEntry} \subseteq Entries')]_vars

(* ... and with the other one still there ("Exactly one entry may          *)
(* reference the file's chain: the original", the test of a failed rename). *)
RenameKeepsTheObject ==
    [][RenameReturns => {op.old, NewEntry} \cap Entries' # {}]_vars

(* No entry leads to a cluster that is free ("callers roll back their own  *)
(* state on failure - e.g. free a new directory's cluster - and must not   *)
(* leave an entry pointing at it", FAT32DirectoryCluster::CreateEntry).    *)
NoEntryOnFreeCluster ==
    \A a \in Entries : slot[a].object \in allocated \cup {NoObject}

EveryCallReturns == (op # Idle) ~> (op = Idle)
=============================================================================
