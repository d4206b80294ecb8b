----------------------------- MODULE FAT32File -----------------------------
(***************************************************************************)
(* Files of one volume: opening, seeking, reading, writing, closing and    *)
(* deleting them (fat32_file.cpp, with the parts of fat32_directory.cpp    *)
(* that create, update and remove a file's directory entry).               *)
(*                                                                         *)
(* Every operation runs under the lock of the volume, so operations do not *)
(* interleave; inside one, each change of the device is a step of its own, *)
(* may fail, and may be the last thing that happens before a power         *)
(* failure.  The table is the one FatTable describes: a failed update may  *)
(* have changed the entry when the FAT is mirrored (the write to the copy  *)
(* that is read succeeded, a later one did not).                           *)
(*                                                                         *)
(* A byte of data is the pair <<file, offset>> it was written for, so what *)
(* lies at an offset tells whether it belongs there.                       *)
(***************************************************************************)
EXTENDS FatEntries, FiniteSets

CONSTANTS
    Files,              \* the files: names in one directory
    NoFile,
    BytesPerCluster,
    MaxFileSize,        \* 0xFFFFFFFF in the code
    SeekTargets,        \* the positions callers seek
    MaxLength,          \* bound on the length of a read or a write
    Mirrored,           \* mirror_fats_ with several FATs
    AppendModes,        \* whether files are opened for append
    MaxOpen,            \* bound on the files open at a time
    MaxFaults           \* bound on failures of the device and of the power

ASSUME FileAssumption ==
    /\ NoFile \notin Files
    /\ BytesPerCluster \in Nat \ {0}
    /\ MaxFileSize \in Nat /\ MaxLength \in Nat
    /\ MaxOpen \in Nat /\ AppendModes \subseteq BOOLEAN
    /\ SeekTargets \subseteq Nat
    /\ Mirrored \in BOOLEAN /\ MaxFaults \in Nat

None == 0               \* first cluster of a file that has no chain
Garbage == <<NoFile, 0>>
Byte == {Garbage} \cup (Files \X Nat)
Places == 0 .. BytesPerCluster - 1

VARIABLES
    table,      \* on the device: the FAT
    data,       \* on the device: the bytes of each cluster
    exists,     \* on the device: the files that have an entry
    first,      \* on the device: first cluster of the entry
    size,       \* on the device: size of the entry
    handle,     \* the open file of each name, or Closed
    last_empty, \* in memory: the high-water mark of the allocator
    op,         \* the operation in progress, or Idle
    faults      \* failures of the device and of the power so far

disk == <<table, data, exists, first, size>>
vars == <<disk, handle, last_empty, op, faults>>

\* FAT32File: current_cluster_ and the two offsets are the position; marked
\* is marked_archive_.
Handle == [open : BOOLEAN, append : BOOLEAN, size : Nat,
           first : {None} \cup Clusters, current : Entry,
           in_cluster : 0 .. BytesPerCluster, in_file : Nat,
           marked : BOOLEAN]
Closed == [open |-> FALSE, append |-> FALSE, size |-> 0, first |-> None,
           current |-> None, in_cluster |-> 0, in_file |-> 0,
           marked |-> FALSE]

\* The step an operation is at, and its locals: the bytes it has still to
\* move, the position it seeks, the new cluster of a write or the next
\* cluster of a release.
Steps == {"idle", "seek", "append", "read", "write", "first", "set_first",
          "next", "link", "rollback", "update_entry", "release"}
Operation == [step : Steps, file : Files \cup {NoFile}, remaining : Nat,
              target : Nat, pending : Entry]
Idle == [step |-> "idle", file |-> NoFile, remaining |-> 0, target |-> 0,
         pending |-> Free]

TypeOK ==
    /\ table \in [Clusters -> Entry]
    /\ data \in [Clusters -> [Places -> Byte]]
    /\ exists \subseteq Files
    /\ first \in [Files -> {None} \cup Clusters]
    /\ size \in [Files -> Nat]
    /\ handle \in [Files -> Handle]
    /\ last_empty \in {0} \cup Clusters
    /\ op \in Operation
    /\ op.step # "idle" => op.file \in Files
    /\ faults \in 0 .. MaxFaults

h == handle[op.file]
clean == faults = 0
FreeClusters == {c \in Clusters : table[c] = Free}

(* A volume just formatted, whose cluster 2 holds the directory.           *)
Init ==
    /\ table = [c \in Clusters |-> IF c = 2 THEN EOF ELSE Free]
    /\ data = [c \in Clusters |-> [i \in Places |-> Garbage]]
    /\ exists = {}
    /\ first = [f \in Files |-> None]
    /\ size = [f \in Files |-> 0]
    /\ handle = [f \in Files |-> Closed]
    /\ last_empty = 0
    /\ op = Idle
    /\ faults = 0

-----------------------------------------------------------------------------
\* An operation starts on a file, takes its next step, or returns: without
\* a failure of the device, or because of one.
Begin(step, f, length, position) ==
    op' = [step |-> step, file |-> f, remaining |-> length,
           target |-> position, pending |-> Free]
Goto(step) ==
    op' = [op EXCEPT !.step = step, !.pending = Free] /\ UNCHANGED faults
Return == op' = Idle /\ UNCHANGED faults
Fault == faults < MaxFaults /\ faults' = faults + 1
Fail == Fault /\ op' = Idle

(* UpdateFATTableEntry as FatTable promises it: done, failed before the    *)
(* entry changed, or failed after (ok and fail are the continuations).     *)
UpdateFATTableEntry(c, v, ok, fail) ==
    \/ table' = [table EXCEPT ![c] = v] /\ ok
    \/ UNCHANGED table /\ fail
    \/ Mirrored /\ table' = [table EXCEPT ![c] = v] /\ fail

\* What a cluster holds is of no use to anyone once it is being freed.
ForgetBytes(c) == data' = [data EXCEPT ![c] = [i \in Places |-> Garbage]]

-----------------------------------------------------------------------------
MayOpen == Cardinality({f \in Files : handle[f].open}) < MaxOpen

(* OpenFile with CREATE: the entry is made, then the handle.  CreateEntry  *)
(* may fail after it wrote the entry.                                      *)
CreateFile(f, append) ==
    /\ op = Idle
    /\ MayOpen
    /\ f \notin exists
    /\ \/ /\ exists' = exists \cup {f}
          /\ handle' = [handle EXCEPT ![f] =
                            [Closed EXCEPT !.open = TRUE, !.append = append]]
          /\ Return
       \/ /\ exists' \in {exists, exists \cup {f}}
          /\ Fail
          /\ UNCHANGED handle
    /\ UNCHANGED <<table, data, first, size, last_empty>>

(* OpenFile of an entry that exists; a handle that may write excludes any  *)
(* other of the file.                                                      *)
OpenFile(f, append) ==
    /\ op = Idle
    /\ MayOpen
    /\ f \in exists
    /\ ~handle[f].open
    /\ handle' = [handle EXCEPT ![f] =
                    [Closed EXCEPT !.open = TRUE, !.append = append,
                                   !.size = size[f], !.first = first[f],
                                   !.current = first[f]]]
    /\ UNCHANGED <<disk, op, faults, last_empty>>

Close(f) ==
    /\ op = Idle
    /\ handle[f].open
    /\ handle' = [handle EXCEPT ![f] = Closed]
    /\ UNCHANGED <<disk, op, faults, last_empty>>

\* Faulty variant: a file is deleted without asking whether it is open.
DeleteFile_WhileOpen(f) ==
    /\ op = Idle
    /\ f \in exists
    /\ exists' = exists \ {f}
    /\ first' = [first EXCEPT ![f] = None]
    /\ size' = [size EXCEPT ![f] = 0]
    /\ IF first[f] = None THEN Return
       ELSE /\ op' = [Idle EXCEPT !.step = "release", !.file = f,
                                  !.pending = first[f]]
            /\ UNCHANGED faults
    /\ UNCHANGED <<table, data, handle, last_empty>>
(* DeleteFile: the entry goes first, then the chain is released.  A failed *)
(* RemoveEntry may have removed the entry all the same.                    *)
DeleteFile(f) ==
    /\ op = Idle
    /\ f \in exists
    /\ ~handle[f].open
    /\ \/ /\ exists' = exists \ {f}
          /\ first' = [first EXCEPT ![f] = None]
          /\ size' = [size EXCEPT ![f] = 0]
          /\ \/ Fail
             \/ first[f] = None /\ Return
             \/ /\ first[f] # None
                /\ op' = [Idle EXCEPT !.step = "release", !.file = f,
                                      !.pending = first[f]]
                /\ UNCHANGED faults
       \/ Fail /\ UNCHANGED <<exists, first, size>>
    /\ UNCHANGED <<table, data, handle, last_empty>>

\* Faulty variant: only the first cluster of the chain is freed.
ReleaseNext_FirstOnly ==
    /\ op.step = "release"
    /\ ForgetBytes(op.pending)
    /\ UpdateFATTableEntry(op.pending, Free, Return, Fail)
    /\ UNCHANGED <<exists, first, size, handle, last_empty>>
(* One turn of ReleaseChain's loop.                                        *)
ReleaseNext ==
    /\ op.step = "release"
    /\ LET c == op.pending IN
         IF OutOfRange(c)
         THEN Return /\ UNCHANGED <<table, data>>
         ELSE /\ ForgetBytes(c)
              /\ UpdateFATTableEntry(c, Free,
                   IF EndOfChain(table[c]) THEN Return
                   ELSE /\ op' = [op EXCEPT !.pending = table[c]]
                        /\ UNCHANGED faults,
                   Fail)
    /\ UNCHANGED <<exists, first, size, handle, last_empty>>

-----------------------------------------------------------------------------
SmallerOf(a, b) == IF a < b THEN a ELSE b
\* Faulty variant: going back to the start keeps the offset in the cluster.
FileStart(x) == [x EXCEPT !.current = x.first, !.in_cluster = 0,
                          !.in_file = 0]
Advance(x, n) == [x EXCEPT !.in_cluster = @ + n, !.in_file = @ + n]
SetHandle(x) == handle' = [handle EXCEPT ![op.file] = x]

(* NextClusterInChain of the cluster a handle stands on: an error, the end *)
(* of the chain (done), or the next cluster (more).                        *)
NextCluster(x, done, more) ==
    IF OutOfRange(x.current) THEN Return /\ SetHandle(x)
    ELSE \/ Fail /\ SetHandle(x)
         \/ EndOfChain(table[x.current]) /\ done /\ SetHandle(x)
         \/ /\ ~EndOfChain(table[x.current])
            /\ more
            /\ SetHandle([x EXCEPT !.current = table[x.current],
                                   !.in_cluster = 0])

(* Seek, up to its loop: an empty file is at its end already, position 0   *)
(* is the start, a position before the current one is reached from there.  *)
(* A seek that belongs to a write of some length goes on to that write.    *)
StartSeek(f, position, length) ==
    /\ op = Idle
    /\ handle[f].open
    /\ LET x == handle[f]
           p == SmallerOf(position, x.size)
           arrived == IF length = 0 THEN UNCHANGED op
                      ELSE Begin("append", f, length, 0)
       IN \/ /\ x.current = None
             /\ arrived
             /\ UNCHANGED handle
          \/ /\ x.current # None /\ position = 0
             /\ handle' = [handle EXCEPT ![f] = FileStart(x)]
             /\ arrived
          \/ /\ x.current # None /\ position # 0
             /\ handle' = [handle EXCEPT ![f] =
                             IF p < x.in_file THEN FileStart(x) ELSE x]
             /\ Begin("seek", f, length, p)
    /\ UNCHANGED <<disk, faults, last_empty>>

Seek(f, position) == StartSeek(f, position, 0)

\* Faulty variant: the end of the cluster does not limit the distance.
SeekDistance_ToTheTarget == op.target - h.in_file
\* How far one turn of the loop goes: to the target or the cluster's end.
SeekDistance ==
    SmallerOf(BytesPerCluster - h.in_cluster, op.target - h.in_file)

\* A seek that belongs to a write goes on to it.
SeekDone ==
    IF op.remaining = 0 THEN Return
    ELSE Begin("append", op.file, op.remaining, 0) /\ UNCHANGED faults

\* Faulty variants: one move to the next cluster ends the seek, and a full
\* cluster is left only when the offset is beyond its end.
SeekStep_NoLoop ==
    /\ op.step = "seek"
    /\ LET x == Advance(h, SeekDistance)
       IN IF x.in_file >= op.target THEN SeekDone /\ SetHandle(x)
          ELSE NextCluster(x, SeekDone, SeekDone)
    /\ UNCHANGED <<disk, last_empty>>
SeekStep_StaysInCluster ==
    /\ op.step = "seek"
    /\ LET x == Advance(h, SeekDistance)
       IN IF x.in_file >= op.target THEN SeekDone /\ SetHandle(x)
          ELSE IF x.in_cluster > BytesPerCluster
          THEN NextCluster(x, SeekDone, Goto("seek"))
          ELSE Goto("seek") /\ SetHandle(x)
    /\ UNCHANGED <<disk, last_empty>>
SeekStep ==
    /\ op.step = "seek"
    /\ LET x == Advance(h, SeekDistance)
       IN IF x.in_file >= op.target THEN SeekDone /\ SetHandle(x)
          ELSE NextCluster(x, SeekDone, Goto("seek"))
    /\ UNCHANGED <<disk, last_empty>>

-----------------------------------------------------------------------------
(* Read: of the cluster the handle stands on, the bytes up to its end, the *)
(* end of the file and the room left in the buffer.                        *)
Read(f, length) ==
    /\ op = Idle
    /\ handle[f].open
    /\ handle[f].current # None
    /\ Begin("read", f, length, 0)
    /\ UNCHANGED <<disk, handle, faults, last_empty>>

\* The code subtracts in 32 bits: past the end the difference is huge.
BytesLeftInFile ==
    IF h.in_file <= h.size THEN h.size - h.in_file ELSE MaxFileSize
BytesToRead ==
    SmallerOf(op.remaining,
              SmallerOf(BytesPerCluster - h.in_cluster, BytesLeftInFile))

ReadStep ==
    /\ op.step = "read"
    /\ LET x == Advance(h, BytesToRead)
           left == op.remaining - BytesToRead
           more == IF left = 0 THEN Return
                   ELSE op' = [op EXCEPT !.remaining = left] /\ UNCHANGED faults
       IN \/ OutOfRange(h.current) /\ Return /\ UNCHANGED handle
          \/ Fail /\ UNCHANGED handle
          \/ /\ ~OutOfRange(h.current)
             /\ IF x.in_file >= x.size THEN Return /\ SetHandle(x)
                ELSE IF x.in_cluster < BytesPerCluster
                THEN more /\ SetHandle(x)
                ELSE NextCluster(x, Return, more)
    /\ UNCHANGED <<disk, last_empty>>

-----------------------------------------------------------------------------
\* Where a write of some length starts, with the handle in place.
FirstStep(x) == IF x.current = None THEN "first" ELSE "write"
FitsInFile(x, length) == x.in_file + length <= MaxFileSize

(* Write: an append handle seeks to the end first, others write where they *)
(* stand.  Append is the same on any handle.                               *)
Write(f, length) ==
    \/ handle[f].append /\ StartSeek(f, handle[f].size, length)
    \/ /\ op = Idle
       /\ ~handle[f].append
       /\ handle[f].open
       /\ FitsInFile(handle[f], length)
       /\ Begin(FirstStep(handle[f]), f, length, 0)
       /\ UNCHANGED <<disk, handle, faults, last_empty>>

AppendToFile(f, length) == StartSeek(f, handle[f].size, length)

AppendHere ==
    /\ op.step = "append"
    /\ IF FitsInFile(h, op.remaining) THEN Goto(FirstStep(h)) ELSE Return
    /\ UNCHANGED <<disk, handle, last_empty>>

\* Faulty variant: a search that wrapped answers cluster 2 without a look.
NextEmpty_WrapsBlindly(start, c) ==
    IF \E d \in FreeClusters : d >= start
    THEN /\ c \in FreeClusters /\ c >= start
         /\ \A d \in FreeClusters : d >= start => c <= d
    ELSE c = 2
(* FindNextEmptyCluster: the first free cluster from where the search      *)
(* starts, or else from the beginning.                                     *)
NextEmpty(start, c) ==
    /\ c \in FreeClusters
    /\ IF \E d \in FreeClusters : d >= start
       THEN c >= start /\ \A d \in FreeClusters : d >= start => c <= d
       ELSE \A d \in FreeClusters : c <= d

\* The search may come back empty-handed: no cluster is free, or none from
\* where it starts and the FAT ends with a full block (the search fails at
\* the end of such a FAT instead of going back to its beginning).
NoneFrom(start) == \A d \in FreeClusters : d < start /\ start <= MaxCluster

\* Faulty variant: the cluster is linked before it is claimed.
Claim_LinkFirst(step, start) ==
    \/ NoneFrom(start) /\ Return /\ UNCHANGED <<table, last_empty>>
    \/ \E c \in Clusters :
        /\ NextEmpty(start, c)
        /\ last_empty' = IF c > last_empty THEN c ELSE last_empty
        /\ op' = [op EXCEPT !.step = step, !.pending = c]
        /\ UNCHANGED <<faults, table>>
(* The search, and the update that claims the cluster it found.            *)
Claim(step, start) ==
    \/ NoneFrom(start) /\ Return /\ UNCHANGED <<table, last_empty>>
    \/ Fail /\ UNCHANGED <<table, last_empty>>
    \/ \E c \in Clusters :
        /\ NextEmpty(start, c)
        /\ last_empty' = IF c > last_empty THEN c ELSE last_empty
        /\ UpdateFATTableEntry(c, EOF,
             op' = [op EXCEPT !.step = step, !.pending = c] /\ UNCHANGED faults,
             Fail)

(* An empty file gets its first cluster: claimed in the FAT, then entered  *)
(* in the directory.                                                       *)
ClaimFirstCluster ==
    /\ op.step = "first"
    /\ Claim("set_first", last_empty)
    /\ UNCHANGED <<data, exists, first, size, handle>>

\* Faulty variant: the entry gets the first cluster, the handle only stands
\* on it.
SetDirectoryEntryFirstCluster_DiskOnly ==
    /\ op.step = "set_first"
    /\ \/ Fail /\ UNCHANGED <<first, handle>>
       \/ /\ first' = [first EXCEPT ![op.file] = op.pending]
          /\ SetHandle([h EXCEPT !.current = op.pending])
          /\ Goto("write")
    /\ UNCHANGED <<table, data, exists, size, last_empty>>
SetDirectoryEntryFirstCluster ==
    /\ op.step = "set_first"
    /\ \/ Fail /\ UNCHANGED <<first, handle>>
       \/ /\ first' = [first EXCEPT ![op.file] = op.pending]
          /\ SetHandle([h EXCEPT !.first = op.pending, !.current = op.pending])
          /\ Goto("write")
    /\ UNCHANGED <<table, data, exists, size, last_empty>>

(* One turn of the write loop.  The cluster is read first unless every     *)
(* byte of it is replaced.                                                 *)
BytesToCopy == SmallerOf(BytesPerCluster - h.in_cluster, op.remaining)
\* Faulty variant: the end of the cluster is not looked at.
OverwritesWholeCluster_AtStart == h.in_cluster = 0
OverwritesWholeCluster == h.in_cluster = 0 /\ BytesToCopy = BytesPerCluster
BlockBuffer == IF OverwritesWholeCluster THEN [i \in Places |-> Garbage]
               ELSE data[h.current]

WriteCluster ==
    /\ op.step = "write"
    /\ \/ OutOfRange(h.current) /\ Return /\ UNCHANGED <<data, handle>>
       \/ Fail /\ UNCHANGED <<data, handle>>
       \/ /\ ~OutOfRange(h.current)
          /\ data' = [data EXCEPT ![h.current] =
                [i \in Places |->
                    IF i \in h.in_cluster .. h.in_cluster + BytesToCopy - 1
                    THEN <<op.file, (h.in_file + i) - h.in_cluster>>
                    ELSE BlockBuffer[i]]]
          /\ SetHandle(Advance(h, BytesToCopy))
          /\ op' = [op EXCEPT
                !.remaining = @ - BytesToCopy,
                !.step = IF BytesToCopy = op.remaining THEN "update_entry"
                         ELSE "next"]
          /\ UNCHANGED faults
    /\ UNCHANGED <<table, exists, first, size, last_empty>>

(* There is more to write: on to the next cluster of the chain, or, at its *)
(* end, a free cluster is claimed.                                         *)
MoveToNextCluster ==
    /\ op.step = "next"
    /\ NextCluster(h, FALSE, Goto("write"))
    /\ UNCHANGED <<disk, last_empty>>

ClaimNextCluster ==
    /\ op.step = "next"
    /\ ~OutOfRange(h.current)
    /\ EndOfChain(table[h.current])
    /\ Claim("link", h.current + 1)
    /\ UNCHANGED <<data, exists, first, size, handle>>

(* The claimed cluster is linked; if that fails it is released again, as   *)
(* far as that is possible.                                                *)
LinkNextCluster ==
    /\ op.step = "link"
    /\ UpdateFATTableEntry(h.current, op.pending,
         /\ SetHandle([h EXCEPT !.current = op.pending, !.in_cluster = 0])
         /\ Goto("write"),
         /\ Fault
         /\ op' = [op EXCEPT !.step = "rollback"]
         /\ UNCHANGED handle)
    /\ UNCHANGED <<data, exists, first, size, last_empty>>

ReleaseUnlinkedCluster ==
    /\ op.step = "rollback"
    /\ ForgetBytes(op.pending)
    /\ UpdateFATTableEntry(op.pending, Free, Return, Fail)
    /\ UNCHANGED <<exists, first, size, handle, last_empty>>

(* The entry is written if the file grew, or for ATTR_ARCHIVE with the     *)
(* first change made through the handle.  The handle's copy grows first.   *)
UpdateDirectoryEntrySize ==
    /\ op.step = "update_entry"
    /\ LET grew == h.in_file > h.size
           x == IF grew THEN [h EXCEPT !.size = h.in_file] ELSE h
       IN \/ ~grew /\ h.marked /\ Return /\ UNCHANGED <<size, handle>>
          \/ /\ grew \/ ~h.marked
             /\ \/ Fail /\ SetHandle(x) /\ UNCHANGED size
                \/ /\ size' = [size EXCEPT ![op.file] = x.size]
                   /\ SetHandle([x EXCEPT !.marked = TRUE])
                   /\ Return
    /\ UNCHANGED <<table, data, exists, first, last_empty>>

-----------------------------------------------------------------------------
(* The volume is unmounted, or power fails: the handles are gone.          *)
Remount ==
    /\ IF op = Idle THEN UNCHANGED faults ELSE Fault
    /\ op' = Idle
    /\ handle' = [f \in Files |-> Closed]
    /\ last_empty' = 0
    /\ UNCHANGED disk

Step ==
    \/ ReleaseNext \/ SeekStep \/ ReadStep \/ AppendHere
    \/ ClaimFirstCluster \/ SetDirectoryEntryFirstCluster
    \/ WriteCluster \/ MoveToNextCluster \/ ClaimNextCluster
    \/ LinkNextCluster \/ ReleaseUnlinkedCluster \/ UpdateDirectoryEntrySize

Next ==
    \/ \E f \in Files :
        \/ \E append \in AppendModes : CreateFile(f, append) \/ OpenFile(f, append)
        \/ Close(f) \/ DeleteFile(f)
        \/ \E p \in SeekTargets : Seek(f, p)
        \/ \E n \in 1 .. MaxLength : Read(f, n) \/ Write(f, n) \/ AppendToFile(f, n)
    \/ Step
    \/ Remount

Spec == Init /\ [][Next]_vars

\* The operations are loops that hold the processor and the volume's lock.
FairSpec == Spec /\ WF_vars(Step)

-----------------------------------------------------------------------------
(* The entries met when a chain is followed: walk[n] is the n-th cluster   *)
(* after c, or what ended the chain.                                       *)
Chain(c) ==
    LET walk[n \in 0 .. MaxCluster - 2] ==
            IF n = 0 THEN c
            ELSE LET d == walk[n - 1] IN
                 IF OutOfRange(d) THEN EOF ELSE table[d]
    IN walk
ChainClusters(f) ==
    LET walk == Chain(first[f])
    IN {walk[n] : n \in 0 .. MaxCluster - 2} \cap Clusters

(* Neither an entry nor a link names a free cluster, which the allocator   *)
(* would hand to another file ("Claiming first means the chain never       *)
(* points at a free cluster", FAT32File::Write; DeleteFile removes the     *)
(* entry before it releases the chain).                                    *)
NoLinkToFreeCluster ==
    /\ \A f \in exists : first[f] # None => table[first[f]] # Free
    /\ \A c \in Clusters : table[c] \in Clusters => table[table[c]] # Free

(* No cluster is named twice: by two entries, by two links or by an entry  *)
(* and a link, and nothing names the cluster of the directory.  So no two  *)
(* chains meet, those of deleted files and leaked ones included.           *)
NoCrossLinks ==
    /\ \A f, g \in exists : first[f] = first[g] /\ first[f] # None => f = g
    /\ \A c, d \in Clusters : table[c] = table[d] /\ table[c] \in Clusters => c = d
    /\ \A f \in exists, c \in Clusters : table[c] = first[f] => first[f] = None
    /\ \A f \in exists : first[f] # 2
    /\ \A c \in Clusters : table[c] # 2

\* The byte at offset o of file f is where the chain leads, and it is the
\* byte that was written for that offset.
InPlace(f, o) ==
    LET c == Chain(first[f])[o \div BytesPerCluster] IN
    c \in Clusters /\ data[c][o % BytesPerCluster] = <<f, o>>

(* As long as no device access has failed, every byte below the size on    *)
(* the device is in its place - also between the steps of an operation,    *)
(* and when the volume was full in the middle of a write - and what a read *)
(* takes from inside the file is what lies at that offset, wherever seeks, *)
(* reads and writes left the handle.                                       *)
EveryByteInPlace ==
    clean =>
        /\ \A f \in exists : \A o \in 0 .. size[f] - 1 : InPlace(f, o)
        /\ op.step = "read" => \A i \in 0 .. BytesToRead - 1 :
              h.in_file + i < h.size =>
                  data[h.current][h.in_cluster + i] = <<op.file, h.in_file + i>>

(* A byte that is on the device, below the size and in place, stays so     *)
(* until its file is deleted: through writes, failures and crashes, of     *)
(* this file and of the others.                                            *)
StoredBytesSurvive ==
    [][disk' # disk =>
        \A f \in exists \cap exists' : \A o \in 0 .. size[f] - 1 :
            InPlace(f, o) => o < size'[f] /\ InPlace(f, o)']_vars

(* As long as no device access has failed, also when the volume was full,  *)
(* an idle volume has leaked no cluster: those in use are the directory's  *)
(* and those of the files.                                                 *)
NothingLeaks ==
    clean /\ op = Idle =>
        Clusters \ FreeClusters = {2} \cup UNION {ChainClusters(f) : f \in exists}

(* As long as no device access has failed, an idle handle knows the size   *)
(* and the first cluster its entry has on the device.                      *)
HandlesKnowTheirEntry ==
    clean /\ op = Idle =>
        \A f \in Files : handle[f].open =>
            /\ f \in exists
            /\ handle[f].size = size[f]
            /\ handle[f].first = first[f]

(* An append starts writing where the file ends, wherever the handle stood *)
(* and whatever failed before, short of a mirrored update that failed half *)
(* way (the seek to the end in FAT32File::Write and Append, across the     *)
(* boundaries of clusters).                                                *)
AppendStartsAtTheEnd ==
    op.step = "append" /\ (clean \/ ~Mirrored) => h.in_file = h.size

(* The loops of Seek, Read, Write and ReleaseChain end, also on a chain a  *)
(* failure damaged.                                                        *)
EveryCallReturns == (op # Idle) ~> (op = Idle)
=============================================================================
