---------------------------- MODULE OpenFileMap ----------------------------
(***************************************************************************)
(* Tasks that call into the filesystem at the same time: the lock of each  *)
(* volume, the map of open files with a lock of its own, and the calls     *)
(* that need both (FAT32Directory::OpenFile, DeleteFile, RenameEntry,      *)
(* VisitDirectory; FAT32File's operations and Close).                      *)
(*                                                                         *)
(* A step is what a task does between two points at which another task may *)
(* interfere: looking the volume up, taking a lock, one access to the map, *)
(* one change of the directory, giving a lock back.  Of a directory only   *)
(* the places of its files count; what the calls do below the locks is the *)
(* matter of the other modules.                                            *)
(***************************************************************************)
EXTENDS Integers, Sequences, FiniteSets

CONSTANTS
    Tasks,
    Volumes,        \* a volume mounted again is another one
    Entries,        \* the places of files on a volume
    Files,          \* the UUIDs of open files
    MaxNesting,     \* bound: calls under way in one task when a callback calls
    Nobody

ASSUME OpenFileMapAssumption ==
    /\ MaxNesting \in Nat
    /\ Nobody \notin Tasks \cup Volumes \cup Entries \cup Files

VARIABLES
    mounted,    \* the registry's filesystems
    exists,     \* on the device: the places that hold a file
    owner,      \* the task that holds a volume's lock
    map_owner,  \* the task that holds the map's lock
    records,    \* the map of open files: identity and mode
    wrapper,    \* the task that holds the FileWrapper of an open file
    call        \* the calls under way in a task, the innermost last

locks == <<owner, map_owner>>
vars == <<mounted, exists, owner, map_owner, records, wrapper, call>>

Identity == Volumes \X Entries
Modes == {"READ", "WRITE"}
IsExclusive(mode) == mode # "READ"
Record == [identity : Identity, mode : Modes]
DirectoryCalls == {"OpenFile", "DeleteFile", "RenameEntry", "VisitDirectory"}
FileCalls == {"Use", "Append", "Close"}

(* volume and entry: what the call is about, Nobody until it is known; to: *)
(* where a rename goes; locked: the call holds the volume's lock; next:    *)
(* where it goes on when the map's lock is given back.                     *)
Steps == {"find", "lock", "look", "AddFile", "insert", "IsFileOpen", "change", "visit",
          "GetFileByUUID", "use", "seek", "write", "RemoveFile", "unlock_map", "unlock",
          "return"}
Frame == [op : DirectoryCalls \cup FileCalls, volume : Volumes \cup {Nobody},
          entry : Entries \cup {Nobody}, to : Entries \cup {Nobody},
          mode : Modes, file : Files \cup {Nobody}, step : Steps, next : Steps,
          locked : BOOLEAN]

TypeOK ==
    /\ mounted \subseteq Volumes
    /\ exists \in [Volumes -> SUBSET Entries]
    /\ owner \in [Volumes -> Tasks \cup {Nobody}]
    /\ map_owner \in Tasks \cup {Nobody}
    /\ records \in [Files -> Record \cup {Nobody}]
    /\ wrapper \in [Files -> Tasks \cup {Nobody}]
    /\ call \in [Tasks -> Seq(Frame)]

Init ==
    /\ mounted = Volumes
    /\ exists = [v \in Volumes |-> {}]
    /\ owner = [v \in Volumes |-> Nobody]
    /\ map_owner = Nobody
    /\ records = [f \in Files |-> Nobody]
    /\ wrapper = [f \in Files |-> Nobody]
    /\ call = [t \in Tasks |-> <<>>]

-----------------------------------------------------------------------------
Depth(t) == Len(call[t])
Top(t) == call[t][Depth(t)]
At(t, step) == Depth(t) > 0 /\ Top(t).step = step
OpenFiles == {f \in Files : records[f] # Nobody}
OpenAs(identity) == {f \in OpenFiles : records[f].identity = identity}
IsOpen_ForWriting(identity) == \E f \in OpenAs(identity) : IsExclusive(records[f].mode)
IsOpen(identity) == OpenAs(identity) # {}
Conflicts_NewWriter(mode, identity) == IsExclusive(mode) /\ OpenAs(identity) # {}
Conflicts(mode, identity) ==
    \E f \in OpenAs(identity) : IsExclusive(mode) \/ IsExclusive(records[f].mode)
TopIdentity(t) == <<Top(t).volume, Top(t).entry>>

GoTo(t, step) == call' = [call EXCEPT ![t][Depth(t)].step = step]
Enter(t, frame) == call' = [call EXCEPT ![t] = Append(@, frame)]
Return(t) == call' = [call EXCEPT ![t] = SubSeq(@, 1, Depth(t) - 1)]

NewCall(op, step) ==
    [op |-> op, volume |-> Nobody, entry |-> Nobody, to |-> Nobody, mode |-> "READ",
     file |-> Nobody, step |-> step, next |-> "return", locked |-> FALSE]
CallsOn(v) ==
    {[NewCall("VisitDirectory", "find") EXCEPT !.volume = v]} \cup
    UNION {{[NewCall("OpenFile", "find") EXCEPT !.volume = v, !.entry = e, !.mode = m] :
              m \in Modes} \cup
           {[NewCall("DeleteFile", "find") EXCEPT !.volume = v, !.entry = e]} \cup
           {[NewCall("RenameEntry", "find") EXCEPT !.volume = v, !.entry = e, !.to = o] :
              o \in Entries \ {e}} : e \in Entries}
\* FileWrapper looks its file up and calls it.
CallsOf(f) == {[NewCall(op, "GetFileByUUID") EXCEPT !.file = f] : op \in FileCalls}
CallsInto(volumes, files) ==
    UNION ({CallsOn(v) : v \in volumes} \cup {CallsOf(f) : f \in files})
FilesOf(t) == {f \in Files : wrapper[f] = t}

Begin(t) ==
    /\ call[t] = <<>>
    /\ \E frame \in CallsInto(Volumes, FilesOf(t)) : Enter(t, frame)
    /\ UNCHANGED <<mounted, exists, locks, records, wrapper>>

(* FAT32Filesystem::Lock: GetEntityById, and then the lock.  Close goes on *)
(* without it.                                                             *)
Find(t) ==
    /\ At(t, "find")
    /\ \/ Top(t).volume \in mounted /\ GoTo(t, "lock")
       \/ /\ Top(t).volume \notin mounted
          /\ IF Top(t).op = "Close" THEN GoTo(t, "RemoveFile") ELSE Return(t)
    /\ UNCHANGED <<mounted, exists, locks, records, wrapper>>

Body(op) ==
    CASE op \in {"OpenFile", "DeleteFile", "RenameEntry"} -> "look"
      [] op = "VisitDirectory" -> "visit"
      [] op = "Use" -> "use"
      [] op = "Append" -> "seek"
      [] op = "Close" -> "RemoveFile"
\* The lock is recursive.
LockVolume(t) ==
    LET v == Top(t).volume
    IN /\ At(t, "lock")
       /\ owner[v] \in {t, Nobody}
       /\ owner' = [owner EXCEPT ![v] = t]
       /\ call' = [call EXCEPT ![t][Depth(t)].step = Body(Top(t).op),
                               ![t][Depth(t)].locked = TRUE]
       /\ UNCHANGED <<mounted, exists, map_owner, records, wrapper>>

\* Faulty variant: the lock is not counted; the first return frees it.
HoldsBelow_Never(t, v) == FALSE
\* The lock is free when every call of the task that took it has returned.
HoldsBelow(t, v) ==
    \E i \in 1 .. Depth(t) - 1 : call[t][i].locked /\ call[t][i].volume = v
UnlockVolume(t) ==
    LET v == Top(t).volume
    IN /\ At(t, "unlock")
       /\ owner' = IF Top(t).locked /\ ~HoldsBelow(t, v) THEN [owner EXCEPT ![v] = Nobody]
                   ELSE owner
       /\ Return(t)
       /\ UNCHANGED <<mounted, exists, map_owner, records, wrapper>>

MapSteps == {"AddFile", "IsFileOpen", "GetFileByUUID", "RemoveFile"}
LockMap(t) ==
    /\ Depth(t) > 0 /\ Top(t).step \in MapSteps
    /\ map_owner = Nobody
    /\ map_owner' = t
    /\ UNCHANGED <<mounted, exists, owner, records, wrapper, call>>

LeaveMap_Locked(t, next) == IF next = "return" THEN Return(t) ELSE GoTo(t, next)
LeaveMap(t, next) ==
    call' = [call EXCEPT ![t][Depth(t)].step = "unlock_map", ![t][Depth(t)].next = next]
UnlockMap(t) ==
    /\ At(t, "unlock_map")
    /\ map_owner' = Nobody
    /\ IF Top(t).next = "return" THEN Return(t) ELSE GoTo(t, Top(t).next)
    /\ UNCHANGED <<mounted, exists, owner, records, wrapper>>

-----------------------------------------------------------------------------
\* GetEntry; OpenFile may create the file.
Look(t) ==
    LET f == Top(t)
    IN /\ At(t, "look")
       /\ \/ f.entry \in exists[f.volume] /\ UNCHANGED exists
             /\ GoTo(t, IF f.op = "OpenFile" THEN "AddFile" ELSE "IsFileOpen")
          \/ f.entry \notin exists[f.volume] /\ f.op = "OpenFile"
             /\ exists' = [exists EXCEPT ![f.volume] = @ \cup {f.entry}]
             /\ GoTo(t, "AddFile")
          \/ UNCHANGED exists /\ GoTo(t, "unlock")
       /\ UNCHANGED <<mounted, locks, records, wrapper>>

\* FileMap::AddFile compares with every file that is open and then inserts.
AddFile(t) ==
    /\ At(t, "AddFile") /\ map_owner = t
    /\ IF Conflicts(Top(t).mode, TopIdentity(t)) THEN LeaveMap(t, "unlock") ELSE GoTo(t, "insert")
    /\ UNCHANGED <<mounted, exists, locks, records, wrapper>>
\* The insertion may fail; here, when no UUID is left.
Insert(t) ==
    LET new == {f \in Files : wrapper[f] = Nobody}
    IN /\ At(t, "insert")
       /\ \/ \E f \in new :
              /\ records' = [records EXCEPT ![f] =
                               [identity |-> TopIdentity(t), mode |-> Top(t).mode]]
              /\ wrapper' = [wrapper EXCEPT ![f] = t]
          \/ new = {} /\ UNCHANGED <<records, wrapper>>
       /\ LeaveMap(t, "unlock")
       /\ UNCHANGED <<mounted, exists, locks>>

IsFileOpen(t) ==
    /\ At(t, "IsFileOpen") /\ map_owner = t
    /\ LeaveMap(t, IF IsOpen(TopIdentity(t)) THEN "unlock" ELSE "change")
    /\ UNCHANGED <<mounted, exists, locks, records, wrapper>>
\* RemoveEntry, or CreateEntry and RemoveEntry; they may fail.
Change(t) ==
    LET f == Top(t)
    IN /\ At(t, "change")
       /\ \/ UNCHANGED exists
          \/ /\ f.to \notin exists[f.volume]
             /\ exists' = [exists EXCEPT ![f.volume] = (@ \cup ({f.to} \ {Nobody})) \ {f.entry}]
       /\ GoTo(t, "unlock")
       /\ UNCHANGED <<mounted, locks, records, wrapper>>

VolumeOf(f) == records[f].identity[1]
\* The file knows its volume.
GetFileByUUID(t) ==
    LET f == Top(t).file
    IN /\ At(t, "GetFileByUUID") /\ map_owner = t
       /\ \/ f \notin OpenFiles /\ LeaveMap(t, "return")
          \/ /\ f \in OpenFiles
             /\ call' = [call EXCEPT ![t][Depth(t)].volume = VolumeOf(f),
                                     ![t][Depth(t)].step = "unlock_map",
                                     ![t][Depth(t)].next = "find"]
       /\ UNCHANGED <<mounted, exists, locks, records, wrapper>>
RemoveFile(t) ==
    /\ At(t, "RemoveFile") /\ map_owner = t
    /\ records' = [records EXCEPT ![Top(t).file] = Nobody]
    /\ LeaveMap(t, "unlock")
    /\ UNCHANGED <<mounted, exists, locks, wrapper>>
\* The wrapper of a file that was closed stays with its task for a while.
LetGo(t) ==
    /\ call[t] = <<>>
    /\ \E f \in FilesOf(t) \ OpenFiles : wrapper' = [wrapper EXCEPT ![f] = Nobody]
    /\ UNCHANGED <<mounted, exists, locks, records, call>>

\* Read, Write, Seek.
UseFile(t) ==
    /\ At(t, "use")
    /\ GoTo(t, "unlock")
    /\ UNCHANGED <<mounted, exists, locks, records, wrapper>>

\* Append calls SeekEnd and Write, which take the lock again.
AppendCalls(t) ==
    LET next == IF Top(t).step = "seek" THEN "write" ELSE "unlock"
    IN /\ At(t, "seek") \/ At(t, "write")
       /\ call' = [call EXCEPT ![t] =
            Append([@ EXCEPT ![Depth(t)].step = next],
                   [NewCall("Use", "find") EXCEPT !.volume = Top(t).volume, !.file = Top(t).file])]
       /\ UNCHANGED <<mounted, exists, locks, records, wrapper>>

(* VisitDirectory: the callback may call back in (filesystem_lock.h:70),   *)
(* here into the volume it visits.                                         *)
Callback(t) ==
    LET v == Top(t).volume
        mine == {f \in FilesOf(t) : f \in OpenFiles => VolumeOf(f) = v}
    IN /\ At(t, "visit") /\ Depth(t) <= MaxNesting
       /\ \E frame \in CallsInto({v}, mine) : Enter(t, frame)
       /\ UNCHANGED <<mounted, exists, locks, records, wrapper>>
VisitEnds(t) ==
    /\ At(t, "visit")
    /\ GoTo(t, "unlock")
    /\ UNCHANGED <<mounted, exists, locks, records, wrapper>>

\* RemoveEntityById, by the owner of the registry.  It waits for the calls on
\* the volume: Lock does not find it and lock it in one step.
IsBusy(v) == \E t \in Tasks : \E i \in 1 .. Depth(t) :
    call[t][i].volume = v /\ call[t][i].step # "find"
Unmount(v) ==
    /\ v \in mounted
    /\ ~IsBusy(v)
    /\ mounted' = mounted \ {v}
    /\ UNCHANGED <<exists, locks, records, wrapper, call>>

Step(t) ==
    \/ Find(t) \/ LockVolume(t) \/ UnlockVolume(t) \/ LockMap(t) \/ UnlockMap(t)
    \/ Look(t) \/ AddFile(t) \/ Insert(t) \/ IsFileOpen(t) \/ Change(t)
    \/ GetFileByUUID(t) \/ RemoveFile(t) \/ UseFile(t) \/ AppendCalls(t)
    \/ Callback(t) \/ VisitEnds(t)
Next ==
    \/ \E t \in Tasks : Begin(t) \/ Step(t) \/ LetGo(t)
    \/ \E v \in Volumes : Unmount(v)

Spec == Init /\ [][Next]_vars

-----------------------------------------------------------------------------
(* Two tasks never both have calls under way that hold one volume's lock,  *)
(* whatever calls and callbacks took it again and returned in between, and *)
(* no task keeps it beyond its calls (filesystem_lock.h:68-70).            *)
HasLocked(t, v) == \E i \in 1 .. Depth(t) : call[t][i].locked /\ call[t][i].volume = v
OneTaskPerVolume ==
    \A v \in Volumes :
        /\ \A t, u \in Tasks : HasLocked(t, v) /\ HasLocked(u, v) => t = u
        /\ owner[v] # Nobody => HasLocked(owner[v], v)

(* A file open for anything beyond reading has no other handle, whichever  *)
(* tasks opened it at the same time (FileMap::AddFile).                    *)
WritersExcludeOthers ==
    \A f, g \in OpenFiles :
        f # g /\ records[f].identity = records[g].identity => ~IsExclusive(records[f].mode)

(* The entry of an open file stays where the file was found: no other task *)
(* deletes or renames it between its test and its change                   *)
(* (fat32_directory.cpp:710, 786), and a call that has got the file from   *)
(* the map finds it there until it closes it (file_map.h:113-114).         *)
UsesTheFile(frame) ==
    frame.op \in FileCalls
    /\ frame.step \in {"find", "lock", "use", "seek", "write", "RemoveFile"}
OpenFilesStay ==
    /\ \A f \in OpenFiles :
        LET at == records[f].identity
        IN at[1] \in mounted => at[2] \in exists[at[1]]
    /\ \A t \in Tasks : \A i \in 1 .. Depth(t) :
        UsesTheFile(call[t][i]) => call[t][i].file \in OpenFiles

(* No task waits for a lock of one that waits, in turn, for it: the map's  *)
(* lock is taken last, and nothing is waited for under it                  *)
(* (file_map.h:156-157).                                                   *)
WaitsFor(t) ==
    IF Depth(t) = 0 THEN Nobody
    ELSE IF Top(t).step = "lock" THEN owner[Top(t).volume]
    ELSE IF Top(t).step \in MapSteps THEN map_owner ELSE Nobody
NobodyWaitsInACircle ==
    \A S \in SUBSET Tasks : S # {} => \E t \in S : WaitsFor(t) = t \/ WaitsFor(t) \notin S
=============================================================================
