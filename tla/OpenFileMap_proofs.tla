------------------------- MODULE OpenFileMap_proofs -------------------------
(***************************************************************************)
(* Proofs about OpenFileMap, for any number of tasks, volumes, files and   *)
(* nested calls.                                                           *)
(***************************************************************************)
EXTENDS OpenFileMap, TLAPS

(* Where a call is, or goes on after it has left the map; which calls may  *)
(* be there, and whether they hold the lock of the volume there.           *)
Place(x) == IF x.step = "unlock_map" THEN x.next ELSE x.step
LockedPlaces == {"look", "AddFile", "insert", "IsFileOpen", "change", "visit", "use", "seek",
                 "write"}
UnlockedPlaces == {"find", "lock", "GetFileByUUID", "return"}
EntryCalls == {"OpenFile", "DeleteFile", "RenameEntry"}
Shape(x) ==
    /\ x.next \in {"return", "find", "unlock", "change"}
    /\ Place(x) = "look" => x.op \in EntryCalls
    /\ Place(x) \in {"AddFile", "insert"} => x.op = "OpenFile"
    /\ Place(x) \in {"IsFileOpen", "change"} => x.op \in {"DeleteFile", "RenameEntry"}
    /\ Place(x) = "visit" => x.op = "VisitDirectory"
    /\ Place(x) \in {"GetFileByUUID", "return"} => x.op \in FileCalls
    /\ Place(x) = "use" => x.op = "Use"
    /\ Place(x) \in {"seek", "write"} => x.op = "Append"
    /\ Place(x) = "RemoveFile" => x.op = "Close"
    /\ Place(x) \in LockedPlaces => x.locked
    /\ Place(x) \in UnlockedPlaces => ~x.locked
    /\ Place(x) \notin {"GetFileByUUID", "return"} => x.volume \in Volumes
    /\ x.op \in EntryCalls => x.entry \in Entries
    /\ x.op \in FileCalls => x.file \in Files
\* A call waits for the one it made.
Waits(t, i) ==
    /\ call[t][i].step \in {"visit", "write", "unlock"}
    /\ call[t][i].op \in {"VisitDirectory", "Append"}
    /\ call[t][i].op = "Append" => i = Depth(t) - 1 /\ Top(t).op = "Use"
CallInv ==
    \A t \in Tasks : \A i \in 1 .. Depth(t) :
        Shape(call[t][i]) /\ (i < Depth(t) => Waits(t, i))

(* What a task holds while a call of it is at its place.                   *)
Holds(t, x) ==
    /\ x.locked => owner[x.volume] = t
    /\ x.step \in {"insert", "unlock_map"} => map_owner = t
    /\ x.op \in FileCalls => wrapper[x.file] = t
Wrapped == \A f \in OpenFiles : wrapper[f] # Nobody
CallsHold == \A t \in Tasks : \A i \in 1 .. Depth(t) : Holds(t, call[t][i])
HoldInv == CallsHold /\ Wrapped

(* What a call relies on at its place.                                     *)
IdentityOf(x) == <<x.volume, x.entry>>
Relies(x) ==
    /\ Place(x) = "insert" => ~Conflicts(x.mode, IdentityOf(x))
    /\ Place(x) \in {"AddFile", "insert"} => x.entry \in exists[x.volume]
    /\ Place(x) = "change" => ~IsOpen(IdentityOf(x))
    /\ x.op \in FileCalls /\ Place(x) \in {"find", "lock", "use", "seek", "write", "RemoveFile"}
        => x.file \in OpenFiles
CallsRely == \A t \in Tasks : \A i \in 1 .. Depth(t) : Relies(call[t][i])
OpenEntriesStay == \A f \in OpenFiles : records[f].identity[2] \in exists[records[f].identity[1]]
FilesInv == CallsRely /\ OpenEntriesStay /\ WritersExcludeOthers

(* A lock that is taken is taken by a call that is under way, and the      *)
(* calls of a task are about one volume.                                   *)
MapHeld ==
    \A t \in Tasks : map_owner = t =>
        Depth(t) > 0 /\ Top(t).step \in MapSteps \cup {"insert", "unlock_map"}
OwnerHeld ==
    \A v \in Volumes : \A t \in Tasks : owner[v] = t =>
        \E i \in 1 .. Depth(t) : call[t][i].locked /\ call[t][i].volume = v
OneVolume ==
    \A t \in Tasks : \A i, j \in 1 .. Depth(t) :
        call[t][j].volume \in Volumes =>
            /\ call[t][i].volume \in Volumes => call[t][i].volume = call[t][j].volume
            /\ call[t][i].step = "GetFileByUUID" /\ call[t][i].file \in OpenFiles =>
                VolumeOf(call[t][i].file) = call[t][j].volume
LockInv == MapHeld /\ OwnerHeld /\ OneVolume

-----------------------------------------------------------------------------
(* What the moves of a stack do to it.                                     *)
Becomes(t, x) ==
    /\ call' \in [Tasks -> Seq(Frame)]
    /\ \A u \in Tasks : Len(call'[u]) = Len(call[u])
    /\ \A u \in Tasks : \A i \in 1 .. Len(call[u]) :
        call'[u][i] = IF u = t /\ i = Depth(t) THEN x ELSE call[u][i]
Grows(t, x, y) ==
    /\ call' \in [Tasks -> Seq(Frame)]
    /\ \A u \in Tasks : Len(call'[u]) = IF u = t THEN Len(call[u]) + 1 ELSE Len(call[u])
    /\ \A u \in Tasks : \A i \in 1 .. Len(call[u]) :
        call'[u][i] = IF u = t /\ i = Depth(t) THEN x ELSE call[u][i]
    /\ call'[t][Depth(t) + 1] = y
Shrinks(t) ==
    /\ call' \in [Tasks -> Seq(Frame)]
    /\ \A u \in Tasks : Len(call'[u]) = IF u = t THEN Len(call[u]) - 1 ELSE Len(call[u])
    /\ \A u \in Tasks : \A i \in 1 .. Len(call'[u]) : call'[u][i] = call[u][i]

Stacks == call \in [Tasks -> Seq(Frame)]

LEMMA StackElements ==
    ASSUME Stacks, NEW t \in Tasks
    PROVE  /\ Depth(t) \in Nat /\ DOMAIN call[t] = 1 .. Depth(t)
           /\ \A i \in 1 .. Depth(t) : call[t][i] \in Frame
           /\ Depth(t) > 0 => Top(t) \in Frame
<1>1. call[t] \in Seq(Frame)
  BY DEF Stacks
<1> HIDE DEF Frame
<1>2. /\ Depth(t) \in Nat /\ DOMAIN call[t] = 1 .. Depth(t)
      /\ \A i \in 1 .. Depth(t) : call[t][i] \in Frame
  BY <1>1 DEF Depth
<1> QED BY <1>2 DEF Top

LEMMA ReplaceTop ==
    ASSUME Stacks, NEW t \in Tasks, Depth(t) > 0, NEW x \in Frame,
           call' = [call EXCEPT ![t] = [@ EXCEPT ![Depth(t)] = x]]
    PROVE  Becomes(t, x)
<1> HIDE DEF Frame
<1>1. call[t] \in Seq(Frame) /\ Depth(t) \in 1 .. Len(call[t])
  BY StackElements DEF Stacks, Depth
<1>2. [call[t] EXCEPT ![Depth(t)] = x] \in Seq(Frame)
  BY <1>1
<1>3. call'[t] = [call[t] EXCEPT ![Depth(t)] = x] /\ \A u \in Tasks : u # t => call'[u] = call[u]
  BY DEF Stacks
<1>4. call' \in [Tasks -> Seq(Frame)]
  BY <1>2, <1>3 DEF Stacks
<1>5. Len(call'[t]) = Len(call[t])
  BY <1>1, <1>3
<1>6. \A i \in 1 .. Len(call[t]) : call'[t][i] = IF i = Depth(t) THEN x ELSE call[t][i]
  BY <1>1, <1>3
<1> QED BY <1>3, <1>4, <1>5, <1>6 DEF Becomes

LEMMA TopField ==
    ASSUME Stacks, NEW t \in Tasks, Depth(t) > 0
    PROVE  /\ \A step \in Steps : [Top(t) EXCEPT !.step = step] \in Frame
           /\ \A next \in Steps :
                [[Top(t) EXCEPT !.step = "unlock_map"] EXCEPT !.next = next] \in Frame
           /\ \A step \in Steps :
                [[Top(t) EXCEPT !.step = step] EXCEPT !.locked = TRUE] \in Frame
           /\ \A v \in Volumes :
                [[[Top(t) EXCEPT !.volume = v] EXCEPT !.step = "unlock_map"] EXCEPT !.next = "find"]
                    \in Frame
<1>1. Top(t) \in Frame
  BY StackElements
<1>2. "unlock_map" \in Steps /\ "find" \in Steps
  BY DEF Steps
<1> HIDE DEF Steps
<1> QED BY <1>1, <1>2 DEF Frame

LEMMA GoToMoves ==
    ASSUME Stacks, NEW t \in Tasks, Depth(t) > 0, NEW step \in Steps, GoTo(t, step)
    PROVE  Becomes(t, [Top(t) EXCEPT !.step = step])
<1>1. call' = [call EXCEPT ![t] = [@ EXCEPT ![Depth(t)] = [Top(t) EXCEPT !.step = step]]]
  BY DEF GoTo, Top
<1> QED BY <1>1, TopField, ReplaceTop

LEMMA LeaveMapMoves ==
    ASSUME Stacks, NEW t \in Tasks, Depth(t) > 0, NEW next \in Steps, LeaveMap(t, next)
    PROVE  Becomes(t, [[Top(t) EXCEPT !.step = "unlock_map"] EXCEPT !.next = next])
<1> DEFINE x == [Top(t) EXCEPT !.step = "unlock_map"]
<1>1. t \in DOMAIN call /\ Depth(t) \in DOMAIN call[t]
  BY StackElements DEF Stacks
<1>2. call' = [call EXCEPT ![t] = [@ EXCEPT ![Depth(t)] = [x EXCEPT !.next = next]]]
  BY <1>1 DEF LeaveMap, Top
<1> QED BY <1>2, TopField, ReplaceTop

LEMMA EnterMoves ==
    ASSUME Stacks, NEW t \in Tasks, NEW y \in Frame, Enter(t, y)
    PROVE  Grows(t, Top(t), y)
<1> HIDE DEF Frame
<1>1. call[t] \in Seq(Frame) /\ Depth(t) = Len(call[t]) /\ Depth(t) \in Nat
  BY StackElements DEF Stacks, Depth
<1>2. call'[t] = Append(call[t], y) /\ \A u \in Tasks : u # t => call'[u] = call[u]
  BY DEF Stacks, Enter
<1>3. Append(call[t], y) \in Seq(Frame)
  BY <1>1
<1>4. call' \in [Tasks -> Seq(Frame)]
  BY <1>2, <1>3 DEF Stacks, Enter
<1>5. /\ Len(call'[t]) = Len(call[t]) + 1
      /\ \A i \in 1 .. Len(call[t]) : call'[t][i] = call[t][i]
      /\ call'[t][Depth(t) + 1] = y
  BY <1>1, <1>2
<1> QED BY <1>1, <1>2, <1>4, <1>5 DEF Grows, Top

LEMMA ReturnMoves ==
    ASSUME Stacks, NEW t \in Tasks, Depth(t) > 0, Return(t)
    PROVE  Shrinks(t)
<1> HIDE DEF Frame
<1>1. call[t] \in Seq(Frame) /\ Depth(t) = Len(call[t]) /\ Depth(t) \in Nat \ {0}
  BY StackElements DEF Stacks, Depth
<1>2. /\ call'[t] = SubSeq(call[t], 1, Depth(t) - 1)
      /\ \A u \in Tasks : u # t => call'[u] = call[u]
  BY DEF Stacks, Return
<1>3. SubSeq(call[t], 1, Depth(t) - 1) \in Seq(Frame)
  BY <1>1
<1>4. call' \in [Tasks -> Seq(Frame)]
  BY <1>2, <1>3 DEF Stacks, Return
<1>5. /\ Len(call'[t]) = Len(call[t]) - 1
      /\ \A i \in 1 .. Len(call'[t]) : call'[t][i] = call[t][i]
  BY <1>1, <1>2
<1> QED BY <1>2, <1>4, <1>5 DEF Shrinks

-----------------------------------------------------------------------------
(* A call that goes on at another place stays the same call.               *)
Same(x, y) ==
    /\ x.op = y.op /\ x.volume = y.volume /\ x.entry = y.entry /\ x.mode = y.mode
    /\ x.file = y.file /\ x.locked = y.locked
GoesOn(t, x, step, next) ==
    Becomes(t, x) /\ Same(x, Top(t)) /\ x.step = step /\ x.next = next

LEMMA FrameFields ==
    ASSUME NEW x \in Frame
    PROVE  /\ x.op \in DirectoryCalls \cup FileCalls
           /\ x.volume \in Volumes \cup {Nobody} /\ x.entry \in Entries \cup {Nobody}
           /\ x.mode \in Modes /\ x.file \in Files \cup {Nobody}
           /\ x.step \in Steps /\ x.next \in Steps /\ x.locked \in BOOLEAN
  BY DEF Frame

LEMMA GoToGoesOn ==
    ASSUME Stacks, NEW t \in Tasks, Depth(t) > 0, NEW step \in Steps, GoTo(t, step)
    PROVE  \E x : GoesOn(t, x, step, Top(t).next)
<1> DEFINE x == [Top(t) EXCEPT !.step = step]
<1>1. Becomes(t, x)
  BY GoToMoves
<1>2. Top(t) \in Frame
  BY StackElements
<1>3. Same(x, Top(t)) /\ x.step = step /\ x.next = Top(t).next
  BY <1>2 DEF Same, Frame
<1> QED BY <1>1, <1>3 DEF GoesOn

LEMMA LeaveMapGoesOn ==
    ASSUME Stacks, NEW t \in Tasks, Depth(t) > 0, NEW next \in Steps, LeaveMap(t, next)
    PROVE  \E x : GoesOn(t, x, "unlock_map", next)
<1> DEFINE x == [[Top(t) EXCEPT !.step = "unlock_map"] EXCEPT !.next = next]
<1>1. Becomes(t, x)
  BY LeaveMapMoves
<1>2. Top(t) \in Frame
  BY StackElements
<1>3. Same(x, Top(t)) /\ x.step = "unlock_map" /\ x.next = next
  BY <1>2 DEF Same, Frame
<1> QED BY <1>1, <1>3 DEF GoesOn

-----------------------------------------------------------------------------
(* The moves keep what is said of the calls.                               *)
Inv == TypeOK /\ CallInv /\ HoldInv /\ FilesInv /\ LockInv

LEMMA CallsGoOn ==
    ASSUME Stacks, CallInv, NEW t \in Tasks, Depth(t) > 0, NEW x, Becomes(t, x),
           x.op = Top(t).op, Shape(x)
    PROVE  CallInv'
<1>1. Depth(t) \in Nat /\ Len(call[t]) = Depth(t)
  BY StackElements DEF Depth
<1> SUFFICES ASSUME NEW u \in Tasks, NEW i \in 1 .. Depth(u)'
             PROVE  Shape(call'[u][i]) /\ (i < Depth(u)' => Waits(u, i)')
  BY DEF CallInv, Shape, Place
<1>2. Depth(u)' = Depth(u) /\ i \in 1 .. Depth(u)
  BY DEF Becomes, Depth
<1>3. Shape(call'[u][i])
  BY <1>2 DEF Becomes, CallInv, Depth
<1>4. ASSUME i < Depth(u) PROVE Waits(u, i)'
  <2>1. call'[u][i] = call[u][i] /\ Waits(u, i)
    BY <1>2, <1>4 DEF Becomes, CallInv, Depth
  <2>2. Top(u)'.op = Top(u).op
    BY <1>1, <1>2 DEF Becomes, Top, Depth
  <2> QED BY <1>2, <2>1, <2>2 DEF Waits
<1> QED BY <1>2, <1>3, <1>4

LEMMA CallsGrow ==
    ASSUME Stacks, CallInv, NEW t \in Tasks, NEW x, NEW y, Grows(t, x, y), Shape(y),
           Depth(t) > 0 => /\ Shape(x) /\ x.op = Top(t).op
                           /\ x.op \in {"VisitDirectory", "Append"}
                           /\ x.step \in {"visit", "write", "unlock"}
                           /\ x.op = "Append" => y.op = "Use"
    PROVE  CallInv'
<1>1. \A u \in Tasks : Depth(u) \in Nat /\ Len(call[u]) = Depth(u)
  BY StackElements DEF Depth
<1> SUFFICES ASSUME NEW u \in Tasks, NEW i \in 1 .. Depth(u)'
             PROVE  Shape(call'[u][i]) /\ (i < Depth(u)' => Waits(u, i)')
  BY DEF CallInv, Shape, Place
<1>2. CASE u # t
  <2>1. Depth(u)' = Depth(u) /\ \A j \in 1 .. Depth(u) : call'[u][j] = call[u][j]
    BY <1>1, <1>2 DEF Grows, Depth
  <2>2. i < Depth(u) => Top(u)' = Top(u)
    BY <1>1, <2>1 DEF Top
  <2> QED BY <2>1, <2>2 DEF CallInv, Waits
<1>3. CASE u = t
  <2>1. /\ Depth(t)' = Depth(t) + 1 /\ Top(t)' = y /\ call'[t][Depth(t) + 1] = y
        /\ \A j \in 1 .. Depth(t) : call'[t][j] = IF j = Depth(t) THEN x ELSE call[t][j]
    BY <1>1 DEF Grows, Depth, Top
  <2>2. CASE i = Depth(t) + 1
    BY <1>1, <1>3, <2>1, <2>2
  <2>3. CASE i = Depth(t)
    <3>1. i > 0 /\ call'[t][i] = x
      BY <1>1, <1>3, <2>1, <2>3
    <3> QED BY <1>1, <1>3, <2>1, <2>3, <3>1 DEF Waits
  <2>4. CASE i < Depth(t)
    <3>1. call'[t][i] = call[t][i] /\ Depth(t) > 0
      BY <1>1, <1>3, <2>1, <2>4
    <3>2. Shape(call[t][i]) /\ Waits(t, i)
      BY <1>1, <1>3, <2>4 DEF CallInv
    <3>3. call[t][i].op # "Append"
      BY <3>1, <3>2 DEF Waits
    <3> QED BY <1>3, <3>1, <3>2, <3>3 DEF Waits
  <2> QED BY <1>1, <1>3, <2>1, <2>2, <2>3, <2>4
<1> QED BY <1>2, <1>3

LEMMA CallsShrink ==
    ASSUME Stacks, CallInv, NEW t \in Tasks, Depth(t) > 0, Shrinks(t)
    PROVE  CallInv'
<1>1. \A u \in Tasks : Depth(u) \in Nat /\ Len(call[u]) = Depth(u)
  BY StackElements DEF Depth
<1> SUFFICES ASSUME NEW u \in Tasks, NEW i \in 1 .. Depth(u)'
             PROVE  Shape(call'[u][i]) /\ (i < Depth(u)' => Waits(u, i)')
  BY DEF CallInv, Shape, Place
<1>2. CASE u # t
  <2>1. Depth(u)' = Depth(u) /\ \A j \in 1 .. Depth(u) : call'[u][j] = call[u][j]
    BY <1>1, <1>2 DEF Shrinks, Depth
  <2>2. i < Depth(u) => Top(u)' = Top(u)
    BY <1>1, <2>1 DEF Top
  <2> QED BY <2>1, <2>2 DEF CallInv, Waits
<1>3. CASE u = t
  <2>1. /\ Depth(t)' = Depth(t) - 1
        /\ \A j \in 1 .. Depth(t) - 1 : call'[t][j] = call[t][j]
    BY <1>1 DEF Shrinks, Depth
  <2>2. i \in 1 .. Depth(t) /\ i < Depth(t) /\ call'[t][i] = call[t][i]
    BY <1>1, <1>3, <2>1
  <2>3. Shape(call[t][i]) /\ Waits(t, i)
    BY <2>2 DEF CallInv
  <2>4. i < Depth(t) - 1 => call[t][i].op # "Append"
    BY <1>1, <2>2, <2>3 DEF Waits
  <2> QED BY <1>3, <2>1, <2>2, <2>3, <2>4 DEF Waits
<1> QED BY <1>2, <1>3

(* A task that is about to change the directory or the map is the only one *)
(* that is: the calls below wait, and those of others are without the lock *)
(* of the volume.                                                          *)
LEMMA OthersAreElsewhere ==
    ASSUME Stacks, CallInv, HoldInv, NEW t \in Tasks, Depth(t) > 0,
           NEW u \in Tasks, NEW i \in 1 .. Depth(u), u # t \/ i # Depth(t)
    PROVE  /\ Top(t).locked /\ call[u][i].volume = Top(t).volume =>
                Place(call[u][i]) \notin LockedPlaces \ {"visit", "write"}
           /\ u = t => Place(call[u][i]) \in {"visit", "write", "unlock"}
           /\ u = t => call[u][i].step \in {"visit", "write", "unlock"}
           /\ u = t /\ Top(t).op # "Use" => call[u][i].op = "VisitDirectory"
<1>1. Depth(t) \in Nat /\ Shape(Top(t)) /\ Shape(call[u][i])
  BY StackElements DEF CallInv, Top
<1>2. u = t => i < Depth(t) /\ Waits(t, i)
  BY <1>1 DEF CallInv
<1>3. Holds(t, Top(t)) /\ Holds(u, call[u][i])
  BY <1>1 DEF HoldInv, CallsHold, Top
<1>4. ASSUME u # t, Top(t).locked, call[u][i].volume = Top(t).volume
      PROVE  Place(call[u][i]) \notin LockedPlaces
  BY <1>1, <1>3, <1>4 DEF Holds, Shape
<1> QED BY <1>2, <1>4 DEF Waits, Place, LockedPlaces

-----------------------------------------------------------------------------
(* What a call that goes on keeps: the locks held, and what others rely on.*)
LEMMA HeldGoesOn ==
    ASSUME Stacks, CallsHold, NEW t \in Tasks, Depth(t) > 0, NEW x, NEW step, NEW next,
           GoesOn(t, x, step, next), UNCHANGED <<owner, map_owner>>,
           \A f \in Files : wrapper[f] # Nobody => wrapper'[f] = wrapper[f],
           CallInv, step \in {"insert", "unlock_map"} => map_owner = t
    PROVE  CallsHold'
<1>1. Depth(t) \in Nat /\ Top(t) = call[t][Depth(t)]
  BY StackElements DEF Top
<1>2. Holds(t, Top(t)) /\ Shape(Top(t))
  BY <1>1 DEF CallsHold, CallInv
<1> SUFFICES ASSUME NEW u \in Tasks, NEW i \in 1 .. Depth(u)'
             PROVE  Holds(u, call[u][i])'
  BY DEF CallsHold
<1>3. i \in 1 .. Depth(u) /\ call'[u][i] = IF u = t /\ i = Depth(t) THEN x ELSE call[u][i]
  BY DEF GoesOn, Becomes, Depth
<1>4. u # Nobody /\ t # Nobody
  BY OpenFileMapAssumption
<1>5. CASE u = t /\ i = Depth(t)
  <2>1. call'[u][i] = x /\ Same(x, Top(t)) /\ x.step = step
    BY <1>3, <1>5 DEF GoesOn
  <2> QED BY <1>2, <1>4, <1>5, <2>1 DEF Holds, Same, Shape
<1>6. CASE ~(u = t /\ i = Depth(t))
  <2>1. call'[u][i] = call[u][i] /\ Holds(u, call[u][i]) /\ Shape(call[u][i])
    BY <1>3, <1>6 DEF CallsHold, CallInv
  <2> QED BY <1>4, <2>1 DEF Holds, Shape
<1> QED BY <1>5, <1>6

LEMMA OwnerGoesOn ==
    ASSUME Stacks, OwnerHeld, NEW t \in Tasks, Depth(t) > 0, NEW x, Becomes(t, x),
           Top(t).locked => x.locked /\ x.volume = Top(t).volume,
           \A v \in Volumes : owner'[v] = owner[v] \/ (owner'[v] = t /\ x.volume = v /\ x.locked)
    PROVE  OwnerHeld'
<1>1. Depth(t) \in Nat /\ Top(t) = call[t][Depth(t)]
  BY StackElements DEF Top
<1> SUFFICES ASSUME NEW v \in Volumes, NEW u \in Tasks, owner'[v] = u
             PROVE  \E i \in 1 .. Depth(u)' : call'[u][i].locked /\ call'[u][i].volume = v
  BY DEF OwnerHeld
<1>2. \A w \in Tasks : \A i \in 1 .. Depth(w) :
        i \in 1 .. Depth(w)' /\ call'[w][i] = IF w = t /\ i = Depth(t) THEN x ELSE call[w][i]
  BY DEF Becomes, Depth
<1>3. CASE owner'[v] = owner[v]
  <2>1. PICK i \in 1 .. Depth(u) : call[u][i].locked /\ call[u][i].volume = v
    BY <1>3 DEF OwnerHeld
  <2> QED BY <1>1, <1>2, <2>1
<1>4. CASE owner'[v] = t /\ x.volume = v /\ x.locked
  <2>1. Depth(t) \in 1 .. Depth(t) /\ u = t
    BY <1>1, <1>4
  <2> QED BY <1>2, <1>4, <2>1
<1> QED BY <1>3, <1>4

LEMMA MapGoesOn ==
    ASSUME Stacks, MapHeld, NEW t \in Tasks, Depth(t) > 0, NEW x, Becomes(t, x),
           map_owner' \in {map_owner, Nobody},
           map_owner' = t => x.step \in MapSteps \cup {"insert", "unlock_map"}
    PROVE  MapHeld'
<1>1. \A u \in Tasks : Depth(u) \in Nat /\ u # Nobody
  BY StackElements, OpenFileMapAssumption
<1>2. \A u \in Tasks : Depth(u)' = Depth(u)
  BY DEF Becomes, Depth
<1>3. Top(t)' = x /\ \A u \in Tasks : u # t /\ Depth(u) > 0 => Top(u)' = Top(u)
  <2>1. \A u \in Tasks : Depth(u) > 0 => Top(u)' = IF u = t THEN x ELSE Top(u)
    <3> SUFFICES ASSUME NEW u \in Tasks, Depth(u) > 0
                 PROVE  Top(u)' = IF u = t THEN x ELSE Top(u)
      OBVIOUS
    <3>1. Depth(u) \in 1 .. Len(call[u]) /\ Top(u)' = call'[u][Depth(u)]
      BY <1>1, <1>2 DEF Depth, Top
    <3> QED BY <3>1 DEF Becomes, Top
  <2> QED BY <2>1
<1> QED BY <1>1, <1>2, <1>3 DEF MapHeld

LEMMA VolumeGoesOn ==
    ASSUME Stacks, OneVolume, NEW t \in Tasks, Depth(t) > 0, NEW x, Becomes(t, x),
           x.volume = Top(t).volume, x.step # "GetFileByUUID",
           \A u \in Tasks : \A i \in 1 .. Depth(u) :
                call[u][i].step = "GetFileByUUID" /\ call[u][i].file \in OpenFiles' =>
                    records'[call[u][i].file] = records[call[u][i].file]
    PROVE  OneVolume'
<1>1. Depth(t) \in Nat /\ Top(t) = call[t][Depth(t)]
  BY StackElements DEF Top
<1>2. ASSUME NEW u \in Tasks, NEW i \in 1 .. Depth(u)'
      PROVE  /\ i \in 1 .. Depth(u) /\ call'[u][i].volume = call[u][i].volume
             /\ call'[u][i].step = "GetFileByUUID" => call'[u][i] = call[u][i]
  <2>1. i \in 1 .. Depth(u) /\ call'[u][i] = IF u = t /\ i = Depth(t) THEN x ELSE call[u][i]
    BY DEF Becomes, Depth
  <2> QED BY <1>1, <2>1
<1> SUFFICES ASSUME NEW u \in Tasks, NEW i \in 1 .. Depth(u)', NEW j \in 1 .. Depth(u)',
                    call'[u][j].volume \in Volumes
             PROVE  /\ call'[u][i].volume \in Volumes =>
                            call'[u][i].volume = call'[u][j].volume
                    /\ call'[u][i].step = "GetFileByUUID" /\ call'[u][i].file \in OpenFiles' =>
                            VolumeOf(call[u][i].file)' = call'[u][j].volume
  BY DEF OneVolume
<1>3. /\ call'[u][i].volume = call[u][i].volume /\ call'[u][j].volume = call[u][j].volume
      /\ call'[u][i].step = "GetFileByUUID" => call'[u][i] = call[u][i]
      /\ i \in 1 .. Depth(u) /\ j \in 1 .. Depth(u)
  BY <1>2
<1>4. ASSUME call'[u][i].step = "GetFileByUUID", call'[u][i].file \in OpenFiles'
      PROVE  VolumeOf(call[u][i].file)' = call'[u][j].volume
  <2>1. call'[u][i] = call[u][i]
    BY <1>3, <1>4
  <2>2. /\ records'[call'[u][i].file] = records[call[u][i].file]
        /\ call[u][i].file \in OpenFiles
    BY <1>3, <1>4, <2>1 DEF OpenFiles
  <2> QED BY <1>3, <1>4, <2>1, <2>2 DEF OneVolume, VolumeOf
<1> QED BY <1>3, <1>4 DEF OneVolume

LEMMA ReliedGoesOn ==
    ASSUME Stacks, CallsRely, NEW t \in Tasks, Depth(t) > 0, NEW x, Becomes(t, x),
           UNCHANGED <<records, exists>>, Relies(x)
    PROVE  CallsRely'
<1>1. Depth(t) \in Nat /\ Top(t) = call[t][Depth(t)]
  BY StackElements DEF Top
<1> SUFFICES ASSUME NEW u \in Tasks, NEW i \in 1 .. Depth(u)'
             PROVE  Relies(call[u][i])'
  BY DEF CallsRely
<1>2. i \in 1 .. Depth(u) /\ call'[u][i] = IF u = t /\ i = Depth(t) THEN x ELSE call[u][i]
  BY DEF Becomes, Depth
<1>3. Relies(call'[u][i])
  BY <1>2 DEF CallsRely
<1> QED BY <1>3 DEF Relies, Conflicts, IsOpen, OpenAs, OpenFiles, IdentityOf, Place

(* A call that goes on without a change but to where it is.                *)
LEMMA QuietlyGoesOn ==
    ASSUME Inv, NEW t \in Tasks, Depth(t) > 0, NEW x, NEW step, NEW next,
           GoesOn(t, x, step, next), UNCHANGED <<mounted, exists, locks, records, wrapper>>,
           Shape(x), Relies(x), step # "GetFileByUUID",
           step \in {"insert", "unlock_map"} => map_owner = t,
           map_owner = t => step \in MapSteps \cup {"insert", "unlock_map"}
    PROVE  Inv'
<1>1. /\ Stacks /\ Becomes(t, x) /\ x.step = step /\ x.volume = Top(t).volume
      /\ Top(t).locked => x.locked
  BY DEF Inv, TypeOK, Stacks, GoesOn, Same
<1>2. CallInv'
  BY <1>1, CallsGoOn DEF Inv, GoesOn, Same
<1>3. TypeOK'
  BY DEF Inv, TypeOK, GoesOn, Becomes, locks
<1>4. CallsHold' /\ Wrapped'
  BY <1>1, HeldGoesOn DEF Inv, HoldInv, locks, Wrapped, OpenFiles
<1>5. CallsRely'
  BY <1>1, ReliedGoesOn DEF Inv, FilesInv
<1>6. OpenEntriesStay' /\ WritersExcludeOthers'
  BY DEF Inv, FilesInv, OpenEntriesStay, WritersExcludeOthers, OpenFiles
<1>7. OwnerHeld' /\ MapHeld'
  BY <1>1, OwnerGoesOn, MapGoesOn DEF Inv, LockInv, locks
<1>8. OneVolume'
  BY <1>1, VolumeGoesOn DEF Inv, LockInv
<1> QED BY <1>2, <1>3, <1>4, <1>5, <1>6, <1>7, <1>8 DEF Inv, HoldInv, FilesInv, LockInv

LEMMA TopFacts ==
    ASSUME Inv, NEW t \in Tasks, Depth(t) > 0
    PROVE  /\ Stacks /\ Top(t) \in Frame /\ Shape(Top(t)) /\ Holds(t, Top(t)) /\ Relies(Top(t))
           /\ map_owner = t => Top(t).step \in MapSteps \cup {"insert", "unlock_map"}
           /\ Top(t).step \in Steps /\ Top(t).next \in Steps /\ t # Nobody
<1>1. Stacks
  BY DEF Inv, TypeOK, Stacks
<1>2. Depth(t) \in Nat /\ Top(t) = call[t][Depth(t)] /\ Top(t) \in Frame
  BY <1>1, StackElements DEF Top
<1>3. Depth(t) \in 1 .. Depth(t)
  BY <1>2
<1>4. Shape(Top(t)) /\ Holds(t, Top(t)) /\ Relies(Top(t))
  BY <1>2, <1>3 DEF Inv, CallInv, HoldInv, CallsHold, FilesInv, CallsRely
<1> QED BY <1>1, <1>2, <1>4, FrameFields, OpenFileMapAssumption DEF Inv, LockInv, MapHeld

(* A call that returns; it leaves the lock of the volume to the calls      *)
(* below that hold it.                                                     *)
LEMMA QuietlyReturns ==
    ASSUME Inv, NEW t \in Tasks, Depth(t) > 0, Shrinks(t),
           UNCHANGED <<mounted, exists, records, wrapper>>,
           owner' \in [Volumes -> Tasks \cup {Nobody}],
           \A v \in Volumes :
                owner'[v] = owner[v] \/ (owner[v] = t /\ owner'[v] = Nobody /\ ~HoldsBelow(t, v)),
           \A v \in Volumes :
                owner'[v] = t /\ Top(t).locked /\ Top(t).volume = v => HoldsBelow(t, v),
           map_owner' \in {map_owner, Nobody}, map_owner' # t,
           Top(t).step = "unlock_map" \/ map_owner' = map_owner
    PROVE  Inv'
<1>1. Stacks /\ Depth(t) \in Nat /\ Top(t) = call[t][Depth(t)] /\ t # Nobody /\ Holds(t, Top(t))
  BY TopFacts, StackElements DEF Top
<1>2. CallInv'
  BY <1>1, CallsShrink DEF Inv
<1>3. TypeOK'
  BY DEF Inv, TypeOK, Shrinks
<1>4. ASSUME NEW u \in Tasks, NEW i \in 1 .. Depth(u)'
      PROVE  /\ i \in 1 .. Depth(u) /\ call'[u][i] = call[u][i] /\ (u = t => i < Depth(t))
             /\ u = t \/ Depth(u)' = Depth(u)
  BY <1>1, StackElements DEF Shrinks, Depth
<1>5. CallsHold'
  <2> SUFFICES ASSUME NEW u \in Tasks, NEW i \in 1 .. Depth(u)'
               PROVE  Holds(u, call[u][i])'
    BY DEF CallsHold
  <2>1. /\ i \in 1 .. Depth(u) /\ call'[u][i] = call[u][i] /\ (u = t => i < Depth(t))
        /\ u # Nobody
    BY <1>4, OpenFileMapAssumption
  <2>2. Holds(u, call[u][i])
    BY <2>1 DEF Inv, HoldInv, CallsHold
  <2>3. u = t => call[u][i].step \notin {"insert", "unlock_map"}
    BY <1>1, <2>1 DEF Inv, CallInv, Waits
  <2>4. call[u][i].step \in {"insert", "unlock_map"} => map_owner' = u
    BY <1>1, <2>1, <2>2, <2>3 DEF Holds
  <2>5. call[u][i].locked => call[u][i].volume \in Volumes
    BY <2>1 DEF Inv, CallInv, Shape, UnlockedPlaces
  <2>6. u = t /\ call[u][i].locked => HoldsBelow(t, call[u][i].volume)
    BY <1>1, <2>1 DEF HoldsBelow
  <2>7. call[u][i].locked => owner'[call[u][i].volume] = u
    BY <2>1, <2>2, <2>5, <2>6 DEF Holds
  <2> QED BY <2>1, <2>2, <2>4, <2>7 DEF Holds
<1>6. Wrapped'
  BY DEF Inv, HoldInv, Wrapped, OpenFiles
<1>7. CallsRely'
  <2> SUFFICES ASSUME NEW u \in Tasks, NEW i \in 1 .. Depth(u)'
               PROVE  Relies(call[u][i])'
    BY DEF CallsRely
  <2>1. Relies(call'[u][i])
    BY <1>4 DEF Inv, FilesInv, CallsRely
  <2> QED BY <2>1 DEF Relies, Conflicts, IsOpen, OpenAs, OpenFiles, IdentityOf, Place
<1>8. OpenEntriesStay' /\ WritersExcludeOthers'
  BY DEF Inv, FilesInv, OpenEntriesStay, WritersExcludeOthers, OpenFiles
<1>9. MapHeld'
  <2> SUFFICES ASSUME NEW u \in Tasks, map_owner' = u
               PROVE  Depth(u)' > 0 /\ Top(u)'.step \in MapSteps \cup {"insert", "unlock_map"}
    BY DEF MapHeld
  <2>1. u # t /\ map_owner = u /\ Depth(u) \in Nat
    BY <1>1, OpenFileMapAssumption, StackElements
  <2>2. Depth(u) > 0 /\ Top(u).step \in MapSteps \cup {"insert", "unlock_map"}
    BY <2>1 DEF Inv, LockInv, MapHeld
  <2>3. Depth(u)' = Depth(u) /\ Top(u)' = Top(u)
    BY <2>1, <2>2 DEF Shrinks, Depth, Top
  <2> QED BY <2>2, <2>3
<1>10. OwnerHeld'
  <2> SUFFICES ASSUME NEW v \in Volumes, NEW u \in Tasks, owner'[v] = u
               PROVE  \E i \in 1 .. Depth(u)' : call'[u][i].locked /\ call'[u][i].volume = v
    BY DEF OwnerHeld
  <2>0. u # Nobody /\ owner[v] = u
    BY OpenFileMapAssumption
  <2>1. PICK i \in 1 .. Depth(u) : call[u][i].locked /\ call[u][i].volume = v
    BY <2>0 DEF Inv, LockInv, OwnerHeld
  <2>2. u = t /\ i = Depth(t) => HoldsBelow(t, v)
    BY <1>1, <2>1
  <2>3. \E j \in 1 .. Depth(u) : /\ call[u][j].locked /\ call[u][j].volume = v
                                 /\ u = t => j # Depth(t)
    BY <1>1, <2>1, <2>2 DEF HoldsBelow
  <2>4. \A j \in 1 .. Depth(u) : (u = t => j # Depth(t)) =>
            j \in 1 .. Depth(u)' /\ call'[u][j] = call[u][j]
    BY <1>1, StackElements DEF Shrinks, Depth
  <2> QED BY <2>3, <2>4
<1>11. OneVolume'
  <2>1. ASSUME NEW u \in Tasks, NEW i \in 1 .. Depth(u)'
        PROVE  i \in 1 .. Depth(u) /\ call'[u][i] = call[u][i]
    BY <1>4
  <2> QED BY <2>1 DEF Inv, LockInv, OneVolume, VolumeOf, OpenFiles
<1> QED BY <1>2, <1>3, <1>5, <1>6, <1>7, <1>8, <1>9, <1>10, <1>11
        DEF Inv, HoldInv, FilesInv, LockInv

(* A call that makes another.                                              *)
LEMMA QuietlyEnters ==
    ASSUME Inv, NEW t \in Tasks, NEW x, NEW y \in Frame, Grows(t, x, y),
           UNCHANGED <<mounted, exists, locks, records, wrapper>>, map_owner # t,
           Depth(t) > 0 => /\ Same(x, Top(t)) /\ Shape(x)
                           /\ x.op \in {"VisitDirectory", "Append"}
                           /\ x.op = "Append" => y.op = "Use" /\ x.file \in OpenFiles
                           /\ x.step \in {"visit", "write", "unlock"}
                           /\ y.volume \in {Nobody, x.volume}
                           /\ y.step = "GetFileByUUID" /\ y.file \in OpenFiles =>
                                VolumeOf(y.file) = x.volume,
           Shape(y), y.step \in {"find", "GetFileByUUID"}, ~y.locked,
           y.op \in FileCalls => wrapper[y.file] = t /\ (y.step = "find" => y.file \in OpenFiles),
           y.step = "GetFileByUUID" => y.volume \notin Volumes
    PROVE  Inv'
<1>1. Stacks /\ Depth(t) \in Nat /\ t # Nobody
  BY StackElements, OpenFileMapAssumption DEF Inv, TypeOK, Stacks
<1>2. CallInv'
  BY <1>1, CallsGrow DEF Inv, Same
<1>3. TypeOK'
  BY DEF Inv, TypeOK, Grows, locks
<1>4. /\ Depth(t)' = Depth(t) + 1 /\ \A u \in Tasks : u # t => Depth(u)' = Depth(u)
      /\ call'[t][Depth(t) + 1] = y
  BY DEF Grows, Depth
<1>5. \A u \in Tasks : \A i \in 1 .. Depth(u) :
        call'[u][i] = IF u = t /\ i = Depth(t) THEN x ELSE call[u][i]
  BY DEF Grows, Depth
<1>6. Depth(t) > 0 => /\ Top(t) = call[t][Depth(t)] /\ Depth(t) \in 1 .. Depth(t)
                      /\ Holds(t, Top(t)) /\ Relies(Top(t))
  BY <1>1, TopFacts DEF Top
<1>7. ASSUME NEW u \in Tasks, NEW i \in 1 .. Depth(u)'
      PROVE  \/ u = t /\ i = Depth(t) + 1 /\ call'[u][i] = y
             \/ u = t /\ i = Depth(t) /\ Depth(t) > 0 /\ call'[u][i] = x
             \/ i \in 1 .. Depth(u) /\ ~(u = t /\ i = Depth(t)) /\ call'[u][i] = call[u][i]
  BY <1>1, <1>4, <1>5, StackElements
<1>8. CallsHold' /\ Wrapped'
  <2>1. Wrapped'
    BY DEF Inv, HoldInv, Wrapped, OpenFiles
  <2> SUFFICES ASSUME NEW u \in Tasks, NEW i \in 1 .. Depth(u)'
               PROVE  Holds(u, call[u][i])'
    BY <2>1 DEF CallsHold
  <2>2. Holds(u, call'[u][i])
    <3>1. Holds(t, y)
      BY DEF Holds
    <3>2. Depth(t) > 0 => Holds(t, x)
      BY <1>6 DEF Holds, Same
    <3> QED BY <1>7, <3>1, <3>2 DEF Inv, HoldInv, CallsHold
  <2> QED BY <2>2 DEF Holds, locks
<1>9. CallsRely'
  <2> SUFFICES ASSUME NEW u \in Tasks, NEW i \in 1 .. Depth(u)'
               PROVE  Relies(call[u][i])'
    BY DEF CallsRely
  <2>1. Relies(y)
    BY DEF Relies, Place
  <2>2. Depth(t) > 0 => Relies(x)
    BY DEF Relies, Place, FileCalls
  <2>3. Relies(call'[u][i])
    BY <1>7, <2>1, <2>2 DEF Inv, FilesInv, CallsRely
  <2> QED BY <2>3 DEF Relies, Conflicts, IsOpen, OpenAs, OpenFiles, IdentityOf, Place
<1>10. OpenEntriesStay' /\ WritersExcludeOthers'
  BY DEF Inv, FilesInv, OpenEntriesStay, WritersExcludeOthers, OpenFiles
<1>11. MapHeld'
  <2> SUFFICES ASSUME NEW u \in Tasks, map_owner = u
               PROVE  Depth(u)' > 0 /\ Top(u)'.step \in MapSteps \cup {"insert", "unlock_map"}
    BY DEF MapHeld, locks
  <2>1. Depth(u) > 0 /\ Top(u).step \in MapSteps \cup {"insert", "unlock_map"} /\ u # t
    BY DEF Inv, LockInv, MapHeld
  <2>2. Depth(u) \in Nat /\ Depth(u)' = Depth(u)
    BY <1>1, <1>4, <2>1, StackElements
  <2>3. Top(u)' = Top(u)
    BY <1>5, <2>1, <2>2 DEF Top
  <2> QED BY <2>1, <2>2, <2>3
<1>12. OwnerHeld'
  <2> SUFFICES ASSUME NEW v \in Volumes, NEW u \in Tasks, owner[v] = u
               PROVE  \E i \in 1 .. Depth(u)' : call'[u][i].locked /\ call'[u][i].volume = v
    BY DEF OwnerHeld, locks
  <2>1. PICK i \in 1 .. Depth(u) : call[u][i].locked /\ call[u][i].volume = v
    BY DEF Inv, LockInv, OwnerHeld
  <2>2. i \in 1 .. Depth(u)'
    BY <1>1, <1>4, StackElements
  <2>3. call'[u][i].locked /\ call'[u][i].volume = v
    BY <1>1, <1>5, <1>6, <2>1 DEF Same
  <2> QED BY <2>2, <2>3
<1>13. OneVolume'
  <2>1. ASSUME NEW u \in Tasks, NEW i \in 1 .. Depth(u)'
        PROVE  \/ u = t /\ i = Depth(t) + 1 /\ call'[u][i] = y
               \/ /\ i \in 1 .. Depth(u)
                  /\ call'[u][i].volume = call[u][i].volume
                  /\ call'[u][i].step = "GetFileByUUID" => call'[u][i] = call[u][i]
    BY <1>6, <1>7 DEF Same
  <2> SUFFICES ASSUME NEW u \in Tasks, NEW i \in 1 .. Depth(u)', NEW j \in 1 .. Depth(u)',
                      call'[u][j].volume \in Volumes
               PROVE  /\ call'[u][i].volume \in Volumes =>
                              call'[u][i].volume = call'[u][j].volume
                      /\ call'[u][i].step = "GetFileByUUID" /\ call'[u][i].file \in OpenFiles =>
                              VolumeOf(call'[u][i].file) = call'[u][j].volume
    BY DEF OneVolume, OpenFiles, VolumeOf
  <2>2. CASE i \in 1 .. Depth(u) /\ j \in 1 .. Depth(u)
    <3>1. u = t => i # Depth(t) + 1 /\ j # Depth(t) + 1
      BY <1>1, <2>2
    <3>2. /\ call'[u][i].volume = call[u][i].volume
          /\ call'[u][j].volume = call[u][j].volume
          /\ call'[u][i].step = "GetFileByUUID" => call'[u][i] = call[u][i]
      BY <2>1, <3>1
    <3> QED BY <2>2, <3>2 DEF Inv, LockInv, OneVolume
  <2>3. CASE ~(i \in 1 .. Depth(u) /\ j \in 1 .. Depth(u))
    <3>1. u = t /\ (i = Depth(t) + 1 \/ j = Depth(t) + 1)
      BY <2>1, <2>3
    <3>2. \A k \in 1 .. Depth(t) : /\ call[t][k].volume \in Volumes => call[t][k].volume = x.volume
                                   /\ call[t][k].step # "GetFileByUUID" \/ k = Depth(t)
      <4> SUFFICES ASSUME NEW k \in 1 .. Depth(t)
                   PROVE  /\ call[t][k].volume \in Volumes => call[t][k].volume = x.volume
                          /\ call[t][k].step # "GetFileByUUID" \/ k = Depth(t)
        OBVIOUS
      <4>1. Depth(t) > 0 /\ x.volume = call[t][Depth(t)].volume /\ Depth(t) \in 1 .. Depth(t)
        BY <1>1, <1>6 DEF Same
      <4>2. x.volume \in Volumes
        BY <4>1 DEF Shape, Place
      <4>3. k # Depth(t) => Waits(t, k)
        BY <1>1 DEF Inv, CallInv
      <4> QED BY <4>1, <4>2, <4>3 DEF Inv, LockInv, OneVolume, Waits
    <3>3. \A k \in 1 .. Depth(t) : /\ call'[t][k].volume \in Volumes => call'[t][k].volume = x.volume
                                   /\ call'[t][k].step # "GetFileByUUID"
      BY <1>1, <1>5, <3>2
    <3>4. Nobody \notin Volumes
      BY OpenFileMapAssumption
    <3>5. CASE j = Depth(t) + 1
      <4>1. call'[u][j] = y /\ y.volume \in Volumes /\ y.step # "GetFileByUUID"
        BY <1>4, <3>1, <3>5
      <4>2. CASE i = Depth(t) + 1
        BY <3>5, <4>1, <4>2
      <4>3. CASE i # Depth(t) + 1
        <5>1. i \in 1 .. Depth(t) /\ Depth(t) > 0
          BY <1>1, <1>4, <3>1, <4>3
        <5> QED BY <3>1, <3>3, <3>4, <4>1, <5>1
      <4> QED BY <4>2, <4>3
    <3>6. CASE j # Depth(t) + 1
      <4>1. /\ j \in 1 .. Depth(t) /\ Depth(t) > 0
            /\ i = Depth(t) + 1 /\ call'[u][i] = y
        BY <1>1, <1>4, <3>1, <3>6
      <4>2. call'[u][j].volume = x.volume
        BY <3>1, <3>3, <4>1
      <4> QED BY <3>4, <4>1, <4>2
    <3> QED BY <3>5, <3>6
  <2> QED BY <2>2, <2>3
<1> QED BY <1>2, <1>3, <1>8, <1>9, <1>10, <1>11, <1>12, <1>13
        DEF Inv, HoldInv, FilesInv, LockInv

-----------------------------------------------------------------------------
(* The steps.                                                              *)
LEMMA CallsOnVolume ==
    ASSUME NEW v \in Volumes, NEW y \in CallsOn(v)
    PROVE  /\ y \in Frame /\ Shape(y) /\ ~y.locked /\ y.volume = v
           /\ y.step = "find" /\ y.op \in DirectoryCalls
<1> DEFINE base(op) == NewCall(op, "find")
           opens(e) == {[base("OpenFile") EXCEPT !.volume = v, !.entry = e, !.mode = m] : m \in Modes}
           renames(e) == {[base("RenameEntry") EXCEPT !.volume = v, !.entry = e, !.to = o] :
                            o \in Entries \ {e}}
           delete(e) == [base("DeleteFile") EXCEPT !.volume = v, !.entry = e]
           visit == [base("VisitDirectory") EXCEPT !.volume = v]
<1>0. y = visit \/ \E e \in Entries : y \in opens(e) \/ y = delete(e) \/ y \in renames(e)
  <2>1. y \in {visit} \cup UNION {opens(e) \cup {delete(e)} \cup renames(e) : e \in Entries}
    BY DEF CallsOn
  <2> HIDE DEF visit, opens, delete, renames
  <2> QED BY <2>1
<1>1. \/ y = [base("VisitDirectory") EXCEPT !.volume = v]
      \/ \E e \in Entries, m \in Modes :
            y = [base("OpenFile") EXCEPT !.volume = v, !.entry = e, !.mode = m]
      \/ \E e \in Entries : y = [base("DeleteFile") EXCEPT !.volume = v, !.entry = e]
      \/ \E e, o \in Entries :
            y = [base("RenameEntry") EXCEPT !.volume = v, !.entry = e, !.to = o]
  <2> HIDE DEF base
  <2> QED BY <1>0
<1> HIDE DEF visit, opens, delete, renames
<1> DEFINE Begins == /\ y.op \in DirectoryCalls /\ y.volume = v /\ y.step = "find"
                     /\ y.next = "return" /\ y.locked = FALSE
                     /\ y.op \in EntryCalls => y.entry \in Entries
                     /\ y \in Frame
<1>2. Begins
  <2>1. CASE y = [base("VisitDirectory") EXCEPT !.volume = v]
    BY <2>1 DEF NewCall, DirectoryCalls, EntryCalls, Frame, Steps, Modes
  <2>2. ASSUME NEW e \in Entries, NEW m \in Modes,
               y = [base("OpenFile") EXCEPT !.volume = v, !.entry = e, !.mode = m]
        PROVE  Begins
    BY <2>2 DEF NewCall, DirectoryCalls, EntryCalls, Frame, Steps, Modes
  <2>3. ASSUME NEW e \in Entries, y = [base("DeleteFile") EXCEPT !.volume = v, !.entry = e]
        PROVE  Begins
    BY <2>3 DEF NewCall, DirectoryCalls, EntryCalls, Frame, Steps, Modes
  <2>4. ASSUME NEW e \in Entries, NEW o \in Entries,
               y = [base("RenameEntry") EXCEPT !.volume = v, !.entry = e, !.to = o]
        PROVE  Begins
    BY <2>4 DEF NewCall, DirectoryCalls, EntryCalls, Frame, Steps, Modes
  <2> HIDE DEF Begins, base
  <2> QED BY <1>1, <2>1, <2>2, <2>3, <2>4
<1>3. Shape(y)
  BY <1>2 DEF Shape, Place, DirectoryCalls, FileCalls, LockedPlaces
<1> QED BY <1>2, <1>3

LEMMA CallsOfFile ==
    ASSUME NEW f \in Files, NEW y \in CallsOf(f)
    PROVE  /\ y \in Frame /\ Shape(y) /\ ~y.locked /\ y.volume = Nobody
           /\ y.step = "GetFileByUUID" /\ y.op \in FileCalls /\ y.file = f
<1>1. PICK op \in FileCalls : y = [NewCall(op, "GetFileByUUID") EXCEPT !.file = f]
  BY DEF CallsOf
<1>2. /\ y \in Frame /\ y.locked = FALSE /\ y.volume = Nobody
      /\ y.step = "GetFileByUUID" /\ y.op = op /\ y.file = f /\ y.next = "return"
  BY <1>1 DEF NewCall, FileCalls, Frame, Steps, Modes
<1>3. Shape(y)
  BY <1>2 DEF Shape, Place, FileCalls, EntryCalls, LockedPlaces
<1> QED BY <1>2, <1>3

LEMMA NewCalls ==
    ASSUME NEW volumes \in SUBSET Volumes, NEW files \in SUBSET Files,
           NEW y \in CallsInto(volumes, files)
    PROVE  /\ y \in Frame /\ Shape(y) /\ ~y.locked
           /\ \/ y.step = "find" /\ y.op \in DirectoryCalls /\ y.volume \in volumes
              \/ /\ y.step = "GetFileByUUID" /\ y.op \in FileCalls
                 /\ y.volume = Nobody /\ y.file \in files
<1>1. PICK S \in {CallsOn(v) : v \in volumes} \cup {CallsOf(f) : f \in files} : y \in S
  BY DEF CallsInto
<1>2. CASE S \in {CallsOn(v) : v \in volumes}
  BY <1>1, <1>2, CallsOnVolume
<1>3. CASE S \in {CallsOf(f) : f \in files}
  BY <1>1, <1>3, CallsOfFile
<1> QED BY <1>1, <1>2, <1>3

LEMMA BeginStep ==
    ASSUME Inv, NEW t \in Tasks, Begin(t)
    PROVE  Inv'
<1>1. Stacks /\ Depth(t) = 0 /\ map_owner # t
  BY DEF Inv, TypeOK, Stacks, Begin, Depth, LockInv, MapHeld
<1>2. PICK y \in CallsInto(Volumes, FilesOf(t)) : Enter(t, y)
  BY DEF Begin
<1>3. /\ y \in Frame /\ Shape(y) /\ ~y.locked
      /\ \/ y.step = "find" /\ y.op \in DirectoryCalls
         \/ y.step = "GetFileByUUID" /\ y.volume = Nobody /\ y.op \in FileCalls
            /\ wrapper[y.file] = t
  BY NewCalls DEF FilesOf
<1>4. Grows(t, Top(t), y)
  BY <1>1, <1>2, <1>3, EnterMoves
<1> QED BY <1>1, <1>3, <1>4, QuietlyEnters, OpenFileMapAssumption DEF Begin, DirectoryCalls, FileCalls

LEMMA FindStep ==
    ASSUME Inv, NEW t \in Tasks, Find(t)
    PROVE  Inv'
<1>1. /\ Stacks /\ Depth(t) > 0 /\ Top(t).step = "find" /\ Shape(Top(t)) /\ Relies(Top(t))
      /\ map_owner # t
  BY TopFacts DEF Find, At, MapSteps
<1>2. CASE GoTo(t, "lock")
  <2>1. PICK x : GoesOn(t, x, "lock", Top(t).next)
    BY <1>1, <1>2, GoToGoesOn DEF Steps
  <2>2. Shape(x) /\ Relies(x)
    BY <1>1, <2>1 DEF GoesOn, Same, Shape, Relies, Place, LockedPlaces, UnlockedPlaces
  <2> QED BY <1>1, <2>1, <2>2, QuietlyGoesOn DEF Find
<1>3. CASE Top(t).op = "Close" /\ GoTo(t, "RemoveFile")
  <2>1. PICK x : GoesOn(t, x, "RemoveFile", Top(t).next)
    BY <1>1, <1>3, GoToGoesOn DEF Steps
  <2>2. Shape(x) /\ Relies(x)
    BY <1>1, <1>3, <2>1 DEF GoesOn, Same, Shape, Relies, Place, LockedPlaces, UnlockedPlaces, EntryCalls, FileCalls
  <2> QED BY <1>1, <2>1, <2>2, QuietlyGoesOn DEF Find
<1>4. CASE Return(t)
  <2>1. Shrinks(t) /\ ~Top(t).locked
    BY <1>1, <1>4, ReturnMoves DEF Shape, Place, UnlockedPlaces
  <2>2. owner' = owner /\ owner' \in [Volumes -> Tasks \cup {Nobody}] /\ map_owner' = map_owner
    BY DEF Find, locks, Inv, TypeOK
  <2> QED BY <1>1, <2>1, <2>2, QuietlyReturns DEF Find
<1> QED BY <1>2, <1>3, <1>4 DEF Find

LEMMA QuietSteps ==
    ASSUME Inv, NEW t \in Tasks, AddFile(t) \/ IsFileOpen(t) \/ UseFile(t) \/ VisitEnds(t)
    PROVE  Inv'
<1>1. /\ Stacks /\ Depth(t) > 0 /\ Shape(Top(t)) /\ Relies(Top(t)) /\ Holds(t, Top(t))
      /\ map_owner = t => Top(t).step \in MapSteps \cup {"insert", "unlock_map"}
  BY TopFacts DEF AddFile, IsFileOpen, UseFile, VisitEnds, At
<1>2. CASE AddFile(t) /\ LeaveMap(t, "unlock")
  <2>1. PICK x : GoesOn(t, x, "unlock_map", "unlock")
    BY <1>1, <1>2, LeaveMapGoesOn DEF Steps
  <2>2. Shape(x) /\ Relies(x)
    BY <1>1, <1>2, <2>1 DEF AddFile, At, GoesOn, Same, Shape, Relies, Place, LockedPlaces, UnlockedPlaces
  <2> QED BY <1>1, <1>2, <2>1, <2>2, QuietlyGoesOn DEF AddFile
<1>3. CASE AddFile(t) /\ ~Conflicts(Top(t).mode, TopIdentity(t)) /\ GoTo(t, "insert")
  <2>1. PICK x : GoesOn(t, x, "insert", Top(t).next)
    BY <1>1, <1>3, GoToGoesOn DEF Steps
  <2>2. Shape(x) /\ Relies(x)
    BY <1>1, <1>3, <2>1 DEF AddFile, At, GoesOn, Same, Shape, Relies, Place, LockedPlaces, UnlockedPlaces, TopIdentity, IdentityOf
  <2> QED BY <1>1, <1>3, <2>1, <2>2, QuietlyGoesOn DEF AddFile
<1>4. CASE IsFileOpen(t)
  <2> DEFINE next == IF IsOpen(TopIdentity(t)) THEN "unlock" ELSE "change"
  <2>1. PICK x : GoesOn(t, x, "unlock_map", next)
    BY <1>1, <1>4, LeaveMapGoesOn DEF Steps, IsFileOpen
  <2>2. Shape(x) /\ Relies(x)
    BY <1>1, <1>4, <2>1 DEF IsFileOpen, At, GoesOn, Same, Shape, Relies, Place, LockedPlaces, UnlockedPlaces, TopIdentity, IdentityOf
  <2> QED BY <1>1, <1>4, <2>1, <2>2, QuietlyGoesOn DEF IsFileOpen
<1>5. CASE UseFile(t) \/ VisitEnds(t)
  <2>1. PICK x : GoesOn(t, x, "unlock", Top(t).next)
    BY <1>1, <1>5, GoToGoesOn DEF Steps, UseFile, VisitEnds
  <2>2. Shape(x) /\ Relies(x) /\ map_owner # t
    BY <1>1, <1>5, <2>1 DEF UseFile, VisitEnds, At, GoesOn, Same, Shape, Relies, Place, LockedPlaces, UnlockedPlaces, MapSteps
  <2> QED BY <1>1, <1>5, <2>1, <2>2, QuietlyGoesOn DEF UseFile, VisitEnds
<1> QED BY <1>2, <1>3, <1>4, <1>5 DEF AddFile

LEMMA GetFileStep_NotOpen ==
    ASSUME Inv, NEW t \in Tasks, GetFileByUUID(t), Top(t).file \notin OpenFiles
    PROVE  Inv'
<1>1. /\ Stacks /\ Depth(t) > 0 /\ Shape(Top(t)) /\ Relies(Top(t)) /\ Top(t).step = "GetFileByUUID"
  BY TopFacts DEF GetFileByUUID, At
<1>2. LeaveMap(t, "return")
  BY DEF GetFileByUUID
<1>3. PICK x : GoesOn(t, x, "unlock_map", "return")
  BY <1>1, <1>2, LeaveMapGoesOn DEF Steps
<1>4. Shape(x) /\ Relies(x)
  BY <1>1, <1>3 DEF GoesOn, Same, Shape, Relies, Place, LockedPlaces, UnlockedPlaces
<1> QED BY <1>1, <1>3, <1>4, QuietlyGoesOn DEF GetFileByUUID

LEMMA CallbackStep ==
    ASSUME Inv, NEW t \in Tasks, Callback(t)
    PROVE  Inv'
<1> DEFINE v == Top(t).volume
           mine == {f \in FilesOf(t) : f \in OpenFiles => VolumeOf(f) = v}
<1>1. /\ Stacks /\ Depth(t) > 0 /\ Shape(Top(t)) /\ Top(t).step = "visit" /\ map_owner # t
      /\ Top(t).op = "VisitDirectory" /\ v \in Volumes
  BY TopFacts DEF Callback, At, MapSteps, Shape, Place
<1>2. PICK y \in CallsInto({v}, mine) : Enter(t, y)
  BY DEF Callback
<1>3. /\ y \in Frame /\ Shape(y) /\ ~y.locked
      /\ \/ y.step = "find" /\ y.op \in DirectoryCalls /\ y.volume = v
         \/ /\ y.step = "GetFileByUUID" /\ y.volume = Nobody /\ y.op \in FileCalls
            /\ wrapper[y.file] = t /\ (y.file \in OpenFiles => VolumeOf(y.file) = v)
  BY <1>1, NewCalls DEF FilesOf
<1>4. Grows(t, Top(t), y)
  BY <1>1, <1>2, <1>3, EnterMoves
<1>5. Same(Top(t), Top(t))
  BY DEF Same
<1> HIDE DEF v, mine
<1> QED BY <1>1, <1>3, <1>4, <1>5, QuietlyEnters, OpenFileMapAssumption
        DEF Callback, DirectoryCalls, FileCalls, v

LEMMA LockMapStep ==
    ASSUME Inv, NEW t \in Tasks, LockMap(t)
    PROVE  Inv'
<1>1. Stacks /\ Depth(t) > 0 /\ Top(t).step \in MapSteps
  BY TopFacts DEF LockMap
<1>2. TypeOK' /\ CallInv' /\ FilesInv' /\ OwnerHeld' /\ OneVolume'
  BY DEF Inv, TypeOK, LockMap, CallInv, Waits, Depth, Top, FilesInv, CallsRely, Relies, Conflicts,
         IsOpen, OpenAs, OpenFiles, OpenEntriesStay, WritersExcludeOthers, LockInv, OwnerHeld,
         OneVolume, VolumeOf
<1>3. HoldInv'
  <2>1. \A u \in Tasks : \A i \in 1 .. Depth(u) : Holds(u, call[u][i]) => Holds(u, call[u][i])'
    BY OpenFileMapAssumption DEF LockMap, Holds
  <2> QED BY <2>1 DEF Inv, HoldInv, CallsHold, Wrapped, OpenFiles, LockMap, Depth
<1>4. MapHeld'
  BY <1>1, OpenFileMapAssumption DEF Inv, LockInv, MapHeld, LockMap, Depth, Top
<1> QED BY <1>2, <1>3, <1>4 DEF Inv, LockInv

LEMMA UnlockMapStep ==
    ASSUME Inv, NEW t \in Tasks, UnlockMap(t)
    PROVE  Inv'
<1>1. /\ Stacks /\ Depth(t) > 0 /\ Depth(t) \in Nat /\ Top(t) = call[t][Depth(t)]
      /\ Shape(Top(t)) /\ Relies(Top(t)) /\ Holds(t, Top(t))
      /\ Top(t).step = "unlock_map" /\ Top(t).next \in {"return", "find", "unlock", "change"}
      /\ map_owner = t /\ map_owner' = Nobody /\ t # Nobody
  BY TopFacts, StackElements DEF UnlockMap, At, Top, Shape, Holds
<1>2. CASE Top(t).next = "return" /\ Return(t)
  <2>1. Shrinks(t) /\ ~Top(t).locked
    BY <1>1, <1>2, ReturnMoves DEF Shape, Place, UnlockedPlaces
  <2>2. owner' = owner /\ owner' \in [Volumes -> Tasks \cup {Nobody}]
    BY DEF UnlockMap, Inv, TypeOK
  <2> QED BY <1>1, <2>1, <2>2, QuietlyReturns DEF UnlockMap
<1>3. CASE Top(t).next # "return" /\ GoTo(t, Top(t).next)
  <2>1. PICK x : GoesOn(t, x, Top(t).next, Top(t).next)
    BY <1>1, <1>3, GoToGoesOn DEF Steps
  <2>2. /\ Shape(x) /\ Relies(x) /\ Becomes(t, x) /\ x.volume = Top(t).volume
        /\ Top(t).locked => x.locked
    BY <1>1, <1>3, <2>1 DEF GoesOn, Same, Shape, Relies, Place, IdentityOf
  <2>3. CallInv' /\ TypeOK'
    BY <1>1, <2>1, <2>2, CallsGoOn DEF Inv, TypeOK, GoesOn, Same, Becomes, UnlockMap
  <2>4. CallsHold'
    <3> SUFFICES ASSUME NEW u \in Tasks, NEW i \in 1 .. Depth(u)'
                 PROVE  Holds(u, call[u][i])'
      BY DEF CallsHold
    <3>1. i \in 1 .. Depth(u) /\ call'[u][i] = IF u = t /\ i = Depth(t) THEN x ELSE call[u][i]
      BY <2>1 DEF GoesOn, Becomes, Depth
    <3>2. Holds(u, call[u][i]) /\ (u = t => i = Depth(t) \/ Waits(t, i))
      BY <1>1, <3>1 DEF Inv, HoldInv, CallsHold, CallInv
    <3>3. call'[u][i].step \notin {"insert", "unlock_map"}
      BY <1>1, <1>3, <2>1, <3>1, <3>2 DEF GoesOn, Holds, Waits
    <3> QED BY <1>1, <2>1, <3>1, <3>2, <3>3 DEF Holds, GoesOn, Same, UnlockMap
  <2>5. CallsRely' /\ Wrapped' /\ OpenEntriesStay' /\ WritersExcludeOthers'
    BY <1>1, <2>1, <2>2, ReliedGoesOn
       DEF Inv, HoldInv, FilesInv, Wrapped, OpenEntriesStay, WritersExcludeOthers, OpenFiles,
           UnlockMap
  <2>6. OwnerHeld' /\ MapHeld'
    BY <1>1, <2>2, OwnerGoesOn, MapGoesOn DEF Inv, LockInv, UnlockMap
  <2>7. OneVolume'
    BY <1>1, <1>3, <2>1, <2>2, VolumeGoesOn DEF Inv, LockInv, UnlockMap, GoesOn
  <2> QED BY <2>3, <2>4, <2>5, <2>6, <2>7 DEF Inv, HoldInv, FilesInv, LockInv
<1> QED BY <1>2, <1>3 DEF UnlockMap

LEMMA LockVolumeStep ==
    ASSUME Inv, NEW t \in Tasks, LockVolume(t)
    PROVE  Inv'
<1> DEFINE v == Top(t).volume
<1>1. /\ Stacks /\ Depth(t) > 0 /\ Depth(t) \in Nat /\ Top(t) = call[t][Depth(t)]
      /\ Shape(Top(t)) /\ Relies(Top(t)) /\ Holds(t, Top(t)) /\ Top(t) \in Frame
      /\ Top(t).step = "lock" /\ map_owner # t /\ t # Nobody /\ v \in Volumes
  BY TopFacts, StackElements DEF LockVolume, At, Top, Shape, Place, MapSteps
<1> DEFINE x == [[Top(t) EXCEPT !.step = Body(Top(t).op)] EXCEPT !.locked = TRUE]
<1>2. Top(t).op \in EntryCalls \cup {"VisitDirectory"} \cup FileCalls
  BY <1>1, FrameFields DEF DirectoryCalls, EntryCalls
<1>3. /\ Top(t).op \in EntryCalls => Body(Top(t).op) = "look"
      /\ Top(t).op = "VisitDirectory" => Body(Top(t).op) = "visit"
      /\ Top(t).op = "Use" => Body(Top(t).op) = "use"
      /\ Top(t).op = "Append" => Body(Top(t).op) = "seek"
      /\ Top(t).op = "Close" => Body(Top(t).op) = "RemoveFile"
      /\ Body(Top(t).op) \in {"look", "visit", "use", "seek", "RemoveFile"}
  BY <1>2 DEF Body, EntryCalls, FileCalls
<1>4. /\ x.op = Top(t).op /\ x.volume = v /\ x.entry = Top(t).entry /\ x.mode = Top(t).mode
      /\ x.file = Top(t).file /\ x.next = Top(t).next /\ x.step = Body(Top(t).op)
      /\ x.locked = TRUE
  BY <1>1 DEF Frame
<1>5. Becomes(t, x)
  <2>1. x \in Frame
    BY <1>1, <1>3, TopField DEF Steps
  <2>2. call' = [call EXCEPT ![t] = [@ EXCEPT ![Depth(t)] = x]]
    BY <1>1, StackElements DEF LockVolume, Top, Stacks
  <2> QED BY <1>1, <2>1, <2>2, ReplaceTop
<1> HIDE DEF x
<1>6. Shape(x) /\ Relies(x)
  BY <1>1, <1>2, <1>3, <1>4
     DEF Shape, Relies, Place, LockedPlaces, UnlockedPlaces, EntryCalls, FileCalls
<1>7. CallInv' /\ TypeOK'
  BY <1>1, <1>4, <1>5, <1>6, CallsGoOn DEF Inv, TypeOK, Becomes, LockVolume
<1>8. HoldInv'
  <2>1. Wrapped'
    BY DEF Inv, HoldInv, Wrapped, OpenFiles, LockVolume
  <2> SUFFICES ASSUME NEW u \in Tasks, NEW i \in 1 .. Depth(u)'
               PROVE  Holds(u, call[u][i])'
    BY <2>1 DEF HoldInv, CallsHold
  <2>2. /\ i \in 1 .. Depth(u) /\ u # Nobody
        /\ call'[u][i] = IF u = t /\ i = Depth(t) THEN x ELSE call[u][i]
    BY <1>5, OpenFileMapAssumption DEF Becomes, Depth
  <2>3. Holds(u, call[u][i])
    BY <2>2 DEF Inv, HoldInv, CallsHold
  <2>4. owner \in [Volumes -> Tasks \cup {Nobody}]
    BY DEF Inv, TypeOK
  <2>5. owner[v] \in {t, Nobody} /\ owner' = [owner EXCEPT ![v] = t] /\ map_owner' = map_owner
        /\ wrapper' = wrapper
    BY DEF LockVolume
  <2>6. CASE u = t /\ i = Depth(t)
    BY <1>1, <1>3, <1>4, <2>2, <2>3, <2>4, <2>5, <2>6 DEF Holds
  <2>7. CASE ~(u = t /\ i = Depth(t))
    <3>1. call[u][i].locked => owner'[call[u][i].volume] = u
      BY <1>1, <2>2, <2>3, <2>4, <2>5 DEF Holds
    <3> QED BY <2>2, <2>3, <2>5, <2>7, <3>1 DEF Holds
  <2> QED BY <2>6, <2>7
<1>9. FilesInv'
  <2>1. CallsRely'
    BY <1>1, <1>5, <1>6, ReliedGoesOn DEF Inv, FilesInv, LockVolume
  <2> QED BY <2>1 DEF Inv, FilesInv, OpenEntriesStay, WritersExcludeOthers, OpenFiles, LockVolume
<1>10. OwnerHeld'
  <2>1. \A w \in Volumes : owner'[w] = owner[w] \/ (owner'[w] = t /\ x.volume = w /\ x.locked)
    BY <1>4 DEF LockVolume, Inv, TypeOK
  <2> QED BY <1>1, <1>4, <1>5, <2>1, OwnerGoesOn DEF Inv, LockInv
<1>11. MapHeld'
  BY <1>1, <1>5, MapGoesOn DEF Inv, LockInv, LockVolume
<1>12. OneVolume'
  BY <1>1, <1>3, <1>4, <1>5, VolumeGoesOn DEF Inv, LockInv, LockVolume
<1> QED BY <1>7, <1>8, <1>9, <1>10, <1>11, <1>12 DEF Inv, LockInv

LEMMA UnlockVolumeStep ==
    ASSUME Inv, NEW t \in Tasks, UnlockVolume(t)
    PROVE  Inv'
<1>1. /\ Stacks /\ Depth(t) > 0 /\ Top(t).step = "unlock" /\ map_owner # t /\ t # Nobody
      /\ Holds(t, Top(t))
  BY TopFacts DEF UnlockVolume, At, MapSteps
<1>2. Shrinks(t)
  BY <1>1, ReturnMoves DEF UnlockVolume
<1>3. /\ owner \in [Volumes -> Tasks \cup {Nobody}]
      /\ owner' = IF Top(t).locked /\ ~HoldsBelow(t, Top(t).volume)
                  THEN [owner EXCEPT ![Top(t).volume] = Nobody] ELSE owner
  BY DEF Inv, TypeOK, UnlockVolume
<1>4. /\ owner' \in [Volumes -> Tasks \cup {Nobody}]
      /\ \A v \in Volumes :
            owner'[v] = owner[v] \/ (owner[v] = t /\ owner'[v] = Nobody /\ ~HoldsBelow(t, v))
      /\ \A v \in Volumes :
            owner'[v] = t /\ Top(t).locked /\ Top(t).volume = v => HoldsBelow(t, v)
  <2>1. \A v \in Volumes : v = Top(t).volume /\ Top(t).locked => owner[v] = t
    BY <1>1 DEF Holds
  <2> QED BY <1>1, <1>3, <2>1
<1> QED BY <1>1, <1>2, <1>4, QuietlyReturns DEF UnlockVolume

LEMMA GetFileStep_Open ==
    ASSUME Inv, NEW t \in Tasks, GetFileByUUID(t), Top(t).file \in OpenFiles
    PROVE  Inv'
<1> DEFINE v == VolumeOf(Top(t).file)
           x == [[[Top(t) EXCEPT !.volume = v] EXCEPT !.step = "unlock_map"] EXCEPT !.next = "find"]
<1>1. /\ Stacks /\ Depth(t) > 0 /\ Depth(t) \in Nat /\ Top(t) = call[t][Depth(t)]
      /\ Depth(t) \in 1 .. Depth(t)
      /\ Shape(Top(t)) /\ Relies(Top(t)) /\ Holds(t, Top(t)) /\ Top(t) \in Frame
      /\ Top(t).step = "GetFileByUUID" /\ map_owner = t /\ t # Nobody
      /\ Top(t).op \in FileCalls /\ Top(t).file \in Files /\ ~Top(t).locked
  <2> HIDE DEF x, v
  <2>1. Depth(t) > 0 /\ Top(t).step = "GetFileByUUID" /\ map_owner = t
    BY DEF GetFileByUUID, At
  <2>2. /\ Stacks /\ Shape(Top(t)) /\ Relies(Top(t)) /\ Holds(t, Top(t)) /\ Top(t) \in Frame
        /\ t # Nobody
    BY <2>1, TopFacts
  <2>3. Depth(t) \in Nat /\ Top(t) = call[t][Depth(t)]
    BY <2>2, StackElements DEF Top
  <2>4. Depth(t) \in 1 .. Depth(t)
    BY <2>1, <2>3
  <2>5. Top(t).op \in FileCalls /\ Top(t).file \in Files /\ ~Top(t).locked
    BY <2>1, <2>2 DEF Shape, Place, UnlockedPlaces
  <2> QED BY <2>1, <2>2, <2>3, <2>4, <2>5
<1>2. v \in Volumes
  <2>1. records[Top(t).file] \in Record
    BY <1>1, OpenFileMapAssumption DEF Inv, TypeOK, OpenFiles
  <2> QED BY <2>1 DEF Record, Identity, VolumeOf
<1>3. Becomes(t, x)
  <2>1. x \in Frame
    BY <1>1, <1>2, TopField
  <2>2. /\ UNCHANGED <<mounted, exists, locks, records, wrapper>>
        /\ call' = [call EXCEPT ![t][Depth(t)].volume = v,
                                ![t][Depth(t)].step = "unlock_map",
                                ![t][Depth(t)].next = "find"]
    BY DEF GetFileByUUID
  <2>3. call' = [call EXCEPT ![t] = [@ EXCEPT ![Depth(t)] = x]]
    <3> HIDE DEF v
    <3> QED BY <1>1, <2>2, StackElements DEF Top, Stacks
  <2> QED BY <1>1, <2>1, <2>3, ReplaceTop
<1>4. /\ x.op = Top(t).op /\ x.volume = v /\ x.file = Top(t).file /\ x.entry = Top(t).entry
      /\ x.step = "unlock_map" /\ x.next = "find" /\ x.locked = FALSE
  <2> HIDE DEF v
  <2> QED BY <1>1 DEF Frame
<1>5. UNCHANGED <<mounted, exists, owner, map_owner, records, wrapper>>
  BY DEF GetFileByUUID, locks
<1> HIDE DEF x, v
<1>6. Shape(x) /\ Relies(x) /\ Holds(t, x)
  BY <1>1, <1>2, <1>4 DEF Shape, Relies, Holds, Place, LockedPlaces, UnlockedPlaces, EntryCalls, FileCalls
<1>7. CallInv' /\ TypeOK'
  BY <1>1, <1>3, <1>4, <1>5, <1>6, CallsGoOn DEF Inv, TypeOK, Becomes
<1>8. HoldInv'
  <2>1. Wrapped'
    BY <1>5 DEF Inv, HoldInv, Wrapped, OpenFiles
  <2> SUFFICES ASSUME NEW u \in Tasks, NEW i \in 1 .. Depth(u)'
               PROVE  Holds(u, call[u][i])'
    BY <2>1 DEF HoldInv, CallsHold
  <2>2. i \in 1 .. Depth(u) /\ call'[u][i] = IF u = t /\ i = Depth(t) THEN x ELSE call[u][i]
    BY <1>3 DEF Becomes, Depth
  <2>3. Holds(u, call'[u][i])
    BY <1>6, <2>2 DEF Inv, HoldInv, CallsHold
  <2> QED BY <1>5, <2>3 DEF Holds
<1>9. FilesInv'
  <2>1. CallsRely'
    BY <1>1, <1>3, <1>5, <1>6, ReliedGoesOn DEF Inv, FilesInv
  <2> QED BY <1>5, <2>1 DEF Inv, FilesInv, OpenEntriesStay, WritersExcludeOthers, OpenFiles
<1>10. OwnerHeld' /\ MapHeld'
  BY <1>1, <1>3, <1>4, <1>5, OwnerGoesOn, MapGoesOn DEF Inv, LockInv
<1>11. OneVolume'
  <2>1. \A u \in Tasks : \A i \in 1 .. Depth(u)' :
            i \in 1 .. Depth(u) /\ call'[u][i] = IF u = t /\ i = Depth(t) THEN x ELSE call[u][i]
    BY <1>3 DEF Becomes, Depth
  <2>2. \A i \in 1 .. Depth(t) :
            /\ i # Depth(t) => call[t][i].step # "GetFileByUUID"
            /\ call[t][i].volume \in Volumes => call[t][i].volume = v
    BY <1>1 DEF Inv, CallInv, Waits, LockInv, OneVolume, v
  <2> SUFFICES ASSUME NEW u \in Tasks, NEW i \in 1 .. Depth(u)', NEW j \in 1 .. Depth(u)',
                      call'[u][j].volume \in Volumes
               PROVE  /\ call'[u][i].volume \in Volumes =>
                              call'[u][i].volume = call'[u][j].volume
                      /\ call'[u][i].step = "GetFileByUUID" /\ call'[u][i].file \in OpenFiles =>
                              VolumeOf(call'[u][i].file) = call'[u][j].volume
    BY <1>5 DEF OneVolume, OpenFiles, VolumeOf
  <2>3. CASE u = t
    <3>1. call'[t][i].step # "GetFileByUUID"
      BY <1>4, <2>1, <2>2, <2>3
    <3>2. \A k \in 1 .. Depth(t)' : call'[t][k].volume \in Volumes => call'[t][k].volume = v
      BY <1>4, <2>1, <2>2
    <3> QED BY <2>3, <3>1, <3>2
  <2>4. CASE u # t
    BY <2>1, <2>4 DEF Inv, LockInv, OneVolume
  <2> QED BY <2>3, <2>4
<1> QED BY <1>7, <1>8, <1>9, <1>10, <1>11 DEF Inv, LockInv

LEMMA UnmountStep ==
    ASSUME Inv, NEW v \in Volumes, Unmount(v)
    PROVE  Inv'
<1>1. TypeOK'
  BY DEF Inv, TypeOK, Unmount, locks
<1>2. CallInv' /\ HoldInv'
  BY DEF Inv, Unmount, locks, CallInv, Waits, Depth, Top, HoldInv, CallsHold, Holds, Wrapped,
         OpenFiles
<1>3. FilesInv'
  BY DEF Inv, Unmount, FilesInv, CallsRely, Relies, Conflicts, IsOpen, OpenAs, OpenFiles,
         OpenEntriesStay, WritersExcludeOthers, Depth
<1>4. LockInv'
  BY DEF Inv, Unmount, locks, LockInv, MapHeld, OwnerHeld, OneVolume, VolumeOf, OpenFiles, Depth, Top
<1> QED BY <1>1, <1>2, <1>3, <1>4 DEF Inv

LEMMA LetGoStep ==
    ASSUME Inv, NEW t \in Tasks, LetGo(t)
    PROVE  Inv'
<1>1. PICK f \in FilesOf(t) \ OpenFiles : wrapper' = [wrapper EXCEPT ![f] = Nobody]
  BY DEF LetGo
<1>2. TypeOK' /\ UNCHANGED <<mounted, exists, owner, map_owner, records, call>>
  BY <1>1 DEF Inv, TypeOK, LetGo, locks
<1>5. CallInv' /\ FilesInv' /\ LockInv'
  BY <1>2 DEF Inv, CallInv, Waits, Depth, Top, FilesInv, CallsRely, Relies, Conflicts, IsOpen,
              OpenAs, OpenFiles, OpenEntriesStay, WritersExcludeOthers, LockInv, MapHeld,
              OwnerHeld, OneVolume, VolumeOf
<1>3. CallsHold'
  <2> SUFFICES ASSUME NEW u \in Tasks, NEW i \in 1 .. Depth(u)'
               PROVE  Holds(u, call[u][i])'
    BY DEF CallsHold
  <2>1. /\ i \in 1 .. Depth(u) /\ call'[u][i] = call[u][i] /\ u # t
        /\ UNCHANGED <<owner, map_owner>>
    BY DEF LetGo, Depth, locks
  <2>2. Holds(u, call[u][i]) /\ Shape(call[u][i])
    BY <2>1 DEF Inv, HoldInv, CallsHold, CallInv
  <2>3. ASSUME call[u][i].op \in FileCalls PROVE wrapper'[call[u][i].file] = u
    <3>1. call[u][i].file \in Files /\ wrapper[call[u][i].file] = u
      BY <2>2, <2>3 DEF Holds, Shape
    <3> QED BY <1>1, <2>1, <3>1 DEF FilesOf, Inv, TypeOK
  <2> QED BY <2>1, <2>2, <2>3 DEF Holds
<1>4. Wrapped'
  BY <1>1 DEF Inv, HoldInv, TypeOK, Wrapped, OpenFiles, FilesOf, LetGo
<1> QED BY <1>2, <1>3, <1>4, <1>5 DEF Inv, HoldInv

LEMMA AppendCallsStep ==
    ASSUME Inv, NEW t \in Tasks, AppendCalls(t)
    PROVE  Inv'
<1>1. /\ Stacks /\ Depth(t) > 0 /\ Depth(t) \in Nat /\ Top(t) = call[t][Depth(t)]
      /\ call[t] \in Seq(Frame) /\ Depth(t) = Len(call[t])
      /\ Shape(Top(t)) /\ Relies(Top(t)) /\ Holds(t, Top(t)) /\ Top(t) \in Frame
      /\ Top(t).step \in {"seek", "write"} /\ map_owner # t
  <2> HIDE DEF Frame
  <2> QED BY TopFacts, StackElements DEF AppendCalls, At, Top, MapSteps, Stacks, Depth
<1>2. /\ Top(t).op = "Append" /\ Top(t).file \in OpenFiles /\ Top(t).file \in Files
      /\ Top(t).volume \in Volumes /\ wrapper[Top(t).file] = t /\ Top(t).locked
  BY <1>1 DEF Shape, Relies, Holds, Place, FileCalls, LockedPlaces
<1> DEFINE next == IF Top(t).step = "seek" THEN "write" ELSE "unlock"
           x == [Top(t) EXCEPT !.step = next]
           y == [NewCall("Use", "find") EXCEPT !.volume = Top(t).volume, !.file = Top(t).file]
<1>3. x \in Frame /\ Same(x, Top(t)) /\ x.step = next /\ x.next = Top(t).next
  <2>1. next \in Steps
    BY DEF Steps
  <2> HIDE DEF next
  <2> QED BY <1>1, <2>1 DEF Same, Frame
<1>4. /\ y \in Frame /\ y.op = "Use" /\ y.volume = Top(t).volume /\ y.file = Top(t).file
      /\ y.step = "find" /\ y.next = "return" /\ y.locked = FALSE
  BY <1>1, <1>2 DEF NewCall, Frame, Steps, Modes, FileCalls
<1>5. UNCHANGED <<mounted, exists, locks, records, wrapper>>
  BY DEF AppendCalls
<1>6. call' = [call EXCEPT ![t] = Append([@ EXCEPT ![Depth(t)] = x], y)]
  <2> HIDE DEF y
  <2>1. call' = [call EXCEPT ![t] = Append([@ EXCEPT ![Depth(t)].step = next], y)]
    BY DEF AppendCalls, y
  <2>2. x = [call[t][Depth(t)] EXCEPT !.step = next]
    BY <1>1
  <2> HIDE DEF next
  <2> HIDE DEF x
  <2> QED BY <2>1, <2>2
<1> HIDE DEF x, y
<1>7. Grows(t, x, y)
  <2> HIDE DEF Frame
  <2>1. [call[t] EXCEPT ![Depth(t)] = x] \in Seq(Frame)
    BY <1>1, <1>3
  <2>2. Append([call[t] EXCEPT ![Depth(t)] = x], y) \in Seq(Frame)
    BY <1>4, <2>1
  <2>3. call'[t] = Append([call[t] EXCEPT ![Depth(t)] = x], y)
        /\ \A u \in Tasks : u # t => call'[u] = call[u]
    BY <1>1, <1>6 DEF Stacks
  <2>4. call' \in [Tasks -> Seq(Frame)]
    BY <1>1, <1>6, <2>2, <2>3 DEF Stacks
  <2>5. /\ Len(call'[t]) = Len(call[t]) + 1 /\ call'[t][Depth(t) + 1] = y
        /\ \A i \in 1 .. Len(call[t]) : call'[t][i] = IF i = Depth(t) THEN x ELSE call[t][i]
    BY <1>1, <2>1, <2>3
  <2> QED BY <2>3, <2>4, <2>5 DEF Grows
<1>8. Shape(x) /\ Shape(y)
  BY <1>1, <1>2, <1>3, <1>4
     DEF Same, Shape, Place, LockedPlaces, UnlockedPlaces, EntryCalls, FileCalls
<1> QED BY <1>1, <1>2, <1>3, <1>4, <1>5, <1>7, <1>8, QuietlyEnters DEF Same

LEMMA LookStep ==
    ASSUME Inv, NEW t \in Tasks, Look(t)
    PROVE  Inv'
<1>1. /\ Stacks /\ Depth(t) > 0 /\ Shape(Top(t)) /\ Relies(Top(t)) /\ Top(t).step = "look"
      /\ map_owner # t /\ Top(t).op \in EntryCalls /\ Top(t).locked
      /\ Top(t).volume \in Volumes /\ Top(t).entry \in Entries
  BY TopFacts DEF Look, At, MapSteps, Shape, Place, LockedPlaces
<1>2. CASE exists' = exists
  <2>1. PICK step \in {"AddFile", "IsFileOpen", "unlock"} :
            /\ GoTo(t, step)
            /\ step = "AddFile" => /\ Top(t).op = "OpenFile"
                                   /\ Top(t).entry \in exists[Top(t).volume]
            /\ step = "IsFileOpen" => Top(t).op # "OpenFile"
    BY <1>1, <1>2 DEF Look, Inv, TypeOK
  <2>2. PICK x : GoesOn(t, x, step, Top(t).next)
    BY <1>1, <2>1, GoToGoesOn DEF Steps
  <2>3. Shape(x) /\ Relies(x)
    BY <1>1, <2>1, <2>2
       DEF GoesOn, Same, Shape, Relies, Place, LockedPlaces, UnlockedPlaces, EntryCalls, FileCalls
  <2> QED BY <1>1, <1>2, <2>1, <2>2, <2>3, QuietlyGoesOn DEF Look
<1>3. CASE /\ Top(t).op = "OpenFile" /\ GoTo(t, "AddFile")
           /\ exists' = [exists EXCEPT ![Top(t).volume] = @ \cup {Top(t).entry}]
  <2>1. PICK x : GoesOn(t, x, "AddFile", Top(t).next)
    BY <1>1, <1>3, GoToGoesOn DEF Steps
  <2>2. Shape(x) /\ x.step = "AddFile" /\ Same(x, Top(t)) /\ Becomes(t, x)
    BY <1>1, <1>3, <2>1 DEF GoesOn, Same, Shape, Place, LockedPlaces, UnlockedPlaces
  <2>3. UNCHANGED <<mounted, owner, map_owner, records, wrapper>>
    BY DEF Look, locks
  <2>4. /\ exists' \in [Volumes -> SUBSET Entries]
        /\ \A v \in Volumes : exists[v] \subseteq exists'[v]
        /\ Top(t).entry \in exists'[Top(t).volume]
    BY <1>1, <1>3 DEF Inv, TypeOK
  <2>5. TypeOK' /\ CallInv'
    BY <1>1, <2>2, <2>3, <2>4, CallsGoOn DEF Inv, TypeOK, Becomes, Same
  <2>6. HoldInv'
    BY <1>1, <2>1, <2>3, HeldGoesOn DEF Inv, HoldInv, Wrapped, OpenFiles
  <2>7. CallsRely'
    <3> SUFFICES ASSUME NEW u \in Tasks, NEW i \in 1 .. Depth(u)'
                 PROVE  Relies(call[u][i])'
      BY DEF CallsRely
    <3>1. i \in 1 .. Depth(u) /\ call'[u][i] = IF u = t /\ i = Depth(t) THEN x ELSE call[u][i]
      BY <2>2 DEF Becomes, Depth
    <3>2. CASE u = t /\ i = Depth(t)
      BY <1>3, <2>2, <2>4, <3>1, <3>2 DEF Relies, Place, Same, FileCalls
    <3>3. CASE ~(u = t /\ i = Depth(t))
      <4>1. Relies(call[u][i]) /\ Shape(call[u][i]) /\ call'[u][i] = call[u][i]
        BY <3>1, <3>3 DEF Inv, FilesInv, CallsRely, CallInv
      <4> QED BY <2>3, <2>4, <4>1
              DEF Relies, Shape, Conflicts, IsOpen, OpenAs, OpenFiles, IdentityOf, Place
    <3> QED BY <3>2, <3>3
  <2>8. OpenEntriesStay' /\ WritersExcludeOthers'
    <3>1. \A f \in OpenFiles : records[f].identity[1] \in Volumes
      BY DEF Inv, TypeOK, OpenFiles, Record, Identity
    <3> QED BY <2>3, <2>4, <3>1 DEF Inv, FilesInv, OpenEntriesStay, WritersExcludeOthers, OpenFiles
  <2>9. OwnerHeld' /\ MapHeld' /\ OneVolume'
    BY <1>1, <2>2, <2>3, OwnerGoesOn, MapGoesOn, VolumeGoesOn DEF Inv, LockInv, Same
  <2> QED BY <2>5, <2>6, <2>7, <2>8, <2>9 DEF Inv, FilesInv, LockInv
<1> QED BY <1>2, <1>3 DEF Look

LEMMA RemoveFileStep ==
    ASSUME Inv, NEW t \in Tasks, RemoveFile(t)
    PROVE  Inv'
<1> DEFINE f == Top(t).file
<1>1. /\ Stacks /\ Depth(t) > 0 /\ Shape(Top(t)) /\ Relies(Top(t)) /\ Holds(t, Top(t))
      /\ Top(t).step = "RemoveFile" /\ map_owner = t /\ Top(t).op = "Close" /\ f \in Files
      /\ wrapper[f] = t
  BY TopFacts DEF RemoveFile, At, Shape, Holds, Place, FileCalls
<1>2. PICK x : GoesOn(t, x, "unlock_map", "unlock")
  BY <1>1, LeaveMapGoesOn DEF RemoveFile, Steps
<1>3. /\ Shape(x) /\ x.step = "unlock_map" /\ x.next = "unlock" /\ Same(x, Top(t))
      /\ Becomes(t, x)
  BY <1>1, <1>2 DEF GoesOn, Same, Shape, Place, LockedPlaces, UnlockedPlaces
<1>4. /\ UNCHANGED <<mounted, exists, owner, map_owner, wrapper>>
      /\ records' = [records EXCEPT ![f] = Nobody]
  BY DEF RemoveFile, locks
<1>5. /\ records' \in [Files -> Record \cup {Nobody}]
      /\ OpenFiles' = OpenFiles \ {f} /\ \A g \in OpenFiles' : records'[g] = records[g]
  BY <1>1, <1>4 DEF Inv, TypeOK, OpenFiles
<1> HIDE DEF f
<1>6. TypeOK' /\ CallInv'
  BY <1>1, <1>3, <1>4, <1>5, CallsGoOn DEF Inv, TypeOK, Becomes, Same
<1>7. HoldInv'
  BY <1>1, <1>2, <1>4, <1>5, HeldGoesOn DEF Inv, HoldInv, Wrapped
<1>8. CallsRely'
  <2> SUFFICES ASSUME NEW u \in Tasks, NEW i \in 1 .. Depth(u)'
               PROVE  Relies(call[u][i])'
    BY DEF CallsRely
  <2>1. i \in 1 .. Depth(u) /\ call'[u][i] = IF u = t /\ i = Depth(t) THEN x ELSE call[u][i]
    BY <1>3 DEF Becomes, Depth
  <2>2. CASE u = t /\ i = Depth(t)
    BY <1>3, <2>1, <2>2 DEF Relies, Place
  <2>3. CASE ~(u = t /\ i = Depth(t))
    <3>0. PICK y : y = call[u][i]
      OBVIOUS
    <3>1. Relies(y) /\ Shape(y) /\ Holds(u, y) /\ call'[u][i] = y
      BY <2>1, <2>3, <3>0 DEF Inv, FilesInv, CallsRely, CallInv, HoldInv, CallsHold
    <3>2. y.op \in FileCalls => y.file # f
      BY <1>1, <2>1, <2>3, <3>0, <3>1, OthersAreElsewhere DEF Inv, Holds, FileCalls
    <3>3. /\ ~Conflicts(y.mode, IdentityOf(y)) => ~Conflicts(y.mode, IdentityOf(y))'
          /\ ~IsOpen(IdentityOf(y)) => ~IsOpen(IdentityOf(y))'
      BY <1>5 DEF Conflicts, IsOpen, OpenAs, IdentityOf
    <3>4. Relies(y)'
      BY <1>4, <1>5, <3>1, <3>2, <3>3 DEF Relies
    <3> QED BY <3>1, <3>4 DEF Relies, Conflicts, IsOpen, OpenAs, IdentityOf, Place
  <2> QED BY <2>2, <2>3
<1>9. OpenEntriesStay' /\ WritersExcludeOthers'
  BY <1>4, <1>5 DEF Inv, FilesInv, OpenEntriesStay, WritersExcludeOthers
<1>10. OwnerHeld' /\ MapHeld' /\ OneVolume'
  BY <1>1, <1>3, <1>4, <1>5, OwnerGoesOn, MapGoesOn, VolumeGoesOn DEF Inv, LockInv, Same
<1> QED BY <1>6, <1>7, <1>8, <1>9, <1>10 DEF Inv, FilesInv, LockInv

LEMMA ChangeStep ==
    ASSUME Inv, NEW t \in Tasks, Change(t)
    PROVE  Inv'
<1> DEFINE v == Top(t).volume
<1>1. /\ Stacks /\ Depth(t) > 0 /\ Shape(Top(t)) /\ Relies(Top(t)) /\ Holds(t, Top(t))
      /\ Top(t).step = "change" /\ map_owner # t /\ Top(t).op \in EntryCalls /\ Top(t).locked
      /\ v \in Volumes /\ ~IsOpen(IdentityOf(Top(t))) /\ Top(t) \in Frame
  BY TopFacts DEF Change, At, Shape, Relies, Place, EntryCalls, MapSteps, LockedPlaces
<1>2. PICK x : GoesOn(t, x, "unlock", Top(t).next)
  BY <1>1, GoToGoesOn DEF Change, Steps
<1>3. /\ Shape(x) /\ x.step = "unlock" /\ Same(x, Top(t)) /\ Becomes(t, x) /\ Relies(x)
  BY <1>1, <1>2 DEF GoesOn, Same, Shape, Relies, Place, LockedPlaces, UnlockedPlaces, EntryCalls, FileCalls
<1>4. UNCHANGED <<mounted, owner, map_owner, records, wrapper>>
  BY DEF Change, locks
<1>5. /\ exists' \in [Volumes -> SUBSET Entries]
      /\ \A w \in Volumes : w # v => exists'[w] = exists[w]
      /\ exists[v] \ {Top(t).entry} \subseteq exists'[v]
  <2>1. Top(t).to \in Entries \cup {Nobody}
    BY <1>1 DEF Frame
  <2> QED BY <1>1, <2>1 DEF Change, Inv, TypeOK
<1>6. TypeOK' /\ CallInv'
  BY <1>1, <1>3, <1>4, <1>5, CallsGoOn DEF Inv, TypeOK, Becomes, Same
<1>7. HoldInv'
  BY <1>1, <1>2, <1>4, HeldGoesOn DEF Inv, HoldInv, Wrapped, OpenFiles
<1> HIDE DEF v
<1>8. CallsRely'
  <2> SUFFICES ASSUME NEW u \in Tasks, NEW i \in 1 .. Depth(u)'
               PROVE  Relies(call[u][i])'
    BY DEF CallsRely
  <2>1. i \in 1 .. Depth(u) /\ call'[u][i] = IF u = t /\ i = Depth(t) THEN x ELSE call[u][i]
    BY <1>3 DEF Becomes, Depth
  <2>2. CASE u = t /\ i = Depth(t)
    BY <1>1, <1>3, <2>1, <2>2 DEF Relies, Place, Same, FileCalls, EntryCalls
  <2>3. CASE ~(u = t /\ i = Depth(t))
    <3>0. PICK y : y = call[u][i]
      OBVIOUS
    <3>1. Relies(y) /\ Shape(y) /\ call'[u][i] = y
      BY <2>1, <2>3, <3>0 DEF Inv, FilesInv, CallsRely, CallInv
    <3>2. y.volume = v => Place(y) \notin {"AddFile", "insert"}
      BY <1>1, <2>1, <2>3, <3>0, OthersAreElsewhere DEF Inv, LockedPlaces, v
    <3>3. Place(y) \in {"AddFile", "insert"} => y.entry \in exists'[y.volume]
      BY <1>5, <3>1, <3>2 DEF Relies, Shape
    <3>4. Relies(y)'
      BY <1>4, <3>1, <3>3 DEF Relies, Conflicts, IsOpen, OpenAs, OpenFiles, IdentityOf
    <3> QED BY <3>1, <3>4 DEF Relies, Conflicts, IsOpen, OpenAs, IdentityOf, Place
  <2> QED BY <2>2, <2>3
<1>9. OpenEntriesStay' /\ WritersExcludeOthers'
  <2>1. WritersExcludeOthers'
    BY <1>4 DEF Inv, FilesInv, WritersExcludeOthers, OpenFiles
  <2> SUFFICES ASSUME NEW f \in OpenFiles
               PROVE  records[f].identity[2] \in exists'[records[f].identity[1]]
    BY <1>4, <2>1 DEF OpenEntriesStay, OpenFiles
  <2>2. /\ records[f].identity \in Volumes \X Entries
        /\ records[f].identity[2] \in exists[records[f].identity[1]]
    BY DEF Inv, TypeOK, OpenFiles, Record, Identity, FilesInv, OpenEntriesStay
  <2>3. records[f].identity # <<v, Top(t).entry>>
    BY <1>1 DEF IsOpen, OpenAs, IdentityOf, v
  <2> QED BY <1>5, <2>2, <2>3
<1>10. OwnerHeld' /\ MapHeld' /\ OneVolume'
  BY <1>1, <1>3, <1>4, OwnerGoesOn, MapGoesOn, VolumeGoesOn DEF Inv, LockInv, Same
<1> QED BY <1>6, <1>7, <1>8, <1>9, <1>10 DEF Inv, FilesInv, LockInv

LEMMA InsertStep ==
    ASSUME Inv, NEW t \in Tasks, Insert(t)
    PROVE  Inv'
<1> DEFINE at == IdentityOf(Top(t))
<1>1. /\ Stacks /\ Depth(t) > 0 /\ Shape(Top(t)) /\ Relies(Top(t)) /\ Holds(t, Top(t))
      /\ Top(t).step = "insert" /\ map_owner = t /\ Top(t).op = "OpenFile" /\ Top(t).locked
      /\ Top(t).volume \in Volumes /\ Top(t).entry \in Entries /\ Top(t).mode \in Modes
      /\ ~Conflicts(Top(t).mode, at) /\ Top(t).entry \in exists[Top(t).volume]
      /\ t # Nobody
  BY TopFacts, FrameFields
     DEF Insert, At, Shape, Holds, Relies, Place, EntryCalls, LockedPlaces
<1>2. PICK x : GoesOn(t, x, "unlock_map", "unlock")
  BY <1>1, LeaveMapGoesOn DEF Insert, Steps
<1>3. /\ Shape(x) /\ x.step = "unlock_map" /\ x.next = "unlock" /\ Same(x, Top(t))
      /\ Becomes(t, x) /\ Relies(x)
  BY <1>1, <1>2 DEF GoesOn, Same, Shape, Relies, Place, LockedPlaces, UnlockedPlaces, FileCalls
<1>4. UNCHANGED <<mounted, exists, owner, map_owner>>
  BY DEF Insert, locks
<1>5. CASE UNCHANGED <<records, wrapper>>
  BY <1>1, <1>2, <1>3, <1>4, <1>5, QuietlyGoesOn DEF locks
<1>6. ASSUME NEW f \in Files, wrapper[f] = Nobody, wrapper' = [wrapper EXCEPT ![f] = t],
             records' = [records EXCEPT ![f] = [identity |-> at, mode |-> Top(t).mode]]
      PROVE  Inv'
  <2>1. f \notin OpenFiles
    BY <1>6 DEF Inv, HoldInv, Wrapped
  <2>2. [identity |-> at, mode |-> Top(t).mode] \in Record
    BY <1>1 DEF Record, Identity, IdentityOf
  <2> HIDE DEF at
  <2>3. /\ records' \in [Files -> Record \cup {Nobody}]
        /\ records'[f].identity = at /\ records'[f].mode = Top(t).mode
        /\ \A g \in Files : g # f => records'[g] = records[g]
    BY <1>6, <2>2 DEF Inv, TypeOK
  <2>4. OpenFiles' \subseteq OpenFiles \cup {f} /\ OpenFiles \subseteq OpenFiles'
    BY <2>1, <2>3 DEF OpenFiles
  <2>5. TypeOK' /\ CallInv'
    BY <1>1, <1>3, <1>4, <1>6, <2>3, CallsGoOn DEF Inv, TypeOK, Becomes, Same
  <2>6. HoldInv'
    <3>1. /\ \A g \in Files : wrapper[g] # Nobody => wrapper'[g] = wrapper[g]
          /\ wrapper'[f] = t
      BY <1>6 DEF Inv, TypeOK
    <3>2. CallsHold'
      BY <1>1, <1>2, <1>4, <3>1, HeldGoesOn DEF Inv, HoldInv
    <3>3. Wrapped'
      BY <1>1, <2>4, <3>1 DEF Inv, HoldInv, Wrapped, OpenFiles
    <3> QED BY <3>2, <3>3 DEF HoldInv
  <2>7. CallsRely'
    <3> SUFFICES ASSUME NEW u \in Tasks, NEW i \in 1 .. Depth(u)'
                 PROVE  Relies(call[u][i])'
      BY DEF CallsRely
    <3>1. i \in 1 .. Depth(u) /\ call'[u][i] = IF u = t /\ i = Depth(t) THEN x ELSE call[u][i]
      BY <1>3 DEF Becomes, Depth
    <3>2. CASE u = t /\ i = Depth(t)
      BY <1>1, <1>3, <3>1, <3>2 DEF Relies, Place, Same, FileCalls
    <3>3. CASE ~(u = t /\ i = Depth(t))
      <4>0. PICK y : y = call[u][i]
        OBVIOUS
      <4>1. Relies(y) /\ Shape(y) /\ Holds(u, y) /\ call'[u][i] = y
        BY <3>1, <3>3, <4>0 DEF Inv, FilesInv, CallsRely, CallInv, HoldInv, CallsHold
      <4>2. Place(y) # "insert"
        <5>1. y.step # "insert"
          BY <1>1, <3>1, <3>3, <4>0, <4>1, OthersAreElsewhere DEF Inv, Holds
        <5> QED BY <4>1, <5>1 DEF Shape, Place
      <4>3. Place(y) = "change" => IdentityOf(y) # at
        BY <1>1, <3>1, <3>3, <4>0, OthersAreElsewhere DEF Inv, LockedPlaces, IdentityOf, at
      <4>4. Place(y) = "change" => ~IsOpen(IdentityOf(y))'
        <5>1. Place(y) = "change" => ~IsOpen(IdentityOf(y))
          BY <4>1 DEF Relies
        <5>2. \A g \in OpenFiles' : g = f \/ (g \in OpenFiles /\ records'[g] = records[g])
          BY <2>3, <2>4 DEF OpenFiles
        <5>3. IdentityOf(y)' = IdentityOf(y)
          BY DEF IdentityOf
        <5> HIDE DEF at
        <5> QED BY <2>3, <4>3, <5>1, <5>2, <5>3 DEF IsOpen, OpenAs
      <4>5. Relies(y)'
        BY <1>4, <2>4, <4>1, <4>2, <4>4 DEF Relies
      <4> QED BY <4>1, <4>5 DEF Relies, Conflicts, IsOpen, OpenAs, IdentityOf, Place
    <3> QED BY <3>2, <3>3
  <2>8. OpenEntriesStay'
    BY <1>1, <1>4, <2>3, <2>4 DEF Inv, FilesInv, OpenEntriesStay, OpenFiles, IdentityOf, at
  <2>9. WritersExcludeOthers'
    <3> SUFFICES ASSUME NEW g \in OpenFiles', NEW h \in OpenFiles', g # h,
                        records'[g].identity = records'[h].identity
                 PROVE  ~IsExclusive(records'[g].mode)
      BY DEF WritersExcludeOthers, IsExclusive
    <3>1. \A k \in OpenFiles : records[k].identity = at =>
                ~IsExclusive(Top(t).mode) /\ ~IsExclusive(records[k].mode)
      BY <1>1 DEF Conflicts, OpenAs
    <3>2. CASE g = f
      BY <2>3, <2>4, <3>1, <3>2 DEF OpenFiles
    <3>3. CASE h = f
      BY <2>3, <2>4, <3>1, <3>3 DEF OpenFiles
    <3>4. CASE g # f /\ h # f
      BY <2>3, <2>4, <3>4 DEF Inv, FilesInv, WritersExcludeOthers, OpenFiles
    <3> QED BY <3>2, <3>3, <3>4
  <2>10. OwnerHeld' /\ MapHeld'
    BY <1>1, <1>3, <1>4, OwnerGoesOn, MapGoesOn DEF Inv, LockInv, Same
  <2>11. OneVolume'
    <3>1. \A u \in Tasks : \A i \in 1 .. Depth(u) :
            call[u][i].step = "GetFileByUUID" => call[u][i].file \in Files \ {f}
      <4> SUFFICES ASSUME NEW u \in Tasks, NEW i \in 1 .. Depth(u),
                          call[u][i].step = "GetFileByUUID"
                   PROVE  call[u][i].file \in Files \ {f}
        OBVIOUS
      <4>1. Shape(call[u][i]) /\ Holds(u, call[u][i]) /\ u # Nobody
        BY OpenFileMapAssumption DEF Inv, CallInv, HoldInv, CallsHold
      <4> QED BY <1>6, <4>1 DEF Shape, Holds, Place
    <3> QED BY <1>1, <1>3, <2>3, <3>1, VolumeGoesOn DEF Inv, LockInv, Same
  <2> QED BY <2>5, <2>6, <2>7, <2>8, <2>9, <2>10, <2>11 DEF Inv, FilesInv, LockInv
<1>7. (TopIdentity(t) = at) /\ (UNCHANGED <<records, wrapper>> \/ \E f \in Files :
            /\ wrapper[f] = Nobody /\ wrapper' = [wrapper EXCEPT ![f] = t]
            /\ records' = [records EXCEPT ![f] = [identity |-> at, mode |-> Top(t).mode]])
  BY DEF Insert, TopIdentity, IdentityOf
<1> QED BY <1>5, <1>6, <1>7

-----------------------------------------------------------------------------
(* The theorems.                                                           *)
LEMMA InitInv == Init => Inv
<1> SUFFICES ASSUME Init PROVE Inv
  OBVIOUS
<1>1. Stacks /\ \A t \in Tasks : Depth(t) = 0 /\ t # Nobody
  BY OpenFileMapAssumption DEF Init, Stacks, Depth
<1>2. TypeOK
  BY <1>1 DEF Init, TypeOK, Stacks
<1>3. CallInv /\ CallsHold /\ CallsRely
  BY <1>1 DEF CallInv, CallsHold, CallsRely
<1>4. Wrapped /\ OpenEntriesStay /\ WritersExcludeOthers
  BY DEF Init, Wrapped, OpenEntriesStay, WritersExcludeOthers, OpenFiles
<1>5. LockInv
  BY <1>1 DEF Init, LockInv, MapHeld, OwnerHeld, OneVolume
<1> QED BY <1>2, <1>3, <1>4, <1>5 DEF Inv, HoldInv, FilesInv

LEMMA GetFileStep ==
    ASSUME Inv, NEW t \in Tasks, GetFileByUUID(t)
    PROVE  Inv'
  BY GetFileStep_NotOpen, GetFileStep_Open

LEMMA NextInv == Inv /\ [Next]_vars => Inv'
<1> SUFFICES ASSUME Inv, [Next]_vars PROVE Inv'
  OBVIOUS
<1>1. ASSUME NEW t \in Tasks, Step(t) PROVE Inv'
  BY <1>1, FindStep, LockVolumeStep, UnlockVolumeStep, LockMapStep, UnlockMapStep, LookStep,
     QuietSteps, InsertStep, ChangeStep, GetFileStep, RemoveFileStep, AppendCallsStep, CallbackStep
     DEF Step
<1>2. ASSUME NEW t \in Tasks, Begin(t) \/ LetGo(t) PROVE Inv'
  BY <1>2, BeginStep, LetGoStep
<1>3. ASSUME NEW v \in Volumes, Unmount(v) PROVE Inv'
  BY <1>3, UnmountStep
<1>4. CASE UNCHANGED vars
  <2>1. UNCHANGED <<mounted, exists, owner, map_owner, records, wrapper, call>>
    BY <1>4 DEF vars
  <2>2. TypeOK'
    BY <2>1 DEF Inv, TypeOK
  <2>3. CallInv' /\ HoldInv'
    BY <2>1 DEF Inv, CallInv, Waits, Depth, Top, HoldInv, CallsHold, Holds, Wrapped, OpenFiles
  <2>4. FilesInv'
    BY <2>1 DEF Inv, FilesInv, CallsRely, Relies, Conflicts, IsOpen, OpenAs, OpenFiles,
                OpenEntriesStay, WritersExcludeOthers, Depth
  <2>5. LockInv'
    BY <2>1 DEF Inv, LockInv, MapHeld, OwnerHeld, OneVolume, VolumeOf, OpenFiles, Depth, Top
  <2> QED BY <2>2, <2>3, <2>4, <2>5 DEF Inv
<1> QED BY <1>1, <1>2, <1>3, <1>4 DEF Next

LEMMA InvCorrect == Spec => []Inv
  BY InitInv, NextInv, PTL DEF Spec

(* The variables keep their types.                                         *)
THEOREM TypeCorrect == Spec => []TypeOK
<1>1. Inv => TypeOK
  BY DEF Inv
<1> QED BY <1>1, InvCorrect, PTL

(* However calls nest, a volume's lock is held by one task at most and for *)
(* as long as calls of it are under way (filesystem_lock.h:68-70).         *)
THEOREM OneTaskPerVolumeCorrect == Spec => []OneTaskPerVolume
<1>1. ASSUME Inv PROVE OneTaskPerVolume
  <2>1. ASSUME NEW v \in Volumes, NEW t \in Tasks, HasLocked(t, v) PROVE owner[v] = t
    BY <1>1, <2>1 DEF HasLocked, Inv, HoldInv, CallsHold, Holds
  <2>2. ASSUME NEW v \in Volumes, owner[v] # Nobody PROVE HasLocked(owner[v], v)
    <3>1. owner[v] \in Tasks
      BY <1>1, <2>2 DEF Inv, TypeOK
    <3> QED BY <1>1, <3>1 DEF HasLocked, Inv, LockInv, OwnerHeld
  <2> QED BY <2>1, <2>2 DEF OneTaskPerVolume
<1> QED BY <1>1, InvCorrect, PTL

(* A file open for anything beyond reading has no other handle, whichever  *)
(* tasks opened it at the same time (FileMap::AddFile).                    *)
THEOREM WritersCorrect == Spec => []WritersExcludeOthers
<1>1. Inv => WritersExcludeOthers
  BY DEF Inv, FilesInv
<1> QED BY <1>1, InvCorrect, PTL

(* The entry of an open file is neither deleted nor renamed by another     *)
(* task, and a call that has got a file from the map works on an open one  *)
(* (FAT32Directory::DeleteFile, RenameEntry, FileMap::GetFileByUUID).      *)
THEOREM OpenFilesCorrect == Spec => []OpenFilesStay
<1>1. ASSUME Inv PROVE OpenFilesStay
  <2>1. ASSUME NEW t \in Tasks, NEW i \in 1 .. Depth(t), UsesTheFile(call[t][i])
        PROVE  call[t][i].file \in OpenFiles
    <3>1. Relies(call[t][i])
      BY <1>1 DEF Inv, FilesInv, CallsRely
    <3> QED BY <2>1, <3>1 DEF UsesTheFile, Relies, Place
  <2> QED BY <1>1, <2>1 DEF OpenFilesStay, Inv, FilesInv, OpenEntriesStay
<1> QED BY <1>1, InvCorrect, PTL

(* The tasks never wait for each other in a circle, whatever the callbacks *)
(* of VisitDirectory call on the volume they visit.                        *)
THEOREM DeadlockFree == Spec => []NobodyWaitsInACircle
<1>1. ASSUME Inv PROVE NobodyWaitsInACircle
  <2> SUFFICES ASSUME NEW S \in SUBSET Tasks, NEW t \in S,
                      \A u \in S : WaitsFor(u) # u /\ WaitsFor(u) \in S
               PROVE  FALSE
    BY DEF NobodyWaitsInACircle
  <2>1. Nobody \notin S
    BY OpenFileMapAssumption
  <2>2. ASSUME NEW u \in S
        PROVE  Depth(u) > 0 /\ Top(u).step \in MapSteps \cup {"lock"}
    <3>1. Depth(u) \in Nat
      BY <1>1, StackElements DEF Inv, TypeOK, Stacks
    <3> QED BY <2>1, <3>1 DEF WaitsFor
  <2>3. ASSUME NEW u \in S, Top(u).step \in MapSteps PROVE FALSE
    <3>1. map_owner \in S
      BY <2>2, <2>3 DEF WaitsFor, MapSteps
    <3>2. /\ Top(map_owner).step \in MapSteps \cup {"insert", "unlock_map"}
          /\ Depth(map_owner) > 0 /\ Top(map_owner).step \in MapSteps \cup {"lock"}
      BY <1>1, <2>2, <3>1 DEF Inv, LockInv, MapHeld
    <3>3. Depth(map_owner) # 0 /\ Top(map_owner).step \in MapSteps
      BY <3>2 DEF MapSteps
    <3> QED BY <3>1, <3>3 DEF WaitsFor, MapSteps
  <2>4. ASSUME NEW u \in S
        PROVE  /\ WaitsFor(u) = owner[Top(u).volume] /\ Depth(u) \in 1 .. Depth(u)
               /\ Top(u) = call[u][Depth(u)] /\ Top(u).volume \in Volumes
    <3>1. Top(u).step = "lock" /\ Depth(u) > 0 /\ u \in Tasks
      BY <2>2, <2>3
    <3>2. Shape(Top(u)) /\ Stacks
      BY <1>1, <3>1, TopFacts
    <3> QED BY <3>1, <3>2, StackElements DEF WaitsFor, Shape, Place, Top
  <2> DEFINE v == Top(t).volume
             w == owner[v]
  <2>5. w \in S /\ v \in Volumes
    BY <2>4
  <2>6. PICK i \in 1 .. Depth(w) : call[w][i].volume = v
    BY <1>1, <2>5 DEF Inv, LockInv, OwnerHeld
  <2>7. Top(w).volume = v
    BY <1>1, <2>4, <2>5, <2>6 DEF Inv, LockInv, OneVolume
  <2> QED BY <2>4, <2>5, <2>7
<1> QED BY <1>1, InvCorrect, PTL
=============================================================================
