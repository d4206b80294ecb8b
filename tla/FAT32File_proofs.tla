-------------------------- MODULE FAT32File_proofs --------------------------
(***************************************************************************)
(* Proofs about FAT32File, for any number of files and clusters, any size  *)
(* of cluster and file, and any number of failures of the device and of    *)
(* the power.                                                              *)
(***************************************************************************)
EXTENDS FAT32File, TLAPS

USE DEF disk, vars

(* The inductive form of the types: a seek is never past its target, and   *)
(* the steps that use a newly claimed cluster have one.                    *)
TypeInv ==
    /\ TypeOK
    /\ op.step = "seek" => h.in_file <= op.target
    /\ op.step \in {"set_first", "link", "rollback"} => op.pending \in Clusters

LEMMA ConstantTypes ==
    /\ None \in Entry /\ Free \in Entry /\ EOF \in Entry
    /\ Clusters \subseteq Entry
    /\ {None} \cup Clusters \subseteq Entry
    /\ 2 \in Clusters
    /\ \A e \in Entry : ~OutOfRange(e) <=> e \in Clusters
    /\ \A c \in Clusters : c # None /\ c # Free /\ c # EOF
BY MaxClusterAssumption
   DEF None, Entry, Clusters, Free, Defective, EOF, OutOfRange

LEMMA Smaller ==
    \A a, b \in Nat : /\ SmallerOf(a, b) \in Nat
                      /\ SmallerOf(a, b) <= a
                      /\ SmallerOf(a, b) <= b
BY DEF SmallerOf

LEMMA ClosedIsHandle == Closed \in Handle
BY FileAssumption, ConstantTypes DEF Closed, Handle

LEMMA IdleIsOperation == Idle \in Operation /\ Idle.step = "idle"
BY ConstantTypes DEF Idle, Operation, Steps

LEMMA InitTypeInv == Init => TypeInv
<1> SUFFICES ASSUME Init PROVE TypeInv
  OBVIOUS
<1>1. Garbage \in Byte
  BY DEF Byte
<1>2. table \in [Clusters -> Entry]
  BY ConstantTypes DEF Init
<1>3. data \in [Clusters -> [Places -> Byte]]
  BY <1>1 DEF Init
<1>4. handle \in [Files -> Handle]
  BY ClosedIsHandle DEF Init
<1>5. op \in Operation /\ op.step = "idle" /\ faults \in 0 .. MaxFaults
  BY IdleIsOperation, FileAssumption DEF Init
<1>6. first \in [Files -> {None} \cup Clusters] /\ size \in [Files -> Nat]
  BY DEF Init
<1> QED BY <1>2, <1>3, <1>4, <1>5, <1>6 DEF Init, TypeInv, TypeOK

-----------------------------------------------------------------------------
(* The pieces that the actions are made of keep the types.                 *)
LEMMA BeginTypes ==
    ASSUME NEW s \in Steps, NEW f \in Files, NEW n \in Nat, NEW p \in Nat,
           Begin(s, f, n, p)
    PROVE  /\ op' \in Operation /\ op'.step = s /\ op'.file = f
           /\ op'.remaining = n /\ op'.target = p
BY ConstantTypes DEF Begin, Operation

LEMMA ReturnTypes ==
    ASSUME TypeOK, Return \/ Fail
    PROVE  /\ op' \in Operation /\ op'.step = "idle"
           /\ faults' \in 0 .. MaxFaults
BY IdleIsOperation, FileAssumption DEF Return, Fail, Fault, TypeOK

LEMMA GotoTypes ==
    ASSUME TypeOK, op.step # "idle", NEW s \in Steps, Goto(s)
    PROVE  /\ op' \in Operation /\ op'.step = s /\ op'.file = op.file
           /\ op'.remaining = op.remaining /\ op'.target = op.target
           /\ faults' \in 0 .. MaxFaults
BY ConstantTypes DEF Goto, TypeOK, Operation

LEMMA FreedBytes ==
    ASSUME TypeOK, NEW c, ForgetBytes(c)
    PROVE  data' \in [Clusters -> [Places -> Byte]]
<1>1. [i \in Places |-> Garbage] \in [Places -> Byte]
  BY DEF Byte
<1> QED BY <1>1 DEF ForgetBytes, TypeOK

LEMMA SetHandleTypes ==
    ASSUME TypeOK, op.step # "idle", NEW x \in Handle, SetHandle(x)
    PROVE  /\ handle' \in [Files -> Handle] /\ handle'[op.file] = x
BY DEF SetHandle, TypeOK

LEMMA OpenHandle == TypeOK /\ op.step # "idle" => h \in Handle /\ op.file \in Files
BY DEF TypeOK, h

LEMMA FileStartTypes ==
    ASSUME NEW x \in Handle
    PROVE  FileStart(x) \in Handle /\ FileStart(x).in_file = 0
<1>1. x.first \in {None} \cup Clusters
  BY DEF Handle
<1>2. x.first \in Entry /\ 0 \in 0 .. BytesPerCluster
  BY <1>1, ConstantTypes, FileAssumption
<1> QED BY <1>2 DEF FileStart, Handle

LEMMA AdvanceTypes ==
    ASSUME NEW x \in Handle, NEW n \in Nat, x.in_cluster + n <= BytesPerCluster
    PROVE  /\ Advance(x, n) \in Handle
           /\ Advance(x, n).in_file = x.in_file + n
<1>1. x.in_cluster + n \in 0 .. BytesPerCluster /\ x.in_file + n \in Nat
  BY FileAssumption DEF Handle
<1> QED BY <1>1 DEF Advance, Handle

(* Following the chain: the handle stays, or stands on the next entry.     *)
LEMMA NextHandle ==
    ASSUME TypeOK, NEW x \in Handle, ~OutOfRange(x.current)
    PROVE  [x EXCEPT !.current = table[x.current], !.in_cluster = 0] \in Handle
<1>1. x.current \in Clusters
  BY ConstantTypes DEF Handle
<1>2. table[x.current] \in Entry
  BY <1>1 DEF TypeOK
<1>3. 0 \in 0 .. BytesPerCluster
  BY FileAssumption
<1> QED BY <1>2, <1>3 DEF Handle

(* A read or a write moves bytes of one cluster, and no more than asked.   *)
LEMMA ReadDistance ==
    ASSUME TypeOK, op.step # "idle"
    PROVE  /\ BytesToRead \in Nat /\ BytesToCopy \in Nat
           /\ BytesToRead <= op.remaining /\ BytesToCopy <= op.remaining
           /\ h.in_cluster + BytesToRead <= BytesPerCluster
           /\ h.in_cluster + BytesToCopy <= BytesPerCluster
<1>1. /\ h.in_cluster \in 0 .. BytesPerCluster /\ h.in_file \in Nat
      /\ h.size \in Nat /\ op.remaining \in Nat
  BY OpenHandle DEF Handle, TypeOK, Operation
<1>2. BytesPerCluster - h.in_cluster \in Nat /\ BytesPerCluster \in Nat
  BY <1>1, FileAssumption
<1>3. BytesLeftInFile \in Nat
  BY <1>1, FileAssumption DEF BytesLeftInFile
<1>4. /\ BytesToCopy \in Nat /\ BytesToCopy <= op.remaining
      /\ BytesToCopy <= BytesPerCluster - h.in_cluster
  BY <1>1, <1>2, Smaller DEF BytesToCopy
<1> DEFINE room == SmallerOf(BytesPerCluster - h.in_cluster, BytesLeftInFile)
<1>5. room \in Nat /\ room <= BytesPerCluster - h.in_cluster
  BY <1>2, <1>3, Smaller
<1>6. /\ BytesToRead \in Nat /\ BytesToRead <= op.remaining
      /\ BytesToRead <= BytesPerCluster - h.in_cluster
  <2>1. BytesToRead = SmallerOf(op.remaining, room)
    BY DEF BytesToRead
  <2> HIDE DEF room
  <2>2. room \in Nat /\ op.remaining \in Nat
    BY <1>1, <1>5
  <2>3. /\ BytesToRead \in Nat /\ BytesToRead <= op.remaining
        /\ BytesToRead <= room
    BY <2>1, <2>2, Smaller
  <2> QED BY <1>2, <1>5, <2>2, <2>3
<1> QED BY <1>1, <1>2, <1>4, <1>6

(* A turn of the seek stays in the cluster and does not pass the target.   *)
LEMMA SeekMoves ==
    ASSUME TypeInv, op.step = "seek"
    PROVE  /\ SeekDistance \in Nat
           /\ h.in_cluster + SeekDistance <= BytesPerCluster
           /\ h.in_file + SeekDistance <= op.target
<1>1. /\ h.in_cluster \in 0 .. BytesPerCluster /\ h.in_file \in Nat
      /\ op.target \in Nat /\ h.in_file <= op.target
  BY OpenHandle DEF Handle, TypeInv, TypeOK, Operation
<1>2. BytesPerCluster - h.in_cluster \in Nat /\ op.target - h.in_file \in Nat
  BY <1>1, FileAssumption
<1>3. /\ SeekDistance \in Nat /\ SeekDistance <= op.target - h.in_file
      /\ SeekDistance <= BytesPerCluster - h.in_cluster
  BY <1>2, Smaller DEF SeekDistance
<1> QED BY <1>1, <1>2, <1>3, FileAssumption

-----------------------------------------------------------------------------
(* One lemma for each action that is more than an assignment or two.       *)
LEMMA OpenTypes ==
    ASSUME TypeInv, NEW f \in Files, NEW append \in AppendModes,
           CreateFile(f, append) \/ OpenFile(f, append)
    PROVE  TypeInv'
<1> USE DEF TypeInv, TypeOK
<1>1. append \in BOOLEAN
  BY FileAssumption
<1>2. CASE CreateFile(f, append)
  <2>1. [Closed EXCEPT !.open = TRUE, !.append = append] \in Handle
    BY <1>1, ClosedIsHandle DEF Handle
  <2>2. handle' \in [Files -> Handle]
    BY <1>2, <2>1 DEF CreateFile
  <2>3. op' \in Operation /\ op'.step = "idle" /\ faults' \in 0 .. MaxFaults
    BY <1>2, ReturnTypes DEF CreateFile
  <2> QED BY <1>2, <2>2, <2>3 DEF CreateFile
<1>3. CASE OpenFile(f, append)
  <2>1. size[f] \in Nat /\ first[f] \in {None} \cup Clusters /\ first[f] \in Entry
    BY ConstantTypes
  <2>2. [Closed EXCEPT !.open = TRUE, !.append = append, !.size = size[f],
                       !.first = first[f], !.current = first[f]] \in Handle
    BY <1>1, <2>1, ClosedIsHandle DEF Handle
  <2>3. handle' \in [Files -> Handle]
    BY <1>3, <2>2 DEF OpenFile
  <2>4. op.step = "idle"
    BY <1>3, IdleIsOperation DEF OpenFile
  <2> QED BY <1>3, <2>3, <2>4 DEF OpenFile
<1> QED BY <1>2, <1>3

LEMMA DeleteTypes ==
    ASSUME TypeInv, NEW f \in Files, DeleteFile(f)
    PROVE  TypeInv'
<1> USE DEF TypeInv, TypeOK
<1>1. first[f] \in Entry
  BY ConstantTypes
<1>2. [Idle EXCEPT !.step = "release", !.file = f, !.pending = first[f]]
        \in Operation
  BY <1>1, IdleIsOperation DEF Operation, Steps
<1>3. /\ op' \in Operation /\ op'.step \in {"idle", "release"}
      /\ faults' \in 0 .. MaxFaults
      /\ op'.step = "release" => op'.file = f
  BY <1>2, ReturnTypes, IdleIsOperation DEF DeleteFile, Operation
<1>4. /\ exists' \subseteq Files
      /\ first' \in [Files -> {None} \cup Clusters] /\ size' \in [Files -> Nat]
  BY DEF DeleteFile
<1> QED BY <1>3, <1>4 DEF DeleteFile

LEMMA ReleaseTypes ==
    ASSUME TypeInv, ReleaseNext
    PROVE  TypeInv'
<1> USE DEF TypeInv, TypeOK
<1>1. op.step = "release" /\ op.pending \in Entry
  BY DEF ReleaseNext, Operation
<1>2. CASE OutOfRange(op.pending)
  <2>1. op' \in Operation /\ op'.step = "idle" /\ faults' \in 0 .. MaxFaults
    BY <1>2, ReturnTypes DEF ReleaseNext
  <2> QED BY <1>2, <2>1 DEF ReleaseNext
<1>3. CASE ~OutOfRange(op.pending)
  <2>1. table[op.pending] \in Entry
    BY <1>1, <1>3, ConstantTypes
  <2>2. [op EXCEPT !.pending = table[op.pending]] \in Operation
    BY <2>1 DEF Operation
  <2>3. /\ op' \in Operation /\ op'.step \in {"idle", "release"}
        /\ faults' \in 0 .. MaxFaults
        /\ op'.step = "release" => op'.file = op.file
    BY <1>1, <1>3, <2>2, ReturnTypes
       DEF ReleaseNext, UpdateFATTableEntry, Operation
  <2>4. table' \in [Clusters -> Entry]
    BY <1>3, ConstantTypes DEF ReleaseNext, UpdateFATTableEntry
  <2>5. data' \in [Clusters -> [Places -> Byte]]
    BY <1>3, FreedBytes DEF ReleaseNext
  <2> QED BY <1>1, <2>3, <2>4, <2>5 DEF ReleaseNext
<1> QED BY <1>2, <1>3

LEMMA StartSeekTypes ==
    ASSUME TypeInv, NEW f \in Files, NEW p \in Nat, NEW n \in Nat,
           StartSeek(f, p, n)
    PROVE  TypeInv'
<1> USE DEF TypeInv, TypeOK
<1> DEFINE x == handle[f]
           q == SmallerOf(p, x.size)
<1>1. x \in Handle /\ op.step = "idle"
  BY IdleIsOperation DEF StartSeek
<1>2. x.size \in Nat /\ x.in_file \in Nat /\ q \in Nat
  BY <1>1, Smaller DEF Handle
<1>3. FileStart(x) \in Handle /\ FileStart(x).in_file = 0
  BY <1>1, FileStartTypes
<1>4. handle' \in [Files -> Handle]
  BY <1>1, <1>3 DEF StartSeek
<1>5. CASE x.current = None \/ p = 0
  <2>1. \/ UNCHANGED op
        \/ Begin("append", f, n, 0)
    BY <1>5 DEF StartSeek
  <2>2. /\ op' \in Operation /\ op'.step \in {"idle", "append"}
        /\ op'.step # "idle" => op'.file \in Files
    BY <1>1, <2>1, BeginTypes DEF Steps
  <2> QED BY <1>4, <2>2 DEF StartSeek
<1>6. CASE x.current # None /\ p # 0
  <2>1. Begin("seek", f, n, q)
    BY <1>6 DEF StartSeek
  <2>2. op' \in Operation /\ op'.step = "seek" /\ op'.file = f /\ op'.target = q
    BY <1>2, <2>1, BeginTypes DEF Steps
  <2>3. handle'[f].in_file <= q
    BY <1>1, <1>2, <1>3, <1>6 DEF StartSeek
  <2> QED BY <1>4, <2>2, <2>3 DEF StartSeek, h
<1> QED BY <1>5, <1>6

LEMMA TransferTypes ==
    ASSUME TypeInv, NEW f \in Files, NEW n \in 1 .. MaxLength,
           Read(f, n) \/ Write(f, n)
    PROVE  TypeInv'
<1> USE DEF TypeInv, TypeOK
<1>1. n \in Nat
  BY FileAssumption
<1>2. CASE Read(f, n)
  <2>1. Begin("read", f, n, 0)
    BY <1>2 DEF Read
  <2>2. op' \in Operation /\ op'.step = "read" /\ op'.file = f
    BY <1>1, <2>1, BeginTypes DEF Steps
  <2> QED BY <1>2, <2>2 DEF Read
<1>3. CASE StartSeek(f, handle[f].size, n)
  <2>1. handle[f].size \in Nat
    BY DEF Handle
  <2> QED BY <1>1, <1>3, <2>1, StartSeekTypes
<1>4. CASE Write(f, n) /\ ~StartSeek(f, handle[f].size, n)
  <2>1. Begin(FirstStep(handle[f]), f, n, 0)
    BY <1>4 DEF Write
  <2>2. FirstStep(handle[f]) \in Steps /\ FirstStep(handle[f]) \in {"first", "write"}
    BY DEF FirstStep, Steps
  <2>3. op' \in Operation /\ op'.step \in {"first", "write"} /\ op'.file = f
    BY <1>1, <2>1, <2>2, BeginTypes
  <2> QED BY <1>4, <2>3 DEF Write
<1> QED BY <1>2, <1>3, <1>4

LEMMA SeekStepTypes ==
    ASSUME TypeInv, SeekStep
    PROVE  TypeInv'
<1> USE DEF TypeInv, TypeOK
<1> DEFINE x == Advance(h, SeekDistance)
           y == [x EXCEPT !.current = table[x.current], !.in_cluster = 0]
<1>1. op.step = "seek" /\ op.file \in Files /\ h \in Handle
  BY OpenHandle DEF SeekStep
<1>2. x \in Handle /\ x.in_file <= op.target
  BY <1>1, SeekMoves, AdvanceTypes
<1>3. CASE SetHandle(x) /\ (SeekDone \/ Return \/ Fail)
  <2>1. op.remaining \in Nat
    BY DEF Operation
  <2>2. /\ op' \in Operation /\ op'.step \in {"idle", "append"}
        /\ op'.step # "idle" => op'.file \in Files
        /\ faults' \in 0 .. MaxFaults
    BY <1>1, <1>3, <2>1, BeginTypes, ReturnTypes DEF SeekDone, Steps
  <2>3. handle' \in [Files -> Handle]
    BY <1>1, <1>2, <1>3, SetHandleTypes
  <2> QED BY <2>2, <2>3 DEF SeekStep
<1>4. CASE ~OutOfRange(x.current) /\ SetHandle(y) /\ Goto("seek")
  <2>1. y \in Handle
    BY <1>2, <1>4, NextHandle
  <2>2. y.in_file = x.in_file
    BY <1>2 DEF Handle
  <2>3. handle' \in [Files -> Handle] /\ handle'[op.file] = y
    BY <1>1, <1>4, <2>1, SetHandleTypes
  <2>4. /\ op' \in Operation /\ op'.step = "seek" /\ op'.file = op.file
        /\ op'.target = op.target /\ faults' \in 0 .. MaxFaults
    BY <1>1, <1>4, GotoTypes DEF Steps
  <2>5. h'.in_file <= op'.target
    BY <1>2, <2>2, <2>3, <2>4 DEF h
  <2> QED BY <1>1, <2>3, <2>4, <2>5 DEF SeekStep
<1>5. \/ SetHandle(x) /\ (SeekDone \/ Return \/ Fail)
      \/ ~OutOfRange(x.current) /\ SetHandle(y) /\ Goto("seek")
  BY DEF SeekStep, NextCluster
<1> QED BY <1>3, <1>4, <1>5

LEMMA ReadStepTypes ==
    ASSUME TypeInv, ReadStep
    PROVE  TypeInv'
<1> USE DEF TypeInv, TypeOK
<1> DEFINE x == Advance(h, BytesToRead)
           y == [x EXCEPT !.current = table[x.current], !.in_cluster = 0]
           left == op.remaining - BytesToRead
           more == op' = [op EXCEPT !.remaining = left] /\ UNCHANGED faults
<1>1. op.step = "read" /\ op.file \in Files /\ h \in Handle
  BY OpenHandle DEF ReadStep
<1>2. x \in Handle /\ left \in Nat
  <2>1. op.remaining \in Nat
    BY DEF Operation
  <2> QED BY <1>1, <2>1, ReadDistance, AdvanceTypes
<1>3. \/ UNCHANGED handle
      \/ SetHandle(x)
      \/ ~OutOfRange(x.current) /\ SetHandle(y)
  BY DEF ReadStep, NextCluster
<1>4. handle' \in [Files -> Handle]
  BY <1>1, <1>2, <1>3, NextHandle, SetHandleTypes
<1>5. Return \/ Fail \/ more
  BY DEF ReadStep, NextCluster
<1>6. /\ op' \in Operation /\ op'.step \in {"idle", "read"}
      /\ op'.step = "read" => op'.file \in Files
      /\ faults' \in 0 .. MaxFaults
  <2>1. CASE more
    BY <1>1, <1>2, <2>1 DEF Operation
  <2> QED BY <1>5, <2>1, ReturnTypes
<1> QED BY <1>4, <1>6 DEF ReadStep

LEMMA AppendHereTypes ==
    ASSUME TypeInv, AppendHere
    PROVE  TypeInv'
<1> USE DEF TypeInv, TypeOK
<1>1. op.step = "append" /\ op.file \in Files
  BY DEF AppendHere
<1>2. FirstStep(h) \in Steps /\ FirstStep(h) \in {"first", "write"}
  BY DEF FirstStep, Steps
<1>3. /\ op' \in Operation /\ op'.step \in {"idle", "first", "write"}
      /\ op'.step # "idle" => op'.file \in Files
      /\ faults' \in 0 .. MaxFaults
  BY <1>1, <1>2, GotoTypes, ReturnTypes DEF AppendHere
<1> QED BY <1>3 DEF AppendHere

(* The search and the claim: nothing but the table, the mark and the       *)
(* operation changes, and the cluster that comes out was free.             *)
LEMMA ClaimTypes ==
    ASSUME TypeInv, op.step # "idle", NEW step \in Steps, NEW start,
           Claim(step, start)
    PROVE  /\ table' \in [Clusters -> Entry]
           /\ last_empty' \in {0} \cup Clusters
           /\ op' \in Operation /\ op'.step \in {"idle", step}
           /\ op'.step # "idle" => op'.file = op.file /\ op'.pending \in Clusters
           /\ faults' \in 0 .. MaxFaults
<1> USE DEF TypeInv, TypeOK
<1>1. CASE (Return \/ Fail) /\ UNCHANGED <<table, last_empty>>
  BY <1>1, ReturnTypes
<1>2. ASSUME NEW c \in Clusters,
             last_empty' = IF c > last_empty THEN c ELSE last_empty,
             \/ table' = [table EXCEPT ![c] = EOF]
             \/ UNCHANGED table,
             \/ op' = [op EXCEPT !.step = step, !.pending = c] /\ UNCHANGED faults
             \/ Fail
      PROVE  /\ table' \in [Clusters -> Entry]
             /\ last_empty' \in {0} \cup Clusters
             /\ op' \in Operation /\ op'.step \in {"idle", step}
             /\ op'.step # "idle" =>
                    op'.file = op.file /\ op'.pending \in Clusters
             /\ faults' \in 0 .. MaxFaults
  <2>1. table' \in [Clusters -> Entry]
    BY <1>2, ConstantTypes
  <2>2. last_empty' \in {0} \cup Clusters
    BY <1>2
  <2>3. CASE op' = [op EXCEPT !.step = step, !.pending = c] /\ UNCHANGED faults
    BY <2>1, <2>2, <2>3, ConstantTypes DEF Operation
  <2>4. CASE Fail
    BY <2>1, <2>2, <2>4, ReturnTypes
  <2> QED BY <1>2, <2>3, <2>4
<1> QED BY <1>1, <1>2 DEF Claim, UpdateFATTableEntry

LEMMA ClaimingTypes ==
    ASSUME TypeInv, ClaimFirstCluster \/ ClaimNextCluster
    PROVE  TypeInv'
<1> USE DEF TypeInv, TypeOK
<1>1. PICK step \in {"set_first", "link"} :
        op.step # "idle" /\ \E start : Claim(step, start)
  BY DEF ClaimFirstCluster, ClaimNextCluster
<1>2. step \in Steps
  BY DEF Steps
<1>3. /\ table' \in [Clusters -> Entry]
      /\ last_empty' \in {0} \cup Clusters
      /\ op' \in Operation /\ op'.step \in {"idle", step}
      /\ op'.step # "idle" => op'.file = op.file /\ op'.pending \in Clusters
      /\ faults' \in 0 .. MaxFaults
  BY <1>1, <1>2, ClaimTypes
<1> QED BY <1>1, <1>3 DEF ClaimFirstCluster, ClaimNextCluster

LEMMA SetFirstTypes ==
    ASSUME TypeInv, SetDirectoryEntryFirstCluster
    PROVE  TypeInv'
<1> USE DEF TypeInv, TypeOK
<1> DEFINE x == [h EXCEPT !.first = op.pending, !.current = op.pending]
<1>1. op.step = "set_first" /\ op.file \in Files /\ op.pending \in Clusters
  BY DEF SetDirectoryEntryFirstCluster
<1>2. x \in Handle
  BY <1>1, OpenHandle, ConstantTypes DEF Handle
<1>3. handle' \in [Files -> Handle]
  BY <1>1, <1>2, SetHandleTypes DEF SetDirectoryEntryFirstCluster
<1>4. first' \in [Files -> {None} \cup Clusters]
  BY <1>1 DEF SetDirectoryEntryFirstCluster
<1>5. /\ op' \in Operation /\ op'.step \in {"idle", "write"}
      /\ op'.step # "idle" => op'.file \in Files
      /\ faults' \in 0 .. MaxFaults
  BY <1>1, GotoTypes, ReturnTypes DEF SetDirectoryEntryFirstCluster, Steps
<1> QED BY <1>3, <1>4, <1>5 DEF SetDirectoryEntryFirstCluster

LEMMA WriteClusterTypes ==
    ASSUME TypeInv, WriteCluster
    PROVE  TypeInv'
<1> USE DEF TypeInv, TypeOK
<1> DEFINE left == op.remaining - BytesToCopy
<1>1. op.step = "write" /\ op.file \in Files /\ h \in Handle
  BY OpenHandle DEF WriteCluster
<1>2. CASE (Return \/ Fail) /\ UNCHANGED <<data, handle>>
  BY <1>2, ReturnTypes DEF WriteCluster
<1>3. CASE ~((Return \/ Fail) /\ UNCHANGED <<data, handle>>)
  <2>1. h.current \in Clusters /\ h.in_cluster \in Nat /\ h.in_file \in Nat
    BY <1>1, <1>3, ConstantTypes DEF WriteCluster, Handle
  <2>2. BlockBuffer \in [Places -> Byte]
    BY <2>1 DEF BlockBuffer, Byte
  <2>3. \A i \in h.in_cluster .. h.in_cluster + BytesToCopy - 1 :
            <<op.file, (h.in_file + i) - h.in_cluster>> \in Byte
    <3>1. BytesToCopy \in Nat
      BY <1>1, ReadDistance
    <3>2. \A i \in h.in_cluster .. h.in_cluster + BytesToCopy - 1 :
            (h.in_file + i) - h.in_cluster \in Nat
      BY <2>1, <3>1
    <3> QED BY <1>1, <3>2 DEF Byte
  <2> DEFINE written == h.in_cluster .. h.in_cluster + BytesToCopy - 1
             block == [i \in Places |->
                         IF i \in written
                         THEN <<op.file, (h.in_file + i) - h.in_cluster>>
                         ELSE BlockBuffer[i]]
  <2>4. data' \in [Clusters -> [Places -> Byte]]
    <3>1. data' = [data EXCEPT ![h.current] = block]
      BY <1>3 DEF WriteCluster
    <3>2. block \in [Places -> Byte]
      <4> HIDE DEF written
      <4> QED BY <2>2, <2>3 DEF written
    <3> HIDE DEF block
    <3> QED BY <2>1, <3>1, <3>2
  <2>5. handle' \in [Files -> Handle]
    BY <1>1, <1>3, ReadDistance, AdvanceTypes, SetHandleTypes DEF WriteCluster
  <2>6. left \in Nat
    BY <1>1, ReadDistance DEF Operation
  <2>7. /\ op' \in Operation /\ op'.step \in {"update_entry", "next"}
        /\ op'.file = op.file /\ UNCHANGED faults
    BY <1>3, <2>6 DEF WriteCluster, Operation, Steps
  <2> QED BY <1>1, <2>4, <2>5, <2>7 DEF WriteCluster
<1> QED BY <1>2, <1>3

LEMMA MoveTypes ==
    ASSUME TypeInv, MoveToNextCluster
    PROVE  TypeInv'
<1> USE DEF TypeInv, TypeOK
<1> DEFINE y == [h EXCEPT !.current = table[h.current], !.in_cluster = 0]
<1>1. op.step = "next" /\ op.file \in Files /\ h \in Handle
  BY OpenHandle DEF MoveToNextCluster
<1>2. \/ SetHandle(h) /\ (Return \/ Fail)
      \/ ~OutOfRange(h.current) /\ SetHandle(y) /\ Goto("write")
  BY DEF MoveToNextCluster, NextCluster
<1>3. handle' \in [Files -> Handle]
  BY <1>1, <1>2, NextHandle, SetHandleTypes
<1>4. /\ op' \in Operation /\ op'.step \in {"idle", "write"}
      /\ op'.step # "idle" => op'.file \in Files
      /\ faults' \in 0 .. MaxFaults
  BY <1>1, <1>2, GotoTypes, ReturnTypes DEF Steps
<1> QED BY <1>3, <1>4 DEF MoveToNextCluster

LEMMA LinkTypes ==
    ASSUME TypeInv, LinkNextCluster
    PROVE  TypeInv'
<1> USE DEF TypeInv, TypeOK
<1> DEFINE y == [h EXCEPT !.current = op.pending, !.in_cluster = 0]
<1>1. /\ op.step = "link" /\ op.file \in Files /\ h \in Handle
      /\ op.pending \in Clusters /\ op.pending \in Entry
  BY OpenHandle, ConstantTypes DEF LinkNextCluster
<1>2. table' \in [Clusters -> Entry]
  BY <1>1 DEF LinkNextCluster, UpdateFATTableEntry
<1>3. 0 \in 0 .. BytesPerCluster
  BY FileAssumption
<1>4. y \in Handle
  BY <1>1, <1>3 DEF Handle
<1>5. \/ SetHandle(y) /\ Goto("write")
      \/ Fault /\ op' = [op EXCEPT !.step = "rollback"] /\ UNCHANGED handle
  BY DEF LinkNextCluster, UpdateFATTableEntry
<1>6. handle' \in [Files -> Handle]
  BY <1>1, <1>4, <1>5, SetHandleTypes
<1>7. CASE SetHandle(y) /\ Goto("write")
  <2>1. /\ op' \in Operation /\ op'.step = "write" /\ op'.file = op.file
        /\ faults' \in 0 .. MaxFaults
    BY <1>1, <1>7, GotoTypes DEF Steps
  <2> QED BY <1>1, <1>2, <1>6, <2>1 DEF LinkNextCluster
<1>8. CASE Fault /\ op' = [op EXCEPT !.step = "rollback"]
  <2>1. /\ op' \in Operation /\ op'.step = "rollback" /\ op'.file = op.file
        /\ op'.pending = op.pending
    BY <1>8 DEF Operation, Steps
  <2>2. faults' \in 0 .. MaxFaults
    BY <1>8, FileAssumption DEF Fault
  <2> QED BY <1>1, <1>2, <1>6, <2>1, <2>2 DEF LinkNextCluster
<1> QED BY <1>5, <1>7, <1>8

LEMMA RollbackTypes ==
    ASSUME TypeInv, ReleaseUnlinkedCluster
    PROVE  TypeInv'
<1> USE DEF TypeInv, TypeOK
<1>1. table' \in [Clusters -> Entry]
  BY ConstantTypes DEF ReleaseUnlinkedCluster, UpdateFATTableEntry
<1>2. data' \in [Clusters -> [Places -> Byte]]
  BY FreedBytes DEF ReleaseUnlinkedCluster
<1>3. op' \in Operation /\ op'.step = "idle" /\ faults' \in 0 .. MaxFaults
  BY ReturnTypes DEF ReleaseUnlinkedCluster, UpdateFATTableEntry
<1> QED BY <1>1, <1>2, <1>3 DEF ReleaseUnlinkedCluster

LEMMA UpdateEntryTypes ==
    ASSUME TypeInv, UpdateDirectoryEntrySize
    PROVE  TypeInv'
<1> USE DEF TypeInv, TypeOK
<1> DEFINE x == IF h.in_file > h.size THEN [h EXCEPT !.size = h.in_file] ELSE h
           y == [x EXCEPT !.marked = TRUE]
<1>1. op.step = "update_entry" /\ op.file \in Files /\ h \in Handle
  BY OpenHandle DEF UpdateDirectoryEntrySize
<1>2. x \in Handle
  BY <1>1 DEF Handle
<1>3. y \in Handle /\ x.size \in Nat
  BY <1>2 DEF Handle
<1>4. /\ UNCHANGED handle \/ SetHandle(x) \/ SetHandle(y)
      /\ UNCHANGED size \/ size' = [size EXCEPT ![op.file] = x.size]
      /\ Return \/ Fail
  BY DEF UpdateDirectoryEntrySize
<1>5. handle' \in [Files -> Handle]
  BY <1>1, <1>2, <1>3, <1>4, SetHandleTypes
<1>6. size' \in [Files -> Nat]
  BY <1>3, <1>4
<1>7. op' \in Operation /\ op'.step = "idle" /\ faults' \in 0 .. MaxFaults
  BY <1>4, ReturnTypes
<1> QED BY <1>5, <1>6, <1>7 DEF UpdateDirectoryEntrySize

LEMMA RemountTypes ==
    ASSUME TypeInv, Remount
    PROVE  TypeInv'
<1> USE DEF TypeInv, TypeOK
<1>1. handle' \in [Files -> Handle]
  BY ClosedIsHandle DEF Remount
<1>2. op' \in Operation /\ op'.step = "idle" /\ faults' \in 0 .. MaxFaults
  BY IdleIsOperation, FileAssumption DEF Remount, Fault
<1> QED BY <1>1, <1>2 DEF Remount

LEMMA CloseTypes ==
    ASSUME TypeInv, NEW f \in Files, Close(f)
    PROVE  TypeInv'
<1> USE DEF TypeInv, TypeOK
<1>1. handle' \in [Files -> Handle]
  BY ClosedIsHandle DEF Close
<1>2. op.step = "idle"
  BY IdleIsOperation DEF Close
<1> QED BY <1>1, <1>2 DEF Close

(* The actions of Next, as the lemmas of both invariants take them.        *)
LEMMA NextCases ==
    ASSUME Next
    PROVE  \/ \E f \in Files :
                \/ \E append \in AppendModes :
                       CreateFile(f, append) \/ OpenFile(f, append)
                \/ Close(f)
                \/ DeleteFile(f)
                \/ \E p \in SeekTargets : StartSeek(f, p, 0)
                \/ \E n \in 1 .. MaxLength :
                       \/ Read(f, n) \/ Write(f, n)
                       \/ StartSeek(f, handle[f].size, n)
           \/ Step
           \/ Remount
BY DEF Next, Seek, AppendToFile

LEMMA NextTypeInv == TypeInv /\ [Next]_vars => TypeInv'
<1> SUFFICES ASSUME TypeInv, [Next]_vars PROVE TypeInv'
  OBVIOUS
<1>1. ASSUME NEW f \in Files, NEW append \in AppendModes,
             CreateFile(f, append) \/ OpenFile(f, append)
      PROVE  TypeInv'
  BY <1>1, OpenTypes
<1>2. ASSUME NEW f \in Files, Close(f) \/ DeleteFile(f) PROVE TypeInv'
  BY <1>2, CloseTypes, DeleteTypes
<1>3. ASSUME NEW f \in Files, NEW p \in SeekTargets, StartSeek(f, p, 0)
      PROVE  TypeInv'
  BY <1>3, FileAssumption, StartSeekTypes
<1>4. ASSUME NEW f \in Files, NEW n \in 1 .. MaxLength,
             \/ Read(f, n) \/ Write(f, n) \/ StartSeek(f, handle[f].size, n)
      PROVE  TypeInv'
  <2>1. n \in Nat /\ handle[f].size \in Nat
    BY FileAssumption DEF TypeInv, TypeOK, Handle
  <2> QED BY <1>4, <2>1, TransferTypes, StartSeekTypes
<1>5. CASE Step
  BY <1>5, ReleaseTypes, SeekStepTypes, ReadStepTypes, AppendHereTypes,
     ClaimingTypes, SetFirstTypes, WriteClusterTypes, MoveTypes, LinkTypes,
     RollbackTypes, UpdateEntryTypes DEF Step
<1>6. CASE Remount
  BY <1>6, RemountTypes
<1>7. CASE UNCHANGED vars
  BY <1>7 DEF TypeInv, TypeOK, h
<1> QED BY <1>1, <1>2, <1>3, <1>4, <1>5, <1>6, <1>7, NextCases

LEMMA TypeInvHolds == Spec => []TypeInv
BY InitTypeInv, NextTypeInv, PTL DEF Spec

(* The types of the state: positions stay natural numbers inside their     *)
(* cluster although the code subtracts unsigned numbers (the loops of      *)
(* FAT32File::Seek, Read and Write).                                       *)
THEOREM TypeCorrect == Spec => []TypeOK
<1>1. TypeInv => TypeOK
  BY DEF TypeInv
<1> QED BY <1>1, TypeInvHolds, PTL

-----------------------------------------------------------------------------
(* Chains, on a volume whose FAT is not mirrored, where an update that     *)
(* fails changed nothing, or on which nothing has failed yet.              *)

Sure == clean \/ ~Mirrored

LEMMA FailureIsSeen == TypeOK /\ (Fail \/ Fault) => ~clean'
BY FileAssumption DEF Fail, Fault, TypeOK, clean

\* Nothing on the device names cluster c.
Unnamed(c) ==
    /\ \A f \in exists : first[f] # c
    /\ \A d \in Clusters : table[d] # c
    /\ c # 2

ChainsSafe ==
    /\ NoLinkToFreeCluster
    /\ NoCrossLinks
    /\ table[2] # Free

\* Files without an entry are closed; operations on a file work on its entry.
FilesHaveEntries ==
    /\ \A f \in Files \ exists : first[f] = None /\ ~handle[f].open
    /\ op.step \notin {"idle", "release"} => op.file \in exists

\* A cluster between its claim and its link, or between the removal of its
\* name and its release, has no name.
PendingIsUnnamed ==
    /\ op.step \in {"set_first", "link", "rollback"} =>
         Unnamed(op.pending) /\ table[op.pending] = EOF
    /\ op.step = "release" /\ op.pending \in Clusters => Unnamed(op.pending)

ChainInv == ChainsSafe /\ FilesHaveEntries /\ PendingIsUnnamed

(* A free cluster is claimed: nothing named it, and nothing does.          *)
LEMMA ClaimKeepsChains ==
    ASSUME TypeOK, ChainsSafe, NEW c \in Clusters, table[c] = Free,
           table' = [table EXCEPT ![c] = EOF], UNCHANGED <<exists, first>>
    PROVE  ChainsSafe' /\ Unnamed(c)' /\ table'[c] = EOF
<1> USE DEF ChainsSafe, TypeOK
<1>1. Unnamed(c)
  BY ConstantTypes DEF NoLinkToFreeCluster, NoCrossLinks, Unnamed
<1>2. table'[c] = EOF /\ \A d \in Clusters \ {c} : table'[d] = table[d]
  OBVIOUS
<1>3. EOF \notin Clusters /\ EOF # Free
  BY ConstantTypes, MaxClusterAssumption DEF EOF, Free
<1>4. Unnamed(c)'
  BY <1>1, <1>2, <1>3 DEF Unnamed
<1>5. NoLinkToFreeCluster'
  BY <1>1, <1>2, <1>3 DEF NoLinkToFreeCluster, Unnamed
<1>6. NoCrossLinks'
  BY <1>1, <1>2, <1>3, ConstantTypes DEF NoCrossLinks, Unnamed
<1> QED BY <1>2, <1>3, <1>4, <1>5, <1>6, ConstantTypes

(* A cluster that nothing names is freed: no chain runs into it, and the   *)
(* cluster it named is named by nothing any more.                          *)
LEMMA ReleaseKeepsChains ==
    ASSUME TypeOK, ChainsSafe, NEW c \in Clusters, Unnamed(c),
           table' = [table EXCEPT ![c] = Free], UNCHANGED <<exists, first>>
    PROVE  /\ ChainsSafe'
           /\ \A n \in Clusters : table[c] = n => Unnamed(n)'
<1> USE DEF ChainsSafe, TypeOK
<1>1. table'[c] = Free /\ \A d \in Clusters \ {c} : table'[d] = table[d]
  OBVIOUS
<1>2. Free \notin Clusters /\ None \notin Clusters
  BY ConstantTypes
<1>3. NoLinkToFreeCluster'
  BY <1>1, <1>2, ConstantTypes DEF NoLinkToFreeCluster, Unnamed
<1>4. NoCrossLinks'
  <2>1. \A d, e \in Clusters :
            table'[d] = table'[e] /\ table'[d] \in Clusters => d = e
    BY <1>1, <1>2 DEF NoCrossLinks
  <2>2. \A f \in exists, d \in Clusters :
            table'[d] = first[f] => first[f] = None
    BY <1>1 DEF NoCrossLinks, None, Free
  <2>3. \A d \in Clusters : table'[d] # 2
    BY <1>1, <1>2, ConstantTypes DEF NoCrossLinks
  <2> QED BY <2>1, <2>2, <2>3 DEF NoCrossLinks
<1>5. table'[2] # Free
  BY <1>1, ConstantTypes DEF Unnamed
<1>6. ASSUME NEW n \in Clusters, table[c] = n
      PROVE  Unnamed(n)'
  <2>1. \A f \in exists' : first'[f] # n
    BY <1>2, <1>6 DEF NoCrossLinks
  <2>2. \A d \in Clusters : table'[d] # n
    BY <1>1, <1>2, <1>6 DEF NoCrossLinks
  <2>3. n # 2
    BY <1>6 DEF NoCrossLinks
  <2> QED BY <2>1, <2>2, <2>3 DEF Unnamed
<1> QED BY <1>3, <1>4, <1>5, <1>6

(* A claimed cluster that nothing names becomes the next one of some chain.*)
LEMMA LinkKeepsChains ==
    ASSUME TypeOK, ChainsSafe, NEW c, NEW p \in Clusters, Unnamed(p),
           table[p] = EOF,
           table' = [table EXCEPT ![c] = p], UNCHANGED <<exists, first>>
    PROVE  ChainsSafe'
<1> USE DEF ChainsSafe, TypeOK
<1>1. CASE c \notin Clusters
  <2>1. table' = table
    BY <1>1
  <2> QED BY <2>1 DEF NoLinkToFreeCluster, NoCrossLinks
<1>2. CASE c \in Clusters
  <2>1. table'[c] = p /\ \A d \in Clusters \ {c} : table'[d] = table[d]
    BY <1>2
  <2>2. Free \notin Clusters /\ EOF # Free
    BY ConstantTypes, MaxClusterAssumption DEF EOF, Free
  <2>3. NoLinkToFreeCluster'
    BY <1>2, <2>1, <2>2, ConstantTypes DEF NoLinkToFreeCluster, Unnamed
  <2>4. NoCrossLinks'
    BY <1>2, <2>1, <2>2, ConstantTypes DEF NoCrossLinks, Unnamed
  <2> QED BY <2>1, <2>2, <2>3, <2>4, ConstantTypes
<1> QED BY <1>1, <1>2

(* What an operation leaves alone stays as it is.                          *)
LEMMA ChainFrame ==
    ASSUME ChainsSafe, UNCHANGED <<table, exists, first>>
    PROVE  ChainsSafe' /\ (\A c : Unnamed(c) => Unnamed(c)')
BY DEF ChainsSafe, NoLinkToFreeCluster, NoCrossLinks, Unnamed

LEMMA HandleFrame ==
    ASSUME TypeOK, FilesHaveEntries, UNCHANGED <<exists, first>>,
           \/ UNCHANGED handle
           \/ op.file \in exists /\ \E x : SetHandle(x)
    PROVE  \A f \in Files \ exists : first'[f] = None /\ ~handle'[f].open
BY DEF FilesHaveEntries, SetHandle, TypeOK

(* Steps that touch neither the table nor the names of the entries.        *)
Quiet == {"idle", "seek", "append", "read", "write", "first", "next",
          "update_entry"}

LEMMA QuietStep ==
    ASSUME ChainInv, UNCHANGED <<table, exists, first>>,
           \A f \in Files \ exists : ~handle'[f].open,
           op'.step \in Quiet, op'.step # "idle" => op'.file \in exists
    PROVE  ChainInv'
<1>1. ChainsSafe'
  BY ChainFrame DEF ChainInv
<1> QED BY <1>1 DEF ChainInv, FilesHaveEntries, PendingIsUnnamed, Quiet

LEMMA StartSeekChains ==
    ASSUME TypeInv, ChainInv, NEW f \in Files, NEW p \in Nat, NEW n \in Nat,
           StartSeek(f, p, n)
    PROVE  ChainInv'
<1>1. f \in exists /\ op.step = "idle"
  BY IdleIsOperation DEF StartSeek, ChainInv, FilesHaveEntries
<1>2. \A g \in Files \ exists : handle'[g] = handle[g]
  BY <1>1 DEF StartSeek, TypeInv, TypeOK
<1>3. \/ UNCHANGED op
      \/ Begin("append", f, n, 0)
      \/ \E q : Begin("seek", f, n, q)
  BY DEF StartSeek
<1>4. op'.step \in Quiet /\ (op'.step # "idle" => op'.file \in exists)
  BY <1>1, <1>3 DEF Begin, Quiet
<1> QED BY <1>2, <1>4, QuietStep DEF StartSeek, ChainInv, FilesHaveEntries

LEMMA TransferChains ==
    ASSUME TypeInv, ChainInv, NEW f \in Files, NEW n \in 1 .. MaxLength,
           Read(f, n) \/ Write(f, n)
    PROVE  ChainInv'
<1>1. CASE StartSeek(f, handle[f].size, n)
  <2>1. n \in Nat /\ handle[f].size \in Nat
    BY FileAssumption DEF TypeInv, TypeOK, Handle
  <2> QED BY <1>1, <2>1, StartSeekChains
<1>2. CASE ~StartSeek(f, handle[f].size, n)
  <2>1. /\ UNCHANGED <<table, exists, first, handle>>
        /\ handle[f].open
        /\ Begin("read", f, n, 0) \/ Begin(FirstStep(handle[f]), f, n, 0)
    BY <1>2 DEF Read, Write
  <2>2. op'.step \in Quiet /\ op'.file = f
    BY <2>1 DEF Begin, FirstStep, Quiet
  <2> QED BY <2>1, <2>2, QuietStep DEF ChainInv, FilesHaveEntries
<1> QED BY <1>1, <1>2

LEMMA OpenCloseChains ==
    ASSUME TypeInv, ChainInv, NEW f \in Files,
           \/ \E append \in AppendModes : CreateFile(f, append) \/ OpenFile(f, append)
           \/ Close(f)
    PROVE  ChainInv'
<1> USE DEF TypeInv, TypeOK
<1>1. ASSUME NEW append \in AppendModes, CreateFile(f, append)
      PROVE  ChainInv'
  <2>1. /\ first[f] = None /\ UNCHANGED <<table, first>>
        /\ exists' \in {exists, exists \cup {f}}
    BY <1>1 DEF CreateFile, ChainInv, FilesHaveEntries
  <2>2. ChainsSafe'
    <3>1. None # 2
      BY DEF None
    <3>2. \A g \in exists' : g \in exists \/ first'[g] = None
      BY <2>1
    <3>3. NoLinkToFreeCluster'
      BY <2>1, <3>2 DEF ChainInv, ChainsSafe, NoLinkToFreeCluster
    <3>4. NoCrossLinks'
      <4>1. \A g, k \in exists' :
                first'[g] = first'[k] /\ first'[g] # None => g = k
        BY <2>1, <3>2 DEF ChainInv, ChainsSafe, NoCrossLinks
      <4>2. \A g \in exists', c \in Clusters :
                table'[c] = first'[g] => first'[g] = None
        BY <2>1, <3>2 DEF ChainInv, ChainsSafe, NoCrossLinks
      <4>3. \A g \in exists' : first'[g] # 2
        BY <2>1, <3>1, <3>2 DEF ChainInv, ChainsSafe, NoCrossLinks
      <4> QED BY <2>1, <4>1, <4>2, <4>3
              DEF ChainInv, ChainsSafe, NoCrossLinks
    <3> QED BY <2>1, <3>3, <3>4 DEF ChainInv, ChainsSafe
  <2>3. op'.step = "idle"
    BY <1>1, ReturnTypes DEF CreateFile
  <2>4. \A g \in Files \ exists' : handle'[g] = handle[g]
    <3>1. CASE UNCHANGED handle
      BY <3>1
    <3>2. CASE ~UNCHANGED handle
      <4>1. PICK x : handle' = [handle EXCEPT ![f] = x]
        BY <1>1, <3>2 DEF CreateFile
      <4>2. exists' = exists \cup {f}
        BY <1>1, <3>2 DEF CreateFile
      <4> QED BY <4>1, <4>2
    <3> QED BY <3>1, <3>2
  <2>5. \A g \in Files \ exists' : first'[g] = None /\ ~handle'[g].open
    BY <2>1, <2>4 DEF ChainInv, FilesHaveEntries
  <2> QED BY <2>2, <2>3, <2>5 DEF ChainInv, FilesHaveEntries, PendingIsUnnamed
<1>2. ASSUME NEW append \in AppendModes, OpenFile(f, append)
      PROVE  ChainInv'
  <2>1. /\ UNCHANGED <<table, exists, first, op>> /\ f \in exists
        /\ op.step = "idle"
        /\ \A g \in Files \ {f} : handle'[g] = handle[g]
    BY <1>2, IdleIsOperation DEF OpenFile
  <2> QED BY <2>1, QuietStep DEF ChainInv, FilesHaveEntries, Quiet
<1>3. CASE Close(f)
  <2>1. /\ UNCHANGED <<table, exists, first, op>> /\ op.step = "idle"
        /\ \A g \in Files : handle'[g] = handle[g] \/ handle'[g] = Closed
    BY <1>3, IdleIsOperation DEF Close
  <2>2. ~Closed.open
    BY DEF Closed
  <2> QED BY <2>1, <2>2, QuietStep DEF ChainInv, FilesHaveEntries, Quiet
<1> QED BY <1>1, <1>2, <1>3

LEMMA DeleteChains ==
    ASSUME TypeInv, ChainInv, NEW f \in Files, DeleteFile(f)
    PROVE  ChainInv'
<1> USE DEF TypeInv, TypeOK
<1>1. CASE UNCHANGED <<exists, first>> /\ Fail
  <2>1. op'.step = "idle"
    BY <1>1, ReturnTypes
  <2> QED BY <1>1, <2>1, QuietStep
          DEF DeleteFile, ChainInv, FilesHaveEntries, Quiet
<1>2. CASE exists' = exists \ {f} /\ first' = [first EXCEPT ![f] = None]
  <2>1. UNCHANGED <<table, handle>> /\ ~handle[f].open /\ f \in exists
    BY DEF DeleteFile
  <2>2. \A g \in exists' : first'[g] = first[g]
    BY <1>2
  <2>3. ChainsSafe'
    BY <1>2, <2>1, <2>2
       DEF ChainInv, ChainsSafe, NoLinkToFreeCluster, NoCrossLinks
  <2>4. \A g \in Files \ exists' : first'[g] = None /\ ~handle'[g].open
    BY <1>2, <2>1 DEF ChainInv, FilesHaveEntries
  <2>5. \A c \in Clusters : first[f] = c => Unnamed(c)'
    BY <1>2, <2>1, <2>2, ConstantTypes
       DEF ChainInv, ChainsSafe, NoCrossLinks, Unnamed
  <2>6. \/ op'.step = "idle"
        \/ op'.step = "release" /\ op'.pending = first[f]
    BY <1>2, ReturnTypes DEF DeleteFile, Idle
  <2>7. CASE op'.step = "idle"
    BY <2>3, <2>4, <2>7 DEF ChainInv, FilesHaveEntries, PendingIsUnnamed
  <2>8. CASE op'.step = "release" /\ op'.pending = first[f]
    <3>1. op'.pending \in Clusters => Unnamed(op.pending)'
      BY <2>5, <2>8
    <3> QED BY <2>3, <2>4, <2>8, <3>1
            DEF ChainInv, FilesHaveEntries, PendingIsUnnamed
  <2> QED BY <2>6, <2>7, <2>8
<1> QED BY <1>1, <1>2 DEF DeleteFile

LEMMA ReleaseChains ==
    ASSUME TypeInv, ChainInv, Sure', ReleaseNext
    PROVE  ChainInv'
<1> USE DEF TypeInv, TypeOK
<1>1. op.step = "release" /\ UNCHANGED <<exists, first, handle>>
  BY DEF ReleaseNext
<1>2. \A f \in Files \ exists' : first'[f] = None /\ ~handle'[f].open
  BY <1>1 DEF ChainInv, FilesHaveEntries
<1>3. CASE UNCHANGED table /\ (Return \/ Fail)
  <2>1. op'.step = "idle"
    BY <1>3, ReturnTypes
  <2> QED BY <1>1, <1>2, <1>3, <2>1, QuietStep DEF Quiet
<1>4. CASE ~(UNCHANGED table /\ (Return \/ Fail))
  <2>1. PICK c \in Clusters : c = op.pending
    BY <1>1, <1>4, ConstantTypes
       DEF ReleaseNext, UpdateFATTableEntry, Operation
  <2>2. /\ table' = [table EXCEPT ![c] = Free]
        /\ \/ Return
           \/ op' = [op EXCEPT !.pending = table[c]]
    BY <1>4, <2>1, FailureIsSeen DEF ReleaseNext, UpdateFATTableEntry, Sure
  <2>3. Unnamed(c)
    BY <1>1, <2>1 DEF ChainInv, PendingIsUnnamed
  <2>4. ChainsSafe' /\ \A n \in Clusters : table[c] = n => Unnamed(n)'
    BY <1>1, <2>2, <2>3, ReleaseKeepsChains DEF ChainInv
  <2>5. CASE Return
    <3>1. op'.step = "idle"
      BY <2>5, ReturnTypes
    <3> QED BY <1>2, <2>4, <3>1
            DEF ChainInv, FilesHaveEntries, PendingIsUnnamed
  <2>6. CASE op' = [op EXCEPT !.pending = table[c]]
    <3>1. op'.step = "release" /\ op'.pending = table[c]
      BY <1>1, <2>6 DEF Operation
    <3>2. op'.pending \in Clusters => Unnamed(op.pending)'
      BY <2>4, <3>1
    <3> QED BY <1>2, <2>4, <3>1, <3>2
            DEF ChainInv, FilesHaveEntries, PendingIsUnnamed
  <2> QED BY <2>2, <2>5, <2>6
<1> QED BY <1>3, <1>4

LEMMA ClaimingChains ==
    ASSUME TypeInv, ChainInv, Sure', ClaimFirstCluster \/ ClaimNextCluster
    PROVE  ChainInv'
<1> USE DEF TypeInv, TypeOK
<1>1. PICK step \in {"set_first", "link"} :
        op.step # "idle" /\ \E start : Claim(step, start)
  BY DEF ClaimFirstCluster, ClaimNextCluster
<1>2. UNCHANGED <<exists, first, handle>> /\ op.file \in exists
  BY DEF ClaimFirstCluster, ClaimNextCluster, ChainInv, FilesHaveEntries
<1>3. \A f \in Files \ exists' : first'[f] = None /\ ~handle'[f].open
  BY <1>2 DEF ChainInv, FilesHaveEntries
<1>4. CASE UNCHANGED table /\ (Return \/ Fail)
  <2>1. op'.step = "idle"
    BY <1>4, ReturnTypes
  <2> QED BY <1>2, <1>3, <1>4, <2>1, QuietStep DEF Quiet
<1>5. CASE ~(UNCHANGED table /\ (Return \/ Fail))
  <2>1. PICK c \in Clusters :
          /\ c \in FreeClusters
          /\ table' = [table EXCEPT ![c] = EOF]
          /\ op' = [op EXCEPT !.step = step, !.pending = c]
    BY <1>1, <1>5, FailureIsSeen DEF Claim, NextEmpty, UpdateFATTableEntry, Sure
  <2>2. op'.step = step /\ op'.pending = c /\ op'.file = op.file
    BY <2>1 DEF Operation
  <2>3. ChainsSafe' /\ Unnamed(c)' /\ table'[c] = EOF
    BY <1>2, <2>1, ClaimKeepsChains DEF ChainInv, FreeClusters
  <2>4. Unnamed(op.pending)' /\ table'[op'.pending] = EOF
    BY <2>2, <2>3
  <2> QED BY <1>1, <1>2, <1>3, <2>2, <2>3, <2>4
          DEF ChainInv, FilesHaveEntries, PendingIsUnnamed
<1> QED BY <1>4, <1>5

LEMMA SetFirstChains ==
    ASSUME TypeInv, ChainInv, SetDirectoryEntryFirstCluster
    PROVE  ChainInv'
<1> USE DEF TypeInv, TypeOK
<1>1. /\ op.step = "set_first" /\ op.pending \in Clusters /\ op.file \in exists
      /\ UNCHANGED <<table, exists>>
      /\ Unnamed(op.pending) /\ table[op.pending] = EOF
  BY DEF SetDirectoryEntryFirstCluster, ChainInv, FilesHaveEntries,
         PendingIsUnnamed
<1>2. op'.step \in {"idle", "write"} /\ (op'.step # "idle" => op'.file = op.file)
  BY <1>1, GotoTypes, ReturnTypes DEF SetDirectoryEntryFirstCluster, Steps
<1>3. CASE UNCHANGED <<first, handle>>
  BY <1>1, <1>2, <1>3, QuietStep DEF ChainInv, FilesHaveEntries, Quiet
<1>4. CASE ~UNCHANGED <<first, handle>>
  <2>1. /\ first' = [first EXCEPT ![op.file] = op.pending]
        /\ \E x : SetHandle(x)
    BY <1>4 DEF SetDirectoryEntryFirstCluster
  <2>2. /\ first'[op.file] = op.pending
        /\ \A f \in exists \ {op.file} : first'[f] = first[f]
    BY <1>1, <2>1
  <2>3. NoLinkToFreeCluster'
    <3>1. EOF # Free
      BY MaxClusterAssumption DEF EOF, Free
    <3> QED BY <1>1, <2>2, <3>1 DEF ChainInv, ChainsSafe, NoLinkToFreeCluster
  <2>4. NoCrossLinks'
    <3>1. \A f, g \in exists :
              first'[f] = first'[g] /\ first'[f] # None => f = g
      BY <1>1, <2>2 DEF ChainInv, ChainsSafe, NoCrossLinks, Unnamed
    <3>2. \A f \in exists, c \in Clusters :
              table[c] = first'[f] => first'[f] = None
      BY <1>1, <2>2 DEF ChainInv, ChainsSafe, NoCrossLinks, Unnamed
    <3>3. \A f \in exists : first'[f] # 2
      BY <1>1, <2>2 DEF ChainInv, ChainsSafe, NoCrossLinks, Unnamed
    <3> QED BY <1>1, <3>1, <3>2, <3>3
            DEF ChainInv, ChainsSafe, NoCrossLinks
  <2>5. \A f \in Files \ exists' : first'[f] = None /\ ~handle'[f].open
    BY <1>1, <2>1 DEF SetHandle, ChainInv, FilesHaveEntries
  <2> QED BY <1>1, <1>2, <2>3, <2>4, <2>5
          DEF ChainInv, ChainsSafe, FilesHaveEntries, PendingIsUnnamed
<1> QED BY <1>3, <1>4

LEMMA LinkChains ==
    ASSUME TypeInv, ChainInv, Sure', LinkNextCluster
    PROVE  ChainInv'
<1> USE DEF TypeInv, TypeOK
<1>1. PICK p \in Clusters : p = op.pending
  BY DEF LinkNextCluster
<1>2. /\ op.step = "link" /\ op.file \in exists /\ UNCHANGED <<exists, first>>
      /\ Unnamed(p) /\ table[p] = EOF
  BY <1>1 DEF LinkNextCluster, ChainInv, FilesHaveEntries, PendingIsUnnamed
<1>3. CASE table' = [table EXCEPT ![h.current] = op.pending] /\ Goto("write")
  <2>1. ChainsSafe'
    BY <1>1, <1>2, <1>3, LinkKeepsChains DEF ChainInv
  <2>2. op'.step = "write" /\ op'.file = op.file
    BY <1>2, <1>3, GotoTypes DEF Steps
  <2>3. UNCHANGED handle \/ \E x : SetHandle(x)
    BY DEF LinkNextCluster, UpdateFATTableEntry
  <2>4. \A f \in Files \ exists' : first'[f] = None /\ ~handle'[f].open
    BY <1>2, <2>3, HandleFrame DEF ChainInv
  <2> QED BY <1>2, <2>1, <2>2, <2>4
          DEF ChainInv, FilesHaveEntries, PendingIsUnnamed
<1>4. CASE UNCHANGED <<table, handle>> /\ op' = [op EXCEPT !.step = "rollback"]
  <2>1. op'.step = "rollback" /\ op'.file = op.file /\ op'.pending = p
    BY <1>1, <1>4 DEF Operation
  <2>2. ChainsSafe' /\ Unnamed(p)'
    BY <1>2, <1>4, ChainFrame DEF ChainInv
  <2>3. Unnamed(op.pending)' /\ table'[op'.pending] = EOF
    BY <1>2, <1>4, <2>1, <2>2
  <2>4. \A f \in Files \ exists' : first'[f] = None /\ ~handle'[f].open
    BY <1>2, <1>4 DEF ChainInv, FilesHaveEntries
  <2> QED BY <1>2, <2>1, <2>2, <2>3, <2>4
          DEF ChainInv, FilesHaveEntries, PendingIsUnnamed
<1> QED BY <1>3, <1>4, FailureIsSeen
        DEF LinkNextCluster, UpdateFATTableEntry, Sure

LEMMA RollbackChains ==
    ASSUME TypeInv, ChainInv, Sure', ReleaseUnlinkedCluster
    PROVE  ChainInv'
<1> USE DEF TypeInv, TypeOK
<1>1. PICK c \in Clusters : c = op.pending
  BY DEF ReleaseUnlinkedCluster
<1>2. /\ Unnamed(c) /\ UNCHANGED <<exists, first, handle>>
      /\ op.step = "rollback"
  BY <1>1 DEF ReleaseUnlinkedCluster, ChainInv, PendingIsUnnamed
<1>3. op'.step = "idle"
  BY ReturnTypes DEF ReleaseUnlinkedCluster, UpdateFATTableEntry
<1>4. CASE table' = [table EXCEPT ![c] = Free]
  <2>1. ChainsSafe'
    BY <1>2, <1>4, ReleaseKeepsChains DEF ChainInv
  <2> QED BY <1>2, <1>3, <2>1
          DEF ChainInv, FilesHaveEntries, PendingIsUnnamed
<1>5. CASE UNCHANGED table
  BY <1>2, <1>3, <1>5, QuietStep DEF ChainInv, FilesHaveEntries, Quiet
<1> QED BY <1>1, <1>4, <1>5 DEF ReleaseUnlinkedCluster, UpdateFATTableEntry

(* The other steps of an operation change at most the bytes of clusters,   *)
(* the size in the entry and the handle.                                   *)
LEMMA QuietChains ==
    ASSUME TypeInv, ChainInv,
           \/ SeekStep \/ ReadStep \/ AppendHere \/ WriteCluster
           \/ MoveToNextCluster \/ UpdateDirectoryEntrySize
    PROVE  ChainInv'
<1> USE DEF TypeInv, TypeOK
<1>1. /\ op.step \notin {"idle", "release"}
      /\ UNCHANGED <<table, exists, first>>
  BY DEF SeekStep, ReadStep, AppendHere, WriteCluster, MoveToNextCluster,
         UpdateDirectoryEntrySize
<1>2. op.file \in exists
  BY <1>1 DEF ChainInv, FilesHaveEntries
<1>3. UNCHANGED handle \/ \E x : SetHandle(x)
  BY DEF SeekStep, ReadStep, AppendHere, WriteCluster, MoveToNextCluster,
         UpdateDirectoryEntrySize, NextCluster
<1>4. \A f \in Files \ exists : ~handle'[f].open
  BY <1>1, <1>2, <1>3, HandleFrame DEF ChainInv
<1>5. op'.step \in Quiet /\ (op'.step # "idle" => op'.file = op.file)
  <2> DEFINE Ends == op'.step \in Quiet /\ (op'.step # "idle" => op'.file = op.file)
  <2>1. Return \/ Fail => Ends
    BY ReturnTypes DEF Quiet
  <2>2. ASSUME NEW s \in Quiet, Goto(s) PROVE Ends
    <3>1. s \in Steps
      BY DEF Quiet, Steps
    <3> QED BY <1>1, <2>2, <3>1, GotoTypes
  <2>3. ASSUME NEW n, op' = [op EXCEPT !.remaining = n], op.step \in Quiet
        PROVE  Ends
    BY <2>3 DEF Operation
  <2>4. CASE SeekStep
    <3>1. SeekDone => Ends
      BY <2>1 DEF SeekDone, Begin, Quiet
    <3>2. \/ SeekDone \/ Return \/ Fail \/ Goto("seek")
      BY <2>4 DEF SeekStep, NextCluster
    <3> QED BY <2>1, <2>2, <3>1, <3>2 DEF Quiet
  <2>5. CASE ReadStep
    <3>1. op.step \in Quiet
      BY <2>5 DEF ReadStep, Quiet
    <3>2. \/ Return \/ Fail
          \/ \E n : op' = [op EXCEPT !.remaining = n]
      BY <2>5 DEF ReadStep, NextCluster
    <3> QED BY <2>1, <2>3, <3>1, <3>2
  <2>6. CASE AppendHere
    BY <2>1, <2>2, <2>6 DEF AppendHere, FirstStep, Quiet
  <2>7. CASE WriteCluster
    <3>1. \/ Return \/ Fail
          \/ \E n : \E s \in {"update_entry", "next"} :
                op' = [op EXCEPT !.remaining = n, !.step = s]
      BY <2>7 DEF WriteCluster
    <3>2. ASSUME NEW n, NEW s \in {"update_entry", "next"},
                 op' = [op EXCEPT !.remaining = n, !.step = s]
          PROVE  Ends
      BY <3>2 DEF Operation, Quiet
    <3> QED BY <2>1, <3>1, <3>2
  <2>8. CASE MoveToNextCluster
    <3>1. Return \/ Fail \/ Goto("write")
      BY <2>8 DEF MoveToNextCluster, NextCluster
    <3> QED BY <2>1, <2>2, <3>1 DEF Quiet
  <2>9. CASE UpdateDirectoryEntrySize
    BY <2>1, <2>9 DEF UpdateDirectoryEntrySize
  <2> QED BY <2>4, <2>5, <2>6, <2>7, <2>8, <2>9
<1> QED BY <1>1, <1>2, <1>4, <1>5, QuietStep

LEMMA RemountChains ==
    ASSUME TypeInv, ChainInv, Remount
    PROVE  ChainInv'
<1>1. /\ UNCHANGED <<table, exists, first>> /\ op'.step = "idle"
      /\ \A f \in Files : handle'[f] = Closed
  BY IdleIsOperation DEF Remount
<1>2. ~Closed.open
  BY DEF Closed
<1> QED BY <1>1, <1>2, QuietStep DEF Quiet

LEMMA InitChainInv == Init => ChainInv
<1> SUFFICES ASSUME Init PROVE ChainInv
  OBVIOUS
<1>1. /\ \A c \in Clusters : table[c] \notin Clusters
      /\ \A c \in Clusters : table[c] # 2
      /\ table[2] # Free
  BY ConstantTypes, MaxClusterAssumption DEF Init, Clusters, EOF, Free
<1>2. /\ exists = {} /\ op.step = "idle"
      /\ \A f \in Files : first[f] = None /\ handle[f] = Closed
  BY IdleIsOperation DEF Init
<1>3. ChainsSafe
  BY <1>1, <1>2 DEF ChainsSafe, NoLinkToFreeCluster, NoCrossLinks
<1>4. ~Closed.open
  BY DEF Closed
<1> QED BY <1>2, <1>3, <1>4
        DEF ChainInv, FilesHaveEntries, PendingIsUnnamed

LEMMA NextChainInv ==
    ASSUME TypeInv, ChainInv, Sure', [Next]_vars
    PROVE  ChainInv'
<1>1. ASSUME NEW f \in Files, NEW append \in AppendModes,
             CreateFile(f, append) \/ OpenFile(f, append)
      PROVE  ChainInv'
  BY <1>1, OpenCloseChains
<1>2. ASSUME NEW f \in Files, Close(f) \/ DeleteFile(f) PROVE ChainInv'
  BY <1>2, OpenCloseChains, DeleteChains
<1>3. ASSUME NEW f \in Files, NEW p \in SeekTargets, StartSeek(f, p, 0)
      PROVE  ChainInv'
  BY <1>3, FileAssumption, StartSeekChains
<1>4. ASSUME NEW f \in Files, NEW n \in 1 .. MaxLength,
             \/ Read(f, n) \/ Write(f, n) \/ StartSeek(f, handle[f].size, n)
      PROVE  ChainInv'
  <2>1. n \in Nat /\ handle[f].size \in Nat
    BY FileAssumption DEF TypeInv, TypeOK, Handle
  <2> QED BY <1>4, <2>1, TransferChains, StartSeekChains
<1>5. CASE Step
  BY <1>5, ReleaseChains, ClaimingChains, SetFirstChains, LinkChains,
     RollbackChains, QuietChains DEF Step
<1>6. CASE Remount
  BY <1>6, RemountChains
<1>7. CASE UNCHANGED vars
  <2>1. UNCHANGED <<table, exists, first, handle, op>>
    BY <1>7
  <2> QED BY <2>1 DEF ChainInv, ChainsSafe, NoLinkToFreeCluster, NoCrossLinks,
                      FilesHaveEntries, PendingIsUnnamed, Unnamed
<1> QED BY <1>1, <1>2, <1>3, <1>4, <1>5, <1>6, <1>7, NextCases

(* What has failed once stays failed, so a volume that is sure was sure.   *)
LEMMA FaultsCount ==
    ASSUME TypeOK, Next
    PROVE  faults' \in {faults, faults + 1}
<1>1. Fault \/ Fail \/ Return \/ (\E s : Goto(s)) \/ SeekDone \/ UNCHANGED faults
      => faults' \in {faults, faults + 1}
  BY DEF Fail, Fault, Return, Goto, SeekDone
<1>2. ASSUME NEW f \in Files,
             \/ \E append \in AppendModes : CreateFile(f, append) \/ OpenFile(f, append)
             \/ Close(f) \/ DeleteFile(f)
             \/ \E p, n : StartSeek(f, p, n)
             \/ \E n \in 1 .. MaxLength : Read(f, n) \/ Write(f, n)
      PROVE  Fail \/ Return \/ UNCHANGED faults
  <2>1. CASE \E append \in AppendModes : CreateFile(f, append) \/ OpenFile(f, append)
    BY <2>1 DEF CreateFile, OpenFile
  <2>2. CASE Close(f) \/ DeleteFile(f)
    BY <2>2 DEF Close, DeleteFile
  <2>3. \A p, n : StartSeek(f, p, n) => UNCHANGED faults
    BY DEF StartSeek
  <2>4. CASE \E n \in 1 .. MaxLength : Read(f, n) \/ Write(f, n)
    BY <2>3, <2>4 DEF Read, Write
  <2> QED BY <1>2, <2>1, <2>2, <2>3, <2>4
<1>3. CASE Step
  <2> DEFINE Counted == \/ Fault \/ Fail \/ Return \/ (\E s : Goto(s)) \/ SeekDone
                        \/ UNCHANGED faults
  <2> SUFFICES Counted
    BY <1>1
  <2>1. CASE ReleaseNext \/ LinkNextCluster \/ ReleaseUnlinkedCluster
    BY <2>1 DEF ReleaseNext, LinkNextCluster, ReleaseUnlinkedCluster,
                UpdateFATTableEntry
  <2>2. CASE SeekStep \/ MoveToNextCluster
    BY <2>2 DEF SeekStep, MoveToNextCluster, NextCluster
  <2>3. CASE ReadStep
    BY <2>3 DEF ReadStep, NextCluster
  <2>4. CASE AppendHere \/ SetDirectoryEntryFirstCluster \/ WriteCluster
    BY <2>4 DEF AppendHere, SetDirectoryEntryFirstCluster, WriteCluster
  <2>5. CASE ClaimFirstCluster \/ ClaimNextCluster
    BY <2>5 DEF ClaimFirstCluster, ClaimNextCluster, Claim, UpdateFATTableEntry
  <2>6. CASE UpdateDirectoryEntrySize
    BY <2>6 DEF UpdateDirectoryEntrySize
  <2> QED BY <1>3, <2>1, <2>2, <2>3, <2>4, <2>5, <2>6 DEF Step
<1>4. CASE Remount
  BY <1>1, <1>4 DEF Remount
<1> QED BY <1>1, <1>2, <1>3, <1>4, NextCases

LEMMA SureBefore ==
    ASSUME TypeOK, [Next]_vars
    PROVE  /\ clean' => clean
           /\ Sure' => Sure
<1>1. faults \in Nat
  BY FileAssumption DEF TypeOK
<1>2. CASE Next
  BY <1>1, <1>2, FaultsCount DEF Sure, clean
<1>3. CASE UNCHANGED vars
  BY <1>3 DEF Sure, clean
<1> QED BY <1>2, <1>3

LEMMA ChainInvHolds == Spec => [](Sure => ChainInv)
<1>1. Init => TypeInv /\ (Sure => ChainInv)
  BY InitTypeInv, InitChainInv
<1>2. TypeInv /\ (Sure => ChainInv) /\ [Next]_vars
        => (TypeInv /\ (Sure => ChainInv))'
  BY NextTypeInv, NextChainInv, SureBefore DEF TypeInv
<1> QED BY <1>1, <1>2, PTL DEF Spec

(* On a volume with one FAT nothing ever names a free cluster, after any   *)
(* number of failed accesses and power failures: FAT32File::Write claims a *)
(* cluster before it links it, and frees it only if the link failed.       *)
THEOREM ChainsNeverReachFreeClusters ==
    ASSUME ~Mirrored
    PROVE  Spec => []NoLinkToFreeCluster
<1>1. (Sure => ChainInv) => NoLinkToFreeCluster
  BY DEF ChainInv, ChainsSafe, Sure
<1> QED BY <1>1, ChainInvHolds, PTL

(* On a volume with one FAT no two chains share a cluster, after any       *)
(* number of failed accesses and power failures.                           *)
THEOREM ChainsNeverCross ==
    ASSUME ~Mirrored
    PROVE  Spec => []NoCrossLinks
<1>1. (Sure => ChainInv) => NoCrossLinks
  BY DEF ChainInv, ChainsSafe, Sure
<1> QED BY <1>1, ChainInvHolds, PTL
=============================================================================
