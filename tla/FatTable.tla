------------------------------ MODULE FatTable ------------------------------
(***************************************************************************)
(* What the rest of the filesystem may rely on when it calls the block IO  *)
(* adapter about the file allocation table: one table, as every reader     *)
(* sees it, and one outstanding call (the caller holds the volume lock).   *)
(*                                                                         *)
(* A call may fail at any time, before or after the entry it names was     *)
(* changed; it never changes an entry it was not asked to change, and it   *)
(* answers SUCCESS only once its whole effect is in the table.  A crash    *)
(* forgets the call and keeps the table.                                   *)
(*                                                                         *)
(* FAT32BlockIOAdapter implements this module.                             *)
(***************************************************************************)
EXTENDS FatEntries

VARIABLES
    table,      \* the entries of the FAT that readers use
    request,    \* the kind of call outstanding, "none" when the table is idle
    at,         \* the entry the call is about to change
    entry,      \* the value it will store there
    answer      \* whether the last call succeeded

tvars == <<table, request, at, entry, answer>>

Requests == {"none", "update", "release", "query"}

Init ==
    /\ table \in [Clusters -> Entry]
    /\ request = "none"
    /\ at = 0
    /\ entry = 0
    /\ answer = FALSE

(* A caller asks for one entry to be changed, or for a chain to be freed.  *)
(* Arguments out of range are refused.                                     *)
AskUpdate == \E c \in Clusters, v \in Entry :
    /\ request = "none"
    /\ request' = "update"
    /\ at' = c
    /\ entry' = v
    /\ answer' = FALSE
    /\ UNCHANGED table

AskRelease == \E c \in Clusters :
    /\ request = "none"
    /\ request' = "release"
    /\ at' = c
    /\ entry' = Free
    /\ answer' = FALSE
    /\ UNCHANGED table

(* Queries (next, previous, the search for a free entry) change nothing.   *)
AskQuery ==
    /\ request = "none"
    /\ request' = "query"
    /\ at' = 0
    /\ entry' = 0
    /\ answer' = FALSE
    /\ UNCHANGED table

(* The outstanding update stores its value; EOF marks that it is done.     *)
ApplyUpdate ==
    /\ request = "update"
    /\ at \in Clusters
    /\ table' = [table EXCEPT ![at] = entry]
    /\ at' = EOF
    /\ UNCHANGED <<request, entry, answer>>

(* The outstanding release frees the entry it stands on and moves to the   *)
(* entry that one named, so a chain is freed from its head.                *)
ApplyRelease ==
    /\ request = "release"
    /\ at \in Clusters
    /\ table' = [table EXCEPT ![at] = Free]
    /\ at' = table[at]
    /\ UNCHANGED <<request, entry, answer>>

Succeed ==
    /\ \/ request = "query"
       \/ request \in {"update", "release"} /\ EndOfChain(at)
    /\ request' = "none"
    /\ at' = 0
    /\ entry' = 0
    /\ answer' = TRUE
    /\ UNCHANGED table

(* A failed call, a refused call and a crash look alike to the table.      *)
Fail ==
    /\ request' = "none"
    /\ at' = 0
    /\ entry' = 0
    /\ answer' = FALSE
    /\ UNCHANGED table

Next ==
    \/ AskUpdate \/ AskRelease \/ AskQuery
    \/ ApplyUpdate \/ ApplyRelease
    \/ Succeed \/ Fail

Spec == Init /\ [][Next]_tvars
=============================================================================
