-------------------------- MODULE MCDirectoryCache --------------------------
(***************************************************************************)
(* Three slots for the four names two directories hold, two of them in one *)
(* bucket; one more name cannot be kept.                                   *)
(***************************************************************************)
EXTENDS FAT32DirectoryCache

CONSTANTS d1, d2, n1, n2, long

MCHash == [k \in Directories \X Names |-> IF k = <<d1, n1>> THEN 2 ELSE 1]
=============================================================================
