------------------------- MODULE MCDirectoryCluster -------------------------
(***************************************************************************)
(* A directory with clusters of three slots.  The names share a basis; one *)
(* of them is the basis.  The long one takes more slots than a cluster     *)
(* has, as a name of 20 slots does where a cluster has 16; the plain one   *)
(* keeps the basis as its alias unless it is taken.                        *)
(***************************************************************************)
EXTENDS FAT32DirectoryCluster, TLC

CONSTANTS X, long, plain

MCLongNames == {long, plain}
MCShortNames == {<<X, 0>>}
MCParts == long :> 4 @@ plain :> 1
MCBase == [n \in MCLongNames |-> X]
MCNeedsTail == long :> TRUE @@ plain :> FALSE
=============================================================================
