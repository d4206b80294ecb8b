------------------------------- MODULE MCFile -------------------------------
(***************************************************************************)
(* Two files on a volume of a few clusters of two bytes.  The largest file *)
(* is shorter than the free clusters, so that both limits are met: a file  *)
(* that is too large, and a volume that is full in the middle of a write.  *)
(***************************************************************************)
EXTENDS FAT32File, TLC

Symmetry == Permutations(Files)
=============================================================================
