-------------------------- MODULE MCDirectoryTree --------------------------
EXTENDS FAT32DirectoryTree, TLC

CONSTANTS short, long, alias, c1, c2, h1

\* A name of 8.3 form, and a long name with its alias.
MCAliases == (short :> {short}) @@ (long :> {alias}) @@ (alias :> {alias})
Symmetry == Permutations(Clusters \ {Root})
=============================================================================
