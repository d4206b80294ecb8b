-------------------------- MODULE MCBlockIOAdapter --------------------------
(***************************************************************************)
(* The adapter on volumes of a few clusters.  The foreign tables are a     *)
(* clean chain, scattered free clusters, a defective entry, and the ones   *)
(* the code must survive: cycles and chains that run into a free entry.    *)
(***************************************************************************)
EXTENDS FAT32BlockIOAdapter, TLC

MCTables ==
    LET E == EOF IN
    { [c \in Clusters |-> CASE c = 2 -> 4 [] c = 4 -> 5 [] c = 5 -> E [] OTHER -> Free],
      [c \in Clusters |-> IF c = MaxCluster THEN E ELSE c + 1],
      [c \in Clusters |-> IF c = MaxCluster THEN 3 ELSE c + 1],
      [c \in Clusters |-> CASE c = 2 -> Defective [] c = 3 -> 3 [] c = 4 -> 2 [] OTHER -> Free],
      [c \in Clusters |-> IF c = 2 THEN Free ELSE E] }
=============================================================================
