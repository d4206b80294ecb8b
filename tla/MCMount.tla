------------------------------ MODULE MCMount ------------------------------
EXTENDS FAT32Mount

MCFirstSectors == {1, 9}

MCTables ==
    [Slots -> [is_fat32 : BOOLEAN, first : MCFirstSectors, count : {0, 9}]]

\* Most combinations of the fields at the first sector, a volume that can be
\* mounted and one that cannot at the other.
AnyRecord ==
    [recognised : {TRUE}, reserved : {1, 3}, number_of_fats : {1, 2},
     sectors_per_fat : {1, 2, 8}, sectors_per_cluster : {1, 2, 3}, total : {5, 9, 14},
     root : {2, 4}, mirrored : BOOLEAN, active_fat : {1}, fsinfo : {0, 2}]
Sound ==
    [recognised |-> TRUE, reserved |-> 1, number_of_fats |-> 1, sectors_per_fat |-> 2,
     sectors_per_cluster |-> 1, total |-> 6, root |-> 2, mirrored |-> TRUE,
     active_fat |-> 0, fsinfo |-> 0]
MCBootRecords ==
    {[s \in MCFirstSectors |-> IF s = 1 THEN r ELSE other] :
        r \in AnyRecord \cup {[Sound EXCEPT !.recognised = FALSE],
                              [Sound EXCEPT !.reserved = 0], [Sound EXCEPT !.number_of_fats = 0]},
        other \in {Sound, [Sound EXCEPT !.recognised = FALSE]}}
=============================================================================
