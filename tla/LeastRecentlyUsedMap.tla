------------------------ MODULE LeastRecentlyUsedMap ------------------------
(***************************************************************************)
(* What the cache of directory lookups promises: the Capacity names found  *)
(* or added last and not forgotten since, each with the directory it was   *)
(* added with last.                                                        *)
(***************************************************************************)
EXTENDS Integers, Sequences

CONSTANTS Directories, Names, TooLong, Capacity, Nothing

VARIABLES
    entries,    \* the most recently used first
    answer      \* what the last Find returned

Entry == [parent : Directories, name : Names, directory : Directories]

Init == entries = <<>> /\ answer = Nothing

IsFor(e, p, n) == e.parent = p /\ e.name = n
Others(p, n) == SelectSeq(entries, LAMBDA e : ~IsFor(e, p, n))
Known(p, n) == \E i \in DOMAIN entries : IsFor(entries[i], p, n)

Find(p, n) ==
    \/ \E i \in DOMAIN entries :
        /\ IsFor(entries[i], p, n)
        /\ answer' = entries[i].directory
        /\ entries' = <<entries[i]>> \o Others(p, n)
    \/ ~Known(p, n) /\ answer' = Nothing /\ UNCHANGED entries

Kept(p, n) ==
    IF Known(p, n) \/ Len(entries) < Capacity THEN Others(p, n)
    ELSE SubSeq(entries, 1, Capacity - 1)

Add(p, n, d) ==
    /\ entries' = IF Capacity = 0 \/ n \in TooLong THEN entries
                  ELSE <<[parent |-> p, name |-> n, directory |-> d]>> \o Kept(p, n)
    /\ UNCHANGED answer

Remove(d) ==
    /\ entries' = SelectSeq(entries, LAMBDA e : e.directory # d)
    /\ UNCHANGED answer

RemoveWithChildren(d) ==
    /\ entries' = SelectSeq(entries, LAMBDA e : e.directory # d /\ e.parent # d)
    /\ UNCHANGED answer

Clear == entries' = <<>> /\ UNCHANGED answer

Next ==
    \/ Clear
    \/ \E d \in Directories :
        \/ Remove(d) \/ RemoveWithChildren(d)
        \/ \E n \in Names :
            \/ Find(d, n)
            \/ \E c \in Directories : Add(d, n, c)

Spec == Init /\ [][Next]_<<entries, answer>>
=============================================================================
