--------------------------- MODULE MCHeaderStore ---------------------------
(* Three entries; items 2 and 3 are equal to the one who sorts. *)
EXTENDS HeaderStore

CONSTANTS store, l1, l2, new_list, a, b, e1, e2, e3

MCCells == {store, l1, l2, new_list, e1, e2, e3}

MCFields == {[name |-> <<a>>, value |-> <<b>>], [name |-> <<b>>, value |-> <<>>]}

MCItems == [item : 1 .. 3]

MCCompare(x, y) == x.item \div 2 <= y.item \div 2

MCSchedules == {<<n, r>> : n \in 0 .. 3, r \in {1, MaxCalls}}

Alike == Permutations({e1, e2, e3}) \cup Permutations({l1, l2})
=============================================================================
