---------------------------- MODULE MCBootMemory ----------------------------
(* Every map of three small entries, and some that fill the page tables.   *)
EXTENDS BootMemory

E(base, len, available) == [base |-> base, len |-> len, available |-> available]

Small == {E(b, l, a) : b \in {0, 5, 8, 11}, l \in {1, 4, 9}, a \in BOOLEAN}
Big == {<<E(40, l, TRUE), E(0, 11, TRUE)>> : l \in {30, 62, 251, 500}}

MCMaps == (Small \X Small \X Small) \union Big \union {<<>>}
=============================================================================
