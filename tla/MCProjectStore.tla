-------------------------- MODULE MCProjectStore ---------------------------
(***************************************************************************)
(* Small instances of ProjectStore: two server processes, two or three     *)
(* calls.                                                                  *)
(***************************************************************************)
EXTENDS ProjectStore, TLC

CONSTANTS p1, p2, a1, a2, b1

OneEach  == [c \in {a1, b1} |-> IF c = b1 THEN p2 ELSE p1]
TwoAndOne == [c \in {a1, a2, b1} |-> IF c = b1 THEN p2 ELSE p1]

Anything   == [c \in {a1, b1} |-> {"open", "apply", "restore"}]
AppliesOnly == [c \in {a1, a2, b1} |-> {"apply"}]

Interchangeable == Permutations(Contents) \cup Permutations(Uuids)
=============================================================================
