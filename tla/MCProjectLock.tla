--------------------------- MODULE MCProjectLock ---------------------------
(***************************************************************************)
(* A small instance of ProjectLock: two processes, three calls in the      *)
(* first and one in the second.                                            *)
(***************************************************************************)
EXTENDS ProjectLock

CONSTANTS p1, p2, a1, a2, a3, b1

ThreeAndOne == [c \in {a1, a2, a3, b1} |-> IF c = b1 THEN p2 ELSE p1]
=============================================================================
