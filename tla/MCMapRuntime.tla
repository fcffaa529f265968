---------------------------- MODULE MCMapRuntime ----------------------------
(***************************************************************************)
(* Small instances of MapRuntime: calls of one kind are interchangeable.    *)
(***************************************************************************)
EXTENDS MapRuntime, TLC

Interchangeable ==
    Permutations(Applies) \cup Permutations(Reads) \cup Permutations(Destroys)
=============================================================================
