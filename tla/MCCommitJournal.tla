-------------------------- MODULE MCCommitJournal --------------------------
(***************************************************************************)
(* Small instances of CommitJournal: one call at a time, or a create and   *)
(* another call.  Contents and UUIDs are interchangeable.                  *)
(***************************************************************************)
EXTENDS CommitJournal, TLC

CONSTANTS a, k

Anything == [c \in {a} |-> Operations]

(* k creates; a opens and applies. *)
CreateBesideOthers ==
    [c \in {a, k} |-> IF c = k THEN {"create"} ELSE {"open", "apply"}]

Interchangeable == Permutations(Contents) \cup Permutations(Uuids)
=============================================================================
