---------------------------- MODULE RevisionLog ----------------------------
(***************************************************************************)
(* What a Workbench project promises about its revisions, without files:   *)
(* a log to which a create, an apply or a restore appends one entry in one *)
(* step, and from which nothing is ever removed or rewritten               *)
(* (docs/planning/feature-specs/gis-engine-workbench-v1.md, "State And     *)
(* Safety Invariants", 3 and 4).                                           *)
(***************************************************************************)
EXTENDS Naturals, Sequences

CONSTANTS
    Contents,   \* the MapSpec apart from its revision
    MaxRev      \* the largest revision: Number.MAX_SAFE_INTEGER

VARIABLE log

Entry == [kind: {"create", "apply", "restore"},
          revision: 0..MaxRev, content: Contents]

LogInit == log = <<>>

Create(e) ==
    /\ log = <<>>
    /\ e.kind = "create"
    /\ log' = <<e>>

(***************************************************************************)
(* Revisions grow: an apply bumps the revision once per command.           *)
(***************************************************************************)
Apply(e) ==
    /\ log # <<>>
    /\ e.kind = "apply"
    /\ e.revision > log[Len(log)].revision
    /\ log' = Append(log, e)

(***************************************************************************)
(* A restore is a new revision with the content of an earlier one, which   *)
(* differs from the current content.                                       *)
(***************************************************************************)
Restore(e) ==
    /\ log # <<>>
    /\ e.kind = "restore"
    /\ e.revision > log[Len(log)].revision
    /\ e.content # log[Len(log)].content
    /\ \E i \in 1..Len(log) : log[i].content = e.content
    /\ log' = Append(log, e)

LogNext == \E e \in Entry : Create(e) \/ Apply(e) \/ Restore(e)

LogSpec == LogInit /\ [][LogNext]_log
=============================================================================
