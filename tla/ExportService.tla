---------------------------- MODULE ExportService ----------------------------
(***************************************************************************)
(* Exports of a project (export-service.mjs): a preview of what would be   *)
(* written, confirmed by its hash, is generated again beside the target    *)
(* directory and renamed into place, and a receipt says so.  None of it    *)
(* holds the project's lock: revisions may be appended, and other exports  *)
(* of the same target confirmed, at any step.                              *)
(***************************************************************************)
EXTENDS WorkbenchService

CONSTANTS
    Targets,        \* target directories
    MaxPreviews     \* bound

ExportAssumption == MaxPreviews \in Nat

ASSUME ExportAssumption

VARIABLES
    previewed,      \* history: the previews made; a preview's hash is its place
    previews,       \* exportPreviews: hashes of the previews in memory
    previewFiles,   \* hashes of the preview artifacts
    reviewed,       \* history: hashes that have been answered to a browser
    targets,        \* what is in each target directory
    receipts        \* hashes of the previews with a receipt

previewState == <<previewed, previews, previewFiles, reviewed>>
exportVars == <<previewState, targets, receipts>>

FreeTarget == [hash |-> 0]

ExportInit ==
    /\ previewed = << >> /\ previews = {} /\ previewFiles = {} /\ reviewed = {}
    /\ targets = [t \in Targets |-> FreeTarget]
    /\ receipts = {}

ServiceUnchanged == UNCHANGED <<project, dataState, planState>>

(***************************************************************************)
(* previewWorkbenchExport                                                  *)
(***************************************************************************)

\* The project is read; what it holds is staged and described after that.
PreviewOpen(b, target) ==
    /\ Asks(b)
    /\ Becomes(b, [at |-> "previewing", target |-> target, base |-> Current,
                   spec |-> log[Current]])
    /\ ServiceUnchanged /\ UNCHANGED exportVars

\* The preview says whether the target is taken; it is put in its file, then in
\* memory, then answered.
PreviewDone(b) ==
    LET r == request[b]
        hash == Len(previewed) + 1 IN
    /\ Resumes(b, "previewing")
    /\ hash <= MaxPreviews
    /\ previewed' = Append(previewed, [target |-> r.target, base |-> r.base, spec |-> r.spec,
                                       collision |-> targets[r.target] # FreeTarget])
    /\ previewFiles' = previewFiles \cup {hash}
    /\ previews' = previews \cup {hash}
    /\ reviewed' = reviewed \cup {hash}
    /\ Ends(b)
    /\ ServiceUnchanged /\ UNCHANGED <<targets, receipts>>

(***************************************************************************)
(* commitWorkbenchExport                                                   *)
(***************************************************************************)

\* The preview is found, in memory or in its file, and its target is not taken.
CommitAsk(b, hash) ==
    /\ Asks(b)
    /\ hash \in reviewed /\ hash \in previews \cup previewFiles
    /\ previews' = previews \cup {hash}
    /\ IF previewed[hash].collision \/ targets[previewed[hash].target] # FreeTarget
       THEN Ends(b)
       ELSE Becomes(b, [at |-> "confirming", hash |-> hash])
    /\ ServiceUnchanged
    /\ UNCHANGED <<previewed, previewFiles, reviewed, targets, receipts>>

\* Mutant of CommitOpen: whatever the project holds by now is exported.
CommitOpenAny(b) ==
    /\ Resumes(b, "confirming")
    /\ Becomes(b, [at |-> "staging", hash |-> request[b].hash, spec |-> log[Current]])
    /\ ServiceUnchanged /\ UNCHANGED exportVars

\* The project is read: it must be at the revision that was previewed.
CommitOpen(b) ==
    LET preview == previewed[request[b].hash] IN
    /\ Resumes(b, "confirming")
    /\ IF preview.base = Current /\ preview.spec = log[Current]
       THEN Becomes(b, [at |-> "staging", hash |-> request[b].hash, spec |-> log[Current]])
       ELSE Ends(b)
    /\ ServiceUnchanged /\ UNCHANGED exportVars

\* The staged directory is renamed to the target, which fails if that is there.
CommitRename(b) ==
    LET r == request[b]
        target == previewed[r.hash].target IN
    /\ Resumes(b, "staging")
    /\ IF targets[target] = FreeTarget
       THEN /\ targets' = [targets EXCEPT ![target] = [hash |-> r.hash, spec |-> r.spec]]
            /\ Becomes(b, [at |-> "receipting", hash |-> r.hash])
       ELSE Ends(b) /\ UNCHANGED targets
    /\ ServiceUnchanged /\ UNCHANGED <<previewState, receipts>>

CommitReceipt(b) ==
    /\ Resumes(b, "receipting")
    /\ receipts' = receipts \cup {request[b].hash}
    /\ Ends(b)
    /\ ServiceUnchanged /\ UNCHANGED <<previewState, targets>>

\* A write or a check of the staged files throws: the request ends where it is.
ExportThrows(b) ==
    /\ \E place \in {"previewing", "confirming", "staging", "receipting"} : Resumes(b, place)
    /\ Ends(b)
    /\ ServiceUnchanged /\ UNCHANGED exportVars

ExportCrash ==
    /\ ServiceCrash
    /\ previews' = {}
    /\ UNCHANGED <<previewed, previewFiles, reviewed, targets, receipts>>

ExportStep(b) ==
    \/ \E target \in Targets : PreviewOpen(b, target)
    \/ PreviewDone(b)
    \/ \E hash \in DOMAIN previewed : CommitAsk(b, hash)
    \/ CommitOpen(b) \/ CommitRename(b) \/ CommitReceipt(b) \/ ExportThrows(b)

ExportNext ==
    \/ \E b \in Browsers :
           \/ ServiceStep(b) /\ UNCHANGED exportVars
           \/ ExportStep(b)
    \/ ExportCrash

ProjectSpec ==
    /\ ServiceInit /\ ExportInit
    /\ [][ExportNext]_<<serviceVars, exportVars>>

(***************************************************************************)
(* Properties.                                                             *)
(***************************************************************************)

\* A plan or a preview that has been answered to a browser can be confirmed: its
\* hash is found in memory or in its file, after a restart as before.
AnsweredStay ==
    /\ offered \subseteq plans \cup planFiles
    /\ reviewed \subseteq previews \cup previewFiles

\* What is in a target is what was previewed for it, on a target that was free:
\* the spec of the revision the preview was made of, whatever has been appended
\* to the project or exported by others since.  A receipt is one of the export
\* that is in the target.
ExportsAsReviewed ==
    /\ \A t \in Targets : targets[t] # FreeTarget =>
           LET preview == previewed[targets[t].hash] IN
           /\ preview.target = t /\ ~preview.collision
           /\ targets[t].spec = log[preview.base]
    /\ \A hash \in receipts : targets[previewed[hash].target].hash = hash
=============================================================================
