--------------------------- MODULE CommitJournal ---------------------------
(***************************************************************************)
(* The commit protocol of apps/workbench/server/project-store.mjs: how the *)
(* three files that make up a revision -- its receipt, mapspec.json and    *)
(* gis-engine.project.json -- are replaced together through a journal, and *)
(* how the next operation finishes a commit that was cut short.            *)
(*                                                                         *)
(* An actor is a call into the store.  Open, apply and restore run under   *)
(* the project lock, create does not; in this module the lock is an        *)
(* assumption (Free), ProjectStore.tla composes the protocol with the real *)
(* one.  A crash loses what an actor knew and leaves the files.            *)
(*                                                                         *)
(* A MapSpec is its revision and an opaque content.  A staged file is      *)
(* known by its transaction (the random UUID in its name) and the file it  *)
(* will replace; what is in it is determined by the receipt of that        *)
(* transaction.                                                            *)
(***************************************************************************)
EXTENDS Integers, FiniteSets

CONSTANTS
    Actors,             \* calls into the store
    Asks,               \* bound: the operations each of them may be
    Unlocked,           \* the operations that do not take the project lock
    Contents,           \* the MapSpec apart from its revision
    Null,               \* no file, no value
    MaxRev,             \* the largest revision: Number.MAX_SAFE_INTEGER
    MaxBatch,           \* bound: commands in one plan
    InitialRevisions,   \* bound: initialSpec.revision of a create
    Uuids,              \* what randomUUID() may return
    InterruptLimit      \* bound: calls cut short in one behaviour

Revisions == 0..MaxRev

Operations == {"create", "open", "apply", "restore"}

(***************************************************************************)
(* The files of one commit, in the order in which they are staged and      *)
(* renamed.                                                                *)
(***************************************************************************)
ReceiptFile == 1
SpecFile    == 2
ProjectFile == 3
Files == ReceiptFile..ProjectFile

Spec == [revision: Revisions, content: Contents]

Receipt == [kind: {"create", "apply", "restore"},
            sequence: Nat,
            revision: Revisions,
            previous: Revisions \cup {Null},
            content: Contents]

ASSUME JournalAssumption ==
    /\ MaxRev \in Nat
    /\ MaxBatch \in Nat \ {0}
    /\ Asks \in [Actors -> SUBSET Operations]
    /\ Unlocked \subseteq {"create"}
    /\ InitialRevisions \subseteq Revisions
    /\ InterruptLimit \in Nat
    /\ Null \notin Uuids \cup Nat \cup Spec \cup Receipt
    /\ Null \notin [txn: Uuids, receipt: Receipt]

SpecOf(r) == [revision |-> r.revision, content |-> r.content]

VARIABLES
    (***********************************************************************)
    (* The project directory.                                              *)
    (***********************************************************************)
    project,    \* currentRevision in gis-engine.project.json, or Null
    mapspec,    \* mapspec.json, or Null
    receipts,   \* .gis-engine/revisions: the receipt of each revision, or Null
    journal,    \* commit-journal.json, or Null
    staged,     \* the staged files that exist: <<transaction, file>>
    (***********************************************************************)
    (* The calls.                                                          *)
    (***********************************************************************)
    step,       \* what each call does next
    request,    \* what it was asked to do
    receipt,    \* the receipt it commits or recovers, or Null
    txn,        \* the transaction it commits or recovers
    at,         \* the file it stages or renames next
    seen,       \* the files it has read so far
    outcome,    \* what it answered
    (***********************************************************************)
    (* History.                                                            *)
    (***********************************************************************)
    acked,      \* the receipts that were answered with ok
    interrupts  \* number of calls cut short so far

filesVars   == <<project, mapspec, receipts, staged>>
diskVars    == <<filesVars, journal>>
callVars    == <<step, request, receipt, txn, at, seen, outcome>>
historyVars == <<acked, interrupts>>
journalVars == <<diskVars, callVars, historyVars>>

Steps == {"idle", "inspect", "recover", "redo", "move", "read",
          "check", "stage", "publish", "rename", "clear"}

Outcomes == {"none", "ok", "conflict", "failed", "error", "interrupted"}

NothingSeen == [project |-> Null, mapspec |-> Null, receipts |-> Null]

NoRequest == [kind |-> "open", base |-> Null, target |-> Null]

(***************************************************************************)
(* What the store is asked for: the base revision a client saw may be any, *)
(* the target of a restore too.                                            *)
(***************************************************************************)
Requests ==
    {NoRequest}
      \cup [kind: {"create"}, base: {Null}, target: {Null}]
      \cup [kind: {"apply"}, base: Revisions, target: {Null}]
      \cup [kind: {"restore"}, base: Revisions, target: Revisions]

JournalInit ==
    /\ project = Null
    /\ mapspec = Null
    /\ receipts = [r \in Revisions |-> Null]
    /\ journal = Null
    /\ staged = {}
    /\ step = [c \in Actors |-> "idle"]
    /\ request = [c \in Actors |-> NoRequest]
    /\ receipt = [c \in Actors |-> Null]
    /\ txn = [c \in Actors |-> Null]
    /\ at = [c \in Actors |-> ReceiptFile]
    /\ seen = [c \in Actors |-> NothingSeen]
    /\ outcome = [c \in Actors |-> "none"]
    /\ acked = {}
    /\ interrupts = 0

Move(c, from, to) ==
    /\ step[c] = from
    /\ step' = [step EXCEPT ![c] = to]

(***************************************************************************)
(* A UUID that no staged file, journal or call has.                        *)
(***************************************************************************)
FreshUuids ==
    {u \in Uuids :
        /\ \A f \in Files : <<u, f>> \notin staged
        /\ journal # Null => journal.txn # u
        /\ \A c \in Actors : txn[c] # u}

(***************************************************************************)
(* The call is over: it answers, and forgets everything.                   *)
(***************************************************************************)
Answer(c, result) ==
    /\ step' = [step EXCEPT ![c] = "idle"]
    /\ request' = [request EXCEPT ![c] = NoRequest]
    /\ receipt' = [receipt EXCEPT ![c] = Null]
    /\ txn' = [txn EXCEPT ![c] = Null]
    /\ at' = [at EXCEPT ![c] = ReceiptFile]
    /\ seen' = [seen EXCEPT ![c] = NothingSeen]
    /\ outcome' = [outcome EXCEPT ![c] = result]

-----------------------------------------------------------------------------
(***************************************************************************)
(* What is a project.                                                      *)
(***************************************************************************)

History(rs) == {rs[r] : r \in Revisions} \ {Null}

(***************************************************************************)
(* assertRevisionHistory: the receipts, sorted by sequence, count from     *)
(* zero and each names the one before it.                                  *)
(***************************************************************************)
Connected(rs) ==
    LET H == History(rs) IN
    /\ H # {}
    /\ \A r \in H :
         /\ r.sequence < Cardinality(H)
         /\ r.sequence = 0 <=> r.previous = Null
         /\ r.sequence > 0 =>
              \E q \in H : /\ q.sequence = r.sequence - 1
                           /\ q.revision = r.previous
         /\ \A q \in H : q.sequence = r.sequence => q = r

(***************************************************************************)
(* recoverAndReadProject accepts these files.                              *)
(***************************************************************************)
Readable(p, m, rs) ==
    /\ p # Null
    /\ m # Null
    /\ m.revision = p
    /\ Connected(rs)
    /\ rs[p] # Null

-----------------------------------------------------------------------------
(***************************************************************************)
(* Beginning.                                                              *)
(***************************************************************************)
Begin(c, q) ==
    /\ Move(c, "idle", IF q.kind = "create" THEN "inspect" ELSE "recover")
    /\ request' = [request EXCEPT ![c] = q]
    /\ outcome' = [outcome EXCEPT ![c] = "none"]
    /\ UNCHANGED <<diskVars, receipt, txn, at, seen, historyVars>>

(***************************************************************************)
(* createWorkbenchProject refuses a directory that has one of the two      *)
(* canonical files.  It looks at neither the journal nor the receipts, and *)
(* its commit does not look for an existing receipt.                       *)
(***************************************************************************)
InspectTaken(c) ==
    /\ step[c] = "inspect"
    /\ project # Null \/ mapspec # Null
    /\ Answer(c, "conflict")
    /\ UNCHANGED <<diskVars, historyVars>>

(* Mutant of InspectEmpty: a create does not look for an existing project. *)
InspectNothing(c) ==
    /\ Move(c, "inspect", "stage")
    /\ \E r \in InitialRevisions, m \in Contents :
         receipt' = [receipt EXCEPT ![c] =
                       [kind |-> "create", sequence |-> 0, revision |-> r,
                        previous |-> Null, content |-> m]]
    /\ \E u \in FreshUuids : txn' = [txn EXCEPT ![c] = u]
    /\ UNCHANGED <<diskVars, request, at, seen, outcome, historyVars>>

(* createWorkbenchProject, on a directory without canonical files. *)
InspectEmpty(c) ==
    /\ Move(c, "inspect", "stage")
    /\ project = Null
    /\ mapspec = Null
    /\ \E r \in InitialRevisions, m \in Contents :
         receipt' = [receipt EXCEPT ![c] =
                       [kind |-> "create", sequence |-> 0, revision |-> r,
                        previous |-> Null, content |-> m]]
    /\ \E u \in FreshUuids : txn' = [txn EXCEPT ![c] = u]
    /\ UNCHANGED <<diskVars, request, at, seen, outcome, historyVars>>

-----------------------------------------------------------------------------
(***************************************************************************)
(* Recovery.                                                               *)
(***************************************************************************)

(* Mutant of RecoverNothing: a read may go ahead of recovery. *)
RecoverLater(c) ==
    /\ Move(c, "recover", "read")
    /\ UNCHANGED <<diskVars, request, receipt, txn, at, seen, outcome,
                   historyVars>>

RecoverNothing(c) ==
    /\ Move(c, "recover", "read")
    /\ journal = Null
    /\ UNCHANGED <<diskVars, request, receipt, txn, at, seen, outcome,
                   historyVars>>

(* Mutant of RecoverBegin: an unfinished commit is dropped, not redone. *)
RecoverDrop(c) ==
    /\ journal # Null
    /\ Move(c, "recover", "read")
    /\ journal' = Null
    /\ UNCHANGED <<filesVars, request, receipt, txn, at, seen, outcome,
                   historyVars>>

RecoverBegin(c) ==
    /\ Move(c, "recover", "redo")
    /\ journal # Null
    /\ receipt' = [receipt EXCEPT ![c] = journal.receipt]
    /\ txn' = [txn EXCEPT ![c] = journal.txn]
    /\ UNCHANGED <<diskVars, request, at, seen, outcome, historyVars>>

(***************************************************************************)
(* rename(stagedPath, targetPath) of file f of the call's transaction.     *)
(***************************************************************************)
Install(c, f) ==
    /\ staged' = staged \ {<<txn[c], f>>}
    /\ receipts' = IF f = ReceiptFile
                   THEN [receipts EXCEPT ![receipt[c].revision] = receipt[c]]
                   ELSE receipts
    /\ mapspec' = IF f = SpecFile THEN SpecOf(receipt[c]) ELSE mapspec
    /\ project' = IF f = ProjectFile THEN receipt[c].revision ELSE project

NextFile(c) == at' = [at EXCEPT ![c] = @ + 1]

(***************************************************************************)
(* An entry of the journal is renamed if its staged file is still there.   *)
(* The code looks, awaits, then renames.                                   *)
(***************************************************************************)
RedoSkip(c) ==
    /\ step[c] = "redo"
    /\ at[c] \in Files
    /\ <<txn[c], at[c]>> \notin staged
    /\ NextFile(c)
    /\ UNCHANGED <<diskVars, step, request, receipt, txn, seen, outcome,
                   historyVars>>

RedoFind(c) ==
    /\ Move(c, "redo", "move")
    /\ at[c] \in Files
    /\ <<txn[c], at[c]>> \in staged
    /\ UNCHANGED <<diskVars, request, receipt, txn, at, seen, outcome,
                   historyVars>>

RedoMove(c) ==
    /\ Move(c, "move", "redo")
    /\ <<txn[c], at[c]>> \in staged
    /\ Install(c, at[c])
    /\ NextFile(c)
    /\ UNCHANGED <<journal, request, receipt, txn, seen, outcome, historyVars>>

(* Somebody else has moved the staged file: rename fails with ENOENT. *)
MoveGone(c) ==
    /\ step[c] = "move"
    /\ <<txn[c], at[c]>> \notin staged
    /\ Answer(c, "error")
    /\ UNCHANGED <<diskVars, historyVars>>

(* Mutant of RedoDone: the index of the loop is not reset. *)
RedoDoneAtEnd(c) ==
    /\ Move(c, "redo", "read")
    /\ at[c] \notin Files
    /\ journal' = Null
    /\ receipt' = [receipt EXCEPT ![c] = Null]
    /\ txn' = [txn EXCEPT ![c] = Null]
    /\ UNCHANGED <<filesVars, request, at, seen, outcome, historyVars>>

RedoDone(c) ==
    /\ Move(c, "redo", "read")
    /\ at[c] \notin Files
    /\ journal' = Null
    /\ receipt' = [receipt EXCEPT ![c] = Null]
    /\ txn' = [txn EXCEPT ![c] = Null]
    /\ at' = [at EXCEPT ![c] = ReceiptFile]
    /\ UNCHANGED <<filesVars, request, seen, outcome, historyVars>>

-----------------------------------------------------------------------------
(***************************************************************************)
(* Reading.  The three reads run concurrently (Promise.all): they finish   *)
(* in any order, and other calls may run between them.  The history is     *)
(* taken as read at the moment of its readdir.                             *)
(***************************************************************************)
ReadProject(c) ==
    /\ step[c] = "read"
    /\ seen[c].project = Null
    /\ project # Null
    /\ seen' = [seen EXCEPT ![c].project = project]
    /\ UNCHANGED <<diskVars, step, request, receipt, txn, at, outcome,
                   historyVars>>

ReadSpec(c) ==
    /\ step[c] = "read"
    /\ seen[c].mapspec = Null
    /\ mapspec # Null
    /\ seen' = [seen EXCEPT ![c].mapspec = mapspec]
    /\ UNCHANGED <<diskVars, step, request, receipt, txn, at, outcome,
                   historyVars>>

ReadHistory(c) ==
    /\ step[c] = "read"
    /\ seen[c].receipts = Null
    /\ seen' = [seen EXCEPT ![c].receipts = receipts]
    /\ UNCHANGED <<diskVars, step, request, receipt, txn, at, outcome,
                   historyVars>>

(* readJson of a file that does not exist rejects. *)
ReadMissing(c) ==
    /\ step[c] = "read"
    /\ \/ seen[c].project = Null /\ project = Null
       \/ seen[c].mapspec = Null /\ mapspec = Null
    /\ Answer(c, "error")
    /\ UNCHANGED <<diskVars, historyVars>>

-----------------------------------------------------------------------------
(***************************************************************************)
(* Deciding what to do.  From here to the first await of the commit the    *)
(* code runs without interruption.                                         *)
(***************************************************************************)
HasRead(c) ==
    /\ step[c] = "read"
    /\ seen[c].project # Null
    /\ seen[c].mapspec # Null
    /\ seen[c].receipts # Null

HasState(c) ==
    HasRead(c) /\ Readable(seen[c].project, seen[c].mapspec, seen[c].receipts)

ReadInvalid(c) ==
    /\ HasRead(c)
    /\ ~HasState(c)
    /\ Answer(c, "error")
    /\ UNCHANGED <<diskVars, historyVars>>

Open(c) ==
    /\ HasState(c)
    /\ request[c].kind = "open"
    /\ Answer(c, "ok")
    /\ UNCHANGED <<diskVars, historyVars>>

Conflict(c) ==
    /\ HasState(c)
    /\ request[c].kind # "open"
    /\ request[c].base # seen[c].project
    /\ Answer(c, "conflict")
    /\ UNCHANGED <<diskVars, historyVars>>

(***************************************************************************)
(* The batch of commands is empty, fails or, for a restore, is not found   *)
(* or does not reproduce the target.  Any apply may fail.                  *)
(***************************************************************************)
Fail(c) ==
    /\ HasState(c)
    /\ request[c].kind # "open"
    /\ request[c].base = seen[c].project
    /\ Answer(c, "failed")
    /\ UNCHANGED <<diskVars, historyVars>>

(***************************************************************************)
(* What the commands may lead to: an apply to any content, a restore to    *)
(* the target's, which has to differ for the diff not to be empty.         *)
(***************************************************************************)
Reachable(q, state) ==
    IF q.kind = "apply" THEN Contents
    ELSE {m \in Contents \ {state.mapspec.content} :
            \E r \in History(state.receipts) :
                r.revision = q.target /\ r.content = m}

(***************************************************************************)
(* The commands bump the revision once each; the new receipt is the next   *)
(* in sequence.  (A revision past the largest fails the command.)          *)
(***************************************************************************)
Successor(q, state, m, k) ==
    [kind |-> q.kind,
     sequence |-> Cardinality(History(state.receipts)),
     revision |-> state.mapspec.revision + k,
     previous |-> state.project,
     content |-> m]

(* Mutant of Plan: the base revision is not compared. *)
PlanAnyBase(c) ==
    /\ HasState(c)
    /\ request[c].kind # "open"
    /\ \E m \in Reachable(request[c], seen[c]), k \in 1..MaxBatch :
         /\ seen[c].mapspec.revision + k \in Revisions
         /\ receipt' =
              [receipt EXCEPT ![c] = Successor(request[c], seen[c], m, k)]
    /\ step' = [step EXCEPT ![c] = "check"]
    /\ seen' = [seen EXCEPT ![c] = NothingSeen]
    /\ UNCHANGED <<diskVars, request, txn, at, outcome, historyVars>>

Plan(c) ==
    /\ HasState(c)
    /\ request[c].kind # "open"
    /\ request[c].base = seen[c].project
    /\ \E m \in Reachable(request[c], seen[c]), k \in 1..MaxBatch :
         /\ seen[c].mapspec.revision + k \in Revisions
         /\ receipt' =
              [receipt EXCEPT ![c] = Successor(request[c], seen[c], m, k)]
    /\ step' = [step EXCEPT ![c] = "check"]
    /\ seen' = [seen EXCEPT ![c] = NothingSeen]
    /\ UNCHANGED <<diskVars, request, txn, at, outcome, historyVars>>

-----------------------------------------------------------------------------
(***************************************************************************)
(* commitProjectState.                                                     *)
(***************************************************************************)

(* "Refusing to overwrite an immutable revision receipt." *)
CheckTaken(c) ==
    /\ step[c] = "check"
    /\ receipts[receipt[c].revision] # Null
    /\ Answer(c, "error")
    /\ UNCHANGED <<diskVars, historyVars>>

(* Mutant of CheckFree: the call answers without awaiting its commit. *)
CheckFreeUnawaited(c) ==
    /\ Move(c, "check", "stage")
    /\ receipts[receipt[c].revision] = Null
    /\ \E u \in FreshUuids : txn' = [txn EXCEPT ![c] = u]
    /\ acked' = acked \cup {receipt[c]}
    /\ UNCHANGED <<diskVars, request, receipt, at, seen, outcome, interrupts>>

CheckFree(c) ==
    /\ Move(c, "check", "stage")
    /\ receipts[receipt[c].revision] = Null
    /\ \E u \in FreshUuids : txn' = [txn EXCEPT ![c] = u]
    /\ UNCHANGED <<diskVars, request, receipt, at, seen, outcome, historyVars>>

(* Mutant of Stage: the files are renamed without a journal. *)
StageNoJournal(c) ==
    /\ step[c] = "stage"
    /\ staged' = staged \cup {<<txn[c], at[c]>>}
    /\ IF at[c] = ProjectFile
       THEN /\ step' = [step EXCEPT ![c] = "rename"]
            /\ at' = [at EXCEPT ![c] = ReceiptFile]
       ELSE /\ NextFile(c)
            /\ UNCHANGED step
    /\ UNCHANGED <<project, mapspec, receipts, journal, request,
                   receipt, txn, seen, outcome, historyVars>>

Stage(c) ==
    /\ step[c] = "stage"
    /\ staged' = staged \cup {<<txn[c], at[c]>>}
    /\ IF at[c] = ProjectFile
       THEN /\ step' = [step EXCEPT ![c] = "publish"]
            /\ at' = [at EXCEPT ![c] = ReceiptFile]
       ELSE /\ NextFile(c)
            /\ UNCHANGED step
    /\ UNCHANGED <<project, mapspec, receipts, journal, request,
                   receipt, txn, seen, outcome, historyVars>>

(***************************************************************************)
(* The journal is itself staged and renamed: the commit point.             *)
(***************************************************************************)
Publish(c) ==
    /\ Move(c, "publish", "rename")
    /\ journal' = [txn |-> txn[c], receipt |-> receipt[c]]
    /\ UNCHANGED <<filesVars, request, receipt, txn, at, seen, outcome,
                   historyVars>>

Rename(c) ==
    /\ step[c] = "rename"
    /\ <<txn[c], at[c]>> \in staged
    /\ Install(c, at[c])
    /\ NextFile(c)
    /\ step' = [step EXCEPT ![c] = IF at[c] = ProjectFile THEN "clear" ELSE @]
    /\ UNCHANGED <<journal, request, receipt, txn, seen, outcome, historyVars>>

(***************************************************************************)
(* Somebody else has moved the staged file: rename fails with ENOENT.      *)
(***************************************************************************)
RenameGone(c) ==
    /\ step[c] = "rename"
    /\ <<txn[c], at[c]>> \notin staged
    /\ Answer(c, "error")
    /\ UNCHANGED <<diskVars, historyVars>>

Clear(c) ==
    /\ step[c] = "clear"
    /\ journal' = Null
    /\ acked' = acked \cup {receipt[c]}
    /\ Answer(c, "ok")
    /\ UNCHANGED <<filesVars, interrupts>>

-----------------------------------------------------------------------------
(***************************************************************************)
(* The process of the call dies, or a system call rejects it: the call     *)
(* ends between two steps and the files stay as they are.                  *)
(***************************************************************************)
Interrupt(c) ==
    /\ interrupts < InterruptLimit
    /\ step[c] # "idle"
    /\ Answer(c, "interrupted")
    /\ interrupts' = interrupts + 1
    /\ UNCHANGED <<diskVars, acked>>

JournalStep(c) ==
    \/ InspectTaken(c) \/ InspectEmpty(c)
    \/ RecoverNothing(c) \/ RecoverBegin(c)
    \/ RedoSkip(c) \/ RedoFind(c) \/ RedoMove(c) \/ MoveGone(c) \/ RedoDone(c)
    \/ ReadProject(c) \/ ReadSpec(c) \/ ReadHistory(c) \/ ReadMissing(c)
    \/ ReadInvalid(c) \/ Open(c) \/ Conflict(c) \/ Fail(c) \/ Plan(c)
    \/ CheckTaken(c) \/ CheckFree(c) \/ Stage(c) \/ Publish(c)
    \/ Rename(c) \/ RenameGone(c) \/ Clear(c)

(***************************************************************************)
(* The lock, as the protocol relies on it: of the calls that take it, one  *)
(* begins when no other is under way.                                      *)
(***************************************************************************)
Free(q) ==
    q.kind \notin Unlocked =>
        \A c \in Actors : step[c] # "idle" => request[c].kind \in Unlocked

(* Bound: an actor that does not take the lock makes one call. *)
Once(c, q) == q.kind \in Unlocked => outcome[c] = "none"

Ask(c) ==
    \E q \in Requests :
        q.kind \in Asks[c] /\ Free(q) /\ Once(c, q) /\ Begin(c, q)

JournalNext == \E c \in Actors : Ask(c) \/ JournalStep(c) \/ Interrupt(c)

JournalSpec == JournalInit /\ [][JournalNext]_journalVars

-----------------------------------------------------------------------------
JournalTypeOK ==
    /\ project \in Revisions \cup {Null}
    /\ mapspec \in Spec \cup {Null}
    /\ receipts \in [Revisions -> Receipt \cup {Null}]
    /\ journal \in [txn: Uuids, receipt: Receipt] \cup {Null}
    /\ staged \subseteq Uuids \X Files
    /\ step \in [Actors -> Steps]
    /\ request \in [Actors -> Requests]
    /\ receipt \in [Actors -> Receipt \cup {Null}]
    /\ txn \in [Actors -> Uuids \cup {Null}]
    /\ at \in [Actors -> 1..4]
    /\ seen \in [Actors -> [project: Revisions \cup {Null},
                            mapspec: Spec \cup {Null},
                            receipts: [Revisions -> Receipt \cup {Null}]
                                        \cup {Null}]]
    /\ outcome \in [Actors -> Outcomes]
    /\ acked \subseteq Receipt
    /\ interrupts \in Nat

(***************************************************************************)
(* The files as the next recovery would leave them.                        *)
(***************************************************************************)
Pending(f) == journal # Null /\ <<journal.txn, f>> \in staged

RecoveredProject ==
    IF Pending(ProjectFile) THEN journal.receipt.revision ELSE project

RecoveredSpec ==
    IF Pending(SpecFile) THEN SpecOf(journal.receipt) ELSE mapspec

RecoveredReceipts ==
    [r \in Revisions |->
        IF Pending(ReceiptFile) /\ r = journal.receipt.revision
        THEN journal.receipt ELSE receipts[r]]

(***************************************************************************)
(* "Validation and every command must succeed before files are atomically  *)
(* replaced. No partial write is allowed" (gis-engine-workbench-v1.md):    *)
(* cut the code anywhere, and the next operation finds either no project   *)
(* or one it can read, whose metadata and spec are of the last revision in *)
(* the history.                                                            *)
(***************************************************************************)
AtLastRevision(p, m, rs) ==
    /\ SpecOf(rs[p]) = m
    /\ \A r \in History(rs) : r.sequence <= rs[p].sequence

NoPartialWrite ==
    \/ RecoveredProject = Null /\ RecoveredSpec = Null
    \/ /\ Readable(RecoveredProject, RecoveredSpec, RecoveredReceipts)
       /\ AtLastRevision(RecoveredProject, RecoveredSpec, RecoveredReceipts)

(***************************************************************************)
(* A commit that was answered with ok stays in the history, whatever is    *)
(* cut short afterwards.                                                   *)
(***************************************************************************)
AckedDurable == \A r \in acked : RecoveredReceipts[r.revision] = r

(***************************************************************************)
(* "a read can no longer observe a half-applied multi-file commit"         *)
(* (CHANGELOG.md): when an open succeeds, what its three reads have put    *)
(* together is what recovery would leave at that moment, and the spec is   *)
(* the one in the receipt of the current revision.                         *)
(***************************************************************************)
OpenReadsCommitted ==
    [][\A c \in Actors :
          (step[c] = "read" /\ request[c].kind = "open" /\ outcome'[c] = "ok")
            => /\ seen[c].project = RecoveredProject
               /\ seen[c].mapspec = RecoveredSpec
               /\ seen[c].receipts = RecoveredReceipts
               /\ SpecOf(seen[c].receipts[seen[c].project]) = seen[c].mapspec
      ]_journalVars

(***************************************************************************)
(* An apply or restore that is answered with ok was based on the revision  *)
(* its client had seen, and that revision was current when the commit took *)
(* effect: nothing was committed in between.                               *)
(***************************************************************************)
CommitsOnReviewedBase ==
    [][\A c \in Actors :
          (step[c] = "publish" /\ step'[c] = "rename"
             /\ request[c].kind \in {"apply", "restore"})
            => /\ receipt[c].previous = request[c].base
               /\ project = request[c].base]_journalVars

-----------------------------------------------------------------------------
(***************************************************************************)
(* The abstract log: the receipts in order of sequence.  A create takes    *)
(* effect when mapspec.json appears, for until then another create may     *)
(* still replace it; every other commit when the journal is published.     *)
(***************************************************************************)
CommittedLog ==
    LET H == History(RecoveredReceipts)
        Nth(n) == CHOOSE r \in H : r.sequence = n - 1
    IN  IF mapspec = Null THEN <<>>
        ELSE [n \in 1..Cardinality(H) |->
                [kind |-> Nth(n).kind,
                 revision |-> Nth(n).revision,
                 content |-> Nth(n).content]]

Log == INSTANCE RevisionLog WITH log <- CommittedLog

(***************************************************************************)
(* The protocol implements the log: every commit is one atomic append, and *)
(* "history is never rewritten".                                           *)
(***************************************************************************)
ImplementsLog == Log!LogSpec
=============================================================================
