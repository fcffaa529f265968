------------------------- MODULE ProjectStoreProofs -------------------------
(***************************************************************************)
(* Proofs about CommitJournal, about ProjectLock, and about ProjectStore,  *)
(* which runs the one under the other.                                     *)
(*                                                                         *)
(* The journal: for any calls, contents, UUIDs and revisions and any       *)
(* number of interruptions, its types, whatever creates run outside the    *)
(* lock; until a create runs beside another call in a directory that is    *)
(* not empty, that nothing acknowledged is lost, that an open returns one  *)
(* committed revision and that a commit is based on the revision its       *)
(* client saw; and, until such a create also removes the journal of        *)
(* another commit, that an interruption anywhere leaves a project that the *)
(* next operation can read, and that the protocol implements RevisionLog.  *)
(*                                                                         *)
(* The lock: for every set of processes and calls, every retry limit, any  *)
(* number of crashes, and whether or not holders may outlast the stale     *)
(* limit or system calls may fail.                                         *)
(*                                                                         *)
(* The store: in one process two operations never interleave, whatever     *)
(* happens to the lock directory; and across processes the lock gives the  *)
(* commit protocol what it relies on -- with it every guarantee of the     *)
(* protocol, over crashes, takeovers and recovery -- as long as no lock is *)
(* broken that a call at work has made.                                    *)
(***************************************************************************)
EXTENDS ProjectStore, Sequences, FiniteSetTheorems, TLAPS

(***************************************************************************)
(* What a call knows at each step: without this, the types of the files it *)
(* writes do not follow from the types of the variables.                   *)
(***************************************************************************)
Committing == {"check", "stage", "publish", "rename", "clear", "redo", "move"}

Equipped ==
    \A c \in Actors :
        /\ step[c] \in Committing => receipt[c] \in Receipt
        /\ step[c] \in Committing \ {"check"} => txn[c] \in Uuids
        /\ step[c] \in {"stage", "rename", "move"} => at[c] \in Files
        /\ step[c] \notin {"stage", "rename", "clear", "redo", "move"}
             => at[c] = ReceiptFile

(* What HasRead lets through has been read. *)
LEMMA ReadTypes ==
  ASSUME JournalTypeOK, NEW c \in Actors, HasRead(c)
  PROVE  /\ seen[c].project \in Revisions
         /\ seen[c].mapspec \in Spec
         /\ seen[c].receipts \in [Revisions -> Receipt \cup {Null}]
BY DEF JournalTypeOK, HasRead

LEMMA HistoryIsFinite ==
  ASSUME NEW rs \in [Revisions -> Receipt \cup {Null}]
  PROVE  /\ IsFiniteSet(History(rs))
         /\ Cardinality(History(rs)) \in Nat
<1>1. IsFiniteSet(Revisions)
  BY FS_Interval, JournalAssumption DEF Revisions
<1>2. IsFiniteSet({rs[r] : r \in Revisions})
  <2> DEFINE f == [r \in Revisions |-> rs[r]]
  <2> DEFINE T == {rs[r] : r \in Revisions}
  <2>1. f \in Surjection(Revisions, T)
    BY DEF Surjection
  <2> QED
    BY <1>1, <2>1, FS_Surjection
<1> QED
  BY <1>2, FS_Difference, FS_CardinalityType, FS_Subset DEF History

(* The receipt that a transaction makes is a receipt. *)
LEMMA SuccessorType ==
  ASSUME JournalTypeOK, NEW c \in Actors, HasRead(c),
         request[c].kind # "open",
         NEW m \in Contents, NEW k \in 1..MaxBatch,
         seen[c].mapspec.revision + k \in Revisions
  PROVE  Successor(request[c], seen[c], m, k) \in Receipt
<1>1. request[c].kind \in {"create", "apply", "restore"}
  BY DEF JournalTypeOK, Requests, NoRequest
<1>2. Cardinality(History(seen[c].receipts)) \in Nat
  BY ReadTypes, HistoryIsFinite
<1> QED
  BY <1>1, <1>2, ReadTypes DEF Successor, Receipt

(* A rename leaves files of the right types. *)
LEMMA InstallTypes ==
  ASSUME JournalTypeOK, NEW c \in Actors, receipt[c] \in Receipt,
         NEW f \in Files, Install(c, f)
  PROVE  /\ project' \in Revisions \cup {Null}
         /\ mapspec' \in Spec \cup {Null}
         /\ receipts' \in [Revisions -> Receipt \cup {Null}]
         /\ staged' \subseteq Uuids \X Files
BY DEF JournalTypeOK, Install, Receipt, SpecOf, Spec

(* A step of the protocol keeps the types, and what each call is equipped with. *)
LEMMA EquippedInductive ==
  ASSUME JournalTypeOK, Equipped, [JournalNext]_journalVars
  PROVE  JournalTypeOK' /\ Equipped'
<1> USE DEF JournalTypeOK, Equipped, Committing, Steps, Outcomes, diskVars,
            filesVars, historyVars, Move, NextFile, Files, ReceiptFile,
            SpecFile, ProjectFile
<1>1. ASSUME NEW c \in Actors, Ask(c) PROVE JournalTypeOK' /\ Equipped'
  BY <1>1 DEF Ask, Begin
<1>2. ASSUME NEW c \in Actors, NEW r \in Outcomes, Answer(c, r),
             UNCHANGED diskVars, interrupts' \in Nat, acked' \subseteq Receipt
      PROVE JournalTypeOK' /\ Equipped'
  BY <1>2 DEF Answer, NothingSeen, Requests
<1>3. ASSUME NEW c \in Actors, InspectEmpty(c) PROVE JournalTypeOK' /\ Equipped'
  <2>1. PICK r \in InitialRevisions, m \in Contents :
          receipt' = [receipt EXCEPT ![c] =
                        [kind |-> "create", sequence |-> 0, revision |-> r,
                         previous |-> Null, content |-> m]]
    BY <1>3 DEF InspectEmpty
  <2>2. [kind |-> "create", sequence |-> 0, revision |-> r,
         previous |-> Null, content |-> m] \in Receipt
    BY JournalAssumption DEF Receipt
  <2>3. PICK u \in Uuids : txn' = [txn EXCEPT ![c] = u]
    BY <1>3 DEF InspectEmpty, FreshUuids
  <2> QED
    BY <1>3, <2>1, <2>2, <2>3 DEF InspectEmpty
<1>4. ASSUME NEW c \in Actors, RecoverNothing(c) PROVE JournalTypeOK' /\ Equipped'
  BY <1>4 DEF RecoverNothing
<1>5. ASSUME NEW c \in Actors, RecoverBegin(c) PROVE JournalTypeOK' /\ Equipped'
  BY <1>5 DEF RecoverBegin
<1>6. ASSUME NEW c \in Actors, RedoSkip(c) PROVE JournalTypeOK' /\ Equipped'
  BY <1>6 DEF RedoSkip
<1>7. ASSUME NEW c \in Actors, RedoFind(c) PROVE JournalTypeOK' /\ Equipped'
  BY <1>7 DEF RedoFind
<1>8. ASSUME NEW c \in Actors, RedoMove(c) PROVE JournalTypeOK' /\ Equipped'
  <2>1. receipt[c] \in Receipt /\ at[c] \in Files /\ step[c] = "move"
    BY <1>8 DEF RedoMove
  <2>2. UNCHANGED <<journal, request, receipt, txn, seen, outcome, historyVars>>
    BY <1>8 DEF RedoMove
  <2>3. step' = [step EXCEPT ![c] = "redo"] /\ at' = [at EXCEPT ![c] = @ + 1]
    BY <1>8 DEF RedoMove
  <2> QED
    BY <2>1, <2>2, <2>3, InstallTypes, <1>8 DEF RedoMove
<1>9. ASSUME NEW c \in Actors, RedoDone(c) PROVE JournalTypeOK' /\ Equipped'
  BY <1>9 DEF RedoDone
<1>10. ASSUME NEW c \in Actors, ReadProject(c) \/ ReadSpec(c) \/ ReadHistory(c)
       PROVE  JournalTypeOK' /\ Equipped'
  BY <1>10 DEF ReadProject, ReadSpec, ReadHistory
<1>11. ASSUME NEW c \in Actors, Plan(c) PROVE JournalTypeOK' /\ Equipped'
  <2>1. PICK m \in Contents, k \in 1..MaxBatch :
          /\ seen[c].mapspec.revision + k \in Revisions
          /\ receipt' =
               [receipt EXCEPT ![c] = Successor(request[c], seen[c], m, k)]
    BY <1>11 DEF Plan, Reachable
  <2>2. Successor(request[c], seen[c], m, k) \in Receipt
    BY <1>11, <2>1, SuccessorType DEF Plan, HasState
  <2>3. step[c] = "read" /\ step' = [step EXCEPT ![c] = "check"]
    BY <1>11 DEF Plan, HasState, HasRead
  <2> QED
    BY <1>11, <2>1, <2>2, <2>3 DEF Plan, NothingSeen
<1>12. ASSUME NEW c \in Actors, CheckFree(c) PROVE JournalTypeOK' /\ Equipped'
  BY <1>12 DEF CheckFree, FreshUuids
<1>13. ASSUME NEW c \in Actors, Stage(c) PROVE JournalTypeOK' /\ Equipped'
  <2>1. step[c] = "stage" /\ at[c] \in Files /\ txn[c] \in Uuids
    BY <1>13 DEF Stage
  <2>2. staged' \subseteq Uuids \X Files
    BY <1>13, <2>1 DEF Stage
  <2>3. /\ UNCHANGED <<project, mapspec, receipts, journal, request>>
        /\ UNCHANGED <<receipt, txn, seen, outcome, historyVars>>
    BY <1>13 DEF Stage
  <2>4. CASE at[c] = ProjectFile
    <3>1. /\ step' = [step EXCEPT ![c] = "publish"]
          /\ at' = [at EXCEPT ![c] = ReceiptFile]
      BY <1>13, <2>4 DEF Stage
    <3> QED
      BY <2>1, <2>2, <2>3, <3>1
  <2>5. CASE at[c] # ProjectFile
    <3>1. at[c] + 1 \in Files
      BY <2>1, <2>5
    <3>2. at' = [at EXCEPT ![c] = @ + 1] /\ step' = step
      BY <1>13, <2>5 DEF Stage
    <3> QED
      BY <2>1, <2>2, <2>3, <3>1, <3>2
  <2> QED
    BY <2>4, <2>5
<1>14. ASSUME NEW c \in Actors, Publish(c) PROVE JournalTypeOK' /\ Equipped'
  BY <1>14 DEF Publish
<1>15. ASSUME NEW c \in Actors, Rename(c) PROVE JournalTypeOK' /\ Equipped'
  BY <1>15, InstallTypes DEF Rename
<1>16. ASSUME NEW c \in Actors, Clear(c) PROVE JournalTypeOK' /\ Equipped'
  BY <1>16 DEF Clear, Answer, NothingSeen, Requests
<1>17. ASSUME NEW c \in Actors,
              \/ InspectTaken(c) \/ MoveGone(c) \/ ReadMissing(c) \/ ReadInvalid(c)
              \/ Open(c) \/ Conflict(c) \/ Fail(c) \/ CheckTaken(c)
              \/ RenameGone(c) \/ Interrupt(c)
       PROVE  JournalTypeOK' /\ Equipped'
  <2>1. \E r \in Outcomes : Answer(c, r)
    BY <1>17 DEF InspectTaken, MoveGone, ReadMissing, ReadInvalid, Open,
                 Conflict, Fail, CheckTaken, RenameGone, Interrupt
  <2>2. UNCHANGED diskVars /\ interrupts' \in Nat /\ acked' \subseteq Receipt
    BY <1>17 DEF InspectTaken, MoveGone, ReadMissing, ReadInvalid, Open,
                 Conflict, Fail, CheckTaken, RenameGone, Interrupt
  <2> QED
    BY <1>2, <2>1, <2>2
<1>18. CASE UNCHANGED journalVars
  BY <1>18 DEF journalVars, callVars
<1> QED
  BY <1>1, <1>3, <1>4, <1>5, <1>6, <1>7, <1>8, <1>9, <1>10, <1>11, <1>12,
     <1>13, <1>14, <1>15, <1>16, <1>17, <1>18 DEF JournalNext, JournalStep

(***************************************************************************)
(* Type correctness, and what each call is equipped with.                  *)
(***************************************************************************)
THEOREM JournalEquipped == JournalSpec => [](JournalTypeOK /\ Equipped)
<1>1. JournalInit => JournalTypeOK /\ Equipped
  BY JournalAssumption DEF JournalInit, JournalTypeOK, Equipped, Committing, Steps,
     Requests, Outcomes, NothingSeen, ReceiptFile
<1>2. JournalTypeOK /\ Equipped /\ [JournalNext]_journalVars
        => JournalTypeOK' /\ Equipped'
  BY EquippedInductive
<1> QED
  BY <1>1, <1>2, PTL DEF JournalSpec

THEOREM JournalTypeCorrect == JournalSpec => []JournalTypeOK
BY JournalEquipped, PTL

-----------------------------------------------------------------------------
(***************************************************************************)
(* The commit protocol while creates run alone.                            *)
(***************************************************************************)

(***************************************************************************)
(* The invariant has a part for the files and a part for each step of a    *)
(* call.                                                                   *)
(***************************************************************************)
Serial ==
    \A c, d \in Actors : (step[c] # "idle" /\ step[d] # "idle") => c = d

Indexed == \A r \in Revisions : receipts[r] # Null => receipts[r].revision = r

(* Each file of an unfinished commit is still staged, or in place. *)
InPlace ==
    journal # Null =>
        /\ \/ Pending(ReceiptFile)
           \/ receipts[journal.receipt.revision] = journal.receipt
        /\ Pending(SpecFile) \/ mapspec = SpecOf(journal.receipt)
        /\ Pending(ProjectFile) \/ project = journal.receipt.revision

(* A project that can be read, whose current revision is the last one. *)
Whole(p, m, rs) ==
    /\ Readable(p, m, rs)
    /\ SpecOf(rs[p]) = m
    /\ rs[p].sequence = Cardinality(History(rs)) - 1

Recoverable ==
    \/ RecoveredProject = Null /\ RecoveredSpec = Null
    \/ Whole(RecoveredProject, RecoveredSpec, RecoveredReceipts)

(* Before mapspec.json appears there is at most the receipt of an unfinished create. *)
Uncreated ==
    mapspec = Null =>
        /\ project = Null
        /\ acked = {}
        /\ \A r \in Revisions :
             receipts[r] # Null => journal # Null /\ r = journal.receipt.revision

FilesInv == Indexed /\ InPlace /\ Recoverable /\ Uncreated /\ AckedDurable

(* The call works on the commit that the journal describes. *)
OnJournal(c) ==
    journal # Null /\ journal.txn = txn[c] /\ journal.receipt = receipt[c]

Moved(c, f)   == <<txn[c], f>> \notin staged
Unmoved(c, f) == <<txn[c], f>> \in staged

(* What a call has before and after it reads. *)
Asked(c) ==
    /\ step[c] # "idle" => request[c].kind \in Asks[c] /\ outcome[c] = "none"
    /\ step[c] # "read" => seen[c] = NothingSeen
    /\ step[c] = "inspect" => request[c].kind = "create"
    /\ step[c] \in {"recover", "redo", "move", "read"} => request[c].kind # "create"

Redoing(c) ==
    step[c] \in {"redo", "move"} =>
        OnJournal(c) /\ \A f \in Files : f < at[c] => Moved(c, f)

Reading(c) ==
    step[c] = "read" =>
        /\ journal = Null
        /\ seen[c].project \in {Null, project}
        /\ seen[c].mapspec \in {Null, mapspec}
        /\ seen[c].receipts \in {Null, receipts}

(* A first revision, or the successor of the current one. *)
Begins(c) ==
    /\ mapspec = Null
    /\ receipt[c].sequence = 0
    /\ receipt[c].previous = Null

Continues(c) ==
    /\ journal = Null
    /\ Whole(project, mapspec, receipts)
    /\ project = request[c].base
    /\ receipt[c].previous = project
    /\ receipt[c].sequence = Cardinality(History(receipts))
    /\ step[c] # "check" => receipts[receipt[c].revision] = Null

Preparing(c) ==
    step[c] \in {"check", "stage", "publish"} =>
        IF request[c].kind = "create" THEN Begins(c) ELSE Continues(c)

Staging(c) ==
    step[c] \in {"stage", "publish"} =>
        /\ journal # Null => journal.txn # txn[c]
        /\ \A f \in Files : (step[c] = "publish" \/ f < at[c]) => Unmoved(c, f)

Renaming(c) ==
    step[c] \in {"rename", "clear"} =>
        /\ OnJournal(c)
        /\ \A f \in Files : IF step[c] = "clear" \/ f < at[c]
                            THEN Moved(c, f) ELSE Unmoved(c, f)

CallInv(c) ==
    /\ Asked(c) /\ Redoing(c) /\ Reading(c)
    /\ Preparing(c) /\ Staging(c) /\ Renaming(c)

CommitInv == Serial /\ FilesInv /\ \A c \in Actors : CallInv(c)

(***************************************************************************)
(* Facts about the files.                                                  *)
(***************************************************************************)

(* What is not written keeps what is said of the files. *)
LEMMA FilesStay ==
  ASSUME FilesInv, UNCHANGED <<diskVars, acked>>
  PROVE  FilesInv' /\ RecoveredReceipts' = RecoveredReceipts
<1>1. /\ UNCHANGED <<project, mapspec, receipts, staged, journal, acked>>
      /\ \A f \in Files : Pending(f)' <=> Pending(f)
  BY DEF diskVars, filesVars, Pending
<1>2. RecoveredProject' = RecoveredProject
  BY <1>1 DEF RecoveredProject, Files, ReceiptFile, ProjectFile
<1>3. RecoveredSpec' = RecoveredSpec
  BY <1>1 DEF RecoveredSpec, Files, ReceiptFile, SpecFile, ProjectFile
<1>4. RecoveredReceipts' = RecoveredReceipts
  <2>1. Pending(ReceiptFile)' <=> Pending(ReceiptFile)
    BY <1>1 DEF Files, ReceiptFile, ProjectFile
  <2> QED
    BY <1>1, <2>1 DEF RecoveredReceipts
<1>5. Indexed' /\ InPlace' /\ Uncreated' /\ AckedDurable'
  BY <1>1, <1>4 DEF FilesInv, Indexed, InPlace, Uncreated, AckedDurable, Files,
                    ReceiptFile, SpecFile, ProjectFile
<1>6. Recoverable'
  BY <1>2, <1>3, <1>4 DEF FilesInv, Recoverable, Whole, Readable, Connected, History
<1> QED
  BY <1>4, <1>5, <1>6 DEF FilesInv

(* A file that is renamed in its turn is where recovery would put it. *)
LEMMA InstallKeepsRecovered ==
  ASSUME JournalTypeOK, NEW c \in Actors, receipt[c] \in Receipt, OnJournal(c),
         NEW f \in Files, Unmoved(c, f), Install(c, f), UNCHANGED journal
  PROVE  /\ \A g \in Files : Pending(g)' <=> Pending(g) /\ g # f
         /\ RecoveredProject' = RecoveredProject
         /\ RecoveredSpec' = RecoveredSpec
         /\ RecoveredReceipts' = RecoveredReceipts
<1> USE DEF Files, ReceiptFile, SpecFile, ProjectFile
<1>1. journal # Null /\ journal' = journal
  BY DEF OnJournal
<1>2. journal.txn = txn[c] /\ journal.receipt = receipt[c]
  BY DEF OnJournal
<1>3. Pending(f)
  BY <1>1, <1>2 DEF Pending, Unmoved
<1>4. \A g \in Files : Pending(g)' <=> Pending(g) /\ g # f
  BY <1>1, <1>2 DEF Pending, Install
<1>5. RecoveredProject' = RecoveredProject
  BY <1>1, <1>2, <1>3, <1>4 DEF Install, RecoveredProject
<1>6. RecoveredSpec' = RecoveredSpec
  BY <1>1, <1>2, <1>3, <1>4 DEF Install, RecoveredSpec
<1>7. RecoveredReceipts' = RecoveredReceipts
  <2>1. CASE f = ReceiptFile
    <3>1. receipts' = [receipts EXCEPT ![receipt[c].revision] = receipt[c]]
      BY <2>1 DEF Install
    <3>2. /\ RecoveredReceipts' = [r \in Revisions |-> receipts'[r]]
          /\ RecoveredReceipts =
               [r \in Revisions |-> IF r = journal.receipt.revision
                                    THEN journal.receipt ELSE receipts[r]]
      BY <1>3, <1>4, <2>1 DEF RecoveredReceipts
    <3> QED
      BY <1>2, <3>1, <3>2 DEF JournalTypeOK
  <2>2. CASE f # ReceiptFile
    <3>1. receipts' = receipts /\ (Pending(ReceiptFile)' <=> Pending(ReceiptFile))
      BY <1>4, <2>2 DEF Install
    <3> QED
      BY <1>1, <3>1 DEF RecoveredReceipts
  <2> QED
    BY <2>1, <2>2
<1> QED
  BY <1>4, <1>5, <1>6, <1>7

LEMMA InstallKeepsFiles ==
  ASSUME JournalTypeOK, FilesInv, NEW c \in Actors, receipt[c] \in Receipt,
         OnJournal(c), NEW f \in Files, \A g \in Files : g < f => Moved(c, g),
         Unmoved(c, f), Install(c, f), UNCHANGED <<journal, acked>>
  PROVE  FilesInv'
<1> USE DEF Files, ReceiptFile, SpecFile, ProjectFile
<1>1. /\ journal # Null /\ journal' = journal
      /\ journal.txn = txn[c] /\ journal.receipt = receipt[c]
  BY DEF OnJournal
<1>2. /\ \A g \in Files : Pending(g)' <=> Pending(g) /\ g # f
      /\ RecoveredProject' = RecoveredProject
      /\ RecoveredSpec' = RecoveredSpec
      /\ RecoveredReceipts' = RecoveredReceipts
  BY InstallKeepsRecovered
<1>3. receipt[c].revision \in Revisions
  BY DEF Receipt
<1>4. Indexed'
  BY <1>3 DEF FilesInv, Indexed, Install, JournalTypeOK
<1>5. InPlace'
  <2>1. Pending(ReceiptFile)' \/ receipts'[journal.receipt.revision] = journal.receipt
    BY <1>1, <1>2, <1>3 DEF FilesInv, InPlace, Install, JournalTypeOK
  <2>2. Pending(SpecFile)' \/ mapspec' = SpecOf(journal.receipt)
    BY <1>1, <1>2 DEF FilesInv, InPlace, Install
  <2>3. Pending(ProjectFile)' \/ project' = journal.receipt.revision
    BY <1>1, <1>2 DEF FilesInv, InPlace, Install
  <2> QED
    BY <1>1, <2>1, <2>2, <2>3 DEF InPlace
<1>6. Recoverable'
  BY <1>2 DEF FilesInv, Recoverable, Whole, Readable, Connected, History
<1>7. Uncreated'
  <2> SUFFICES ASSUME mapspec' = Null PROVE Uncreated'
    BY DEF Uncreated
  <2>1. SpecOf(receipt[c]) # Null
    BY JournalAssumption DEF SpecOf, Spec, Receipt
  <2>2. mapspec = Null /\ f # SpecFile
    BY <2>1 DEF Install
  <2>3. Pending(SpecFile)
    BY <1>1, <2>1, <2>2 DEF FilesInv, InPlace
  <2>4. f # ProjectFile
    BY <1>1, <2>3 DEF Pending, Moved
  <2> QED
    BY <1>1, <1>3, <2>2, <2>4 DEF FilesInv, Uncreated, Install, JournalTypeOK
<1>8. AckedDurable'
  BY <1>2 DEF FilesInv, AckedDurable
<1> QED
  BY <1>4, <1>5, <1>6, <1>7, <1>8 DEF FilesInv

(* When all files are in place the journal may go. *)
LEMMA Settled ==
  ASSUME JournalTypeOK, NEW c \in Actors, OnJournal(c),
         \A f \in Files : Moved(c, f)
  PROVE  /\ RecoveredProject = project
         /\ RecoveredSpec = mapspec
         /\ RecoveredReceipts = receipts
         /\ \A f \in Files : ~Pending(f)
BY DEF Files, ReceiptFile, SpecFile, ProjectFile, OnJournal, Moved, Pending,
       RecoveredProject, RecoveredSpec, RecoveredReceipts, JournalTypeOK

(* Without a journal recovery leaves the files as they are. *)
LEMMA NothingPending ==
  ASSUME JournalTypeOK, journal = Null
  PROVE  /\ RecoveredProject = project
         /\ RecoveredSpec = mapspec
         /\ RecoveredReceipts = receipts
BY DEF Pending, RecoveredProject, RecoveredSpec, RecoveredReceipts, JournalTypeOK

-----------------------------------------------------------------------------
(***************************************************************************)
(* What a new receipt makes of a history.                                  *)
(***************************************************************************)

(* The first receipt of a project. *)
LEMMA BeginsWhole ==
  ASSUME NEW rs \in [Revisions -> Receipt \cup {Null}],
         NEW r \in Receipt, r.sequence = 0, r.previous = Null,
         \A s \in Revisions : rs[s] # Null => s = r.revision
  PROVE  Whole(r.revision, SpecOf(r), [rs EXCEPT ![r.revision] = r])
<1> DEFINE rs2 == [rs EXCEPT ![r.revision] = r]
<1>1. r.revision \in Revisions /\ r # Null
  BY JournalAssumption DEF Receipt
<1>2. rs2[r.revision] = r /\ \A s \in Revisions : s # r.revision => rs2[s] = Null
  BY <1>1
<1>3. History(rs2) = {r}
  BY <1>1, <1>2 DEF History
<1> HIDE DEF rs2
<1>4. Cardinality(History(rs2)) = 1
  BY <1>3, FS_Singleton
<1>5. Connected(rs2)
  BY <1>3, <1>4 DEF Connected
<1>6. SpecOf(r) # Null /\ SpecOf(r).revision = r.revision
  BY JournalAssumption DEF SpecOf, Spec, Receipt
<1>7. r.revision # Null
  BY <1>1, JournalAssumption DEF Revisions
<1>8. Whole(r.revision, SpecOf(r), rs2)
  BY <1>1, <1>2, <1>4, <1>5, <1>6, <1>7 DEF Whole, Readable
<1> QED
  BY <1>8 DEF rs2

(* A receipt that follows the last one. *)
LEMMA ContinuesWhole ==
  ASSUME NEW rs \in [Revisions -> Receipt \cup {Null}],
         NEW p \in Revisions, NEW m, Whole(p, m, rs),
         \A s \in Revisions : rs[s] # Null => rs[s].revision = s,
         NEW r \in Receipt, rs[r.revision] = Null,
         r.previous = p, r.sequence = Cardinality(History(rs))
  PROVE  Whole(r.revision, SpecOf(r), [rs EXCEPT ![r.revision] = r])
<1> DEFINE rs2 == [rs EXCEPT ![r.revision] = r]
           H == History(rs)
<1>1. r.revision \in Revisions /\ r # Null
  BY JournalAssumption DEF Receipt
<1>2. rs2[r.revision] = r /\ \A s \in Revisions : s # r.revision => rs2[s] = rs[s]
  BY <1>1
<1>3. History(rs2) = H \cup {r}
  BY <1>1, <1>2 DEF History
<1> HIDE DEF rs2
<1>4. H \subseteq Receipt /\ IsFiniteSet(H) /\ Cardinality(H) \in Nat
  BY HistoryIsFinite DEF History
<1>5. /\ Connected(rs)
      /\ rs[p] # Null
      /\ rs[p].sequence = Cardinality(H) - 1
  BY DEF Whole, Readable
<1>6. rs[p] \in H /\ rs[p].revision = p
  BY <1>5 DEF History
<1>7. \A q \in H : q.sequence < Cardinality(H) /\ q.sequence \in Nat
  BY <1>4, <1>5 DEF Connected, Receipt
<1>8. r \notin H
  BY <1>4, <1>7
<1>9. Cardinality(H \cup {r}) = Cardinality(H) + 1
  BY <1>4, <1>8, FS_AddElement
<1>10. r.sequence > 0
  BY <1>4, <1>5, <1>6, <1>7
<1>11. Connected(rs2)
  <2> SUFFICES ASSUME NEW q \in H \cup {r}
               PROVE  /\ q.sequence < Cardinality(H) + 1
                      /\ q.sequence = 0 <=> q.previous = Null
                      /\ q.sequence > 0 =>
                           \E x \in H \cup {r} : /\ x.sequence = q.sequence - 1
                                                 /\ x.revision = q.previous
                      /\ \A x \in H \cup {r} : x.sequence = q.sequence => x = q
    BY <1>3, <1>9 DEF Connected
  <2>1. CASE q = r
    <3>1. q.previous # Null
      BY <2>1, JournalAssumption DEF Revisions
    <3>2. rs[p].sequence = q.sequence - 1 /\ rs[p].revision = q.previous
      BY <2>1, <1>5, <1>6
    <3>3. \A x \in H : x.sequence # q.sequence
      BY <2>1, <1>4, <1>7
    <3> QED
      BY <2>1, <1>4, <1>6, <1>10, <3>1, <3>2, <3>3
  <2>2. CASE q \in H
    <3>1. r.sequence # q.sequence
      BY <2>2, <1>4, <1>7
    <3> QED
      BY <2>2, <3>1, <1>4, <1>5, <1>7 DEF Connected
  <2> QED
    BY <2>1, <2>2
<1>12. SpecOf(r) # Null /\ SpecOf(r).revision = r.revision
  BY JournalAssumption DEF SpecOf, Spec, Receipt
<1>13. r.revision # Null
  BY <1>1, JournalAssumption DEF Revisions
<1>14. rs2[r.revision].sequence = Cardinality(History(rs2)) - 1
  BY <1>2, <1>3, <1>4, <1>9
<1>15. Whole(r.revision, SpecOf(r), rs2)
  BY <1>1, <1>2, <1>11, <1>12, <1>13, <1>14 DEF Whole, Readable
<1> QED
  BY <1>15 DEF rs2

-----------------------------------------------------------------------------
(***************************************************************************)
(* The steps.                                                              *)
(***************************************************************************)

(***************************************************************************)
(* Until when the protocol is atomic: until a create, which takes no lock, *)
(* is under way beside another call, or writes where a create that was cut *)
(* short has left the receipt of another revision.  Both may happen: the   *)
(* runs journal_unlocked and journal_recreate show what becomes of the     *)
(* project then.                                                           *)
(***************************************************************************)
CreatesAlone ==
    /\ \A c, d \in Actors :
         (step[c] # "idle" /\ step[d] # "idle" /\ request[c].kind = "create")
           => c = d
    /\ \A c \in Actors :
         (request[c].kind = "create" /\ step[c] \in {"stage", "publish"})
           => \A r \in Revisions : receipts[r] # Null => r = receipt[c].revision

(* A call begins when no other is under way. *)
AsksAlone == \A c \in Actors : Ask(c) => \A d \in Actors : step[d] = "idle"

LEMMA AloneAsksAlone ==
  ASSUME JournalTypeOK, CreatesAlone'
  PROVE  AsksAlone
<1> SUFFICES ASSUME NEW c \in Actors, Ask(c), NEW d \in Actors, step[d] # "idle"
             PROVE  FALSE
  BY DEF AsksAlone
<1>1. PICK q \in Requests : Free(q) /\ Begin(c, q)
  BY DEF Ask
<1>2. /\ step[c] = "idle" /\ step'[c] # "idle" /\ request'[c].kind = q.kind
      /\ c # d => step'[d] = step[d] /\ request'[d] = request[d]
  BY <1>1 DEF Begin, Move, JournalTypeOK
<1>3. q.kind # "create" => request[d].kind = "create"
  BY <1>1, JournalAssumption DEF Free
<1> QED
  BY <1>2, <1>3 DEF CreatesAlone

(***************************************************************************)
(* What a commit makes of the files: the first revision, or one more.      *)
(***************************************************************************)
FirstOf(c) ==
    /\ mapspec = Null
    /\ receipt[c].sequence = 0
    /\ receipt[c].previous = Null
    /\ \A r \in Revisions : receipts[r] # Null => r = receipt[c].revision

NextOf(c) ==
    /\ RecoveredReceipts = receipts
    /\ Whole(project, mapspec, receipts)
    /\ receipt[c].previous = project
    /\ receipt[c].sequence = Cardinality(History(receipts))
    /\ receipts[receipt[c].revision] = Null

LEMMA PublishKeepsFiles ==
  ASSUME JournalTypeOK, Equipped, FilesInv, NEW c \in Actors, Publish(c),
         \A f \in Files : Unmoved(c, f), FirstOf(c) \/ NextOf(c)
  PROVE  /\ FilesInv'
         /\ RecoveredReceipts' =
              [receipts EXCEPT ![receipt[c].revision] = receipt[c]]
<1> DEFINE new == [receipts EXCEPT ![receipt[c].revision] = receipt[c]]
<1>1. /\ step[c] = "publish"
      /\ journal' = [txn |-> txn[c], receipt |-> receipt[c]]
      /\ UNCHANGED <<project, mapspec, receipts, staged, acked>>
  BY DEF Publish, Move, filesVars, historyVars
<1>2. receipt[c] \in Receipt /\ txn[c] \in Uuids /\ receipt[c].revision \in Revisions
  BY <1>1 DEF Equipped, Committing, Receipt
<1>3. /\ journal' # Null
      /\ journal'.txn = txn[c]
      /\ journal'.receipt = receipt[c]
  BY <1>1, <1>2, JournalAssumption
<1>4. \A f \in Files : Pending(f)'
  BY <1>1, <1>3 DEF Unmoved, Pending
<1>5. /\ RecoveredProject' = receipt[c].revision
      /\ RecoveredSpec' = SpecOf(receipt[c])
      /\ RecoveredReceipts' =
           [r \in Revisions |->
              IF r = receipt[c].revision THEN receipt[c] ELSE receipts[r]]
  BY <1>1, <1>3, <1>4 DEF Files, ReceiptFile, SpecFile, ProjectFile,
     RecoveredProject, RecoveredSpec, RecoveredReceipts
<1>6. RecoveredReceipts' = new
  BY <1>5, <1>2 DEF JournalTypeOK
<1>7. receipts \in [Revisions -> Receipt \cup {Null}]
  BY DEF JournalTypeOK
<1>8. ASSUME FirstOf(c)
      PROVE  /\ Whole(receipt[c].revision, SpecOf(receipt[c]), new)
             /\ acked = {}
             /\ \A r \in Revisions : receipts[r] # Null => r = receipt[c].revision
  BY <1>2, <1>7, <1>8, BeginsWhole DEF FirstOf, FilesInv, Uncreated
<1>9. ASSUME NextOf(c)
      PROVE  /\ Whole(receipt[c].revision, SpecOf(receipt[c]), new)
             /\ \A r \in acked : receipts[r.revision] = r
             /\ receipts[receipt[c].revision] = Null
             /\ mapspec # Null
  <2>1. project \in Revisions /\ mapspec # Null
    BY <1>9 DEF NextOf, Whole, Readable, JournalTypeOK
  <2>2. \A r \in acked : receipts[r.revision] = r
    BY <1>9 DEF NextOf, FilesInv, AckedDurable
  <2>3. \A r \in Revisions : receipts[r] # Null => receipts[r].revision = r
    BY DEF FilesInv, Indexed
  <2> QED
    BY <1>2, <1>7, <1>9, <2>1, <2>2, <2>3, ContinuesWhole DEF NextOf
<1>10. FirstOf(c) \/ NextOf(c)
  OBVIOUS
<1>11. Whole(receipt[c].revision, SpecOf(receipt[c]), new)
  BY <1>8, <1>9, <1>10
<1> HIDE DEF new
<1>12. Recoverable'
  <2> DEFINE p == RecoveredProject  m == RecoveredSpec  rs == RecoveredReceipts
  <2>1. p' = receipt[c].revision /\ m' = SpecOf(receipt[c]) /\ rs' = new
    BY <1>5, <1>6
  <2> HIDE DEF p, m, rs
  <2>2. Whole(p', m', rs')
    BY <1>11, <2>1
  <2> QED
    BY <2>2 DEF Recoverable, p, m, rs, Whole, Readable, Connected, History
<1>13. Indexed'
  BY <1>1 DEF FilesInv, Indexed
<1>14. InPlace'
  BY <1>4 DEF InPlace, Files, ReceiptFile, SpecFile, ProjectFile
<1>15. Uncreated'
  BY <1>1, <1>3, <1>8, <1>9, <1>10 DEF FilesInv, Uncreated
<1>16. AckedDurable'
  <2> SUFFICES ASSUME NEW r \in acked PROVE new[r.revision] = r
    BY <1>1, <1>6 DEF AckedDurable
  <2>1. r \in Receipt /\ r # Null /\ r.revision \in Revisions
    BY JournalAssumption DEF JournalTypeOK, Receipt
  <2>2. receipts[r.revision] = r /\ receipts[receipt[c].revision] = Null
    BY <1>8, <1>9, <1>10
  <2> QED
    BY <1>2, <1>7, <2>1, <2>2 DEF new
<1> QED
  BY <1>6, <1>12, <1>13, <1>14, <1>15, <1>16 DEF FilesInv, new

(* A journal with nothing left to do may go. *)
LEMMA DropKeepsFiles ==
  ASSUME JournalTypeOK, FilesInv, \A f \in Files : ~Pending(f), mapspec # Null,
         journal' = Null, UNCHANGED filesVars,
         \A r \in acked' : r \in acked \/ receipts[r.revision] = r
  PROVE  FilesInv' /\ RecoveredReceipts' = RecoveredReceipts
<1>1. /\ RecoveredProject = project
      /\ RecoveredSpec = mapspec
      /\ RecoveredReceipts = receipts
  BY DEF Files, ReceiptFile, SpecFile, ProjectFile, RecoveredProject,
         RecoveredSpec, RecoveredReceipts, JournalTypeOK
<1>2. UNCHANGED <<project, mapspec, receipts, staged>>
  BY DEF filesVars
<1>3. /\ RecoveredProject' = project
      /\ RecoveredSpec' = mapspec
      /\ RecoveredReceipts' = receipts
  BY <1>2 DEF Pending, RecoveredProject, RecoveredSpec, RecoveredReceipts, JournalTypeOK
<1>4. Recoverable'
  BY <1>1, <1>3 DEF FilesInv, Recoverable, Whole, Readable, Connected, History
<1>5. Indexed' /\ InPlace' /\ Uncreated'
  BY <1>2 DEF FilesInv, Indexed, InPlace, Uncreated
<1>6. AckedDurable'
  BY <1>1, <1>3 DEF FilesInv, AckedDurable
<1> QED
  BY <1>1, <1>3, <1>4, <1>5, <1>6 DEF FilesInv

LEMMA ClearKeepsFiles ==
  ASSUME JournalTypeOK, FilesInv, NEW c \in Actors, OnJournal(c),
         receipt[c] \in Receipt, \A f \in Files : Moved(c, f),
         journal' = Null, UNCHANGED filesVars,
         acked' = acked \/ acked' = acked \cup {receipt[c]}
  PROVE  FilesInv'
<1>1. \A f \in Files : ~Pending(f)
  BY Settled
<1>2. /\ mapspec = SpecOf(receipt[c])
      /\ receipts[receipt[c].revision] = receipt[c]
  BY <1>1 DEF FilesInv, InPlace, OnJournal, Files, ReceiptFile, SpecFile, ProjectFile
<1>3. mapspec # Null
  BY <1>2, JournalAssumption DEF SpecOf, Spec, Receipt
<1> QED
  BY <1>1, <1>2, <1>3, DropKeepsFiles

LEMMA StageKeepsFiles ==
  ASSUME FilesInv, NEW c \in Actors, Stage(c),
         journal # Null => journal.txn # txn[c]
  PROVE  FilesInv' /\ RecoveredReceipts' = RecoveredReceipts
<1>1. /\ UNCHANGED <<project, mapspec, receipts, journal, acked>>
      /\ staged' = staged \cup {<<txn[c], at[c]>>}
      /\ journal # Null => journal.txn # txn[c]
  BY DEF Stage, historyVars
<1>2. \A f \in Files : Pending(f)' <=> Pending(f)
  BY <1>1 DEF Pending
<1> USE DEF Files, ReceiptFile, SpecFile, ProjectFile
<1>3. RecoveredProject' = RecoveredProject /\ RecoveredSpec' = RecoveredSpec
  BY <1>1, <1>2 DEF RecoveredProject, RecoveredSpec
<1>4. RecoveredReceipts' = RecoveredReceipts
  <2>1. Pending(ReceiptFile)' <=> Pending(ReceiptFile)
    BY <1>2
  <2> QED
    BY <1>1, <2>1 DEF RecoveredReceipts
<1>5. Indexed' /\ InPlace' /\ Uncreated' /\ AckedDurable'
  BY <1>1, <1>2, <1>4 DEF FilesInv, Indexed, InPlace, Uncreated, AckedDurable
<1>6. Recoverable'
  BY <1>3, <1>4 DEF FilesInv, Recoverable, Whole, Readable, Connected, History
<1> QED
  BY <1>4, <1>5, <1>6 DEF FilesInv

(* While a call is under way nothing is to be said of the others. *)
LEMMA OneCall ==
  ASSUME CommitInv, NEW c \in Actors,
         \A d \in Actors : d # c => step[d] = "idle",
         \A d \in Actors : d # c => step'[d] = step[d] /\ seen'[d] = seen[d],
         FilesInv', CallInv(c)'
  PROVE  CommitInv'
<1>1. Serial'
  BY DEF Serial
<1>2. ASSUME NEW d \in Actors, d # c PROVE CallInv(d)'
  <2>1. step[d] = "idle" /\ step'[d] = "idle" /\ seen'[d] = NothingSeen
    BY <1>2 DEF CommitInv, CallInv, Asked
  <2> QED
    BY <2>1 DEF CallInv, Asked, Redoing, Reading, Preparing, Staging, Renaming
<1> QED
  BY <1>1, <1>2 DEF CommitInv

(* The commit of a call is the first revision, or one more. *)
LEMMA CommitInvPublishes ==
  ASSUME CreatesAlone, JournalTypeOK, CommitInv, NEW c \in Actors,
         step[c] = "publish"
  PROVE  /\ \A f \in Files : Unmoved(c, f)
         /\ IF request[c].kind = "create" THEN FirstOf(c) ELSE NextOf(c)
<1>1. Preparing(c) /\ Staging(c)
  BY DEF CommitInv, CallInv
<1>2. \A f \in Files : Unmoved(c, f)
  BY <1>1 DEF Staging
<1>3. request[c].kind = "create" => FirstOf(c)
  BY <1>1 DEF Preparing, Begins, FirstOf, CreatesAlone
<1>4. request[c].kind # "create" => NextOf(c)
  BY <1>1, NothingPending DEF Preparing, Continues, NextOf
<1> QED
  BY <1>2, <1>3, <1>4

LEMMA CommitInvInductive ==
  ASSUME CreatesAlone, AsksAlone, JournalTypeOK, Equipped, CommitInv, [JournalNext]_journalVars
  PROVE  CommitInv'
<1> USE DEF CommitInv
<1>1. ASSUME NEW c \in Actors, Ask(c) PROVE CommitInv'
  <2>1. PICK q \in Requests : q.kind \in Asks[c] /\ Free(q) /\ Begin(c, q)
    BY <1>1 DEF Ask
  <2>2. \A d \in Actors : step[d] = "idle"
    BY <1>1 DEF AsksAlone
  <2>3. FilesInv'
    BY <2>1, FilesStay DEF Begin, historyVars
  <2>4. /\ step' = [step EXCEPT ![c] = IF q.kind = "create" THEN "inspect" ELSE "recover"]
        /\ request' = [request EXCEPT ![c] = q]
        /\ outcome' = [outcome EXCEPT ![c] = "none"]
        /\ seen' = seen
    BY <2>1 DEF Begin, Move
  <2>5. CallInv(c)'
    BY <2>1, <2>2, <2>4 DEF CallInv, Asked, Redoing, Reading, Preparing,
                            Staging, Renaming, JournalTypeOK
  <2> QED
    BY <2>2, <2>3, <2>4, <2>5, OneCall DEF JournalTypeOK
<1>2. ASSUME NEW c \in Actors, step[c] # "idle",
             NEW to, step' = [step EXCEPT ![c] = to],
             NEW s, seen' = [seen EXCEPT ![c] = s],
             FilesInv', CallInv(c)'
      PROVE  CommitInv'
  <2>1. \A d \in Actors : d # c => step[d] = "idle"
    BY <1>2 DEF Serial
  <2>2. \A d \in Actors : d # c => step'[d] = step[d] /\ seen'[d] = seen[d]
    BY <1>2 DEF JournalTypeOK
  <2> QED
    BY <1>2, <2>1, <2>2, OneCall
<1>3. ASSUME NEW c \in Actors, step[c] # "idle", NEW r, Answer(c, r), FilesInv'
      PROVE  CommitInv'
  <2>1. CallInv(c)'
    BY <1>3 DEF Answer, CallInv, Asked, Redoing, Reading, Preparing, Staging,
                Renaming, JournalTypeOK
  <2> QED
    BY <1>2, <1>3, <2>1 DEF Answer
<1>4. ASSUME NEW c \in Actors,
             \/ InspectTaken(c) \/ MoveGone(c) \/ ReadMissing(c) \/ ReadInvalid(c)
             \/ Open(c) \/ Conflict(c) \/ Fail(c) \/ CheckTaken(c)
             \/ RenameGone(c) \/ Interrupt(c)
      PROVE  CommitInv'
  <2>1. step[c] # "idle" /\ \E r : Answer(c, r)
    BY <1>4 DEF InspectTaken, MoveGone, ReadMissing, ReadInvalid, HasRead, HasState,
                Open, Conflict, Fail, CheckTaken, RenameGone, Interrupt
  <2>2. UNCHANGED <<diskVars, acked>>
    BY <1>4 DEF InspectTaken, MoveGone, ReadMissing, ReadInvalid, Open, Conflict,
                Fail, CheckTaken, RenameGone, Interrupt, historyVars
  <2> QED
    BY <1>3, <2>1, <2>2, FilesStay
<1>5. ASSUME NEW c \in Actors, InspectEmpty(c) PROVE CommitInv'
  <2>1. PICK r \in InitialRevisions, m \in Contents, u \in FreshUuids :
          /\ receipt' = [receipt EXCEPT ![c] =
                          [kind |-> "create", sequence |-> 0, revision |-> r,
                           previous |-> Null, content |-> m]]
          /\ txn' = [txn EXCEPT ![c] = u]
    BY <1>5 DEF InspectEmpty
  <2>2. /\ step[c] = "inspect" /\ step' = [step EXCEPT ![c] = "stage"]
        /\ mapspec = Null
        /\ UNCHANGED <<diskVars, acked>>
        /\ UNCHANGED <<request, at, seen, outcome>>
    BY <1>5 DEF InspectEmpty, Move, historyVars
  <2>3. FilesInv'
    BY <2>2, FilesStay
  <2>4. step'[c] = "stage" /\ txn'[c] = u /\ at'[c] = ReceiptFile
    BY <2>1, <2>2 DEF JournalTypeOK, Equipped
  <2>5. Asked(c)'
    BY <2>2, <2>4 DEF CallInv, Asked
  <2>6. request'[c].kind = "create" /\ Begins(c)'
    BY <2>1, <2>2 DEF CallInv, Asked, Begins, diskVars, filesVars, JournalTypeOK
  <2>7. Staging(c)'
    BY <2>1, <2>2, <2>4 DEF Staging, FreshUuids, diskVars, Files, ReceiptFile,
                            SpecFile, ProjectFile
  <2>8. CallInv(c)'
    BY <2>4, <2>5, <2>6, <2>7 DEF CallInv, Redoing, Reading, Preparing, Renaming
  <2> QED
    BY <1>2, <2>2, <2>3, <2>8 DEF JournalTypeOK
<1>6. ASSUME NEW c \in Actors, RecoverNothing(c) PROVE CommitInv'
  <2>1. /\ step[c] = "recover" /\ step' = [step EXCEPT ![c] = "read"]
        /\ journal = Null
        /\ UNCHANGED <<diskVars, acked>>
        /\ UNCHANGED <<journal, request, seen, outcome>>
    BY <1>6 DEF RecoverNothing, Move, historyVars, diskVars
  <2>2. FilesInv'
    BY <2>1, FilesStay
  <2>3. CallInv(c)'
    BY <2>1 DEF CallInv, Asked, Redoing, Reading, Preparing, Staging, Renaming,
                JournalTypeOK, NothingSeen
  <2> QED
    BY <1>2, <2>1, <2>2, <2>3 DEF JournalTypeOK
<1>7. ASSUME NEW c \in Actors, RecoverBegin(c) PROVE CommitInv'
  <2>1. /\ step[c] = "recover" /\ step' = [step EXCEPT ![c] = "redo"]
        /\ journal # Null
        /\ receipt' = [receipt EXCEPT ![c] = journal.receipt]
        /\ txn' = [txn EXCEPT ![c] = journal.txn]
        /\ UNCHANGED <<diskVars, acked>>
        /\ UNCHANGED <<journal, request, at, seen, outcome>>
    BY <1>7 DEF RecoverBegin, Move, historyVars, diskVars
  <2>2. FilesInv'
    BY <2>1, FilesStay
  <2>3. at'[c] = ReceiptFile
    BY <2>1 DEF Equipped
  <2>4. Redoing(c)'
    BY <2>1, <2>3 DEF Redoing, OnJournal, Files, ReceiptFile, SpecFile,
                      ProjectFile, JournalTypeOK
  <2>5. CallInv(c)'
    BY <2>1, <2>4 DEF CallInv, Asked, Reading, Preparing, Staging, Renaming,
                      JournalTypeOK
  <2> QED
    BY <1>2, <2>1, <2>2, <2>5 DEF JournalTypeOK
<1>8. ASSUME NEW c \in Actors, RedoSkip(c) PROVE CommitInv'
  <2>1. /\ step[c] = "redo" /\ at[c] \in Files
        /\ Moved(c, at[c])
        /\ at' = [at EXCEPT ![c] = @ + 1]
        /\ UNCHANGED <<diskVars, acked>>
        /\ UNCHANGED <<step, request, receipt, txn, seen, outcome>>
        /\ UNCHANGED <<journal, staged>>
    BY <1>8 DEF RedoSkip, NextFile, Moved, historyVars, diskVars, filesVars
  <2>2. FilesInv'
    BY <2>1, FilesStay
  <2>3. Redoing(c)'
    <3>1. at'[c] = at[c] + 1
      BY <2>1 DEF JournalTypeOK
    <3>2. OnJournal(c)'
      BY <2>1 DEF CallInv, Redoing, OnJournal
    <3>3. \A f \in Files : f < at[c] => Moved(c, f)
      BY <2>1 DEF CallInv, Redoing
    <3>4. \A f \in Files : Moved(c, f)' <=> Moved(c, f)
      BY <2>1 DEF Moved
    <3>5. at[c] \in Int /\ \A f \in Files : f \in Int
      BY <2>1 DEF Files, ReceiptFile, ProjectFile
    <3>6. \A f \in Files : f < at[c] + 1 => f < at[c] \/ f = at[c]
      BY <3>5
    <3> QED
      BY <2>1, <3>1, <3>2, <3>3, <3>4, <3>6 DEF Redoing
  <2>4. CallInv(c)'
    BY <2>1, <2>3 DEF CallInv, Asked, Reading, Preparing, Staging, Renaming
  <2> QED
    BY <1>2, <2>1, <2>2, <2>4 DEF JournalTypeOK
<1>9. ASSUME NEW c \in Actors, RedoFind(c) PROVE CommitInv'
  <2>1. /\ step[c] = "redo" /\ step' = [step EXCEPT ![c] = "move"]
        /\ UNCHANGED <<diskVars, acked>>
        /\ UNCHANGED <<request, receipt, txn, at, seen, outcome>>
        /\ UNCHANGED <<journal, staged>>
    BY <1>9 DEF RedoFind, Move, historyVars, diskVars, filesVars
  <2>2. FilesInv'
    BY <2>1, FilesStay
  <2>3. CallInv(c)'
    BY <2>1 DEF CallInv, Asked, Redoing, Reading, Preparing, Staging, Renaming,
                JournalTypeOK, OnJournal, Moved
  <2> QED
    BY <1>2, <2>1, <2>2, <2>3 DEF JournalTypeOK
<1>10. ASSUME NEW c \in Actors, RedoMove(c) PROVE CommitInv'
  <2>1. /\ step[c] = "move" /\ step' = [step EXCEPT ![c] = "redo"]
        /\ Unmoved(c, at[c])
        /\ Install(c, at[c])
        /\ at' = [at EXCEPT ![c] = @ + 1]
        /\ UNCHANGED <<journal, acked>>
        /\ UNCHANGED <<request, receipt, txn, seen, outcome>>
    BY <1>10 DEF RedoMove, Move, NextFile, Unmoved, historyVars
  <2>2. at[c] \in Files /\ receipt[c] \in Receipt
    BY <2>1 DEF Equipped, Committing
  <2>3. OnJournal(c) /\ \A f \in Files : f < at[c] => Moved(c, f)
    BY <2>1 DEF CallInv, Redoing
  <2>4. FilesInv'
    BY <2>1, <2>2, <2>3, InstallKeepsFiles
  <2>5. Redoing(c)'
    <3>1. at'[c] = at[c] + 1
      BY <2>1 DEF JournalTypeOK
    <3>2. OnJournal(c)'
      BY <2>1, <2>3 DEF OnJournal
    <3>3. \A f \in Files : f < at[c] + 1 => Moved(c, f)'
      BY <2>1, <2>2, <2>3 DEF Moved, Install, Files, ReceiptFile, ProjectFile
    <3> QED
      BY <3>1, <3>2, <3>3 DEF Redoing
  <2>6. CallInv(c)'
    BY <2>1, <2>5 DEF CallInv, Asked, Reading, Preparing, Staging, Renaming,
                      JournalTypeOK
  <2> QED
    BY <1>2, <2>1, <2>4, <2>6 DEF JournalTypeOK
<1>11. ASSUME NEW c \in Actors, RedoDone(c) PROVE CommitInv'
  <2>1. /\ step[c] = "redo" /\ step' = [step EXCEPT ![c] = "read"]
        /\ at[c] \notin Files
        /\ journal' = Null
        /\ UNCHANGED filesVars
        /\ UNCHANGED <<acked, request, seen, outcome>>
    BY <1>11 DEF RedoDone, Move, historyVars
  <2>2. receipt[c] \in Receipt
    BY <2>1 DEF Equipped, Committing
  <2>3. OnJournal(c) /\ \A f \in Files : Moved(c, f)
    BY <2>1 DEF CallInv, Redoing, JournalTypeOK, Files, ReceiptFile, ProjectFile
  <2>4. FilesInv'
    BY <2>1, <2>2, <2>3, ClearKeepsFiles
  <2>5. CallInv(c)'
    BY <2>1 DEF CallInv, Asked, Redoing, Reading, Preparing, Staging, Renaming,
                JournalTypeOK, NothingSeen
  <2>6. step[c] # "idle" /\ seen' = [seen EXCEPT ![c] = seen[c]]
    BY <2>1 DEF JournalTypeOK
  <2>7. step' = [step EXCEPT ![c] = "read"]
    BY <2>1
  <2> QED
    BY <1>2, <2>4, <2>5, <2>6, <2>7
<1>12. ASSUME NEW c \in Actors, ReadProject(c) \/ ReadSpec(c) \/ ReadHistory(c)
       PROVE  CommitInv'
  <2>1. /\ step[c] = "read"
        /\ UNCHANGED <<diskVars, acked>>
        /\ UNCHANGED <<project, mapspec, receipts, journal>>
        /\ UNCHANGED <<step, request, outcome>>
    BY <1>12 DEF ReadProject, ReadSpec, ReadHistory, historyVars, diskVars, filesVars
  <2>2. FilesInv'
    BY <2>1, FilesStay
  <2>3. /\ seen'[c].project \in {seen[c].project, project}
        /\ seen'[c].mapspec \in {seen[c].mapspec, mapspec}
        /\ seen'[c].receipts \in {seen[c].receipts, receipts}
    BY <1>12 DEF ReadProject, ReadSpec, ReadHistory, JournalTypeOK
  <2>4. Reading(c)'
    BY <2>1, <2>3 DEF CallInv, Reading
  <2>5. CallInv(c)'
    BY <2>1, <2>4 DEF CallInv, Asked, Redoing, Preparing, Staging, Renaming
  <2>6. PICK s : seen' = [seen EXCEPT ![c] = s]
    BY <1>12 DEF ReadProject, ReadSpec, ReadHistory
  <2>7. step[c] # "idle" /\ step' = [step EXCEPT ![c] = step[c]]
    BY <2>1 DEF JournalTypeOK
  <2> QED
    BY <1>2, <2>2, <2>5, <2>6, <2>7
<1>13. ASSUME NEW c \in Actors, Plan(c) PROVE CommitInv'
  <2>1. PICK m \in Contents, k \in 1..MaxBatch :
          receipt' = [receipt EXCEPT ![c] = Successor(request[c], seen[c], m, k)]
    BY <1>13 DEF Plan, Reachable
  <2>2. /\ HasState(c)
        /\ request[c].kind # "open"
        /\ request[c].base = seen[c].project
        /\ step' = [step EXCEPT ![c] = "check"]
        /\ seen' = [seen EXCEPT ![c] = NothingSeen]
        /\ UNCHANGED <<diskVars, acked>>
        /\ UNCHANGED <<project, mapspec, receipts, journal>>
        /\ UNCHANGED <<request, outcome>>
    BY <1>13 DEF Plan, historyVars, diskVars, filesVars
  <2>3. FilesInv'
    BY <2>2, FilesStay
  <2>4. /\ step[c] = "read" /\ journal = Null
        /\ seen[c].project = project /\ project # Null
        /\ seen[c].mapspec = mapspec
        /\ seen[c].receipts = receipts
    BY <2>2 DEF HasState, HasRead, CallInv, Reading
  <2>5. Whole(project, mapspec, receipts)
    BY <2>4, NothingPending DEF FilesInv, Recoverable
  <2>6. /\ receipt'[c].previous = project
        /\ receipt'[c].sequence = Cardinality(History(receipts))
    BY <2>1, <2>4 DEF Successor, JournalTypeOK
  <2>7. step'[c] = "check" /\ request'[c].kind # "create"
    BY <2>2, <2>4 DEF CallInv, Asked, JournalTypeOK
  <2>8. Continues(c)'
    BY <2>2, <2>4, <2>5, <2>6, <2>7 DEF Continues, Whole, Readable, Connected, History
  <2>9. CallInv(c)'
    BY <2>2, <2>4, <2>7, <2>8 DEF CallInv, Asked, Redoing, Reading, Preparing,
                                  Staging, Renaming, JournalTypeOK
  <2> QED
    BY <1>2, <2>2, <2>3, <2>4, <2>9 DEF JournalTypeOK
<1>14. ASSUME NEW c \in Actors, CheckFree(c) PROVE CommitInv'
  <2>1. PICK u \in FreshUuids : txn' = [txn EXCEPT ![c] = u]
    BY <1>14 DEF CheckFree
  <2>2. /\ step[c] = "check" /\ step' = [step EXCEPT ![c] = "stage"]
        /\ receipts[receipt[c].revision] = Null
        /\ UNCHANGED <<diskVars, acked>>
        /\ UNCHANGED <<project, mapspec, receipts, journal>>
        /\ UNCHANGED <<request, receipt, at, seen, outcome>>
    BY <1>14 DEF CheckFree, Move, historyVars, diskVars, filesVars
  <2>3. FilesInv'
    BY <2>2, FilesStay
  <2>4. step'[c] = "stage" /\ txn'[c] = u /\ at'[c] = ReceiptFile
    BY <2>1, <2>2 DEF JournalTypeOK, Equipped
  <2>5. Preparing(c)'
    <3>1. Begins(c) => Begins(c)'
      BY <2>2 DEF Begins
    <3>2. Continues(c) => Continues(c)'
      BY <2>2, <2>4 DEF Continues, Whole, Readable, Connected, History
    <3> QED
      BY <2>2, <2>4, <3>1, <3>2 DEF CallInv, Preparing
  <2>6. Staging(c)'
    BY <2>1, <2>2, <2>4 DEF Staging, FreshUuids, Files, ReceiptFile, SpecFile,
                            ProjectFile
  <2>7. CallInv(c)'
    BY <2>2, <2>4, <2>5, <2>6 DEF CallInv, Asked, Redoing, Reading, Renaming
  <2> QED
    BY <1>2, <2>2, <2>3, <2>7 DEF JournalTypeOK
<1>15. ASSUME NEW c \in Actors, Stage(c) PROVE CommitInv'
  <2>1. /\ step[c] = "stage"
        /\ staged' = staged \cup {<<txn[c], at[c]>>}
        /\ UNCHANGED <<project, mapspec, receipts, journal, acked>>
        /\ UNCHANGED <<request, receipt, txn, seen, outcome>>
    BY <1>15 DEF Stage, historyVars
  <2>2. at[c] \in Files
    BY <2>1 DEF Equipped
  <2>3. FilesInv'
    BY <1>15, <2>1, StageKeepsFiles DEF CallInv, Staging
  <2>4. \/ /\ at[c] = ProjectFile /\ step' = [step EXCEPT ![c] = "publish"]
        \/ /\ at[c] # ProjectFile /\ step' = step
           /\ at' = [at EXCEPT ![c] = @ + 1]
    BY <1>15 DEF Stage, NextFile
  <2>5. \/ at[c] = ProjectFile /\ step'[c] = "publish"
        \/ at[c] # ProjectFile /\ step'[c] = "stage" /\ at'[c] = at[c] + 1
    BY <2>1, <2>4 DEF JournalTypeOK
  <2>6. Preparing(c)'
    <3>1. Begins(c) => Begins(c)'
      BY <2>1 DEF Begins
    <3>2. Continues(c) => Continues(c)'
      BY <2>1 DEF Continues, Whole, Readable, Connected, History
    <3> QED
      BY <2>1, <2>5, <3>1, <3>2 DEF CallInv, Preparing
  <2>7. Staging(c)'
    BY <2>1, <2>2, <2>5 DEF CallInv, Staging, Unmoved, Files, ReceiptFile,
                            ProjectFile
  <2>8. CallInv(c)'
    BY <2>1, <2>5, <2>6, <2>7 DEF CallInv, Asked, Redoing, Reading, Renaming
  <2> QED
    BY <1>2, <2>1, <2>3, <2>4, <2>8 DEF JournalTypeOK
<1>16. ASSUME NEW c \in Actors, Publish(c) PROVE CommitInv'
  <2>1. /\ step[c] = "publish" /\ step' = [step EXCEPT ![c] = "rename"]
        /\ journal' = [txn |-> txn[c], receipt |-> receipt[c]]
        /\ UNCHANGED <<staged, request, receipt, txn, at, seen, outcome>>
    BY <1>16 DEF Publish, Move, filesVars
  <2>2. FilesInv'
    BY <1>16, <2>1, CommitInvPublishes, PublishKeepsFiles
  <2>3. /\ receipt[c] \in Receipt /\ txn[c] \in Uuids
        /\ at'[c] = ReceiptFile /\ step'[c] = "rename"
    BY <2>1 DEF Equipped, Committing, JournalTypeOK
  <2>4. OnJournal(c)'
    BY <2>1, <2>3, JournalAssumption DEF OnJournal
  <2>5. Renaming(c)'
    BY <2>1, <2>3, <2>4 DEF CallInv, Staging, Renaming, Unmoved, Files,
                            ReceiptFile, SpecFile, ProjectFile
  <2>6. CallInv(c)'
    BY <2>1, <2>3, <2>5 DEF CallInv, Asked, Redoing, Reading, Preparing, Staging
  <2> QED
    BY <1>2, <2>1, <2>2, <2>6 DEF JournalTypeOK
<1>17. ASSUME NEW c \in Actors, Rename(c) PROVE CommitInv'
  <2>1. /\ step[c] = "rename"
        /\ step' = [step EXCEPT ![c] = IF at[c] = ProjectFile THEN "clear" ELSE @]
        /\ Unmoved(c, at[c])
        /\ Install(c, at[c])
        /\ at' = [at EXCEPT ![c] = @ + 1]
        /\ UNCHANGED <<journal, acked>>
        /\ UNCHANGED <<request, receipt, txn, seen, outcome>>
    BY <1>17 DEF Rename, NextFile, Unmoved, historyVars
  <2>2. at[c] \in Files /\ receipt[c] \in Receipt
    BY <2>1 DEF Equipped, Committing
  <2>3. /\ OnJournal(c)
        /\ \A f \in Files : IF f < at[c] THEN Moved(c, f) ELSE Unmoved(c, f)
    BY <2>1 DEF CallInv, Renaming
  <2>4. FilesInv'
    BY <2>1, <2>2, <2>3, InstallKeepsFiles
  <2>5. Renaming(c)'
    <3>1. /\ at'[c] = at[c] + 1
          /\ step'[c] = IF at[c] = ProjectFile THEN "clear" ELSE "rename"
      BY <2>1 DEF JournalTypeOK
    <3>2. OnJournal(c)'
      BY <2>1, <2>3 DEF OnJournal
    <3>3. \A f \in Files : IF f < at[c] + 1 THEN Moved(c, f)' ELSE Unmoved(c, f)'
      BY <2>1, <2>2, <2>3 DEF Moved, Unmoved, Install, Files, ReceiptFile, ProjectFile
    <3>4. at[c] = ProjectFile => \A f \in Files : f < at[c] + 1
      BY DEF Files, ReceiptFile, ProjectFile
    <3> QED
      BY <3>1, <3>2, <3>3, <3>4 DEF Renaming
  <2>6. step'[c] \in {"rename", "clear"}
    BY <2>1 DEF JournalTypeOK
  <2>7. CallInv(c)'
    BY <2>1, <2>5, <2>6 DEF CallInv, Asked, Redoing, Reading, Preparing, Staging
  <2> QED
    BY <1>2, <2>1, <2>4, <2>7 DEF JournalTypeOK
<1>18. ASSUME NEW c \in Actors, Clear(c) PROVE CommitInv'
  <2>1. /\ step[c] = "clear" /\ Answer(c, "ok")
        /\ journal' = Null
        /\ UNCHANGED filesVars
        /\ acked' = acked \cup {receipt[c]}
    BY <1>18 DEF Clear
  <2>2. receipt[c] \in Receipt
    BY <2>1 DEF Equipped, Committing
  <2>3. OnJournal(c) /\ \A f \in Files : Moved(c, f)
    BY <2>1 DEF CallInv, Renaming
  <2>4. FilesInv'
    BY <2>1, <2>2, <2>3, ClearKeepsFiles
  <2> QED
    BY <1>3, <2>1, <2>4
<1>19. CASE UNCHANGED journalVars
  <2>1. FilesInv'
    BY <1>19, FilesStay DEF journalVars, historyVars
  <2>2. ASSUME NEW c \in Actors PROVE CallInv(c)'
    <3> USE <1>19, <2>2 DEF journalVars, diskVars, filesVars, callVars
    <3>1. CallInv(c)
      OBVIOUS
    <3>2. Asked(c)' /\ Redoing(c)' /\ Reading(c)'
      BY <3>1 DEF CallInv, Asked, Redoing, Reading, OnJournal, Moved
    <3>3. Begins(c)' = Begins(c)
      BY DEF Begins
    <3>4. Continues(c)' = Continues(c)
      BY DEF Continues, Whole, Readable, Connected, History
    <3>5. Preparing(c)'
      <4>1. Preparing(c)
        BY <3>1 DEF CallInv
      <4> QED
        BY <4>1, <3>3, <3>4 DEF Preparing
    <3>6. Staging(c)' /\ Renaming(c)'
      BY <3>1 DEF CallInv, Staging, Renaming, OnJournal, Moved, Unmoved
    <3> QED
      BY <3>2, <3>5, <3>6 DEF CallInv
  <2>3. Serial'
    BY <1>19 DEF journalVars, callVars, Serial
  <2> QED
    BY <2>1, <2>2, <2>3
<1> QED
  BY <1>1, <1>4, <1>5, <1>6, <1>7, <1>8, <1>9, <1>10, <1>11, <1>12, <1>13, <1>14,
     <1>15, <1>16, <1>17, <1>18, <1>19 DEF JournalNext, JournalStep

LEMMA CommitInvInitially == JournalInit => CommitInv
<1> SUFFICES ASSUME JournalInit PROVE CommitInv
  OBVIOUS
<1>1. Serial /\ \A c \in Actors : CallInv(c)
  BY DEF JournalInit, Serial, CallInv, Asked, Redoing, Reading, Preparing,
         Staging, Renaming
<1>2. Indexed /\ InPlace /\ Uncreated /\ AckedDurable
  BY DEF JournalInit, Indexed, InPlace, Uncreated, AckedDurable
<1>3. Recoverable
  BY DEF JournalInit, Recoverable, RecoveredProject, RecoveredSpec, Pending
<1> QED
  BY <1>1, <1>2, <1>3 DEF CommitInv, FilesInv

-----------------------------------------------------------------------------
(***************************************************************************)
(* What follows from the invariant, whatever the files were at first.      *)
(***************************************************************************)
JournalInv == JournalTypeOK /\ Equipped /\ CommitInv

LEMMA FilesAreAtomic ==
  ASSUME JournalTypeOK, FilesInv
  PROVE  NoPartialWrite
<1> DEFINE p == RecoveredProject  m == RecoveredSpec  rs == RecoveredReceipts
<1>1. (p = Null /\ m = Null) \/ Whole(p, m, rs)
  BY DEF FilesInv, Recoverable
<1>2. rs \in [Revisions -> Receipt \cup {Null}]
  BY DEF RecoveredReceipts, Pending, JournalTypeOK
<1> HIDE DEF p, m, rs
<1>3. ASSUME Whole(p, m, rs) PROVE Readable(p, m, rs) /\ AtLastRevision(p, m, rs)
  <2>1. /\ Readable(p, m, rs) /\ SpecOf(rs[p]) = m
        /\ rs[p].sequence = Cardinality(History(rs)) - 1
    BY <1>3 DEF Whole
  <2>2. \A r \in History(rs) : r.sequence < Cardinality(History(rs))
    BY <2>1 DEF Readable, Connected
  <2>3. \A r \in History(rs) : r.sequence \in Nat
    BY <1>2 DEF History, Receipt
  <2>4. Cardinality(History(rs)) \in Nat
    BY <1>2, HistoryIsFinite
  <2> QED
    BY <2>1, <2>2, <2>3, <2>4 DEF AtLastRevision
<1> QED
  BY <1>1, <1>3 DEF NoPartialWrite, p, m, rs

(***************************************************************************)
(* What a call may rely on, in the states in which it answers or commits.  *)
(***************************************************************************)
Promised ==
    /\ AckedDurable
    /\ \A c \in Actors :
         /\ step[c] = "read" => outcome[c] = "none"
         /\ HasState(c) =>
              /\ seen[c].project = RecoveredProject
              /\ seen[c].mapspec = RecoveredSpec
              /\ seen[c].receipts = RecoveredReceipts
              /\ SpecOf(seen[c].receipts[seen[c].project]) = seen[c].mapspec
         /\ step[c] = "publish" /\ request[c].kind \in {"apply", "restore"} =>
              /\ receipt[c].previous = request[c].base
              /\ project = request[c].base

LEMMA CommitInvPromises ==
  ASSUME JournalTypeOK, CommitInv
  PROVE  Promised
<1>1. AckedDurable
  BY DEF CommitInv, FilesInv
<1>2. ASSUME NEW c \in Actors, HasState(c)
      PROVE  /\ seen[c].project = RecoveredProject
             /\ seen[c].mapspec = RecoveredSpec
             /\ seen[c].receipts = RecoveredReceipts
             /\ SpecOf(seen[c].receipts[seen[c].project]) = seen[c].mapspec
  <2>1. /\ journal = Null
        /\ seen[c].project = project /\ project # Null
        /\ seen[c].mapspec = mapspec
        /\ seen[c].receipts = receipts
    BY <1>2 DEF HasState, HasRead, CommitInv, CallInv, Reading
  <2>2. /\ RecoveredProject = project
        /\ RecoveredSpec = mapspec
        /\ RecoveredReceipts = receipts
    BY <2>1, NothingPending
  <2>3. Whole(project, mapspec, receipts)
    BY <2>1, <2>2 DEF CommitInv, FilesInv, Recoverable
  <2> QED
    BY <2>1, <2>2, <2>3 DEF Whole
<1>3. ASSUME NEW c \in Actors, step[c] = "publish",
             request[c].kind \in {"apply", "restore"}
      PROVE  receipt[c].previous = request[c].base /\ project = request[c].base
  BY <1>3 DEF CommitInv, CallInv, Preparing, Continues
<1>4. \A c \in Actors : step[c] = "read" => outcome[c] = "none"
  BY DEF CommitInv, CallInv, Asked
<1> QED
  BY <1>1, <1>2, <1>3, <1>4 DEF Promised

LEMMA PromisedReviewed == []Promised => CommitsOnReviewedBase
<1> DEFINE Reviewed ==
      \A c \in Actors :
          (step[c] = "publish" /\ step'[c] = "rename"
             /\ request[c].kind \in {"apply", "restore"})
            => /\ receipt[c].previous = request[c].base
               /\ project = request[c].base
<1>1. Promised => [Reviewed]_journalVars
  BY DEF Promised
<1> HIDE DEF Reviewed
<1>2. []Promised => [][Reviewed]_journalVars
  BY <1>1, PTL
<1> QED
  BY <1>2 DEF CommitsOnReviewedBase, Reviewed

(* A call that reads is answered with ok by Open alone. *)
LEMMA OpenAnswers ==
  ASSUME JournalTypeOK, JournalNext, NEW c \in Actors,
         step[c] = "read", outcome[c] = "none", outcome'[c] = "ok"
  PROVE  Open(c)
<1>1. ASSUME NEW d \in Actors, d # c, Ask(d) \/ JournalStep(d) \/ Interrupt(d)
      PROVE  outcome'[c] = outcome[c]
  <2>1. outcome' = outcome \/ \E r : outcome' = [outcome EXCEPT ![d] = r]
    BY <1>1 DEF Ask, Begin, JournalStep, Interrupt, Answer, InspectTaken,
       InspectEmpty, RecoverNothing, RecoverBegin, RedoSkip, RedoFind, RedoMove,
       MoveGone, RedoDone, ReadProject, ReadSpec, ReadHistory, ReadMissing,
       ReadInvalid, Open, Conflict, Fail, Plan, CheckTaken, CheckFree, Stage,
       Publish, Rename, RenameGone, Clear
  <2> QED
    BY <1>1, <2>1 DEF JournalTypeOK
<1>2. Ask(c) \/ JournalStep(c) \/ Interrupt(c)
  BY <1>1 DEF JournalNext
<1>3. ~Ask(c) /\ ~Interrupt(c)
  BY DEF Ask, Begin, Move, Interrupt, Answer, JournalTypeOK
<1>4. JournalStep(c)
  BY <1>2, <1>3
<1> QED
  BY <1>4 DEF JournalStep, JournalTypeOK, Answer, Move, InspectTaken, InspectEmpty,
     RecoverNothing, RecoverBegin, RedoSkip, RedoFind, RedoMove, MoveGone,
     RedoDone, ReadProject, ReadSpec, ReadHistory, ReadMissing, ReadInvalid,
     Conflict, Fail, Plan, CheckTaken, CheckFree, Stage, Publish, Rename,
     RenameGone, Clear

LEMMA PromisedReads ==
  [](JournalTypeOK /\ Promised) /\ [][JournalNext]_journalVars => OpenReadsCommitted
<1> DEFINE Committed ==
      \A c \in Actors :
          (step[c] = "read" /\ request[c].kind = "open" /\ outcome'[c] = "ok")
            => /\ seen[c].project = RecoveredProject
               /\ seen[c].mapspec = RecoveredSpec
               /\ seen[c].receipts = RecoveredReceipts
               /\ SpecOf(seen[c].receipts[seen[c].project]) = seen[c].mapspec
<1>1. ASSUME JournalTypeOK, Promised, JournalNext PROVE Committed
  <2> SUFFICES ASSUME NEW c \in Actors, step[c] = "read", outcome'[c] = "ok"
               PROVE  /\ seen[c].project = RecoveredProject
                      /\ seen[c].mapspec = RecoveredSpec
                      /\ seen[c].receipts = RecoveredReceipts
                      /\ SpecOf(seen[c].receipts[seen[c].project]) = seen[c].mapspec
    OBVIOUS
  <2>1. HasState(c)
    BY <1>1, OpenAnswers DEF Promised, Open
  <2> QED
    BY <1>1, <2>1 DEF Promised
<1>2. JournalTypeOK /\ Promised /\ [JournalNext]_journalVars => [Committed]_journalVars
  BY <1>1
<1> HIDE DEF Committed
<1>3. [](JournalTypeOK /\ Promised) /\ [][JournalNext]_journalVars
        => [][Committed]_journalVars
  BY <1>2, PTL
<1> QED
  BY <1>3 DEF OpenReadsCommitted, Committed

-----------------------------------------------------------------------------
(***************************************************************************)
(* Creates beside other calls.                                             *)
(***************************************************************************)

(***************************************************************************)
(* A create that writes is the first to write in its directory.  Opens,    *)
(* applies, restores and recoveries may all run beside it: one of them may *)
(* finish its commit while it is itself renaming, and it may still remove  *)
(* the journal when another commit has taken its place.                    *)
(***************************************************************************)
Virgin ==
    /\ journal = Null
    /\ project = Null
    /\ mapspec = Null
    /\ \A r \in Revisions : receipts[r] = Null

CreatesFirst ==
    \A c \in Actors :
        (request[c].kind = "create" /\ step[c] \in {"stage", "publish"})
          => Virgin

(* The commits that somebody is at, or that the journal describes. *)
Underway == {"rename", "clear", "redo", "move"}

CommitOf(c) == [txn |-> txn[c], receipt |-> receipt[c]]

Published ==
    {CommitOf(c) : c \in {d \in Actors : step[d] \in Underway}}
      \cup ({journal} \ {Null})

Placed(t, f) == <<t.txn, f>> \notin staged
AllPlaced(t) == \A f \in Files : Placed(t, f)
AllInPlace   == \A t \in Published : AllPlaced(t)

(* The project lock: one call at a time, of those that take it. *)
Locked(c) == step[c] # "idle" /\ request[c].kind # "create"

OneLocked == \A c, d \in Actors : Locked(c) /\ Locked(d) => c = d

OwnUuids ==
    \A c \in Actors : step[c] \in {"stage", "publish"} =>
        /\ journal # Null => journal.txn # txn[c]
        /\ \A d \in Actors : d # c => txn[d] # txn[c]

(* Of two commits, one has all its files in place. *)
InTurn ==
    \A t, u \in Published :
        /\ t.txn = u.txn => t = u
        /\ t = u \/ AllPlaced(t) \/ AllPlaced(u)

(* A receipt in place is there to stay; before the first project file      *)
(* appears there is one commit.                                            *)
Kept(t) ==
    /\ \A f, g \in Files : f < g /\ ~Placed(t, f) => ~Placed(t, g)
    /\ receipts[t.receipt.revision] =
         IF Placed(t, ReceiptFile) THEN t.receipt ELSE Null
    /\ Placed(t, ProjectFile) => project # Null
    /\ project = Null => t = journal

Ground ==
    /\ project = Null =>
         /\ (journal = Null \/ Pending(SpecFile)) => mapspec = Null
         /\ (journal = Null \/ Pending(ReceiptFile))
              => \A r \in Revisions : receipts[r] = Null
    /\ mapspec # Null =>
         /\ receipts[mapspec.revision] # Null
         /\ SpecOf(receipts[mapspec.revision]) = mapspec
    /\ \A r \in acked : receipts[r.revision] = r

Founding(c) == request[c].kind = "create" /\ step[c] \in {"rename", "clear"}

Founded ==
    project # Null => \A c \in Actors : Founding(c) => AllPlaced(CommitOf(c))

DiskInv == InTurn /\ (\A t \in Published : Kept(t)) /\ Ground /\ Founded

(* The calls. *)
Kinds(c) ==
    /\ step[c] # "idle" => request[c].kind \in Asks[c] /\ outcome[c] = "none"
    /\ step[c] # "read" => seen[c] = NothingSeen
    /\ step[c] = "inspect" => request[c].kind = "create"
    /\ step[c] \in {"recover", "redo", "move", "read", "check"}
         => request[c].kind # "create"

Moving(c) ==
    step[c] \in Underway =>
        /\ \A f \in Files : step[c] = "clear" \/ f < at[c] => Moved(c, f)
        /\ request[c].kind # "create" => journal \in {Null, CommitOf(c)}

Laid(c) ==
    step[c] \in {"stage", "publish"} =>
        \A f \in Files : step[c] = "publish" \/ f < at[c] => Unmoved(c, f)

Planned(c) ==
    (step[c] \in {"check", "stage", "publish"} /\ request[c].kind # "create") =>
        /\ project # Null
        /\ project = request[c].base
        /\ receipt[c].previous = project
        /\ step[c] # "check" => receipts[receipt[c].revision] = Null
        /\ AllInPlace

NoReceipts == [r \in Revisions |-> Null]

Viewing(c) ==
    step[c] = "read" =>
        /\ project # Null => AllInPlace
        /\ seen[c].project \in {Null, project}
        /\ seen[c].mapspec \in {Null, mapspec}
        /\ seen[c].receipts \in {Null, NoReceipts, receipts}

Calm(c) == Kinds(c) /\ Moving(c) /\ Laid(c) /\ Planned(c) /\ Viewing(c)

FoundedInv == OneLocked /\ OwnUuids /\ DiskInv /\ \A c \in Actors : Calm(c)

LEMMA PublishedIs ==
  /\ \A t : t \in Published <=>
       \/ journal # Null /\ t = journal
       \/ \E c \in Actors : step[c] \in Underway /\ t = CommitOf(c)
  /\ \A t : t \in Published' <=>
       \/ journal' # Null /\ t = journal'
       \/ \E c \in Actors : step'[c] \in Underway /\ t = CommitOf(c)'
BY DEF Published

LEMMA PublishedTypes ==
  ASSUME JournalTypeOK, Equipped, NEW t \in Published
  PROVE  /\ t # Null
         /\ t.txn \in Uuids
         /\ t.receipt \in Receipt
         /\ t.receipt # Null
         /\ t.receipt.revision \in Revisions
<1>1. t \in [txn: Uuids, receipt: Receipt]
  BY PublishedIs DEF JournalTypeOK, Equipped, Committing, Underway, CommitOf
<1> QED
  BY <1>1, JournalAssumption DEF Receipt

(* A step of one call leaves what the others know. *)
Untouched(d) ==
    /\ step'[d] = step[d]
    /\ request'[d] = request[d]
    /\ receipt'[d] = receipt[d]
    /\ txn'[d] = txn[d]
    /\ at'[d] = at[d]
    /\ seen'[d] = seen[d]
    /\ outcome'[d] = outcome[d]

LEMMA OthersUntouched ==
  ASSUME JournalTypeOK, NEW c \in Actors, Ask(c) \/ JournalStep(c) \/ Interrupt(c),
         NEW d \in Actors, d # c
  PROVE  Untouched(d)
<1> USE DEF Ask, Begin, JournalStep, Interrupt, Answer, InspectTaken,
       InspectEmpty, RecoverNothing, RecoverBegin, RedoSkip, RedoFind, RedoMove,
       MoveGone, RedoDone, ReadProject, ReadSpec, ReadHistory, ReadMissing,
       ReadInvalid, Open, Conflict, Fail, Plan, CheckTaken, CheckFree, Stage,
       Publish, Rename, RenameGone, Clear, Move, NextFile
<1>1. step' = step \/ \E x : step' = [step EXCEPT ![c] = x]
  OBVIOUS
<1>2. request' = request \/ \E x : request' = [request EXCEPT ![c] = x]
  OBVIOUS
<1>3. receipt' = receipt \/ \E x : receipt' = [receipt EXCEPT ![c] = x]
  OBVIOUS
<1>4. txn' = txn \/ \E x : txn' = [txn EXCEPT ![c] = x]
  OBVIOUS
<1>5. at' = at \/ \E x : at' = [at EXCEPT ![c] = x]
  OBVIOUS
<1>6. seen' = seen \/ \E x : seen' = [seen EXCEPT ![c] = x]
  OBVIOUS
<1>7. outcome' = outcome \/ \E x : outcome' = [outcome EXCEPT ![c] = x]
  OBVIOUS
<1> HIDE DEF Ask, JournalStep, Interrupt
<1> QED
  BY <1>1, <1>2, <1>3, <1>4, <1>5, <1>6, <1>7 DEF JournalTypeOK, Untouched

(* A step that leaves the files, and publishes nothing. *)
LEMMA DiskShrinks ==
  ASSUME JournalTypeOK, Equipped, DiskInv, UNCHANGED filesVars,
         Published' \subseteq Published,
         journal' = journal \/ (journal' = Null /\ project # Null),
         \A r \in acked' : r \in acked \/ receipts[r.revision] = r,
         \A c \in Actors : Founding(c)'
           => Founding(c) /\ txn'[c] = txn[c] /\ receipt'[c] = receipt[c]
  PROVE  DiskInv'
<1>1. UNCHANGED <<project, mapspec, receipts, staged>>
  BY DEF filesVars
<1>2. \A t, f : Placed(t, f)' <=> Placed(t, f)
  BY <1>1 DEF Placed
<1>3. \A t : AllPlaced(t)' <=> AllPlaced(t)
  BY <1>2 DEF AllPlaced
<1>4. InTurn'
  BY <1>3 DEF DiskInv, InTurn
<1>5. \A t \in Published' : Kept(t)'
  BY <1>1, <1>2 DEF DiskInv, Kept
<1>6. Ground'
  BY <1>1 DEF DiskInv, Ground, Pending
<1>7. Founded'
  BY <1>1, <1>3 DEF DiskInv, Founded, CommitOf
<1> QED
  BY <1>4, <1>5, <1>6, <1>7 DEF DiskInv

LEMMA CallStays ==
  ASSUME NEW d \in Actors, Calm(d), Untouched(d), UNCHANGED filesVars,
         Published' \subseteq Published, journal' = journal \/ journal' = Null
  PROVE  Calm(d)'
<1>1. UNCHANGED <<project, mapspec, receipts, staged>>
  BY DEF filesVars
<1>2. AllInPlace => AllInPlace'
  BY <1>1 DEF AllInPlace, AllPlaced, Placed
<1> USE DEF Calm, Untouched
<1>3. Kinds(d)'
  BY DEF Kinds
<1>4. Moving(d)'
  BY <1>1 DEF Moving, Moved, CommitOf
<1>5. Laid(d)'
  BY <1>1 DEF Laid, Unmoved
<1>6. Planned(d)'
  BY <1>1, <1>2 DEF Planned
<1>7. Viewing(d)'
  BY <1>1, <1>2 DEF Viewing
<1> QED
  BY <1>3, <1>4, <1>5, <1>6, <1>7

(* What a step of c has to keep when it leaves the files. *)
LEMMA FilesStand ==
  ASSUME JournalTypeOK, Equipped, FoundedInv, NEW c \in Actors,
         Ask(c) \/ JournalStep(c) \/ Interrupt(c),
         UNCHANGED filesVars,
         journal' = journal \/ (journal' = Null /\ project # Null),
         \A r \in acked' : r \in acked \/ receipts[r.revision] = r,
         Founding(c)' => Founding(c) /\ txn'[c] = txn[c] /\ receipt'[c] = receipt[c],
         step'[c] \in Underway => CommitOf(c)' \in Published,
         Locked(c)' => Locked(c) \/ \A d \in Actors : ~Locked(d),
         \/ txn'[c] \in {txn[c], Null}
         \/ journal # Null /\ txn'[c] = journal.txn
         \/ txn'[c] \in FreshUuids,
         step'[c] \in {"stage", "publish"} => txn'[c] \in FreshUuids,
         Published' \subseteq Published => Calm(c)'
  PROVE  FoundedInv'
<1>1. \A d \in Actors : d # c => Untouched(d)
  BY OthersUntouched
<1>2. Published' \subseteq Published
  BY <1>1, PublishedIs DEF Untouched, CommitOf
<1>3. \A d \in Actors : d # c =>
        /\ Founding(d)' <=> Founding(d)
        /\ Locked(d)' <=> Locked(d)
  BY <1>1 DEF Untouched, Founding, Locked
<1>4. DiskInv'
  BY <1>1, <1>2, <1>3, DiskShrinks DEF FoundedInv, Untouched
<1>5. OneLocked'
  BY <1>3 DEF FoundedInv, OneLocked
<1>6. OwnUuids'
  <2> SUFFICES ASSUME NEW d \in Actors, step'[d] \in {"stage", "publish"}
               PROVE  /\ journal' # Null => journal'.txn # txn'[d]
                      /\ \A e \in Actors : e # d => txn'[e] # txn'[d]
    BY DEF OwnUuids
  <2>1. CASE d = c
    BY <1>1, <2>1 DEF FreshUuids, Untouched
  <2>2. CASE d # c
    <3>1. /\ journal # Null => journal.txn # txn[d]
          /\ \A e \in Actors : e # d => txn[e] # txn[d]
          /\ txn'[d] = txn[d] /\ txn[d] \in Uuids /\ txn[d] # Null
      BY <1>1, <2>2, JournalAssumption
         DEF FoundedInv, OwnUuids, Untouched, Equipped, Committing
    <3>2. txn'[c] # txn[d]
      BY <2>2, <3>1 DEF FreshUuids
    <3> QED
      BY <1>1, <3>1, <3>2 DEF Untouched
  <2> QED
    BY <2>1, <2>2
<1>7. \A d \in Actors : d # c => Calm(d)'
  BY <1>1, <1>2, CallStays DEF FoundedInv
<1> QED
  BY <1>2, <1>4, <1>5, <1>6, <1>7 DEF FoundedInv

(* The steps that leave the files. *)
LEMMA AnswerStands ==
  ASSUME JournalTypeOK, Equipped, FoundedInv, NEW c \in Actors,
         JournalStep(c) \/ Interrupt(c), NEW r, Answer(c, r),
         UNCHANGED <<diskVars, acked>>
  PROVE  FoundedInv'
<1>1. /\ UNCHANGED filesVars
      /\ journal' = journal /\ acked' = acked
  BY DEF diskVars
<1>2. step'[c] = "idle" /\ txn'[c] = Null /\ seen'[c] = NothingSeen
  BY DEF Answer, JournalTypeOK
<1>3. Calm(c)'
  BY <1>2 DEF Calm, Kinds, Moving, Laid, Planned, Viewing, Underway
<1> QED
  BY <1>1, <1>2, <1>3, FilesStand DEF Founding, Locked, Underway

LEMMA BeginStands ==
  ASSUME JournalTypeOK, Equipped, FoundedInv, NEW c \in Actors, Ask(c)
  PROVE  FoundedInv'
<1>1. PICK q \in Requests : q.kind \in Asks[c] /\ Free(q) /\ Begin(c, q)
  BY DEF Ask
<1>2. /\ UNCHANGED filesVars
      /\ journal' = journal /\ acked' = acked
      /\ step[c] = "idle"
      /\ step'[c] = IF q.kind = "create" THEN "inspect" ELSE "recover"
      /\ request'[c] = q
      /\ outcome'[c] = "none"
      /\ txn'[c] = txn[c] /\ seen'[c] = seen[c]
  BY <1>1 DEF Begin, Move, diskVars, historyVars, JournalTypeOK
<1>3. Locked(c)' => \A d \in Actors : ~Locked(d)
  BY <1>1, <1>2, JournalAssumption DEF Free, Locked
<1>4. Calm(c)'
  BY <1>1, <1>2 DEF FoundedInv, Calm, Kinds, Moving, Laid, Planned, Viewing, Underway
<1> QED
  BY <1>2, <1>3, <1>4, FilesStand DEF Founding, Underway

(* To the first step of a commit, under a fresh UUID. *)
LEMMA StageBeginStands ==
  ASSUME JournalTypeOK, Equipped, FoundedInv, NEW c \in Actors,
         InspectEmpty(c) \/ CheckFree(c)
  PROVE  FoundedInv'
<1>1. /\ UNCHANGED filesVars
      /\ journal' = journal /\ acked' = acked
      /\ step[c] \in {"inspect", "check"}
      /\ step'[c] = "stage"
      /\ UNCHANGED <<request, at, seen, outcome>>
  BY DEF InspectEmpty, CheckFree, Move, diskVars, historyVars, JournalTypeOK
<1>2. txn'[c] \in FreshUuids
  BY DEF InspectEmpty, CheckFree, JournalTypeOK
<1>3. at[c] = ReceiptFile
  BY <1>1 DEF Equipped
<1>4. CheckFree(c) => receipt' = receipt /\ receipts[receipt[c].revision] = Null
  BY DEF CheckFree
<1>5. InspectEmpty(c) => request[c].kind = "create"
  BY DEF FoundedInv, Calm, Kinds, InspectEmpty, Move
<1>6. CheckFree(c) => step[c] = "check"
  BY DEF CheckFree, Move
<1>7. ASSUME Published' \subseteq Published PROVE Calm(c)'
  <2>1. Calm(c)
    BY DEF FoundedInv
  <2>2. Kinds(c)' /\ Moving(c)' /\ Viewing(c)'
    BY <1>1, <2>1 DEF Calm, Kinds, Moving, Viewing, Underway
  <2>3. Laid(c)'
    BY <1>1, <1>3 DEF Laid, Files, ReceiptFile, ProjectFile
  <2>4. Planned(c)'
    <3> SUFFICES ASSUME request[c].kind # "create" PROVE Planned(c)'
      BY <1>1 DEF Planned
    <3>1. Planned(c) /\ step[c] = "check" /\ receipt' = receipt
      BY <1>4, <1>5, <1>6, <2>1 DEF Calm
    <3>2. receipts[receipt[c].revision] = Null
      BY <1>4, <1>5
    <3> QED
      BY <1>1, <1>7, <3>1, <3>2 DEF Planned, AllInPlace, AllPlaced, Placed, filesVars
  <2> QED
    BY <2>2, <2>3, <2>4 DEF Calm
<1> QED
  BY <1>1, <1>2, <1>7, FilesStand DEF Founding, Underway, Locked, JournalStep

(* Recovery, but for its renames. *)
LEMMA RecoveryStands ==
  ASSUME JournalTypeOK, Equipped, FoundedInv, NEW c \in Actors,
         RecoverNothing(c) \/ RecoverBegin(c) \/ RedoSkip(c) \/ RedoFind(c)
  PROVE  FoundedInv'
<1>1. /\ UNCHANGED filesVars
      /\ journal' = journal /\ acked' = acked
      /\ step[c] \in {"recover", "redo"}
      /\ step'[c] \in {"read", "redo", "move"}
      /\ UNCHANGED <<request, seen, outcome>>
  BY DEF RecoverNothing, RecoverBegin, RedoSkip, RedoFind, Move, diskVars,
         historyVars, JournalTypeOK
<1>2. Calm(c) /\ request[c].kind # "create" /\ seen[c] = NothingSeen
  BY <1>1 DEF FoundedInv, Calm, Kinds
<1>3. Kinds(c)' /\ Laid(c)' /\ Planned(c)'
  BY <1>1, <1>2 DEF Calm, Kinds, Laid, Planned
<1>4. CASE RecoverNothing(c)
  <2>1. /\ step[c] = "recover" /\ step'[c] = "read"
        /\ UNCHANGED <<journal, receipt, txn, at>>
        /\ journal = Null
    BY <1>4 DEF RecoverNothing, Move, diskVars, JournalTypeOK
  <2>2. \A d \in Actors : step[d] \in Underway => Founding(d)
    BY <1>2, <2>1 DEF FoundedInv, OneLocked, Locked, Founding, Calm, Kinds, Underway
  <2>3. project # Null => AllInPlace
    BY <2>1, <2>2, PublishedIs DEF FoundedInv, DiskInv, Founded, AllInPlace
  <2>4. ASSUME Published' \subseteq Published PROVE Calm(c)'
    <3>1. Moving(c)'
      BY <2>1 DEF Moving, Underway
    <3>2. Viewing(c)'
      BY <1>1, <1>2, <2>3, <2>4
         DEF Viewing, NothingSeen, AllInPlace, AllPlaced, Placed, filesVars
    <3> QED
      BY <1>3, <3>1, <3>2 DEF Calm
  <2> QED
    BY <1>1, <1>2, <2>1, <2>4, FilesStand DEF Founding, Underway, Locked, JournalStep
<1>5. CASE RecoverBegin(c)
  <2>1. /\ step[c] = "recover" /\ step'[c] = "redo"
        /\ receipt'[c] = journal.receipt /\ txn'[c] = journal.txn
        /\ UNCHANGED <<journal, at>>
        /\ journal # Null
    BY <1>5 DEF RecoverBegin, Move, diskVars, JournalTypeOK
  <2>2. CommitOf(c)' = journal
    BY <2>1 DEF CommitOf, JournalTypeOK
  <2>3. CommitOf(c)' \in Published
    BY <2>1, <2>2, PublishedIs
  <2>4. at[c] = ReceiptFile
    BY <2>1 DEF Equipped
  <2>5. Moving(c)'
    BY <2>1, <2>2, <2>4 DEF Moving, Files, ReceiptFile, ProjectFile
  <2>6. Viewing(c)'
    BY <2>1 DEF Viewing
  <2> QED
    BY <1>1, <1>2, <1>3, <2>1, <2>3, <2>5, <2>6, FilesStand
       DEF Calm, Founding, Locked, JournalStep
<1>6. CASE RedoSkip(c) \/ RedoFind(c)
  <2>1. /\ step[c] = "redo" /\ step'[c] \in {"redo", "move"}
        /\ UNCHANGED <<journal, receipt, txn>>
        /\ \/ at'[c] = at[c]
           \/ Moved(c, at[c]) /\ at'[c] = at[c] + 1
        /\ at[c] \in Files
    BY <1>6 DEF RedoSkip, RedoFind, Move, NextFile, Moved, diskVars, JournalTypeOK
  <2>2. UNCHANGED staged
    BY <1>1 DEF filesVars
  <2>3. CommitOf(c)' = CommitOf(c) /\ CommitOf(c) \in Published
    BY <2>1, PublishedIs DEF CommitOf, Underway
  <2>4. Moving(c)'
    <3>1. Moving(c)
      BY <1>2 DEF Calm
    <3>2. \A f \in Files : f < at'[c] => Moved(c, f)
      BY <2>1, <3>1 DEF Moving, Underway, Files, ReceiptFile, ProjectFile
    <3> QED
      BY <1>1, <2>1, <2>2, <2>3, <3>1, <3>2 DEF Moving, Underway, Moved
  <2>5. Viewing(c)'
    BY <2>1 DEF Viewing
  <2> QED
    BY <1>1, <1>2, <1>3, <2>1, <2>3, <2>4, <2>5, FilesStand
       DEF Calm, Founding, Locked, JournalStep
<1> QED
  BY <1>4, <1>5, <1>6

LEMMA RedoDoneStands ==
  ASSUME JournalTypeOK, Equipped, FoundedInv, NEW c \in Actors, RedoDone(c)
  PROVE  FoundedInv'
<1>1. /\ UNCHANGED filesVars
      /\ journal' = Null /\ acked' = acked
      /\ step[c] = "redo" /\ step'[c] = "read"
      /\ txn'[c] = Null /\ at[c] \notin Files
      /\ UNCHANGED <<request, seen, outcome>>
  BY DEF RedoDone, Move, historyVars, JournalTypeOK
<1>2. Calm(c) /\ request[c].kind # "create" /\ seen[c] = NothingSeen
  BY <1>1 DEF FoundedInv, Calm, Kinds
<1>3. CommitOf(c) \in Published
  BY <1>1, PublishedIs DEF Underway
<1>4. \A f \in Files : Moved(c, f)
  BY <1>1, <1>2 DEF Calm, Moving, Underway, Files, ReceiptFile, ProjectFile, JournalTypeOK
<1>5. project # Null
  BY <1>3, <1>4 DEF FoundedInv, DiskInv, Kept, Placed, CommitOf, Moved, Files,
                    ReceiptFile, ProjectFile
<1>6. \A d \in Actors : Founding(d) => AllPlaced(CommitOf(d))
  BY <1>5 DEF FoundedInv, DiskInv, Founded
<1>7. ASSUME Published' \subseteq Published PROVE Calm(c)'
  <2>1. \A d \in Actors : d # c => Untouched(d)
    BY OthersUntouched DEF JournalStep
  <2>2. \A d \in Actors : d # c /\ step[d] \in Underway => Founding(d)
    BY <1>1, <1>2 DEF FoundedInv, OneLocked, Locked, Founding, Calm, Kinds, Underway
  <2>3. \A t \in Published' : AllPlaced(t)
    <3> SUFFICES ASSUME NEW t \in Published' PROVE AllPlaced(t)
      OBVIOUS
    <3>1. PICK d \in Actors : step'[d] \in Underway /\ t = CommitOf(d)'
      BY <1>1, PublishedIs
    <3>2. d # c
      BY <1>1, <3>1 DEF Underway
    <3>3. Founding(d) /\ t = CommitOf(d)
      BY <2>1, <2>2, <3>1, <3>2 DEF Untouched, CommitOf
    <3> QED
      BY <1>6, <3>3
  <2>4. AllInPlace'
    BY <1>1, <2>3 DEF AllInPlace, AllPlaced, Placed, filesVars
  <2> QED
    BY <1>1, <1>2, <2>4 DEF Calm, Kinds, Moving, Laid, Planned, Viewing, Underway,
                            NothingSeen
<1> QED
  BY <1>1, <1>2, <1>5, <1>7, FilesStand DEF Founding, Underway, Locked, JournalStep

LEMMA ReadStands ==
  ASSUME JournalTypeOK, Equipped, FoundedInv, NEW c \in Actors,
         ReadProject(c) \/ ReadSpec(c) \/ ReadHistory(c)
  PROVE  FoundedInv'
<1>1. /\ UNCHANGED filesVars
      /\ UNCHANGED <<project, mapspec, receipts, staged>>
      /\ journal' = journal /\ acked' = acked
      /\ step[c] = "read"
      /\ UNCHANGED <<step, request, receipt, txn, at, outcome>>
      /\ seen'[c].project \in {seen[c].project, project}
      /\ seen'[c].mapspec \in {seen[c].mapspec, mapspec}
      /\ seen'[c].receipts \in {seen[c].receipts, receipts}
  BY DEF ReadProject, ReadSpec, ReadHistory, diskVars, filesVars, historyVars,
         JournalTypeOK
<1>2. Calm(c)
  BY DEF FoundedInv
<1>3. ASSUME Published' \subseteq Published PROVE Calm(c)'
  <2>1. AllInPlace => AllInPlace'
    BY <1>1, <1>3 DEF AllInPlace, AllPlaced, Placed
  <2>2. Viewing(c)'
    BY <1>1, <1>2, <2>1 DEF Calm, Viewing, NoReceipts
  <2> QED
    BY <1>1, <1>2, <2>2 DEF Calm, Kinds, Moving, Laid, Planned, Underway
<1> QED
  BY <1>1, <1>3, FilesStand DEF Founding, Underway, Locked, JournalStep

(* What a call has when its three reads agree. *)
LEMMA SeenIsCurrent ==
  ASSUME JournalTypeOK, FoundedInv, NEW c \in Actors, HasState(c)
  PROVE  /\ seen[c].project = project /\ project # Null
         /\ seen[c].mapspec = mapspec
         /\ seen[c].receipts = receipts
         /\ AllInPlace
<1>1. step[c] = "read" /\ Viewing(c)
  BY DEF HasState, HasRead, FoundedInv, Calm
<1>2. History(NoReceipts) = {}
  BY DEF History, NoReceipts
<1>3. seen[c].receipts # NoReceipts
  BY <1>2 DEF HasState, Readable, Connected
<1> QED
  BY <1>1, <1>3 DEF Viewing, HasState, HasRead

LEMMA PlanStands ==
  ASSUME JournalTypeOK, Equipped, FoundedInv, NEW c \in Actors, Plan(c)
  PROVE  FoundedInv'
<1>1. /\ UNCHANGED filesVars
      /\ journal' = journal /\ acked' = acked
      /\ step[c] = "read" /\ step'[c] = "check"
      /\ UNCHANGED <<request, txn, at, outcome>>
      /\ seen'[c] = NothingSeen
      /\ request[c].base = seen[c].project
  BY DEF Plan, HasState, HasRead, diskVars, historyVars, JournalTypeOK
<1>2. PICK m \in Contents, k \in 1..MaxBatch :
        receipt'[c] = Successor(request[c], seen[c], m, k)
  BY DEF Plan, Reachable, JournalTypeOK
<1>3. receipt'[c].previous = seen[c].project
  BY <1>2 DEF Successor
<1>4. /\ seen[c].project = project /\ project # Null /\ AllInPlace
  BY SeenIsCurrent DEF Plan
<1>5. request[c].kind # "create" /\ Calm(c)
  BY <1>1 DEF FoundedInv, Calm, Kinds
<1>6. ASSUME Published' \subseteq Published PROVE Calm(c)'
  <2>1. UNCHANGED <<project, staged>>
    BY <1>1 DEF filesVars
  <2>2. AllInPlace'
    BY <1>4, <1>6, <2>1 DEF AllInPlace, AllPlaced, Placed
  <2>3. Planned(c)'
    BY <1>1, <1>3, <1>4, <2>1, <2>2 DEF Planned
  <2> QED
    BY <1>1, <1>5, <2>3 DEF Calm, Kinds, Moving, Laid, Viewing, Underway
<1> QED
  BY <1>1, <1>5, <1>6, FilesStand DEF Founding, Underway, Locked, JournalStep

LEMMA ClearStands ==
  ASSUME JournalTypeOK, Equipped, FoundedInv, NEW c \in Actors, Clear(c)
  PROVE  FoundedInv'
<1>1. /\ UNCHANGED filesVars
      /\ journal' = Null /\ acked' = acked \cup {receipt[c]}
      /\ step[c] = "clear" /\ step'[c] = "idle"
      /\ txn'[c] = Null /\ seen'[c] = NothingSeen
  BY DEF Clear, Answer, JournalTypeOK
<1>2. CommitOf(c) \in Published /\ Kept(CommitOf(c))
  BY <1>1, PublishedIs DEF Underway, FoundedInv, DiskInv
<1>3. \A f \in Files : Moved(c, f)
  BY <1>1 DEF FoundedInv, Calm, Moving, Underway
<1>4. project # Null /\ receipts[receipt[c].revision] = receipt[c]
  BY <1>2, <1>3 DEF Kept, Placed, CommitOf, Moved, Files, ReceiptFile, ProjectFile
<1>5. Calm(c)'
  BY <1>1 DEF Calm, Kinds, Moving, Laid, Planned, Viewing, Underway
<1> QED
  BY <1>1, <1>4, <1>5, FilesStand DEF Founding, Locked, Underway, JournalStep

(* A file is staged under a UUID that no published commit has. *)
LEMMA StageFounded ==
  ASSUME CreatesFirst, JournalTypeOK, Equipped, FoundedInv, NEW c \in Actors, Stage(c)
  PROVE  FoundedInv'
<1>1. /\ step[c] = "stage" /\ step'[c] \in {"stage", "publish"}
      /\ UNCHANGED <<project, mapspec, receipts, journal, acked>>
      /\ UNCHANGED <<request, receipt, txn, seen, outcome>>
      /\ staged' = staged \cup {<<txn[c], at[c]>>}
  BY DEF Stage, historyVars, JournalTypeOK
<1>2. \A d \in Actors : d # c => Untouched(d)
  BY OthersUntouched DEF JournalStep
<1>3. Published' = Published
  <2>1. \A d \in Actors : step'[d] \in Underway <=> step[d] \in Underway
    BY <1>1, <1>2 DEF Untouched, Underway
  <2>2. \A d \in Actors : CommitOf(d)' = CommitOf(d)
    BY <1>1, <1>2 DEF Untouched, CommitOf
  <2>3. \A t : t \in Published' <=> t \in Published
    BY <1>1, <2>1, <2>2, PublishedIs
  <2> QED
    BY <2>3
<1>4. \A t \in Published : t.txn # txn[c]
  BY <1>1, PublishedIs DEF FoundedInv, OwnUuids, Underway, CommitOf
<1>5. \A t \in Published, f \in Files : Placed(t, f)' <=> Placed(t, f)
  BY <1>1, <1>4 DEF Placed
<1>6. \A t \in Published : AllPlaced(t)' <=> AllPlaced(t)
  BY <1>5 DEF AllPlaced
<1>7. AllInPlace => AllInPlace'
  BY <1>3, <1>6 DEF AllInPlace
<1> USE DEF FoundedInv, DiskInv
<1>8. InTurn'
  BY <1>3, <1>6 DEF InTurn
<1>9. \A t \in Published' : Kept(t)'
  BY <1>1, <1>3, <1>5 DEF Kept, Files, ReceiptFile, ProjectFile
<1>10. Ground'
  <2>1. \A f \in Files : Pending(f)' <=> Pending(f)
    BY <1>1 DEF OwnUuids, Pending
  <2> QED
    BY <1>1, <2>1 DEF Ground, Files, ReceiptFile, SpecFile, ProjectFile
<1>11. Founded'
  <2> SUFFICES ASSUME project # Null, NEW d \in Actors, Founding(d)'
               PROVE  AllPlaced(CommitOf(d))'
    BY <1>1 DEF Founded
  <2>1. d # c
    BY <1>1 DEF Founding
  <2>2. Founding(d) /\ CommitOf(d)' = CommitOf(d)
    BY <1>2, <2>1 DEF Untouched, Founding, CommitOf
  <2>3. CommitOf(d) \in Published
    BY <2>2, PublishedIs DEF Founding, Underway
  <2> QED
    BY <1>6, <2>2, <2>3 DEF Founded
<1>12. OneLocked' /\ OwnUuids'
  BY <1>1, <1>2 DEF OneLocked, Locked, OwnUuids, Untouched
<1>13. Calm(c)'
  <2>1. Calm(c) /\ at[c] \in Files
    BY <1>1 DEF Equipped
  <2>2. Kinds(c)' /\ Moving(c)' /\ Viewing(c)'
    BY <1>1, <2>1 DEF Calm, Kinds, Moving, Viewing, Underway
  <2>3. Laid(c)'
    <3>1. Laid(c)
      BY <2>1 DEF Calm
    <3>2. CASE at[c] = ProjectFile
      BY <1>1, <3>1, <3>2 DEF Laid, Unmoved, Files, ReceiptFile, ProjectFile
    <3>3. CASE at[c] # ProjectFile
      <4>1. step'[c] = "stage" /\ at'[c] = at[c] + 1
        BY <1>1, <3>3 DEF Stage, NextFile, JournalTypeOK
      <4> QED
        BY <1>1, <2>1, <3>1, <4>1 DEF Laid, Unmoved, Files, ReceiptFile, ProjectFile
    <3> QED
      BY <3>2, <3>3
  <2>4. Planned(c)'
    BY <1>1, <1>7, <2>1 DEF Calm, Planned
  <2> QED
    BY <2>2, <2>3, <2>4 DEF Calm
<1>14. ASSUME NEW d \in Actors, d # c PROVE Calm(d)'
  <2>1. Calm(d) /\ Untouched(d)
    BY <1>2, <1>14
  <2>2. Kinds(d)'
    BY <2>1 DEF Calm, Untouched, Kinds
  <2>3. Moving(d)'
    <3>1. step[d] \in Underway => txn[d] # txn[c]
      BY <1>1, <1>14 DEF OwnUuids
    <3> QED
      BY <1>1, <2>1, <3>1 DEF Calm, Untouched, Moving, Moved, CommitOf
  <2>4. Laid(d)'
    BY <1>1, <2>1 DEF Calm, Untouched, Laid, Unmoved
  <2>5. Planned(d)' /\ Viewing(d)'
    BY <1>1, <1>7, <2>1 DEF Calm, Untouched, Planned, Viewing
  <2> QED
    BY <2>2, <2>3, <2>4, <2>5 DEF Calm
<1> QED
  BY <1>8, <1>9, <1>10, <1>11, <1>12, <1>13, <1>14

(* The commit point: all other commits have their files in place. *)
LEMMA PublishFounded ==
  ASSUME CreatesFirst, JournalTypeOK, Equipped, FoundedInv, NEW c \in Actors, Publish(c)
  PROVE  FoundedInv'
<1>0. PICK own : own = CommitOf(c)
  OBVIOUS
<1>1. /\ step[c] = "publish" /\ step'[c] = "rename"
      /\ UNCHANGED <<project, mapspec, receipts, staged, acked>>
      /\ UNCHANGED <<request, receipt, txn, at, seen, outcome>>
      /\ journal' = own
  BY <1>0 DEF Publish, Move, CommitOf, filesVars, historyVars, JournalTypeOK
<1>2. \A d \in Actors : d # c => Untouched(d)
  BY OthersUntouched DEF JournalStep
<1>3. receipt[c] \in Receipt /\ txn[c] \in Uuids /\ at[c] = ReceiptFile
  BY <1>1 DEF Equipped, Committing
<1>4. /\ own # Null
      /\ own.txn = txn[c] /\ own.receipt = receipt[c]
      /\ CommitOf(c)' = own
  BY <1>0, <1>1, <1>3, JournalAssumption DEF CommitOf
<1>5. Published' \subseteq Published \cup {own}
  BY <1>0, <1>1, <1>2, <1>4, PublishedIs DEF Untouched, CommitOf
<1> USE DEF FoundedInv, DiskInv
<1>6. \A t \in Published : t.txn # txn[c]
  BY <1>1, PublishedIs DEF OwnUuids, Underway, CommitOf
<1>7. \A f \in Files : ~Placed(own, f)
  BY <1>1, <1>4 DEF Calm, Laid, Placed, Unmoved
<1>8. \A t, f : Placed(t, f)' <=> Placed(t, f)
  BY <1>1 DEF Placed
<1>9. \A t : AllPlaced(t)' <=> AllPlaced(t)
  BY <1>8 DEF AllPlaced
<1>10. OneLocked' /\ OwnUuids'
  <2>1. OneLocked'
    BY <1>1, <1>2 DEF OneLocked, Locked, Untouched
  <2>2. OwnUuids'
    BY <1>1, <1>2, <1>4 DEF OwnUuids, Untouched
  <2> QED
    BY <2>1, <2>2
(* Either the directory is empty, or a project is there. *)
<1>11. CASE project = Null
  <2>1. request[c].kind = "create"
    BY <1>1, <1>11 DEF Calm, Planned
  <2>2. Virgin
    BY <1>1, <2>1 DEF CreatesFirst
  <2>3. Published = {}
    BY <1>11, <2>2, PublishedTypes DEF Kept, Virgin
  <2>4. Published' = {own}
    BY <1>1, <1>4, <1>5, <2>3, PublishedIs
  <2>5. receipt[c].revision \in Revisions /\ receipts[receipt[c].revision] = Null
    BY <1>3, <2>2 DEF Virgin, Receipt
  <2>6. InTurn'
    BY <2>4 DEF InTurn
  <2>7. \A t \in Published' : Kept(t)'
    <3>1. ~Placed(own, ReceiptFile) /\ ~Placed(own, ProjectFile)
      BY <1>7 DEF Files, ReceiptFile, ProjectFile
    <3>2. Kept(own)'
      BY <1>1, <1>4, <1>7, <1>8, <2>5, <3>1 DEF Kept
    <3> QED
      BY <2>4, <3>2
  <2>8. Ground'
    BY <1>1, <2>2 DEF Ground, Virgin
  <2>9. Founded'
    BY <1>1, <1>11 DEF Founded
  <2>10. \A d \in Actors : step[d] \notin Underway
    BY <2>3, PublishedIs
  <2>11. ASSUME NEW d \in Actors, d # c PROVE Calm(d)'
    <3>1. Calm(d) /\ Untouched(d)
      BY <1>2, <2>11
    <3> QED
      BY <1>1, <1>11, <2>10, <3>1
         DEF Calm, Untouched, Kinds, Moving, Laid, Planned, Viewing, Unmoved
  <2>12. Calm(c)'
    <3>1. Calm(c)
      OBVIOUS
    <3>2. Moving(c)'
      BY <1>1, <1>3, <1>4, <2>1 DEF Moving, Files, ReceiptFile, ProjectFile
    <3> QED
      BY <1>1, <2>1, <3>1, <3>2 DEF Calm, Kinds, Laid, Planned, Viewing
  <2> QED
    BY <1>10, <2>6, <2>7, <2>8, <2>9, <2>11, <2>12
<1>12. CASE project # Null
  <2>1. request[c].kind # "create"
    BY <1>1, <1>12 DEF CreatesFirst, Virgin
  <2>2. Locked(c)
    BY <1>1, <2>1 DEF Locked
  <2>3. AllInPlace /\ receipts[receipt[c].revision] = Null
    BY <1>1, <2>1 DEF Calm, Planned
  <2>4. \A t \in Published : AllPlaced(t)
    BY <2>3 DEF AllInPlace
  <2>5. InTurn'
    <3>1. \A t \in Published : t.txn # own.txn
      BY <1>4, <1>6
    <3> QED
      BY <1>5, <1>9, <2>4, <3>1 DEF InTurn
  <2>6. \A t \in Published' : Kept(t)'
    <3>1. ~Placed(own, ReceiptFile) /\ ~Placed(own, ProjectFile)
      BY <1>7 DEF Files, ReceiptFile, ProjectFile
    <3>2. Kept(own)'
      BY <1>1, <1>4, <1>7, <1>8, <1>12, <2>3, <3>1 DEF Kept
    <3>3. \A t \in Published : Kept(t)'
      BY <1>1, <1>8, <1>12 DEF Kept
    <3> QED
      BY <1>5, <3>2, <3>3
  <2>7. Ground'
    BY <1>1, <1>12 DEF Ground
  <2>8. Founded'
    <3> SUFFICES ASSUME NEW d \in Actors, Founding(d)'
                 PROVE  AllPlaced(CommitOf(d))'
      BY DEF Founded
    <3>1. d # c
      BY <1>1, <2>1 DEF Founding
    <3>2. Founding(d) /\ CommitOf(d)' = CommitOf(d)
      BY <1>2, <3>1 DEF Untouched, Founding, CommitOf
    <3>3. AllPlaced(CommitOf(d))
      BY <1>12, <3>2 DEF Founded
    <3> QED
      BY <1>9, <3>2, <3>3
  <2>9. ASSUME NEW d \in Actors, d # c PROVE Calm(d)'
    <3>1. Calm(d) /\ Untouched(d) /\ ~Locked(d)
      BY <1>2, <2>2, <2>9 DEF OneLocked
    <3>2. Kinds(d) /\ Kinds(d)'
      BY <3>1 DEF Calm, Untouched, Kinds
    <3>3. Moving(d)' /\ Laid(d)'
      BY <1>1, <3>1 DEF Calm, Untouched, Moving, Laid, Moved, Unmoved, Locked, Underway
    <3>4. Planned(d)' /\ Viewing(d)'
      BY <3>1, <3>2 DEF Untouched, Kinds, Planned, Viewing, Locked
    <3> QED
      BY <3>2, <3>3, <3>4 DEF Calm
  <2>10. Calm(c)'
    <3>1. Calm(c)
      OBVIOUS
    <3>2. Moving(c)'
      BY <1>1, <1>3, <1>4 DEF Moving, Files, ReceiptFile, ProjectFile
    <3> QED
      BY <1>1, <3>1, <3>2 DEF Calm, Kinds, Laid, Planned, Viewing
  <2> QED
    BY <1>10, <2>5, <2>6, <2>7, <2>8, <2>9, <2>10
<1> QED
  BY <1>11, <1>12

(* A file of the only commit that has files left is renamed into place. *)
LEMMA InstallFounded ==
  ASSUME JournalTypeOK, Equipped, FoundedInv, NEW c \in Actors,
         RedoMove(c) \/ Rename(c)
  PROVE  FoundedInv'
<1>0. PICK own : own = CommitOf(c)
  OBVIOUS
<1>1. PICK f \in Files : f = at[c]
  <2>1. step[c] \in {"move", "rename"}
    BY DEF RedoMove, Rename, Move
  <2> QED
    BY <2>1 DEF Equipped
<1>2. /\ step[c] \in {"move", "rename"} /\ step'[c] \in {"redo", "rename", "clear"}
      /\ step[c] = "move" <=> step'[c] = "redo"
      /\ step'[c] = "clear" <=> step[c] = "rename" /\ f = ProjectFile
      /\ at'[c] = f + 1
      /\ UNCHANGED <<journal, acked, request, receipt, txn, seen, outcome>>
      /\ Unmoved(c, f)
      /\ Install(c, f)
  BY <1>1 DEF RedoMove, Rename, Move, NextFile, Unmoved, historyVars, JournalTypeOK
<1>3. \A d \in Actors : d # c => Untouched(d)
  BY OthersUntouched DEF JournalStep
<1>4. /\ receipt[c] \in Receipt /\ txn[c] \in Uuids
      /\ receipt[c] # Null /\ SpecOf(receipt[c]) # Null
      /\ receipt[c].revision \in Revisions /\ receipt[c].revision # Null
  BY <1>2, JournalAssumption
     DEF Equipped, Committing, Receipt, SpecOf, Spec, Revisions
<1>5. /\ own.txn = txn[c] /\ own.receipt = receipt[c]
      /\ CommitOf(c)' = own
  BY <1>0, <1>2 DEF CommitOf
<1>6. Published' = Published /\ own \in Published
  <2>1. \A d \in Actors : step'[d] \in Underway <=> step[d] \in Underway
    BY <1>2, <1>3 DEF Untouched, Underway
  <2>2. \A d \in Actors : CommitOf(d)' = CommitOf(d)
    BY <1>2, <1>3 DEF Untouched, CommitOf
  <2>3. \A t : t \in Published' <=> t \in Published
    BY <1>2, <2>1, <2>2, PublishedIs
  <2> QED
    BY <1>0, <1>2, <2>3, PublishedIs DEF Underway
<1> USE DEF FoundedInv, DiskInv
<1>7. \A t, g : Placed(t, g)' <=> Placed(t, g) \/ (t.txn = txn[c] /\ g = f)
  BY <1>2 DEF Install, Placed
<1>8. ~Placed(own, f) /\ \A g \in Files : g < f => Placed(own, g)
  <2>1. \A g \in Files : g < f => Moved(c, g)
    BY <1>1, <1>2 DEF Calm, Moving, Underway
  <2> QED
    BY <1>2, <1>5, <2>1 DEF Placed, Moved, Unmoved
<1>9. \A t \in Published : t # own => AllPlaced(t)
  BY <1>6, <1>8 DEF InTurn, AllPlaced
<1>10. \A t : AllPlaced(t) => AllPlaced(t)'
  BY <1>7 DEF AllPlaced
<1>11. f = ProjectFile => AllPlaced(own)'
  BY <1>5, <1>7, <1>8 DEF AllPlaced, Files, ReceiptFile, ProjectFile
(* What is written. *)
<1>12. receipts' = IF f = ReceiptFile
                   THEN [receipts EXCEPT ![receipt[c].revision] = receipt[c]]
                   ELSE receipts
  BY <1>2 DEF Install
<1>13. f = ReceiptFile => receipts[receipt[c].revision] = Null
  BY <1>5, <1>6, <1>8 DEF Kept
<1>14. \A r \in Revisions : receipts[r] # Null => receipts'[r] = receipts[r]
  BY <1>4, <1>12, <1>13 DEF JournalTypeOK
<1>15. f # ReceiptFile => receipts[receipt[c].revision] = receipt[c]
  <2>1. f # ReceiptFile => Placed(own, ReceiptFile)
    BY <1>8 DEF Files, ReceiptFile, ProjectFile
  <2> QED
    BY <1>5, <1>6, <2>1 DEF Kept
<1>16. receipts'[receipt[c].revision] = receipt[c]
  BY <1>4, <1>12, <1>15 DEF JournalTypeOK
<1>17. project' = IF f = ProjectFile THEN receipt[c].revision ELSE project
  BY <1>2 DEF Install
<1>18. mapspec' = IF f = SpecFile THEN SpecOf(receipt[c]) ELSE mapspec
  BY <1>2 DEF Install
<1>19. project # Null => project' # Null
  BY <1>4, <1>17
(* The files. *)
<1>20. InTurn'
  BY <1>6, <1>9, <1>10 DEF InTurn
<1>21. ASSUME NEW t \in Published PROVE Kept(t)'
  <2>1. CASE t = own
    <3>1. \A g, h \in Files : g < h /\ ~Placed(own, g)' => ~Placed(own, h)'
      BY <1>5, <1>6, <1>7, <1>8 DEF Kept, Files, ReceiptFile, ProjectFile
    <3>2. Placed(own, ReceiptFile)'
      BY <1>5, <1>7, <1>8 DEF Files, ReceiptFile, ProjectFile
    <3>3. Placed(own, ProjectFile)' => project' # Null
      BY <1>4, <1>5, <1>6, <1>7, <1>17, <1>19 DEF Kept
    <3>4. project' = Null => own = journal'
      BY <1>2, <1>6, <1>19 DEF Kept
    <3> QED
      BY <1>5, <1>16, <2>1, <3>1, <3>2, <3>3, <3>4 DEF Kept
  <2>2. CASE t # own
    <3>1. AllPlaced(t) /\ AllPlaced(t)'
      BY <1>9, <1>10, <2>2
    <3>2. \A g \in Files : Placed(t, g) /\ Placed(t, g)'
      BY <3>1 DEF AllPlaced
    <3>3. receipts[t.receipt.revision] = t.receipt /\ project # Null
      BY <3>2 DEF Kept, Files, ReceiptFile, ProjectFile
    <3>4. receipts'[t.receipt.revision] = t.receipt
      BY <1>14, <3>3, PublishedTypes
    <3> QED
      BY <1>19, <3>2, <3>3, <3>4 DEF Kept, Files, ReceiptFile, ProjectFile
  <2> QED
    BY <2>1, <2>2
<1>22. Ground'
  <2>1. project' = Null =>
          /\ (journal' = Null \/ Pending(SpecFile)') => mapspec' = Null
          /\ (journal' = Null \/ Pending(ReceiptFile)')
               => \A r \in Revisions : receipts'[r] = Null
    <3> SUFFICES ASSUME project' = Null
                 PROVE  /\ (journal' = Null \/ Pending(SpecFile)') => mapspec' = Null
                        /\ (journal' = Null \/ Pending(ReceiptFile)')
                             => \A r \in Revisions : receipts'[r] = Null
      OBVIOUS
    <3>1. project = Null /\ own = journal /\ own # Null
      BY <1>6, <1>19, PublishedTypes DEF Kept
    <3>2. \A g : Pending(g)' <=> Pending(g) /\ g # f
      BY <1>2, <1>5, <3>1 DEF Pending, Install
    <3> QED
      BY <1>2, <1>8, <1>12, <1>18, <3>1, <3>2
         DEF Ground, Pending, Placed, Files, ReceiptFile, SpecFile, ProjectFile
  <2>2. mapspec' # Null =>
          /\ receipts'[mapspec'.revision] # Null
          /\ SpecOf(receipts'[mapspec'.revision]) = mapspec'
    <3>1. CASE f = SpecFile
      <4>1. mapspec' = SpecOf(receipt[c]) /\ mapspec'.revision = receipt[c].revision
        BY <1>18, <3>1 DEF SpecOf
      <4> QED
        BY <1>4, <1>16, <4>1
    <3>2. CASE f # SpecFile
      <4>1. mapspec' = mapspec
        BY <1>18, <3>2
      <4>2. mapspec # Null => mapspec.revision \in Revisions
        BY DEF JournalTypeOK, Spec
      <4> QED
        BY <1>14, <4>1, <4>2 DEF Ground
    <3> QED
      BY <3>1, <3>2
  <2>3. \A r \in acked' : receipts'[r.revision] = r
    <3> SUFFICES ASSUME NEW r \in acked PROVE receipts'[r.revision] = r
      BY <1>2
    <3>1. r \in Receipt /\ r # Null /\ r.revision \in Revisions
      BY JournalAssumption DEF JournalTypeOK, Receipt
    <3> QED
      BY <1>14, <3>1 DEF Ground
  <2> QED
    BY <2>1, <2>2, <2>3 DEF Ground
<1>23. Founded'
  <2> SUFFICES ASSUME project' # Null, NEW d \in Actors, Founding(d)'
               PROVE  AllPlaced(CommitOf(d))'
    BY DEF Founded
  <2>1. Founding(d) /\ CommitOf(d)' = CommitOf(d)
    BY <1>2, <1>3 DEF Untouched, Founding, CommitOf
  <2>2. CommitOf(d) \in Published
    BY <2>1, PublishedIs DEF Founding, Underway
  <2>3. CASE project # Null
    BY <1>10, <2>1, <2>3 DEF Founded
  <2>4. CASE project = Null
    <3>1. CommitOf(d) = own
      BY <1>6, <2>2, <2>4 DEF Kept
    <3>2. f = ProjectFile
      BY <1>17, <2>4
    <3> QED
      BY <1>11, <2>1, <3>1, <3>2
  <2> QED
    BY <2>3, <2>4
(* The calls. *)
<1>24. OneLocked' /\ OwnUuids'
  <2>1. \A d \in Actors : Locked(d)' <=> Locked(d)
    BY <1>2, <1>3 DEF Untouched, Locked
  <2>2. \A d \in Actors : txn'[d] = txn[d]
    BY <1>2
  <2>3. \A d \in Actors : step'[d] \in {"stage", "publish"}
          <=> step[d] \in {"stage", "publish"}
    BY <1>2, <1>3 DEF Untouched
  <2> QED
    BY <1>2, <2>1, <2>2, <2>3 DEF OneLocked, OwnUuids
<1>25. AllInPlace => AllInPlace'
  BY <1>6, <1>10 DEF AllInPlace
<1>26. Calm(c)'
  <2>1. Calm(c)
    OBVIOUS
  <2>2. Kinds(c)' /\ Laid(c)' /\ Planned(c)' /\ Viewing(c)'
    BY <1>2, <2>1 DEF Calm, Kinds, Laid, Planned, Viewing
  <2>3. \A g \in Files : step'[c] = "clear" \/ g < at'[c] => Moved(c, g)'
    BY <1>2, <1>5, <1>7, <1>8 DEF Moved, Placed, Files, ReceiptFile, ProjectFile
  <2>4. Moving(c)'
    BY <1>0, <1>2, <1>5, <2>1, <2>3 DEF Calm, Moving, Underway
  <2> QED
    BY <2>2, <2>4 DEF Calm
<1>27. ASSUME NEW d \in Actors, d # c PROVE Calm(d)'
  <2>1. Calm(d) /\ Untouched(d)
    BY <1>3, <1>27
  <2>2. Kinds(d) /\ Kinds(d)'
    BY <2>1 DEF Calm, Untouched, Kinds
  <2>3. Moving(d)'
    BY <1>2, <2>1 DEF Calm, Untouched, Moving, Moved, CommitOf, Install
  <2>4. Laid(d)'
    <3>1. step[d] \in {"stage", "publish"} => txn[d] # txn[c]
      BY <1>27 DEF OwnUuids
    <3> QED
      BY <1>2, <2>1, <3>1 DEF Calm, Untouched, Laid, Unmoved, Install
  (* Nobody reads or prepares a commit beside a rename, but before there is a project. *)
  <2>5. Locked(d) => project = Null /\ own = journal
    <3> SUFFICES ASSUME Locked(d) PROVE project = Null /\ own = journal
      OBVIOUS
    <3>1. Founding(c)
      BY <1>2, <1>27 DEF OneLocked, Locked, Founding, Calm, Kinds
    <3>2. project = Null
      BY <1>0, <1>8, <3>1 DEF Founded, AllPlaced
    <3> QED
      BY <1>6, <3>2 DEF Kept
  <2>6. Planned(d)'
    BY <2>1, <2>5 DEF Calm, Untouched, Planned, Locked
  <2>7. Viewing(d)'
    <3> SUFFICES ASSUME step[d] = "read" PROVE Viewing(d)'
      BY <2>1 DEF Untouched, Viewing
    <3>1. /\ project = Null /\ own = journal /\ own # Null
          /\ Viewing(d) /\ seen'[d] = seen[d]
      BY <1>6, <2>1, <2>2, <2>5, PublishedTypes DEF Kinds, Locked, Calm, Untouched
    <3>2. f = ReceiptFile => receipts = NoReceipts
      <4>1. f = ReceiptFile => Pending(ReceiptFile)
        BY <1>8, <3>1 DEF Pending, Placed
      <4> QED
        BY <3>1, <4>1 DEF Ground, NoReceipts, JournalTypeOK
    <3>3. f = SpecFile => mapspec = Null
      BY <1>8, <3>1 DEF Ground, Pending, Placed
    <3>4. project' # Null => AllInPlace'
      <4> SUFFICES ASSUME project' # Null, NEW t \in Published PROVE AllPlaced(t)'
        BY <1>6 DEF AllInPlace
      <4>1. f = ProjectFile /\ t = own
        BY <1>17, <3>1 DEF Kept
      <4> QED
        BY <1>11, <4>1
    <3>5. seen[d].receipts \in {Null, NoReceipts, receipts'}
      BY <1>12, <3>1, <3>2 DEF Viewing
    <3>6. seen[d].mapspec \in {Null, mapspec'}
      BY <1>18, <3>1, <3>3 DEF Viewing
    <3>7. seen[d].project \in {Null, project'}
      BY <3>1 DEF Viewing
    <3> QED
      BY <3>1, <3>4, <3>5, <3>6, <3>7 DEF Viewing, NoReceipts
  <2> QED
    BY <2>2, <2>3, <2>4, <2>6, <2>7 DEF Calm
<1> QED
  BY <1>6, <1>20, <1>21, <1>22, <1>23, <1>24, <1>26, <1>27

LEMMA FoundedStutters ==
  ASSUME FoundedInv, UNCHANGED journalVars
  PROVE  FoundedInv'
<1> USE DEF journalVars, diskVars, filesVars, callVars, historyVars
<1>1. UNCHANGED <<project, mapspec, receipts, staged, journal, acked>>
  OBVIOUS
<1>2. UNCHANGED <<step, request, receipt, txn, at, seen, outcome>>
  OBVIOUS
<1>3. \A d \in Actors : Untouched(d) /\ CommitOf(d)' = CommitOf(d)
  BY <1>2 DEF Untouched, CommitOf
<1>4. Published' = Published
  <2>1. \A t : t \in Published' <=> t \in Published
    BY <1>1, <1>2, <1>3, PublishedIs
  <2> QED
    BY <2>1
<1>5. \A t, f : Placed(t, f)' <=> Placed(t, f)
  BY <1>1 DEF Placed
<1>6. \A t : AllPlaced(t)' <=> AllPlaced(t)
  BY <1>5 DEF AllPlaced
<1> USE DEF FoundedInv, DiskInv
<1>7. InTurn'
  BY <1>4, <1>6 DEF InTurn
<1>8. \A t \in Published' : Kept(t)'
  BY <1>1, <1>4, <1>5 DEF Kept
<1>9. Ground' /\ Founded'
  BY <1>1, <1>2, <1>3, <1>6 DEF Ground, Pending, Founded, Founding
<1>10. OneLocked' /\ OwnUuids'
  BY <1>1, <1>2 DEF OneLocked, Locked, OwnUuids
<1>11. \A d \in Actors : Calm(d)'
  BY <1>1, <1>3, <1>4, CallStays
<1> QED
  BY <1>7, <1>8, <1>9, <1>10, <1>11

LEMMA FoundedInductive ==
  ASSUME CreatesFirst, JournalTypeOK, Equipped, FoundedInv, [JournalNext]_journalVars
  PROVE  FoundedInv'
<1>1. ASSUME NEW c \in Actors,
             \/ InspectTaken(c) \/ MoveGone(c) \/ ReadMissing(c) \/ ReadInvalid(c)
             \/ Open(c) \/ Conflict(c) \/ Fail(c) \/ CheckTaken(c)
             \/ RenameGone(c) \/ Interrupt(c)
      PROVE  FoundedInv'
  <2>1. /\ JournalStep(c) \/ Interrupt(c)
        /\ UNCHANGED <<diskVars, acked>>
        /\ \E r : Answer(c, r)
    BY <1>1 DEF JournalStep, InspectTaken, MoveGone, ReadMissing, ReadInvalid,
                Open, Conflict, Fail, CheckTaken, RenameGone, Interrupt, historyVars
  <2> QED
    BY <2>1, AnswerStands
<1> QED
  BY <1>1, BeginStands, StageBeginStands, RecoveryStands, RedoDoneStands,
     ReadStands, PlanStands, ClearStands, StageFounded, PublishFounded,
     InstallFounded, FoundedStutters DEF JournalNext, JournalStep

LEMMA FoundedInitially == JournalInit => FoundedInv
<1> SUFFICES ASSUME JournalInit PROVE FoundedInv
  OBVIOUS
<1> USE DEF JournalInit
<1>1. Published = {}
  BY DEF Published, Underway
<1>2. DiskInv
  BY <1>1 DEF DiskInv, InTurn, Ground, Founded, Founding
<1>3. OneLocked /\ OwnUuids /\ \A c \in Actors : Calm(c)
  BY DEF OneLocked, Locked, OwnUuids, Calm, Kinds, Moving, Laid, Planned, Viewing,
         Underway
<1> QED
  BY <1>2, <1>3 DEF FoundedInv

(* With all files in place there is nothing to recover. *)
LEMMA NothingLeft ==
  ASSUME JournalTypeOK, AllInPlace
  PROVE  /\ \A f \in Files : ~Pending(f)
         /\ RecoveredProject = project
         /\ RecoveredSpec = mapspec
         /\ RecoveredReceipts = receipts
<1>1. \A f \in Files : ~Pending(f)
  BY PublishedIs DEF AllInPlace, AllPlaced, Placed, Pending
<1> QED
  BY <1>1 DEF Files, ReceiptFile, SpecFile, ProjectFile, RecoveredProject,
              RecoveredSpec, RecoveredReceipts, JournalTypeOK

LEMMA FoundedInvPromises ==
  ASSUME JournalTypeOK, Equipped, FoundedInv
  PROVE  Promised
<1>1. AckedDurable
  <2> SUFFICES ASSUME NEW r \in acked PROVE RecoveredReceipts[r.revision] = r
    BY DEF AckedDurable
  <2>1. r \in Receipt /\ r # Null /\ r.revision \in Revisions
    BY JournalAssumption DEF JournalTypeOK, Receipt
  <2>2. receipts[r.revision] = r
    BY DEF FoundedInv, DiskInv, Ground
  <2>3. Pending(ReceiptFile) => receipts[journal.receipt.revision] = Null
    BY PublishedIs DEF Pending, FoundedInv, DiskInv, Kept, Placed
  <2> QED
    BY <2>1, <2>2, <2>3 DEF RecoveredReceipts
<1>2. ASSUME NEW c \in Actors, HasState(c)
      PROVE  /\ seen[c].project = RecoveredProject
             /\ seen[c].mapspec = RecoveredSpec
             /\ seen[c].receipts = RecoveredReceipts
             /\ SpecOf(seen[c].receipts[seen[c].project]) = seen[c].mapspec
  <2>1. /\ seen[c].project = project /\ project # Null
        /\ seen[c].mapspec = mapspec
        /\ seen[c].receipts = receipts
        /\ AllInPlace
    BY <1>2, SeenIsCurrent
  <2>2. /\ RecoveredProject = project
        /\ RecoveredSpec = mapspec
        /\ RecoveredReceipts = receipts
    BY <2>1, NothingLeft
  <2>3. mapspec # Null /\ mapspec.revision = project
    BY <1>2, <2>1 DEF HasState, Readable
  <2> QED
    BY <2>1, <2>2, <2>3 DEF FoundedInv, DiskInv, Ground
<1>3. ASSUME NEW c \in Actors, step[c] = "publish",
             request[c].kind \in {"apply", "restore"}
      PROVE  receipt[c].previous = request[c].base /\ project = request[c].base
  BY <1>3 DEF FoundedInv, Calm, Planned
<1>4. \A c \in Actors : step[c] = "read" => outcome[c] = "none"
  BY DEF FoundedInv, Calm, Kinds
<1> QED
  BY <1>1, <1>2, <1>3, <1>4 DEF Promised

-----------------------------------------------------------------------------
(***************************************************************************)
(* What the protocol promises.                                             *)
(***************************************************************************)

(* The invariant while creates run alone. *)
THEOREM CommitInvariant == JournalSpec /\ []CreatesAlone => []JournalInv
<1>1. /\ JournalTypeOK /\ Equipped /\ CommitInv
      /\ CreatesAlone /\ CreatesAlone' /\ [JournalNext]_journalVars
      => CommitInv'
  BY AloneAsksAlone, CommitInvInductive
<1> USE DEF JournalInv
<1> QED
  BY <1>1, JournalEquipped, CommitInvInitially, PTL DEF JournalSpec

(* The invariant while creates come first. *)
THEOREM FoundedInvariant == JournalSpec /\ []CreatesFirst => []FoundedInv
<1>1. /\ JournalTypeOK /\ Equipped /\ FoundedInv /\ CreatesFirst
      /\ [JournalNext]_journalVars
      => FoundedInv'
  BY FoundedInductive
<1> QED
  BY <1>1, JournalEquipped, FoundedInitially, PTL DEF JournalSpec

LEMMA PromisesHold ==
  JournalSpec /\ ([]CreatesAlone \/ []CreatesFirst) => [](JournalTypeOK /\ Promised)
<1>1. JournalInv => Promised
  BY CommitInvPromises DEF JournalInv
<1>2. JournalTypeOK /\ Equipped /\ FoundedInv => Promised
  BY FoundedInvPromises
<1> QED
  BY <1>1, <1>2, JournalEquipped, CommitInvariant, FoundedInvariant, PTL

(***************************************************************************)
(* What commitProjectState has acknowledged recovery never takes back, as  *)
(* long as creates either run alone or are the first to write in their     *)
(* directory -- beside any opens, applies, restores and recoveries then,   *)
(* even if a create removes the journal of another commit.                 *)
(***************************************************************************)
THEOREM AcksAreDurable ==
  JournalSpec /\ ([]CreatesAlone \/ []CreatesFirst) => []AckedDurable
<1>1. Promised => AckedDurable
  BY DEF Promised
<1> QED
  BY <1>1, PromisesHold, PTL

(***************************************************************************)
(* An apply or restore that commits was based on the current revision: the *)
(* comparison of base and current revision still holds when the journal is *)
(* published, several awaits later, although the create that made the      *)
(* project may still be at work without the lock.                          *)
(***************************************************************************)
THEOREM CommitsAreReviewed ==
  JournalSpec /\ ([]CreatesAlone \/ []CreatesFirst) => CommitsOnReviewedBase
<1>1. JournalTypeOK /\ Promised => Promised
  OBVIOUS
<1> QED
  BY <1>1, PromisesHold, PromisedReviewed, PTL

(***************************************************************************)
(* What an open returns was the project at one moment, although its reads  *)
(* are separate and a create may rename its files between them:            *)
(* recoverAndReadProject never puts two revisions together.                *)
(***************************************************************************)
THEOREM OpensReadCommitted ==
  JournalSpec /\ ([]CreatesAlone \/ []CreatesFirst) => OpenReadsCommitted
BY PromisesHold, PromisedReads, PTL DEF JournalSpec

-----------------------------------------------------------------------------
(***************************************************************************)
(* CommitJournal implements RevisionLog: whatever is cut short, each step  *)
(* of the code is the append of one revision to the log, or none.          *)
(***************************************************************************)

(***************************************************************************)
(* The log of a history.                                                   *)
(***************************************************************************)
EntryOf(r) == [kind |-> r.kind, revision |-> r.revision, content |-> r.content]

Numbered(rs, n) == CHOOSE r \in History(rs) : r.sequence = n - 1

Entries(rs) == [n \in 1..Cardinality(History(rs)) |-> EntryOf(Numbered(rs, n))]

LEMMA CommittedEntries ==
  /\ CommittedLog = IF mapspec = Null THEN <<>> ELSE Entries(RecoveredReceipts)
  /\ CommittedLog' =
       IF mapspec' = Null THEN <<>> ELSE Entries(RecoveredReceipts')
BY DEF CommittedLog, Entries, Numbered, EntryOf, History

(* There is a receipt of each number. *)
Counted(rs) ==
    \A n \in 1..Cardinality(History(rs)) :
        \E r \in History(rs) : r.sequence = n - 1

LEMMA NumberedIs ==
  ASSUME NEW rs \in [Revisions -> Receipt \cup {Null}], Connected(rs),
         NEW r \in History(rs), NEW n, r.sequence = n - 1
  PROVE  Numbered(rs, n) = r
<1>1. \A q \in History(rs) : q.sequence = r.sequence => q = r
  BY DEF Connected
<1>2. /\ Numbered(rs, n) \in History(rs)
      /\ Numbered(rs, n).sequence = n - 1
  BY DEF Numbered
<1> QED
  BY <1>1, <1>2

(* The log of a project that has just been created. *)
LEMMA FirstEntry ==
  ASSUME NEW rs \in [Revisions -> Receipt \cup {Null}], Connected(rs),
         NEW r \in Receipt, History(rs) = {r}
  PROVE  Counted(rs) /\ Entries(rs) = <<EntryOf(r)>>
<1>1. Cardinality(History(rs)) = 1
  BY FS_Singleton
<1>2. r.sequence = 0
  BY <1>1 DEF Connected, Receipt
<1>3. Numbered(rs, 1) = r
  BY <1>2, NumberedIs
<1>4. Counted(rs)
  BY <1>1, <1>2 DEF Counted
<1>5. Entries(rs) = [n \in 1..1 |-> EntryOf(r)]
  BY <1>1, <1>3 DEF Entries
<1> QED
  BY <1>4, <1>5

(* A receipt that follows the last one is appended to the log. *)
LEMMA NextEntry ==
  ASSUME NEW rs \in [Revisions -> Receipt \cup {Null}],
         NEW p \in Revisions, NEW m, Whole(p, m, rs), Counted(rs),
         \A s \in Revisions : rs[s] # Null => rs[s].revision = s,
         NEW r \in Receipt, rs[r.revision] = Null,
         r.previous = p, r.sequence = Cardinality(History(rs))
  PROVE  /\ Counted([rs EXCEPT ![r.revision] = r])
         /\ Entries([rs EXCEPT ![r.revision] = r]) =
              Append(Entries(rs), EntryOf(r))
<1> DEFINE rs2 == [rs EXCEPT ![r.revision] = r]
           H == History(rs)
           N == Cardinality(H)
<1>1. r.revision \in Revisions /\ r # Null
  BY JournalAssumption DEF Receipt
<1>2. rs2 \in [Revisions -> Receipt \cup {Null}]
  BY <1>1
<1>3. History(rs2) = H \cup {r}
  BY <1>1 DEF History
<1>4. Whole(r.revision, SpecOf(r), rs2)
  BY ContinuesWhole
<1> HIDE DEF rs2
<1>5. Connected(rs) /\ Connected(rs2)
  BY <1>4 DEF Whole, Readable
<1>6. IsFiniteSet(H) /\ N \in Nat
  BY HistoryIsFinite
<1>7. r \notin H
  BY <1>5, <1>6 DEF Connected
<1>8. Cardinality(History(rs2)) = N + 1
  BY <1>3, <1>6, <1>7, FS_AddElement
<1>9. ASSUME NEW n \in 1..N
      PROVE  /\ \E q \in History(rs2) : q.sequence = n - 1
             /\ Numbered(rs2, n) = Numbered(rs, n)
  <2>1. PICK q \in H : q.sequence = n - 1
    BY DEF Counted
  <2>2. Numbered(rs, n) = q
    BY <1>5, <2>1, NumberedIs
  <2>3. q \in History(rs2)
    BY <1>3
  <2>4. Numbered(rs2, n) = q
    BY <1>2, <1>5, <2>1, <2>3, NumberedIs
  <2> QED
    BY <2>1, <2>2, <2>3, <2>4
<1>10. r \in History(rs2) /\ r.sequence = (N + 1) - 1
  BY <1>3, <1>6
<1>11. Numbered(rs2, N + 1) = r
  BY <1>2, <1>5, <1>10, NumberedIs
<1> HIDE DEF H, N
<1>12. \A n \in 1..(N + 1) : n \in 1..N \/ n = N + 1
  BY <1>6
<1>13. Counted(rs2)
  BY <1>8, <1>9, <1>10, <1>12 DEF Counted
<1>14. Entries(rs) = [n \in 1..N |-> EntryOf(Numbered(rs, n))]
  BY DEF Entries, H, N
<1>15. Entries(rs2) = [n \in 1..(N + 1) |-> EntryOf(Numbered(rs2, n))]
  BY <1>8 DEF Entries
<1>16. Entries(rs2) = [n \in 1..(N + 1) |->
                         IF n = N + 1 THEN EntryOf(r) ELSE Entries(rs)[n]]
  BY <1>9, <1>11, <1>12, <1>14, <1>15
<1>17. Len(Entries(rs)) = N
  BY <1>6, <1>14
<1>18. Append(Entries(rs), EntryOf(r)) =
         [n \in 1..(N + 1) |-> IF n = N + 1 THEN EntryOf(r) ELSE Entries(rs)[n]]
  BY <1>6, <1>14, <1>17
<1> QED
  BY <1>13, <1>16, <1>18 DEF rs2

(* Every receipt has its entry, and the current one has the last. *)
LEMMA EntriesOf ==
  ASSUME NEW rs \in [Revisions -> Receipt \cup {Null}],
         NEW p \in Revisions, NEW m, Whole(p, m, rs)
  PROVE  /\ Len(Entries(rs)) = Cardinality(History(rs))
         /\ Entries(rs) # <<>>
         /\ Entries(rs)[Len(Entries(rs))] = EntryOf(rs[p])
         /\ \A r \in History(rs) :
              \E i \in 1..Len(Entries(rs)) : Entries(rs)[i] = EntryOf(r)
<1> DEFINE N == Cardinality(History(rs))
           E == Entries(rs)
<1>1. N \in Nat
  BY HistoryIsFinite
<1>2. Connected(rs) /\ rs[p] \in History(rs) /\ rs[p].sequence = N - 1
  BY DEF Whole, Readable, History
<1>3. E = [n \in 1..N |-> EntryOf(Numbered(rs, n))]
  BY DEF Entries
<1>4. \A r \in History(rs) : r.sequence \in Nat /\ r.sequence < N
  BY <1>2 DEF Connected, History, Receipt
<1> HIDE DEF N, E
<1>5. Len(E) = N
  BY <1>1, <1>3
<1>6. ASSUME NEW r \in History(rs)
      PROVE  r.sequence + 1 \in 1..N /\ E[r.sequence + 1] = EntryOf(r)
  <2>1. r.sequence + 1 \in 1..N /\ r.sequence = (r.sequence + 1) - 1
    BY <1>1, <1>4
  <2>2. Numbered(rs, r.sequence + 1) = r
    BY <1>2, <2>1, NumberedIs
  <2> QED
    BY <1>3, <2>1, <2>2
<1>7. E[N] = EntryOf(rs[p]) /\ N > 0
  <2>1. rs[p].sequence + 1 = N
    BY <1>1, <1>2
  <2>2. E[N] = EntryOf(rs[p]) /\ N \in 1..N
    BY <1>2, <1>6, <2>1
  <2> QED
    BY <2>2, <1>1
<1>8. E # <<>>
  BY <1>1, <1>5, <1>7
<1> QED
  BY <1>5, <1>6, <1>7, <1>8 DEF N, E

-----------------------------------------------------------------------------
(***************************************************************************)
(* What the refinement needs besides CommitInv: the numbers of the history *)
(* have no gap, only creates come before mapspec.json, and a prepared      *)
(* receipt is what Apply or Restore of the log ask for.                    *)
(***************************************************************************)
Creating ==
    mapspec = Null =>
        /\ \A r \in Revisions : receipts[r] # Null => receipts[r].kind = "create"
        /\ journal # Null => journal.receipt.kind = "create"

Prepared == {"check", "stage", "publish"}

Succeeds(c) ==
    /\ receipt[c].kind \in {"apply", "restore"}
    /\ receipt[c].revision > project
    /\ receipt[c].kind = "restore" =>
         /\ receipt[c].content # mapspec.content
         /\ \E r \in History(receipts) : r.content = receipt[c].content

Follows(c) ==
    step[c] \in Prepared =>
        IF request[c].kind = "create" THEN receipt[c].kind = "create"
                                      ELSE Succeeds(c)

LogInv ==
    /\ mapspec # Null => Counted(RecoveredReceipts)
    /\ Creating
    /\ \A c \in Actors : Follows(c)

(***************************************************************************)
(* What the steps that touch the files rely on, whoever else is at work.   *)
(***************************************************************************)
Orderly ==
    \A c \in Actors :
        /\ step[c] = "inspect" => request[c].kind = "create"
        /\ step[c] = "read" => request[c].kind # "create"
        /\ HasState(c) =>
             /\ seen[c].project = project
             /\ seen[c].mapspec = mapspec
             /\ seen[c].receipts = receipts
        /\ step[c] = "stage" => (journal # Null => journal.txn # txn[c])
        /\ step[c] = "publish" =>
             /\ \A f \in Files : Unmoved(c, f)
             /\ IF request[c].kind = "create" THEN FirstOf(c) ELSE NextOf(c)
        /\ step[c] \in {"move", "rename"} /\ Unmoved(c, at[c]) =>
             /\ OnJournal(c)
             /\ \A f \in Files : f < at[c] => Moved(c, f)
             /\ \A d \in Actors :
                  d # c /\ step[d] \in Prepared => request[d].kind = "create"
        /\ step[c] = "clear" \/ (step[c] = "redo" /\ at[c] \notin Files) =>
             /\ \A f \in Files : ~Pending(f)
             /\ mapspec # Null
             /\ receipts[receipt[c].revision] = receipt[c]

LEMMA CommitInvIsOrderly ==
  ASSUME CreatesAlone, JournalTypeOK, Equipped, CommitInv
  PROVE  Orderly
<1> SUFFICES ASSUME NEW c \in Actors
             PROVE
        /\ step[c] = "inspect" => request[c].kind = "create"
        /\ step[c] = "read" => request[c].kind # "create"
        /\ HasState(c) =>
             /\ seen[c].project = project
             /\ seen[c].mapspec = mapspec
             /\ seen[c].receipts = receipts
        /\ step[c] = "stage" => (journal # Null => journal.txn # txn[c])
        /\ step[c] = "publish" =>
             /\ \A f \in Files : Unmoved(c, f)
             /\ IF request[c].kind = "create" THEN FirstOf(c) ELSE NextOf(c)
        /\ step[c] \in {"move", "rename"} /\ Unmoved(c, at[c]) =>
             /\ OnJournal(c)
             /\ \A f \in Files : f < at[c] => Moved(c, f)
             /\ \A d \in Actors :
                  d # c /\ step[d] \in Prepared => request[d].kind = "create"
        /\ step[c] = "clear" \/ (step[c] = "redo" /\ at[c] \notin Files) =>
             /\ \A f \in Files : ~Pending(f)
             /\ mapspec # Null
             /\ receipts[receipt[c].revision] = receipt[c]
  BY DEF Orderly
<1>1. CallInv(c) /\ FilesInv /\ Serial
  BY DEF CommitInv
<1>2. /\ step[c] = "inspect" => request[c].kind = "create"
      /\ step[c] = "read" => request[c].kind # "create"
  BY <1>1 DEF CallInv, Asked
<1>3. HasState(c) =>
        /\ seen[c].project = project
        /\ seen[c].mapspec = mapspec
        /\ seen[c].receipts = receipts
  BY <1>1 DEF CallInv, Reading, HasState, HasRead
<1>4. step[c] = "stage" => (journal # Null => journal.txn # txn[c])
  BY <1>1 DEF CallInv, Staging
<1>5. step[c] = "publish" =>
        /\ \A f \in Files : Unmoved(c, f)
        /\ IF request[c].kind = "create" THEN FirstOf(c) ELSE NextOf(c)
  BY CommitInvPublishes
<1>6. step[c] \in {"move", "rename"} =>
        /\ OnJournal(c)
        /\ \A f \in Files : f < at[c] => Moved(c, f)
  BY <1>1 DEF CallInv, Redoing, Renaming
<1>7. step[c] # "idle" => \A d \in Actors : d # c => step[d] \notin Prepared
  BY <1>1 DEF Serial, Prepared
<1>8. ASSUME step[c] = "clear" \/ (step[c] = "redo" /\ at[c] \notin Files)
      PROVE  /\ \A f \in Files : ~Pending(f)
             /\ mapspec # Null
             /\ receipts[receipt[c].revision] = receipt[c]
  <2>1. receipt[c] \in Receipt
    BY <1>8 DEF Equipped, Committing
  <2>2. OnJournal(c) /\ \A f \in Files : Moved(c, f)
    BY <1>1, <1>8 DEF CallInv, Renaming, Redoing, JournalTypeOK, Files, ReceiptFile,
                      ProjectFile
  <2>3. \A f \in Files : ~Pending(f)
    BY <2>2, Settled
  <2>4. /\ mapspec = SpecOf(receipt[c])
        /\ receipts[receipt[c].revision] = receipt[c]
    BY <1>1, <2>2, <2>3 DEF FilesInv, InPlace, OnJournal, Files, ReceiptFile, SpecFile,
                            ProjectFile
  <2> QED
    BY <2>1, <2>3, <2>4, JournalAssumption DEF SpecOf, Spec, Receipt
<1> QED
  BY <1>2, <1>3, <1>4, <1>5, <1>6, <1>7, <1>8

(* What the others have prepared stays prepared. *)
LEMMA OthersFollow ==
  ASSUME LogInv, NEW c \in Actors, \A d \in Actors : d # c => Untouched(d),
         \/ UNCHANGED <<project, mapspec, receipts>>
         \/ \A d \in Actors :
              d # c /\ step[d] \in Prepared => request[d].kind = "create"
  PROVE  \A d \in Actors : d # c => Follows(d)'
<1> SUFFICES ASSUME NEW d \in Actors, d # c PROVE Follows(d)'
  OBVIOUS
<1>1. Follows(d) /\ Untouched(d)
  BY DEF LogInv
<1>2. CASE UNCHANGED <<project, mapspec, receipts>>
  BY <1>1, <1>2 DEF Follows, Untouched, Succeeds, History
<1>3. CASE step[d] \in Prepared => request[d].kind = "create"
  BY <1>1, <1>3 DEF Follows, Untouched
<1> QED
  BY <1>2, <1>3

LEMMA QuietStep ==
  ASSUME LogInv, UNCHANGED <<mapspec, receipts>>,
         journal' = journal \/ journal' = Null,
         RecoveredReceipts' = RecoveredReceipts,
         \A d \in Actors : Follows(d)'
  PROVE  LogInv' /\ CommittedLog' = CommittedLog
<1> DEFINE rs == RecoveredReceipts
<1>1. mapspec' = mapspec /\ rs' = rs
  OBVIOUS
<1>2. Creating'
  BY DEF LogInv, Creating
<1>3. /\ CommittedLog = IF mapspec = Null THEN <<>> ELSE Entries(rs)
      /\ CommittedLog' = IF mapspec' = Null THEN <<>> ELSE Entries(rs')
  BY CommittedEntries
<1> HIDE DEF rs
<1>4. CommittedLog' = CommittedLog
  BY <1>1, <1>3
<1>5. (mapspec # Null => Counted(RecoveredReceipts))'
  BY <1>1 DEF LogInv, rs, Counted, History
<1> QED
  BY <1>2, <1>4, <1>5 DEF LogInv

(* A file of the commit at work is renamed into place. *)
LEMMA InstallStep ==
  ASSUME JournalTypeOK, FilesInv, LogInv, NEW c \in Actors,
         receipt[c] \in Receipt, OnJournal(c), NEW f \in Files, Unmoved(c, f),
         Install(c, f), UNCHANGED journal, \A d \in Actors : Follows(d)'
  PROVE  LogInv' /\ [Log!LogNext]_CommittedLog
<1> DEFINE rs == RecoveredReceipts
           r == receipt[c]
<1>1. /\ journal # Null /\ journal' = journal /\ journal.receipt = r
      /\ Pending(f)
  BY DEF OnJournal, Pending, Unmoved
<1>2. rs' = rs /\ rs \in [Revisions -> Receipt \cup {Null}]
  BY <1>1, InstallKeepsRecovered DEF RecoveredReceipts, JournalTypeOK
<1>3. /\ CommittedLog = IF mapspec = Null THEN <<>> ELSE Entries(rs)
      /\ CommittedLog' = IF mapspec' = Null THEN <<>> ELSE Entries(rs')
  BY CommittedEntries
<1>4. SpecOf(r) # Null /\ r.revision \in Revisions
  BY JournalAssumption DEF SpecOf, Spec, Receipt
<1>5. Creating'
  BY <1>1, <1>4 DEF LogInv, Creating, Install, JournalTypeOK
<1>6. CASE mapspec # Null \/ f # SpecFile
  <2>1. mapspec' = Null <=> mapspec = Null
    BY <1>4, <1>6 DEF Install
  <2> HIDE DEF rs
  <2>2. CommittedLog' = CommittedLog
    BY <1>2, <1>3, <2>1
  <2>3. (mapspec # Null => Counted(RecoveredReceipts))'
    BY <1>2, <2>1 DEF LogInv, rs, Counted, History
  <2> QED
    BY <1>5, <2>2, <2>3 DEF LogInv
<1>7. CASE mapspec = Null /\ f = SpecFile
  <2>1. mapspec' # Null
    BY <1>4, <1>7 DEF Install
  <2>2. Connected(rs)
    <3>1. RecoveredSpec = SpecOf(r)
      BY <1>1, <1>7 DEF RecoveredSpec
    <3> QED
      BY <1>4, <3>1 DEF FilesInv, Recoverable, Whole, Readable
  <2>3. rs[r.revision] = r
    BY <1>1, <1>4 DEF FilesInv, InPlace, RecoveredReceipts
  <2>4. \A s \in Revisions : s # r.revision => rs[s] = Null
    BY <1>1, <1>7 DEF FilesInv, Uncreated, RecoveredReceipts
  <2>5. r # Null
    BY JournalAssumption
  <2> HIDE DEF rs
  <2>6. History(rs) = {r}
    BY <1>4, <2>3, <2>4, <2>5 DEF History
  <2>7. Counted(rs) /\ Entries(rs) = <<EntryOf(r)>>
    BY <1>2, <2>2, <2>6, FirstEntry
  <2>8. CommittedLog = <<>> /\ CommittedLog' = <<EntryOf(r)>>
    BY <1>2, <1>3, <1>7, <2>1, <2>7
  <2>9. EntryOf(r) \in Log!Entry /\ EntryOf(r).kind = "create"
    BY <1>1, <1>7 DEF LogInv, Creating, EntryOf, Log!Entry, Receipt, Revisions
  <2>10. Log!Create(EntryOf(r))
    BY <2>8, <2>9 DEF Log!Create
  <2>11. Log!LogNext
    BY <2>9, <2>10 DEF Log!LogNext
  <2>12. (mapspec # Null => Counted(RecoveredReceipts))'
    BY <1>2, <2>7 DEF rs, Counted, History
  <2> QED
    BY <1>5, <2>11, <2>12 DEF LogInv
<1> QED
  BY <1>6, <1>7

(* The journal is published: this is the append, except of a create. *)
LEMMA PublishStep ==
  ASSUME JournalTypeOK, Equipped, FilesInv, LogInv, NEW c \in Actors, Publish(c),
         \A f \in Files : Unmoved(c, f),
         IF request[c].kind = "create" THEN FirstOf(c) ELSE NextOf(c),
         \A d \in Actors : Follows(d)'
  PROVE  LogInv' /\ [Log!LogNext]_CommittedLog
<1> DEFINE r == receipt[c]
           rs2 == [receipts EXCEPT ![r.revision] = r]
<1>1. /\ step[c] = "publish"
      /\ journal' = [txn |-> txn[c], receipt |-> r]
      /\ UNCHANGED <<project, mapspec, receipts>>
  BY DEF Publish, Move, filesVars
<1>2. r \in Receipt
  BY <1>1 DEF Equipped, Committing
<1>3. RecoveredReceipts' = rs2
  BY PublishKeepsFiles
<1>4. /\ CommittedLog = IF mapspec = Null THEN <<>> ELSE Entries(RecoveredReceipts)
      /\ CommittedLog' = IF mapspec' = Null THEN <<>>
                         ELSE Entries(RecoveredReceipts')
  BY CommittedEntries
<1>5. CASE request[c].kind = "create"
  <2>1. mapspec = Null /\ r.kind = "create"
    BY <1>1, <1>5 DEF FirstOf, LogInv, Follows, Prepared
  <2>2. CommittedLog' = CommittedLog
    BY <1>1, <1>4, <2>1
  <2>3. Creating'
    BY <1>1, <2>1 DEF LogInv, Creating
  <2> QED
    BY <1>1, <2>1, <2>2, <2>3 DEF LogInv
<1>6. CASE request[c].kind # "create"
  <2>1. /\ RecoveredReceipts = receipts
        /\ Whole(project, mapspec, receipts)
        /\ r.previous = project
        /\ r.sequence = Cardinality(History(receipts))
        /\ receipts[r.revision] = Null
    BY <1>6 DEF NextOf
  <2>2. Succeeds(c)
    BY <1>1, <1>6 DEF LogInv, Follows, Prepared
  <2>3. /\ receipts \in [Revisions -> Receipt \cup {Null}]
        /\ project \in Revisions
        /\ mapspec # Null
        /\ SpecOf(receipts[project]) = mapspec
    BY <2>1 DEF JournalTypeOK, Whole, Readable
  <2>4. RecoveredReceipts = receipts
    BY <2>1
  <2>5. Counted(receipts)
    BY <2>3, <2>4 DEF LogInv
  <2>6. \A s \in Revisions : receipts[s] # Null => receipts[s].revision = s
    BY DEF FilesInv, Indexed
  <2>7. Counted(rs2) /\ Entries(rs2) = Append(Entries(receipts), EntryOf(r))
    BY <1>2, <2>1, <2>3, <2>5, <2>6, NextEntry
  <2> DEFINE L == Entries(receipts)
  <2>8. /\ L # <<>>
        /\ L[Len(L)] = EntryOf(receipts[project])
        /\ \A q \in History(receipts) : \E i \in 1..Len(L) : L[i] = EntryOf(q)
    BY <2>1, <2>3, EntriesOf
  <2> HIDE DEF L
  <2>9. CommittedLog = L /\ CommittedLog' = Append(L, EntryOf(r))
    BY <1>1, <1>3, <1>4, <2>3, <2>4, <2>7 DEF L
  <2>10. L[Len(L)].revision = project /\ L[Len(L)].content = mapspec.content
    <3>1. receipts[project].revision = project
      BY <2>1, <2>3, <2>6 DEF Whole, Readable
    <3> QED
      BY <2>3, <2>8, <3>1 DEF EntryOf, SpecOf
  <2>11. EntryOf(r) \in Log!Entry
    BY <1>2 DEF EntryOf, Log!Entry, Receipt, Revisions
  <2>12. /\ EntryOf(r).kind = r.kind
         /\ EntryOf(r).revision = r.revision
         /\ EntryOf(r).content = r.content
    BY DEF EntryOf
  <2>13. Log!Apply(EntryOf(r)) \/ Log!Restore(EntryOf(r))
    <3>1. CASE r.kind = "apply"
      BY <2>2, <2>8, <2>9, <2>10, <2>12, <3>1 DEF Succeeds, Log!Apply
    <3>2. CASE r.kind = "restore"
      <4>1. \E i \in 1..Len(L) : L[i].content = r.content
        <5>1. PICK q \in History(receipts) : q.content = r.content
          BY <2>2, <3>2 DEF Succeeds
        <5>2. PICK i \in 1..Len(L) : L[i] = EntryOf(q)
          BY <2>8
        <5>3. EntryOf(q).content = q.content
          BY DEF EntryOf
        <5> QED
          BY <5>1, <5>2, <5>3
      <4>2. \E i \in 1..Len(CommittedLog) :
              CommittedLog[i].content = EntryOf(r).content
        BY <2>9, <2>12, <4>1
      <4>3. EntryOf(r).revision > CommittedLog[Len(CommittedLog)].revision
        BY <2>2, <2>9, <2>10, <2>12 DEF Succeeds
      <4>4. EntryOf(r).content # CommittedLog[Len(CommittedLog)].content
        BY <2>2, <2>9, <2>10, <2>12, <3>2 DEF Succeeds
      <4> QED
        BY <2>8, <2>9, <2>12, <3>2, <4>2, <4>3, <4>4 DEF Log!Restore
    <3> QED
      BY <2>2, <3>1, <3>2 DEF Succeeds
  <2>14. Log!LogNext
    BY <2>11, <2>13 DEF Log!LogNext
  <2>15. Creating'
    BY <1>1, <2>3 DEF Creating
  <2>16. (mapspec # Null => Counted(RecoveredReceipts))'
    BY <1>3, <2>7 DEF Counted, History
  <2> QED
    BY <2>14, <2>15, <2>16 DEF LogInv
<1> QED
  BY <1>5, <1>6

(***************************************************************************)
(* Each step of the code leaves files that can be read, and is a step of   *)
(* the log or leaves the log as it is.                                     *)
(***************************************************************************)
LEMMA LogStep ==
  ASSUME JournalTypeOK, Equipped, FilesInv, Orderly, LogInv,
         [JournalNext]_journalVars
  PROVE  FilesInv' /\ LogInv' /\ [Log!LogNext]_CommittedLog
<1> DEFINE Goal == FilesInv' /\ LogInv' /\ [Log!LogNext]_CommittedLog
<1>1. ASSUME NEW c \in Actors, Ask(c) \/ JournalStep(c) \/ Interrupt(c),
             UNCHANGED <<diskVars, acked>>, step'[c] \in Prepared => Follows(c)'
      PROVE  Goal
  <2>1. FilesInv' /\ RecoveredReceipts' = RecoveredReceipts
    BY <1>1, FilesStay
  <2>2. UNCHANGED <<project, mapspec, receipts, journal>>
    BY <1>1 DEF diskVars, filesVars
  <2>3. Follows(c)'
    BY <1>1 DEF Follows
  <2>4. \A d \in Actors : d # c => Follows(d)'
    BY <1>1, <2>2, OthersUntouched, OthersFollow
  <2> QED
    BY <2>1, <2>2, <2>3, <2>4, QuietStep
<1>2. ASSUME NEW c \in Actors,
             \/ Ask(c) \/ InspectTaken(c) \/ RecoverNothing(c) \/ RecoverBegin(c)
             \/ RedoSkip(c) \/ RedoFind(c) \/ MoveGone(c) \/ ReadProject(c)
             \/ ReadSpec(c) \/ ReadHistory(c) \/ ReadMissing(c)
             \/ ReadInvalid(c) \/ Open(c) \/ Conflict(c) \/ Fail(c)
             \/ CheckTaken(c) \/ RenameGone(c) \/ Interrupt(c)
      PROVE  Goal
  <2>1. UNCHANGED <<diskVars, acked>>
    BY <1>2 DEF Ask, Begin, InspectTaken, RecoverNothing, RecoverBegin, RedoSkip,
       RedoFind, MoveGone, ReadProject, ReadSpec, ReadHistory, ReadMissing,
       ReadInvalid, Open, Conflict, Fail, CheckTaken, RenameGone, Interrupt,
       historyVars
  <2>2. step'[c] \notin Prepared
    BY <1>2 DEF Ask, Begin, Move, Answer, InspectTaken, RecoverNothing,
       RecoverBegin, RedoSkip, RedoFind, MoveGone, ReadProject, ReadSpec,
       ReadHistory, ReadMissing, ReadInvalid, Open, Conflict, Fail, CheckTaken,
       RenameGone, Interrupt, Prepared, JournalTypeOK
  <2>3. Ask(c) \/ JournalStep(c) \/ Interrupt(c)
    BY <1>2 DEF JournalStep
  <2> QED
    BY <1>1, <2>1, <2>2, <2>3
<1>3. ASSUME NEW c \in Actors, InspectEmpty(c) PROVE Goal
  <2>1. PICK r \in InitialRevisions, m \in Contents :
          receipt' = [receipt EXCEPT ![c] =
                        [kind |-> "create", sequence |-> 0, revision |-> r,
                         previous |-> Null, content |-> m]]
    BY <1>3 DEF InspectEmpty
  <2>2. /\ step[c] = "inspect"
        /\ UNCHANGED <<diskVars, acked, request>>
    BY <1>3 DEF InspectEmpty, Move, historyVars
  <2>3. Follows(c)'
    BY <2>1, <2>2 DEF Orderly, Follows, JournalTypeOK
  <2> QED
    BY <1>1, <1>3, <2>2, <2>3 DEF JournalStep
<1>4. ASSUME NEW c \in Actors, Plan(c) PROVE Goal
  <2>1. PICK m \in Reachable(request[c], seen[c]), k \in 1..MaxBatch :
          receipt' = [receipt EXCEPT ![c] = Successor(request[c], seen[c], m, k)]
    BY <1>4 DEF Plan
  <2>2. /\ HasState(c)
        /\ request[c].kind # "open"
        /\ UNCHANGED <<diskVars, acked>>
        /\ UNCHANGED <<project, mapspec, receipts, journal, request>>
    BY <1>4 DEF Plan, historyVars, diskVars, filesVars
  <2>3. /\ step[c] = "read"
        /\ seen[c].project = project /\ project # Null
        /\ seen[c].mapspec = mapspec /\ mapspec # Null
        /\ seen[c].receipts = receipts
        /\ mapspec.revision = project
    BY <2>2 DEF HasState, HasRead, Readable, Orderly
  <2>4. request[c].kind \in {"apply", "restore"}
    BY <2>2, <2>3 DEF Orderly, JournalTypeOK, Requests, NoRequest
  <2>5. receipt'[c] = Successor(request[c], seen[c], m, k)
    BY <2>1 DEF JournalTypeOK
  <2>6. /\ receipt'[c].kind = request[c].kind
        /\ receipt'[c].revision = project + k
        /\ receipt'[c].content = m
    BY <2>3, <2>5 DEF Successor
  <2>7. project + k > project
    BY <2>3 DEF JournalTypeOK, Revisions
  <2>8. request[c].kind = "restore" =>
          /\ m # mapspec.content
          /\ \E r \in History(receipts) : r.content = m
    BY <2>1, <2>3 DEF Reachable
  <2>9. Succeeds(c)'
    BY <2>2, <2>4, <2>6, <2>7, <2>8 DEF Succeeds, History
  <2>10. Follows(c)'
    BY <2>2, <2>4, <2>9 DEF Follows
  <2> QED
    BY <1>1, <1>4, <2>2, <2>10 DEF JournalStep
<1>5. ASSUME NEW c \in Actors, CheckFree(c) PROVE Goal
  <2>1. /\ step[c] = "check"
        /\ UNCHANGED <<diskVars, acked>>
        /\ UNCHANGED <<project, mapspec, receipts, request, receipt>>
    BY <1>5 DEF CheckFree, Move, historyVars, diskVars, filesVars
  <2>2. Follows(c)'
    BY <2>1 DEF LogInv, Follows, Prepared, Succeeds, History
  <2> QED
    BY <1>1, <1>5, <2>1, <2>2 DEF JournalStep
<1>6. ASSUME NEW c \in Actors, Stage(c) PROVE Goal
  <2>1. /\ step[c] = "stage"
        /\ UNCHANGED <<project, mapspec, receipts, journal, request, receipt>>
    BY <1>6 DEF Stage
  <2>2. FilesInv' /\ RecoveredReceipts' = RecoveredReceipts
    BY <1>6, <2>1, StageKeepsFiles DEF Orderly
  <2>3. Follows(c)'
    BY <2>1 DEF LogInv, Follows, Prepared, Succeeds, History
  <2>4. \A d \in Actors : d # c => Follows(d)'
    BY <1>6, <2>1, OthersUntouched, OthersFollow DEF JournalStep
  <2> QED
    BY <2>1, <2>2, <2>3, <2>4, QuietStep
<1>7. ASSUME NEW c \in Actors, Publish(c) PROVE Goal
  <2>1. /\ step[c] = "publish" /\ step'[c] = "rename"
        /\ UNCHANGED <<project, mapspec, receipts>>
    BY <1>7 DEF Publish, Move, filesVars, JournalTypeOK
  <2>2. /\ \A f \in Files : Unmoved(c, f)
        /\ IF request[c].kind = "create" THEN FirstOf(c) ELSE NextOf(c)
    BY <2>1 DEF Orderly
  <2>3. \A d \in Actors : d # c => Follows(d)'
    BY <1>7, <2>1, OthersUntouched, OthersFollow DEF JournalStep
  <2>4. Follows(c)'
    BY <2>1 DEF Follows, Prepared
  <2>5. FilesInv'
    BY <1>7, <2>2, PublishKeepsFiles
  <2> QED
    BY <1>7, <2>2, <2>3, <2>4, <2>5, PublishStep
<1>8. ASSUME NEW c \in Actors, RedoMove(c) \/ Rename(c) PROVE Goal
  <2>1. /\ step[c] \in {"move", "rename"}
        /\ step'[c] \in {"redo", "rename", "clear"}
        /\ Unmoved(c, at[c])
        /\ Install(c, at[c])
        /\ UNCHANGED <<journal, acked>>
    BY <1>8 DEF RedoMove, Rename, Move, Unmoved, historyVars, JournalTypeOK
  <2>2. at[c] \in Files /\ receipt[c] \in Receipt
    BY <2>1 DEF Equipped, Committing
  <2>3. /\ OnJournal(c)
        /\ \A f \in Files : f < at[c] => Moved(c, f)
        /\ \A d \in Actors :
             d # c /\ step[d] \in Prepared => request[d].kind = "create"
    BY <2>1 DEF Orderly
  <2>4. \A d \in Actors : d # c => Follows(d)'
    BY <1>8, <2>3, OthersUntouched, OthersFollow DEF JournalStep
  <2>5. Follows(c)'
    BY <2>1 DEF Follows, Prepared
  <2>6. FilesInv'
    BY <2>1, <2>2, <2>3, InstallKeepsFiles
  <2> QED
    BY <2>1, <2>2, <2>3, <2>4, <2>5, <2>6, InstallStep
<1>9. ASSUME NEW c \in Actors, RedoDone(c) \/ Clear(c) PROVE Goal
  <2>1. /\ step[c] = "clear" \/ (step[c] = "redo" /\ at[c] \notin Files)
        /\ step'[c] \in {"read", "idle"}
        /\ journal' = Null
        /\ UNCHANGED filesVars
        /\ acked' = acked \/ acked' = acked \cup {receipt[c]}
    BY <1>9 DEF RedoDone, Clear, Move, Answer, historyVars, JournalTypeOK
  <2>2. /\ \A f \in Files : ~Pending(f)
        /\ mapspec # Null
        /\ receipts[receipt[c].revision] = receipt[c]
    BY <2>1 DEF Orderly
  <2>3. FilesInv' /\ RecoveredReceipts' = RecoveredReceipts
    BY <2>1, <2>2, DropKeepsFiles
  <2>4. UNCHANGED <<project, mapspec, receipts>>
    BY <2>1 DEF filesVars
  <2>5. \A d \in Actors : d # c => Follows(d)'
    BY <1>9, <2>4, OthersUntouched, OthersFollow DEF JournalStep
  <2>6. Follows(c)'
    BY <2>1 DEF Follows, Prepared
  <2> QED
    BY <2>1, <2>3, <2>4, <2>5, <2>6, QuietStep
<1>10. CASE UNCHANGED journalVars
  <2>1. UNCHANGED <<diskVars, acked>>
    BY <1>10 DEF journalVars, historyVars
  <2>2. FilesInv' /\ RecoveredReceipts' = RecoveredReceipts
    BY <2>1, FilesStay
  <2>3. UNCHANGED <<project, mapspec, receipts, journal>>
    BY <2>1 DEF diskVars, filesVars
  <2>4. \A d \in Actors : Follows(d)'
    BY <1>10, <2>3 DEF journalVars, callVars, LogInv, Follows, Succeeds, History
  <2> QED
    BY <2>2, <2>3, <2>4, QuietStep
<1> QED
  BY <1>2, <1>3, <1>4, <1>5, <1>6, <1>7, <1>8, <1>9, <1>10
     DEF JournalNext, JournalStep

-----------------------------------------------------------------------------
(***************************************************************************)
(* Atomicity and the log with creates beside other calls.  They need more  *)
(* than that a create is the first to write: it must not remove, when it   *)
(* ends, the journal of another commit.  The run journal_unlocked shows    *)
(* that it may, and what becomes of the project then.                      *)
(***************************************************************************)
CreatesClearOwn ==
    \A c \in Actors :
        (request[c].kind = "create" /\ step[c] = "clear")
          => journal \in {Null, CommitOf(c)}

(* What is left to do is in the journal. *)
Remaining == \A t \in Published : AllPlaced(t) \/ t = journal

(* The number of a prepared receipt. *)
InSequence(c) ==
    step[c] \in Prepared =>
        IF request[c].kind = "create"
        THEN receipt[c].sequence = 0 /\ receipt[c].previous = Null
        ELSE receipt[c].sequence = Cardinality(History(receipts))

FoundedSafe ==
    /\ FoundedInv /\ FilesInv /\ LogInv /\ Remaining
    /\ \A c \in Actors : InSequence(c)

LEMMA FoundedIsOrderly ==
  ASSUME CreatesFirst, CreatesClearOwn, JournalTypeOK, Equipped, FoundedSafe
  PROVE  Orderly
<1> SUFFICES ASSUME NEW c \in Actors
             PROVE
        /\ step[c] = "inspect" => request[c].kind = "create"
        /\ step[c] = "read" => request[c].kind # "create"
        /\ HasState(c) =>
             /\ seen[c].project = project
             /\ seen[c].mapspec = mapspec
             /\ seen[c].receipts = receipts
        /\ step[c] = "stage" => (journal # Null => journal.txn # txn[c])
        /\ step[c] = "publish" =>
             /\ \A f \in Files : Unmoved(c, f)
             /\ IF request[c].kind = "create" THEN FirstOf(c) ELSE NextOf(c)
        /\ step[c] \in {"move", "rename"} /\ Unmoved(c, at[c]) =>
             /\ OnJournal(c)
             /\ \A f \in Files : f < at[c] => Moved(c, f)
             /\ \A d \in Actors :
                  d # c /\ step[d] \in Prepared => request[d].kind = "create"
        /\ step[c] = "clear" \/ (step[c] = "redo" /\ at[c] \notin Files) =>
             /\ \A f \in Files : ~Pending(f)
             /\ mapspec # Null
             /\ receipts[receipt[c].revision] = receipt[c]
  BY DEF Orderly
<1> USE DEF FoundedSafe
<1>1. FoundedInv /\ Calm(c) /\ InSequence(c)
  BY DEF FoundedInv
<1>2. /\ step[c] = "inspect" => request[c].kind = "create"
      /\ step[c] = "read" => request[c].kind # "create"
  BY <1>1 DEF Calm, Kinds
<1>3. HasState(c) =>
        /\ seen[c].project = project
        /\ seen[c].mapspec = mapspec
        /\ seen[c].receipts = receipts
  BY <1>1, SeenIsCurrent
<1>4. step[c] = "stage" => (journal # Null => journal.txn # txn[c])
  BY <1>1 DEF FoundedInv, OwnUuids
<1>5. ASSUME step[c] = "publish"
      PROVE  /\ \A f \in Files : Unmoved(c, f)
             /\ IF request[c].kind = "create" THEN FirstOf(c) ELSE NextOf(c)
  <2>1. \A f \in Files : Unmoved(c, f)
    BY <1>1, <1>5 DEF Calm, Laid
  <2>2. request[c].kind = "create" => FirstOf(c)
    BY <1>1, <1>5 DEF CreatesFirst, Virgin, InSequence, Prepared, FirstOf
  <2>3. ASSUME request[c].kind # "create" PROVE NextOf(c)
    <3>1. /\ project # Null /\ AllInPlace
          /\ receipt[c].previous = project
          /\ receipts[receipt[c].revision] = Null
      BY <1>1, <1>5, <2>3 DEF Calm, Planned
    <3>2. /\ RecoveredProject = project
          /\ RecoveredSpec = mapspec
          /\ RecoveredReceipts = receipts
      BY <3>1, NothingLeft
    <3>3. Whole(project, mapspec, receipts)
      BY <3>1, <3>2 DEF FilesInv, Recoverable
    <3> QED
      BY <1>1, <1>5, <2>3, <3>1, <3>2, <3>3 DEF InSequence, Prepared, NextOf
  <2> QED
    BY <2>1, <2>2, <2>3
<1>6. ASSUME step[c] \in {"move", "rename"}, Unmoved(c, at[c])
      PROVE  /\ OnJournal(c)
             /\ \A f \in Files : f < at[c] => Moved(c, f)
             /\ \A d \in Actors :
                  d # c /\ step[d] \in Prepared => request[d].kind = "create"
  <2>1. at[c] \in Files
    BY <1>6 DEF Equipped
  <2>2. CommitOf(c) \in Published /\ ~AllPlaced(CommitOf(c))
    BY <1>6, <2>1, PublishedIs DEF Underway, AllPlaced, Placed, CommitOf, Unmoved
  <2>3. journal = CommitOf(c) /\ journal # Null
    BY <2>2, PublishedTypes DEF Remaining
  <2>4. OnJournal(c)
    BY <2>3 DEF OnJournal, CommitOf
  <2>5. \A f \in Files : f < at[c] => Moved(c, f)
    BY <1>1, <1>6 DEF Calm, Moving, Underway
  <2>6. ASSUME NEW d \in Actors, d # c, step[d] \in Prepared, request[d].kind # "create"
        PROVE  FALSE
    <3>1. project # Null
      BY <2>6 DEF FoundedInv, Calm, Planned, Prepared
    <3>2. Locked(d) /\ ~Locked(c)
      BY <1>1, <2>6 DEF Locked, Prepared, FoundedInv, OneLocked
    <3>3. Founding(c)
      BY <1>1, <1>6, <3>2 DEF Locked, Founding, Calm, Kinds
    <3> QED
      BY <1>1, <2>2, <3>1, <3>3 DEF FoundedInv, DiskInv, Founded
  <2> QED
    BY <2>4, <2>5, <2>6
<1>7. ASSUME step[c] = "clear" \/ (step[c] = "redo" /\ at[c] \notin Files)
      PROVE  /\ \A f \in Files : ~Pending(f)
             /\ mapspec # Null
             /\ receipts[receipt[c].revision] = receipt[c]
  <2>1. CommitOf(c) \in Published /\ Kept(CommitOf(c))
    BY <1>7, PublishedIs DEF Underway, FoundedInv, DiskInv
  <2>2. \A f \in Files : Moved(c, f)
    BY <1>1, <1>7 DEF Calm, Moving, Underway, JournalTypeOK, Files, ReceiptFile,
                      ProjectFile
  <2>3. project # Null /\ receipts[receipt[c].revision] = receipt[c]
    BY <2>1, <2>2 DEF Kept, Placed, CommitOf, Moved, Files, ReceiptFile, ProjectFile
  <2>4. mapspec # Null
    BY <2>3 DEF FilesInv, Uncreated
  <2>5. journal \in {Null, CommitOf(c)}
    BY <1>1, <1>7 DEF CreatesClearOwn, Calm, Kinds, Moving, Underway
  <2>6. \A f \in Files : ~Pending(f)
    BY <2>2, <2>5 DEF Pending, CommitOf, Moved
  <2> QED
    BY <2>3, <2>4, <2>6
<1> QED
  BY <1>2, <1>3, <1>4, <1>5, <1>6, <1>7

(* What a step may publish, and that it takes no file back. *)
LEMMA PublishedGrows ==
  ASSUME JournalTypeOK, Equipped, FoundedInv, NEW c \in Actors,
         Ask(c) \/ JournalStep(c) \/ Interrupt(c)
  PROVE  /\ \A t \in Published' : t \in Published \/ t = journal'
         /\ \A t \in Published : AllPlaced(t) => AllPlaced(t)'
<1>1. \A d \in Actors : d # c => Untouched(d)
  BY OthersUntouched
<1>2. journal' # journal /\ journal' # Null => Publish(c)
  BY DEF Ask, Begin, JournalStep, Interrupt, InspectTaken, InspectEmpty,
     RecoverNothing, RecoverBegin, RedoSkip, RedoFind, RedoMove, MoveGone, RedoDone,
     ReadProject, ReadSpec, ReadHistory, ReadMissing, ReadInvalid, Open, Conflict,
     Fail, Plan, CheckTaken, CheckFree, Stage, Rename, RenameGone, Clear, diskVars
<1>3. ASSUME step'[c] \in Underway PROVE CommitOf(c)' \in Published \/ CommitOf(c)' = journal'
  <2>1. CASE RecoverBegin(c)
    BY <2>1 DEF RecoverBegin, CommitOf, diskVars, JournalTypeOK
  <2>2. CASE Publish(c)
    BY <2>2 DEF Publish, CommitOf
  <2>3. CASE ~RecoverBegin(c) /\ ~Publish(c)
    <3>1. step[c] \in Underway /\ txn'[c] = txn[c] /\ receipt'[c] = receipt[c]
      BY <1>3, <2>3 DEF Underway, Ask, Begin, Move, Answer, JournalStep, Interrupt,
         InspectTaken, InspectEmpty, RecoverNothing, RedoSkip, RedoFind, RedoMove,
         MoveGone, RedoDone, ReadProject, ReadSpec, ReadHistory, ReadMissing,
         ReadInvalid, HasState, HasRead, Open, Conflict, Fail, Plan, CheckTaken,
         CheckFree, Stage, Rename, RenameGone, Clear, JournalTypeOK
    <3> QED
      BY <3>1, PublishedIs DEF CommitOf
  <2> QED
    BY <2>1, <2>2, <2>3
<1>4. \A t \in Published' : t \in Published \/ t = journal'
  <2> SUFFICES ASSUME NEW t \in Published', t # journal' PROVE t \in Published
    OBVIOUS
  <2>1. PICK d \in Actors : step'[d] \in Underway /\ t = CommitOf(d)'
    BY PublishedIs
  <2>2. CASE d = c
    BY <1>3, <2>1, <2>2
  <2>3. CASE d # c
    <3>1. step[d] \in Underway /\ t = CommitOf(d)
      BY <1>1, <2>1, <2>3 DEF Untouched, CommitOf
    <3> QED
      BY <3>1, PublishedIs
  <2> QED
    BY <2>2, <2>3
<1>5. ASSUME NEW t \in Published, AllPlaced(t) PROVE AllPlaced(t)'
  <2>1. CASE Stage(c)
    <3>1. staged' = staged \cup {<<txn[c], at[c]>>} /\ step[c] = "stage"
      BY <2>1 DEF Stage
    <3>2. t.txn # txn[c]
      BY <3>1, PublishedIs DEF FoundedInv, OwnUuids, Underway, CommitOf
    <3> QED
      BY <1>5, <3>1, <3>2 DEF AllPlaced, Placed
  <2>2. CASE ~Stage(c)
    <3>1. staged' \subseteq staged
      BY <2>2 DEF Ask, Begin, JournalStep, Interrupt, InspectTaken, InspectEmpty,
         RecoverNothing, RecoverBegin, RedoSkip, RedoFind, RedoMove, MoveGone,
         RedoDone, ReadProject, ReadSpec, ReadHistory, ReadMissing, ReadInvalid,
         Open, Conflict, Fail, Plan, CheckTaken, CheckFree, Publish, Rename,
         RenameGone, Clear, Install, diskVars, filesVars
    <3> QED
      BY <1>5, <3>1 DEF AllPlaced, Placed
  <2> QED
    BY <2>1, <2>2
<1> QED
  BY <1>4, <1>5

LEMMA RemainingStep ==
  ASSUME JournalTypeOK, Equipped, FoundedSafe, Orderly, FoundedInv',
         NEW c \in Actors, Ask(c) \/ JournalStep(c) \/ Interrupt(c)
  PROVE  Remaining'
<1> USE DEF FoundedSafe
<1> SUFFICES ASSUME NEW t \in Published', ~AllPlaced(t)', t # journal'
             PROVE  FALSE
  BY DEF Remaining
<1>1. t \in Published /\ ~AllPlaced(t) /\ t = journal
  BY PublishedGrows DEF Remaining
<1>2. CASE Publish(c)
  <2>1. /\ step[c] = "publish" /\ step'[c] = "rename"
        /\ journal' = CommitOf(c)' /\ UNCHANGED staged
        /\ txn'[c] = txn[c]
    BY <1>2 DEF Publish, Move, CommitOf, filesVars, JournalTypeOK
  <2>2. CommitOf(c)' \in Published' /\ ReceiptFile \in Files
    BY <2>1, PublishedIs DEF Underway, Files, ReceiptFile, ProjectFile
  <2>3. PICK own : own = CommitOf(c)'
    OBVIOUS
  <2>4. ~AllPlaced(own)'
    BY <2>1, <2>2, <2>3
       DEF Orderly, Unmoved, AllPlaced, Placed, CommitOf
  <2> QED
    BY <2>1, <2>2, <2>3, <2>4 DEF FoundedInv, DiskInv, InTurn
<1>3. CASE RedoDone(c) \/ Clear(c)
  <2>1. step[c] = "clear" \/ (step[c] = "redo" /\ at[c] \notin Files)
    BY <1>3 DEF RedoDone, Clear, Move
  <2>2. \A f \in Files : ~Pending(f)
    BY <2>1 DEF Orderly
  <2> QED
    BY <1>1, <2>2, PublishedTypes DEF Pending, AllPlaced, Placed
<1>4. CASE ~Publish(c) /\ ~RedoDone(c) /\ ~Clear(c)
  <2>1. journal' = journal
    BY <1>4 DEF Ask, Begin, JournalStep, Interrupt, InspectTaken, InspectEmpty,
       RecoverNothing, RecoverBegin, RedoSkip, RedoFind, RedoMove, MoveGone,
       ReadProject, ReadSpec, ReadHistory, ReadMissing, ReadInvalid, Open, Conflict,
       Fail, Plan, CheckTaken, CheckFree, Stage, Rename, RenameGone, diskVars
  <2> QED
    BY <1>1, <2>1
<1> QED
  BY <1>2, <1>3, <1>4

LEMMA InSequenceStep ==
  ASSUME JournalTypeOK, Equipped, FoundedSafe, Orderly,
         NEW c \in Actors, Ask(c) \/ JournalStep(c) \/ Interrupt(c),
         NEW d \in Actors
  PROVE  InSequence(d)'
<1> USE DEF FoundedSafe
<1>1. InSequence(d)
  OBVIOUS
<1>2. CASE d # c
  <2>1. Untouched(d)
    BY <1>2, OthersUntouched
  <2>2. CASE RedoMove(c) \/ Rename(c)
    <3>1. step[c] \in {"move", "rename"} /\ Unmoved(c, at[c])
      BY <2>2 DEF RedoMove, Rename, Move, Unmoved
    <3>2. step[d] \in Prepared => request[d].kind = "create"
      BY <1>2, <3>1 DEF Orderly
    <3> QED
      BY <1>1, <2>1, <3>2 DEF InSequence, Untouched
  <2>3. CASE ~RedoMove(c) /\ ~Rename(c)
    <3>1. receipts' = receipts
      BY <2>3 DEF Ask, Begin, JournalStep, Interrupt, InspectTaken, InspectEmpty,
         RecoverNothing, RecoverBegin, RedoSkip, RedoFind, MoveGone, RedoDone,
         ReadProject, ReadSpec, ReadHistory, ReadMissing, ReadInvalid, Open,
         Conflict, Fail, Plan, CheckTaken, CheckFree, Stage, Publish, RenameGone,
         Clear, diskVars, filesVars
    <3> QED
      BY <1>1, <2>1, <3>1 DEF InSequence, Untouched, History
  <2> QED
    BY <2>2, <2>3
<1>3. CASE d = c /\ InspectEmpty(c)
  <2>1. /\ receipt'[c].sequence = 0 /\ receipt'[c].previous = Null
        /\ request'[c].kind = "create"
    BY <1>3 DEF InspectEmpty, Move, Orderly, JournalTypeOK
  <2> QED
    BY <1>3, <2>1 DEF InSequence
<1>4. CASE d = c /\ Plan(c)
  <2>1. PICK m, k : receipt'[c] = Successor(request[c], seen[c], m, k)
    BY <1>4 DEF Plan, JournalTypeOK
  <2>2. /\ seen[c].receipts = receipts
        /\ request'[c].kind # "create"
        /\ UNCHANGED receipts
    BY <1>4 DEF Plan, HasState, HasRead, Orderly, diskVars, filesVars
  <2> QED
    BY <1>4, <2>1, <2>2 DEF InSequence, Successor, History
<1>5. CASE d = c /\ (CheckFree(c) \/ Stage(c))
  <2>1. step[c] \in Prepared /\ UNCHANGED <<receipts, receipt, request>>
    BY <1>5 DEF CheckFree, Stage, Move, Prepared, diskVars, filesVars
  <2> QED
    BY <1>1, <1>5, <2>1 DEF InSequence, History
<1>6. CASE /\ d = c
           /\ ~InspectEmpty(c) /\ ~Plan(c) /\ ~CheckFree(c) /\ ~Stage(c)
  <2>1. step'[c] \notin Prepared
    BY <1>6 DEF Ask, Begin, Move, Answer, JournalStep, Interrupt, InspectTaken,
       RecoverNothing, RecoverBegin, RedoSkip, RedoFind, RedoMove, MoveGone,
       RedoDone, ReadProject, ReadSpec, ReadHistory, ReadMissing, ReadInvalid,
       Open, Conflict, Fail, CheckTaken, Publish, Rename, RenameGone, Clear,
       Prepared, JournalTypeOK
  <2> QED
    BY <1>6, <2>1 DEF InSequence
<1> QED
  BY <1>2, <1>3, <1>4, <1>5, <1>6

LEMMA FoundedSafeInductive ==
  ASSUME CreatesFirst, CreatesClearOwn, JournalTypeOK, Equipped, FoundedSafe,
         [JournalNext]_journalVars
  PROVE  FoundedSafe' /\ [Log!LogNext]_CommittedLog
<1>1. Orderly
  BY FoundedIsOrderly
<1>2. FilesInv' /\ LogInv' /\ [Log!LogNext]_CommittedLog
  BY <1>1, LogStep DEF FoundedSafe
<1>3. FoundedInv'
  BY FoundedInductive DEF FoundedSafe
<1>4. CASE JournalNext
  BY <1>1, <1>2, <1>3, <1>4, RemainingStep, InSequenceStep
     DEF FoundedSafe, JournalNext
<1>5. CASE UNCHANGED journalVars
  <2>1. UNCHANGED <<journal, staged, receipts>>
    BY <1>5 DEF journalVars, diskVars, filesVars
  <2>2. UNCHANGED <<step, request, receipt, txn>>
    BY <1>5 DEF journalVars, callVars
  <2>3. \A t \in Published' : t \in Published
    BY <2>1, <2>2, PublishedIs DEF CommitOf
  <2>4. Remaining'
    BY <2>1, <2>3 DEF FoundedSafe, Remaining, AllPlaced, Placed
  <2>5. \A d \in Actors : InSequence(d)'
    BY <2>1, <2>2 DEF FoundedSafe, InSequence, History
  <2> QED
    BY <1>2, <1>3, <2>4, <2>5 DEF FoundedSafe
<1> QED
  BY <1>4, <1>5

LEMMA LogBegins == JournalInit => LogInv /\ Log!LogInit
<1> SUFFICES ASSUME JournalInit PROVE LogInv /\ Log!LogInit
  OBVIOUS
<1>1. LogInv
  BY DEF JournalInit, LogInv, Creating, Follows, Prepared
<1>2. Log!LogInit
  BY CommittedEntries DEF JournalInit, Log!LogInit
<1> QED
  BY <1>1, <1>2

LEMMA FoundedSafeInitially == JournalInit => FoundedSafe
<1> SUFFICES ASSUME JournalInit PROVE FoundedSafe
  OBVIOUS
<1>1. FoundedInv /\ FilesInv /\ LogInv
  BY FoundedInitially, CommitInvInitially, LogBegins DEF CommitInv
<1>2. Remaining /\ \A c \in Actors : InSequence(c)
  BY DEF JournalInit, Remaining, Published, Underway, InSequence, Prepared
<1> QED
  BY <1>1, <1>2 DEF FoundedSafe

LEMMA FoundedSafely ==
  JournalSpec /\ []CreatesFirst /\ []CreatesClearOwn
    => []FoundedSafe /\ [][Log!LogNext]_CommittedLog
<1>1. /\ CreatesFirst /\ CreatesClearOwn /\ JournalTypeOK /\ Equipped /\ FoundedSafe
      /\ [JournalNext]_journalVars
      => FoundedSafe' /\ [Log!LogNext]_CommittedLog
  BY FoundedSafeInductive
<1> QED
  BY <1>1, JournalEquipped, FoundedSafeInitially, PTL DEF JournalSpec

(***************************************************************************)
(* Cut the code anywhere, and the next operation finds no project or one   *)
(* that it can read, at its last revision: commitProjectState and          *)
(* recoverPendingCommit together write all three files or none -- as long  *)
(* as creates run alone, or are the first to write in their directory and  *)
(* remove no other commit's journal.                                       *)
(***************************************************************************)
THEOREM CommitIsAtomic ==
  /\ JournalSpec
  /\ []CreatesAlone \/ ([]CreatesFirst /\ []CreatesClearOwn)
  => []NoPartialWrite
<1>1. JournalInv => NoPartialWrite
  BY FilesAreAtomic DEF JournalInv, CommitInv
<1>2. JournalTypeOK /\ FoundedSafe => NoPartialWrite
  BY FilesAreAtomic DEF FoundedSafe
<1> QED
  BY <1>1, <1>2, JournalTypeCorrect, CommitInvariant, FoundedSafely, PTL

(***************************************************************************)
(* Every commit is one atomic append and history is never rewritten, as    *)
(* long as creates run alone, or are the first to write in their directory *)
(* and remove no other commit's journal.                                   *)
(***************************************************************************)
THEOREM CommitsAppend ==
  /\ JournalSpec
  /\ []CreatesAlone \/ ([]CreatesFirst /\ []CreatesClearOwn)
  => ImplementsLog
<1>1. /\ JournalInv /\ LogInv /\ CreatesAlone /\ [JournalNext]_journalVars
      => LogInv' /\ [Log!LogNext]_CommittedLog
  BY CommitInvIsOrderly, LogStep DEF JournalInv, CommitInv
<1>2. JournalSpec /\ []CreatesAlone => [][Log!LogNext]_CommittedLog
  BY <1>1, LogBegins, CommitInvariant, PTL DEF JournalSpec
<1>3. JournalSpec => Log!LogInit
  BY LogBegins, PTL DEF JournalSpec
<1> QED
  BY <1>2, <1>3, FoundedSafely, PTL DEF ImplementsLog, Log!LogSpec

(***************************************************************************)
(* Type correctness of the lock.                                           *)
(***************************************************************************)
THEOREM LockTypeCorrect == LockSpec => []LockTypeOK
<1>1. LockInit => LockTypeOK
  <2> SUFFICES ASSUME LockInit PROVE LockTypeOK
    OBVIOUS
  <2>1. pc \in [Calls -> Phases]
    BY DEF LockInit, Phases
  <2>2. /\ prev \in [Calls -> Calls \cup {NoCall}]
        /\ tail \in [Procs -> Calls \cup {NoCall}]
        /\ lockDir \in Calls \cup {NoCall}
    BY DEF LockInit
  <2>3. released \in [Calls -> BOOLEAN] /\ stale \in BOOLEAN /\ everStale \in BOOLEAN
    BY DEF LockInit
  <2>4. /\ attempt \in [Calls -> Nat]
        /\ arrival \in [Calls -> Nat]
        /\ crashes \in Nat
        /\ arrivals \in Nat
    BY DEF LockInit
  <2> QED
    BY <2>1, <2>2, <2>3, <2>4 DEF LockTypeOK
<1>2. LockTypeOK /\ [LockNext]_lockVars => LockTypeOK'
  <2> SUFFICES ASSUME LockTypeOK, [LockNext]_lockVars
               PROVE  LockTypeOK'
    OBVIOUS
  <2> USE LockAssumption DEF LockTypeOK, Phases, Ended
  <2>1. ASSUME NEW c \in Calls, Enqueue(c) PROVE LockTypeOK'
    BY <2>1 DEF Enqueue, Goto, dirVars
  <2>2. ASSUME NEW c \in Calls, Dequeue(c) PROVE LockTypeOK'
    BY <2>2 DEF Dequeue, Goto, queueVars, dirVars
  <2>3. ASSUME NEW c \in Calls, MakeLock(c) PROVE LockTypeOK'
    BY <2>3 DEF MakeLock, Goto, queueVars
  <2>4. ASSUME NEW c \in Calls, FindLock(c) PROVE LockTypeOK'
    BY <2>4 DEF FindLock, Goto, queueVars, dirVars
  <2>5. ASSUME NEW c \in Calls, SeeFresh(c) PROVE LockTypeOK'
    BY <2>5 DEF SeeFresh, Goto, queueVars, dirVars
  <2>6. ASSUME NEW c \in Calls, SeeStale(c) PROVE LockTypeOK'
    BY <2>6 DEF SeeStale, Goto, queueVars, dirVars
  <2>7. ASSUME NEW c \in Calls, BreakLock(c) PROVE LockTypeOK'
    <3>1. pc' \in [Calls -> Phases]
      BY <2>7 DEF BreakLock, Goto
    <3>2. attempt' \in [Calls -> Nat]
      BY <2>7 DEF BreakLock
    <3>3. lockDir' = NoCall /\ stale' = FALSE
      BY <2>7 DEF BreakLock
    <3>4. UNCHANGED <<queueVars, everStale, crashes>>
      BY <2>7 DEF BreakLock
    <3> QED
      BY <3>1, <3>2, <3>3, <3>4 DEF queueVars
  <2>8. ASSUME NEW c \in Calls, GiveUp(c) PROVE LockTypeOK'
    BY <2>8 DEF GiveUp, Goto, Release, dirVars
  <2>9. ASSUME NEW c \in Calls, Leave(c) PROVE LockTypeOK'
    BY <2>9 DEF Leave, Goto, Release
  <2>10. ASSUME NEW c \in Calls, Finish(c) PROVE LockTypeOK'
    BY <2>10 DEF Finish, Goto, queueVars, dirVars
  <2>11. ASSUME NEW c \in Calls, Raise(c) PROVE LockTypeOK'
    BY <2>11 DEF Raise, queueVars, dirVars
  <2>12. ASSUME NEW p \in Procs, Crash(p) PROVE LockTypeOK'
    BY <2>12 DEF Crash, dirVars
  <2>13. CASE Age
    BY <2>13 DEF Age, queueVars
  <2>14. CASE UNCHANGED lockVars
    BY <2>14 DEF lockVars, queueVars, dirVars
  <2> QED
    BY <2>1, <2>2, <2>3, <2>4, <2>5, <2>6, <2>7, <2>8, <2>9, <2>10,
       <2>11, <2>12, <2>13, <2>14 DEF LockNext, LockStep
<1> QED
  BY <1>1, <1>2, PTL DEF LockSpec
-----------------------------------------------------------------------------
(***************************************************************************)
(* The promise chain.  Before(c, d): c and d are calls of one process, and *)
(* c arrived first.  The invariant says what prev, released and tail know  *)
(* about the calls that came before.                                       *)
(***************************************************************************)
Before(c, d) ==
    /\ CallProc[c] = CallProc[d]
    /\ 0 < arrival[c]
    /\ arrival[c] < arrival[d]

Arrivals ==
    /\ \A c \in Calls : arrival[c] <= arrivals
    /\ \A c \in Calls : arrival[c] = 0 <=> pc[c] = "idle"
    /\ \A c, d \in Calls : (arrival[c] = arrival[d] /\ arrival[c] > 0) => c = d

(* No predecessor: nobody is left to wait for. *)
NoPrev ==
    \A c, d \in Calls :
        (pc[d] \in Live /\ prev[d] = NoCall /\ Before(c, d)) => pc[c] \in Ended

(* The predecessor is the latest call that came before. *)
PrevIsLatest ==
    \A d \in Calls :
        (pc[d] \in Live /\ prev[d] # NoCall) =>
            /\ Before(prev[d], d)
            /\ \A c \in Calls :
                  Before(c, d) => c = prev[d] \/ Before(c, prev[d])

(* A released tail has no unfinished call before it. *)
ReleasedInOrder ==
    \A d \in Calls :
        released[d] =>
            /\ pc[d] \in Ended
            /\ \A c \in Calls : Before(c, d) => pc[c] \in Ended

RunningIsOldest ==
    \A c, d \in Calls :
        (pc[d] \in Running /\ Before(c, d)) => pc[c] \in Ended

TailIsLatest ==
    \A p \in Procs :
        IF tail[p] = NoCall
        THEN \A c \in Calls : CallProc[c] = p => pc[c] \notin Live
        ELSE /\ CallProc[tail[p]] = p
             /\ 0 < arrival[tail[p]]
             /\ \A c \in Calls : CallProc[c] = p => arrival[c] <= arrival[tail[p]]

(***************************************************************************)
(* The invariant of the chain, and, lemma by lemma, what a step may do     *)
(* to it.                                                                  *)
(***************************************************************************)
Chain == Arrivals /\ NoPrev /\ PrevIsLatest /\ ReleasedInOrder
           /\ RunningIsOldest /\ TailIsLatest

(* A running call moves on to another running phase. *)
LEMMA AdvanceKeepsChain ==
  ASSUME LockTypeOK, Chain,
         NEW c \in Calls, NEW to \in Running,
         pc[c] \in Running,
         pc' = [pc EXCEPT ![c] = to],
         UNCHANGED queueVars
  PROVE  Chain'
<1> USE DEF LockTypeOK, Chain, Before, queueVars, Running, Live, Ended
<1>1. Arrivals'
  BY DEF Arrivals
<1>2. NoPrev'
  BY DEF NoPrev
<1>3. PrevIsLatest'
  BY DEF PrevIsLatest
<1>4. ReleasedInOrder'
  BY DEF ReleasedInOrder
<1>5. RunningIsOldest'
  BY DEF RunningIsOldest
<1>6. TailIsLatest'
  BY DEF TailIsLatest
<1> QED
  BY <1>1, <1>2, <1>3, <1>4, <1>5, <1>6

(* Calls end without releasing their tails: an error. *)
LEMMA RaiseKeepsChain ==
  ASSUME LockTypeOK, Chain,
         NEW c \in Calls, Raise(c)
  PROVE  Chain'
<1> USE DEF LockTypeOK, Chain, Before, Raise, queueVars, Running, Live, Ended
<1>1. Arrivals'
  BY DEF Arrivals
<1>2. NoPrev'
  BY DEF NoPrev
<1>3. PrevIsLatest'
  BY DEF PrevIsLatest
<1>4. ReleasedInOrder'
  BY DEF ReleasedInOrder
<1>5. RunningIsOldest'
  BY DEF RunningIsOldest
<1>6. TailIsLatest'
  BY DEF TailIsLatest
<1> QED
  BY <1>1, <1>2, <1>3, <1>4, <1>5, <1>6

(* A running call ends and releases its tail. *)
LEMMA ReleaseKeepsChain ==
  ASSUME LockTypeOK, Chain,
         NEW c \in Calls, NEW to \in Ended,
         pc[c] \in Running,
         pc' = [pc EXCEPT ![c] = to],
         Release(c)
  PROVE  Chain'
<1> USE LockAssumption
    DEF LockTypeOK, Chain, Before, Release, Running, Live, Ended
<1>1. Arrivals'
  BY DEF Arrivals
<1>2. NoPrev'
  BY DEF NoPrev
<1>3. PrevIsLatest'
  BY DEF PrevIsLatest
<1>4. ReleasedInOrder'
  BY DEF ReleasedInOrder, RunningIsOldest
<1>5. RunningIsOldest'
  BY DEF RunningIsOldest
<1>6. TailIsLatest'
  <2>1. CASE tail[CallProc[c]] = c
    <3>1. \A b \in Calls : CallProc[b] = CallProc[c] => pc'[b] \notin Live
      <4> SUFFICES ASSUME NEW b \in Calls, CallProc[b] = CallProc[c], b # c
                   PROVE  pc[b] \notin Live
        OBVIOUS
      <4>1. CallProc[c] \in Procs /\ c # NoCall
        BY LockAssumption
      <4>2. arrival[b] <= arrival[c]
        BY <2>1, <4>1 DEF TailIsLatest
      <4>3. arrival[b] = arrival[c] /\ arrival[b] > 0 => b = c
        BY DEF Arrivals
      <4>4. arrival[b] \in Nat /\ arrival[c] \in Nat
        OBVIOUS
      <4>5. arrival[b] = 0 \/ Before(b, c)
        BY <4>2, <4>3, <4>4
      <4> QED
        BY <4>5 DEF Arrivals, RunningIsOldest
    <3> QED
      BY <2>1, <3>1 DEF TailIsLatest
  <2>2. CASE tail[CallProc[c]] # c
    BY <2>2 DEF TailIsLatest
  <2> QED
    BY <2>1, <2>2
<1> QED
  BY <1>1, <1>2, <1>3, <1>4, <1>5, <1>6

(* A call leaves the queue once its predecessor has settled. *)
LEMMA DequeueKeepsChain ==
  ASSUME LockTypeOK, Chain,
         NEW c \in Calls, Dequeue(c)
  PROVE  Chain'
<1> USE DEF LockTypeOK, Chain, Before, Dequeue, Goto, PredecessorSettled,
            queueVars, Running, Live, Ended
<1>1. Arrivals'
  BY DEF Arrivals
<1>2. NoPrev'
  BY DEF NoPrev
<1>3. PrevIsLatest'
  BY DEF PrevIsLatest
<1>4. ReleasedInOrder'
  BY DEF ReleasedInOrder
<1>5. RunningIsOldest'
  <2>1. \A b \in Calls : Before(b, c) => pc[b] \in Ended
    <3>1. CASE prev[c] = NoCall
      BY <3>1 DEF NoPrev
    <3>2. CASE prev[c] # NoCall
      BY <3>2 DEF PrevIsLatest, ReleasedInOrder
    <3> QED
      BY <3>1, <3>2
  <2> QED
    BY <2>1 DEF RunningIsOldest
<1>6. TailIsLatest'
  BY DEF TailIsLatest
<1> QED
  BY <1>1, <1>2, <1>3, <1>4, <1>5, <1>6

(* A new call takes its place at the end of the chain. *)
LEMMA EnqueueKeepsChain ==
  ASSUME LockTypeOK, Chain,
         NEW c \in Calls, Enqueue(c)
  PROVE  Chain'
<1> USE LockAssumption
    DEF LockTypeOK, Chain, Before, Enqueue, Goto, Running, Live, Ended
<1>1. Arrivals'
  BY DEF Arrivals
<1>2. NoPrev'
  <2> SUFFICES ASSUME NEW b \in Calls, NEW d \in Calls,
                      (pc[d] \in Live)', prev'[d] = NoCall, Before(b, d)'
               PROVE  pc'[b] \in Ended
    BY DEF NoPrev
  <2>1. CASE d = c
    <3>1. tail[CallProc[c]] = NoCall
      BY <2>1
    <3>2. CallProc[b] = CallProc[c] /\ b # c /\ arrival[b] # 0
      BY <2>1
    <3>3. pc[b] \notin Live /\ pc[b] # "idle"
      BY <3>1, <3>2 DEF TailIsLatest, Arrivals
    <3> QED
      BY <3>2, <3>3 DEF Phases
  <2>2. CASE d # c
    <3>1. pc[d] \in Live /\ prev[d] = NoCall /\ arrival'[d] = arrival[d]
      BY <2>2
    <3>2. b # c
      BY <3>1, <2>2 DEF Arrivals
    <3> QED
      BY <2>2, <3>1, <3>2 DEF NoPrev
  <2> QED
    BY <2>1, <2>2
<1>3. PrevIsLatest'
  <2> SUFFICES ASSUME NEW d \in Calls, (pc[d] \in Live)', prev'[d] # NoCall
               PROVE  /\ Before(prev[d], d)'
                      /\ \A b \in Calls :
                            Before(b, d)' => b = prev'[d] \/ Before(b, prev[d])'
    BY DEF PrevIsLatest
  <2>1. CASE d = c
    <3>1. /\ prev'[c] = tail[CallProc[c]]
          /\ tail[CallProc[c]] \in Calls
          /\ arrival'[c] = arrivals + 1
      BY <2>1
    <3>2. /\ CallProc[prev'[c]] = CallProc[c]
          /\ 0 < arrival[prev'[c]]
          /\ prev'[c] # c
          /\ \A b \in Calls :
               CallProc[b] = CallProc[c] => arrival[b] <= arrival[prev'[c]]
      <4>1. CallProc[c] \in Procs /\ tail[CallProc[c]] # NoCall
        BY LockAssumption, <2>1, <3>1
      <4>2. /\ CallProc[tail[CallProc[c]]] = CallProc[c]
            /\ 0 < arrival[tail[CallProc[c]]]
            /\ \A b \in Calls :
                 CallProc[b] = CallProc[c]
                   => arrival[b] <= arrival[tail[CallProc[c]]]
        BY <4>1 DEF TailIsLatest
      <4>3. arrival[c] = 0
        BY DEF Arrivals
      <4> QED
        BY <3>1, <4>2, <4>3
    <3>3. \A b \in Calls : b # c => arrival'[b] = arrival[b]
      OBVIOUS
    <3>4. PICK p \in Calls : p = prev'[c]
      BY <3>1
    <3>5. /\ CallProc[p] = CallProc[c] /\ p # c /\ arrival'[p] = arrival[p]
          /\ 0 < arrival[p] /\ arrival[p] < arrival'[c]
      BY <3>1, <3>2, <3>3, <3>4 DEF Arrivals
    <3>6. ASSUME NEW b \in Calls, Before(b, c)'
          PROVE  b = p \/ Before(b, p)'
      <4>1. /\ b # c /\ CallProc[b] = CallProc[c] /\ 0 < arrival[b]
            /\ arrival'[b] = arrival[b]
        BY <3>3, <3>6
      <4>2. arrival[b] <= arrival[p]
        BY <3>2, <3>4, <4>1
      <4>3. b = p \/ arrival[b] # arrival[p]
        BY <4>1 DEF Arrivals
      <4> QED
        BY <3>5, <4>1, <4>2, <4>3
    <3> QED
      BY <2>1, <3>4, <3>5, <3>6
  <2>2. CASE d # c
    <3>1. pc[d] \in Live /\ prev'[d] = prev[d] /\ arrival'[d] = arrival[d]
      BY <2>2
    <3>2. /\ prev[d] \in Calls
          /\ Before(prev[d], d)
          /\ prev[d] # c
      BY <2>2, <3>1 DEF PrevIsLatest, Arrivals
    <3>3. arrival'[prev[d]] = arrival[prev[d]] /\ arrival[d] <= arrivals
      BY <3>2 DEF Arrivals
    <3> QED
      BY <2>2, <3>1, <3>2, <3>3 DEF PrevIsLatest
  <2> QED
    BY <2>1, <2>2
<1>4. ReleasedInOrder'
  BY DEF ReleasedInOrder, Arrivals
<1>5. RunningIsOldest'
  BY DEF RunningIsOldest, Arrivals
<1>6. TailIsLatest'
  BY DEF TailIsLatest, Arrivals
<1> QED
  BY <1>1, <1>2, <1>3, <1>4, <1>5, <1>6

(* A crash ends every call of the process and empties its map. *)
LEMMA CrashKeepsChain ==
  ASSUME LockTypeOK, Chain,
         NEW p \in Procs, Crash(p)
  PROVE  Chain'
<1> USE LockAssumption
    DEF LockTypeOK, Chain, Before, Crash, Running, Live, Ended
<1>1. Arrivals'
  BY DEF Arrivals
<1>2. NoPrev'
  BY DEF NoPrev
<1>3. PrevIsLatest'
  BY DEF PrevIsLatest
<1>4. ReleasedInOrder'
  BY DEF ReleasedInOrder
<1>5. RunningIsOldest'
  BY DEF RunningIsOldest
<1>6. TailIsLatest'
  BY DEF TailIsLatest
<1> QED
  BY <1>1, <1>2, <1>3, <1>4, <1>5, <1>6

(***************************************************************************)
(* The chain invariant is inductive, whatever happens to the directory.    *)
(***************************************************************************)
THEOREM ChainCorrect == LockSpec => []Chain
<1>1. LockInit => Chain
  BY LockAssumption
  DEF LockInit, Chain, Arrivals, NoPrev, PrevIsLatest, ReleasedInOrder,
      RunningIsOldest, TailIsLatest, Before, Running, Live, Ended
<1>2. LockTypeOK /\ Chain /\ [LockNext]_lockVars => Chain'
  <2> SUFFICES ASSUME LockTypeOK, Chain, [LockNext]_lockVars
               PROVE  Chain'
    OBVIOUS
  <2>1. ASSUME NEW c \in Calls, Enqueue(c) PROVE Chain'
    BY <2>1, EnqueueKeepsChain
  <2>2. ASSUME NEW c \in Calls, Dequeue(c) PROVE Chain'
    BY <2>2, DequeueKeepsChain
  <2>3. ASSUME NEW c \in Calls,
               \/ MakeLock(c) \/ FindLock(c) \/ SeeFresh(c)
               \/ SeeStale(c) \/ BreakLock(c) \/ Finish(c)
        PROVE Chain'
    <3>1. /\ pc[c] \in Running
          /\ \E to \in Running : pc' = [pc EXCEPT ![c] = to]
          /\ UNCHANGED queueVars
      BY <2>3 DEF MakeLock, FindLock, SeeFresh, SeeStale, BreakLock, Finish,
                  Goto, Running
    <3> QED
      BY <3>1, AdvanceKeepsChain
  <2>4. ASSUME NEW c \in Calls, GiveUp(c) \/ Leave(c) PROVE Chain'
    <3>1. /\ pc[c] \in Running
          /\ \E to \in Ended : pc' = [pc EXCEPT ![c] = to]
          /\ Release(c)
      BY <2>4 DEF GiveUp, Leave, Goto, Running, Ended
    <3> QED
      BY <3>1, ReleaseKeepsChain
  <2>5. ASSUME NEW c \in Calls, Raise(c) PROVE Chain'
    BY <2>5, RaiseKeepsChain
  <2>6. ASSUME NEW p \in Procs, Crash(p) PROVE Chain'
    BY <2>6, CrashKeepsChain
  <2>7. CASE Age \/ UNCHANGED lockVars
    <3>1. UNCHANGED <<pc, prev, released, tail, arrival, arrivals>>
      BY <2>7 DEF Age, lockVars, queueVars
    <3> QED
      BY <3>1 DEF Chain, Arrivals, NoPrev, PrevIsLatest, ReleasedInOrder,
                  RunningIsOldest, TailIsLatest, Before
  <2> QED
    BY <2>1, <2>2, <2>3, <2>4, <2>5, <2>6, <2>7 DEF LockNext, LockStep
<1> QED
  BY <1>1, <1>2, LockTypeCorrect, PTL DEF LockSpec

(***************************************************************************)
(* No call overtakes another, and in-process operations on one root run    *)
(* strictly one at a time.                                                 *)
(***************************************************************************)
THEOREM ChainIsFair == LockSpec => []InArrivalOrder
<1>1. Chain => InArrivalOrder
  BY DEF Chain, RunningIsOldest, Before, InArrivalOrder
<1> QED
  BY <1>1, ChainCorrect, PTL

THEOREM ChainIsExclusive == LockSpec => []OneAtATimePerProcess
<1>1. LockTypeOK /\ Chain => OneAtATimePerProcess
  BY DEF LockTypeOK, Chain, Arrivals, RunningIsOldest, Before,
         OneAtATimePerProcess, Running, Ended
<1> QED
  BY <1>1, ChainCorrect, LockTypeCorrect, PTL

-----------------------------------------------------------------------------
(***************************************************************************)
(* The directory.  As long as no lock has ever been stale nobody breaks    *)
(* one, and a call that is inside the operation or about to clean up       *)
(* behind it is the maker of the directory that exists.                    *)
(***************************************************************************)
DirInv ==
    ~everStale =>
        /\ ~stale
        /\ \A c \in Calls : pc[c] # "breaking"
        /\ \A c \in Calls : pc[c] \in {"holding", "leaving"} => lockDir = c

LEMMA DirCorrect == LockSpec => []DirInv
<1>1. LockInit => DirInv
  BY DEF LockInit, DirInv
<1>2. LockTypeOK /\ DirInv /\ [LockNext]_lockVars => DirInv'
  <2> SUFFICES ASSUME LockTypeOK, DirInv, [LockNext]_lockVars
               PROVE  DirInv'
    OBVIOUS
  <2> USE LockAssumption DEF LockTypeOK, DirInv
  <2>1. ASSUME NEW c \in Calls, Enqueue(c) PROVE DirInv'
    BY <2>1 DEF Enqueue, Goto, dirVars
  <2>2. ASSUME NEW c \in Calls, Dequeue(c) PROVE DirInv'
    BY <2>2 DEF Dequeue, Goto, dirVars
  <2>3. ASSUME NEW c \in Calls, MakeLock(c) PROVE DirInv'
    BY <2>3 DEF MakeLock, Goto
  <2>4. ASSUME NEW c \in Calls, FindLock(c) PROVE DirInv'
    BY <2>4 DEF FindLock, Goto, dirVars
  <2>5. ASSUME NEW c \in Calls, SeeFresh(c) PROVE DirInv'
    BY <2>5 DEF SeeFresh, Goto, dirVars
  <2>6. ASSUME NEW c \in Calls, SeeStale(c) PROVE DirInv'
    BY <2>6 DEF SeeStale, dirVars
  <2>7. ASSUME NEW c \in Calls, BreakLock(c) PROVE DirInv'
    BY <2>7 DEF BreakLock, Goto
  <2>8. ASSUME NEW c \in Calls, GiveUp(c) PROVE DirInv'
    BY <2>8 DEF GiveUp, Goto, dirVars
  <2>9. ASSUME NEW c \in Calls, Leave(c) PROVE DirInv'
    BY <2>9 DEF Leave, Goto
  <2>10. ASSUME NEW c \in Calls, Finish(c) PROVE DirInv'
    BY <2>10 DEF Finish, Goto, dirVars
  <2>11. ASSUME NEW c \in Calls, Raise(c) PROVE DirInv'
    BY <2>11 DEF Raise, dirVars
  <2>12. ASSUME NEW p \in Procs, Crash(p) PROVE DirInv'
    BY <2>12 DEF Crash, dirVars
  <2>13. CASE Age
    BY <2>13 DEF Age
  <2>14. CASE UNCHANGED lockVars
    BY <2>14 DEF lockVars, dirVars
  <2> QED
    BY <2>1, <2>2, <2>3, <2>4, <2>5, <2>6, <2>7, <2>8, <2>9, <2>10,
       <2>11, <2>12, <2>13, <2>14 DEF LockNext, LockStep
<1> QED
  BY <1>1, <1>2, LockTypeCorrect, PTL DEF LockSpec

(***************************************************************************)
(* Until a lock directory has grown stale, the lock is exclusive across    *)
(* processes.                                                              *)
(***************************************************************************)
THEOREM LockIsExclusive == LockSpec => []ExclusiveUntilStale
<1>1. DirInv => ExclusiveUntilStale
  BY DEF DirInv, ExclusiveUntilStale, Exclusive
<1> QED
  BY <1>1, DirCorrect, PTL


-----------------------------------------------------------------------------
(***************************************************************************)
(* What one step of the protocol does to the call that takes it.           *)
(***************************************************************************)
Typed == step \in [Calls -> Steps] /\ outcome \in [Calls -> Outcomes]

(* Only c moves, from a step that is not idle; if it answers, it is idle. *)
Moves(c) ==
    /\ step[c] # "idle"
    /\ \E to \in Steps, result \in Outcomes :
         /\ step' = [step EXCEPT ![c] = to]
         /\ outcome' = [outcome EXCEPT ![c] = result]
         /\ to = "idle" \/ result = outcome[c]

LEMMA AnswerMoves ==
  ASSUME Typed, NEW c \in Calls, step[c] # "idle",
         NEW result \in Outcomes, Answer(c, result)
  PROVE  Moves(c)
BY DEF Answer, Moves, Steps

LEMMA StepMoves ==
  ASSUME Typed, NEW c \in Calls, JournalStep(c) \/ Interrupt(c)
  PROVE  Moves(c)
<1>1. ASSUME \/ InspectTaken(c) \/ MoveGone(c) \/ ReadMissing(c) \/ ReadInvalid(c)
             \/ Open(c) \/ Conflict(c) \/ Fail(c) \/ CheckTaken(c)
             \/ RenameGone(c) \/ Clear(c) \/ Interrupt(c)
      PROVE  Moves(c)
  <2>1. step[c] # "idle" /\ \E result \in Outcomes : Answer(c, result)
    BY <1>1 DEF InspectTaken, MoveGone, ReadMissing, ReadInvalid, HasState, HasRead,
       Open, Conflict, Fail, CheckTaken, RenameGone, Clear, Interrupt, Outcomes
  <2> QED
    BY <2>1, AnswerMoves
<1>2. ASSUME \/ InspectEmpty(c) \/ RecoverNothing(c) \/ RecoverBegin(c)
             \/ RedoFind(c) \/ RedoMove(c) \/ RedoDone(c) \/ CheckFree(c)
             \/ Publish(c) \/ Plan(c) \/ Stage(c) \/ Rename(c)
      PROVE  Moves(c)
  <2>1. step[c] # "idle" /\ outcome' = outcome
    BY <1>2 DEF Move, InspectEmpty, RecoverNothing, RecoverBegin, RedoFind,
       RedoMove, RedoDone, CheckFree, Publish, Plan, HasState, HasRead, Stage, Rename
  <2>2. \E to \in Steps : step' = [step EXCEPT ![c] = to]
    BY <1>2 DEF Typed, Steps, Move, InspectEmpty, RecoverNothing, RecoverBegin,
       RedoFind, RedoMove, RedoDone, CheckFree, Publish, Plan, Stage, Rename
  <2> QED
    BY <2>1, <2>2 DEF Moves, Typed
<1>3. ASSUME RedoSkip(c) \/ ReadProject(c) \/ ReadSpec(c) \/ ReadHistory(c)
      PROVE  Moves(c)
  <2>1. step[c] # "idle" /\ outcome' = outcome /\ step' = step
    BY <1>3 DEF RedoSkip, ReadProject, ReadSpec, ReadHistory
  <2> QED
    BY <2>1 DEF Moves, Typed
<1> QED
  BY <1>1, <1>2, <1>3 DEF JournalStep

(* A call begins an operation. *)
LEMMA BeginMoves ==
  ASSUME NEW c \in Calls, NEW q, Begin(c, q)
  PROVE  /\ step[c] = "idle"
         /\ \E to \in Steps : step' = [step EXCEPT ![c] = to]
         /\ outcome' = [outcome EXCEPT ![c] = "none"]
BY DEF Begin, Move, Steps

-----------------------------------------------------------------------------
(***************************************************************************)
(* The store uses the lock as it is: what is proved of the lock holds of   *)
(* the store.                                                              *)
(***************************************************************************)
THEOREM StoreUsesLock == StoreSpec => LockSpec
<1>1. StoreInit => LockInit
  BY DEF StoreInit
<1>2. [StoreNext]_storeVars => [LockNext]_lockVars
  <2> SUFFICES ASSUME [StoreNext]_storeVars PROVE [LockNext]_lockVars
    OBVIOUS
  <2>1. ASSUME NEW c \in Calls, LockOnly(c) PROVE LockNext
    BY <2>1 DEF LockOnly, LockNext
  <2>2. ASSUME NEW c \in Calls, StartOperation(c) \/ Work(c) \/ Reject(c)
        PROVE UNCHANGED lockVars
    BY <2>2 DEF StartOperation, Work, Reject
  <2>3. ASSUME NEW c \in Calls, EndOperation(c) PROVE LockNext
    BY <2>3 DEF EndOperation, LockNext
  <2>4. ASSUME NEW p \in Procs, ProcessCrash(p) PROVE LockNext
    BY <2>4 DEF ProcessCrash, LockNext
  <2>5. CASE LockAges
    BY <2>5 DEF LockAges, LockNext
  <2>6. CASE UNCHANGED storeVars
    BY <2>6 DEF storeVars
  <2> QED
    BY <2>1, <2>2, <2>3, <2>4, <2>5, <2>6 DEF StoreNext
<1> QED
  BY <1>1, <1>2, PTL DEF StoreSpec, LockSpec

(***************************************************************************)
(* An operation is under way only while its call holds the lock, and has   *)
(* not answered.                                                           *)
(***************************************************************************)
WorksInLock ==
    /\ Typed
    /\ \A c \in Calls : step[c] # "idle" => pc[c] = "holding" /\ outcome[c] = "none"

LEMMA WorksInLockStep ==
  ASSUME LockTypeOK, OneAtATimePerProcess, WorksInLock, [StoreNext]_storeVars
  PROVE  WorksInLock'
<1> USE DEF WorksInLock, LockTypeOK
<1>1. ASSUME UNCHANGED pc, NEW c \in Calls, pc[c] = "holding", Moves(c)
      PROVE  WorksInLock'
  <2>1. PICK to \in Steps, result \in Outcomes :
          /\ step' = [step EXCEPT ![c] = to]
          /\ outcome' = [outcome EXCEPT ![c] = result]
          /\ to = "idle" \/ result = outcome[c]
    BY <1>1 DEF Moves
  <2>2. step[c] # "idle"
    BY <1>1 DEF Moves
  <2> QED
    BY <1>1, <2>1, <2>2 DEF Typed
<1>2. ASSUME UNCHANGED <<step, outcome>>, NEW c \in Calls, step[c] = "idle",
             NEW to \in Phases, pc' = [pc EXCEPT ![c] = to]
      PROVE  WorksInLock'
  BY <1>2 DEF Typed
<1>3. ASSUME NEW c \in Calls, LockOnly(c) PROVE WorksInLock'
  <2>1. /\ UNCHANGED <<step, outcome>>
        /\ pc[c] # "holding"
        /\ \E to \in Phases : pc' = [pc EXCEPT ![c] = to]
    BY <1>3 DEF LockOnly, Enqueue, LockStep, Raise, Dequeue, MakeLock, FindLock,
       SeeFresh, SeeStale, BreakLock, GiveUp, Leave, Goto, Phases, Ended,
       journalVars, callVars
  <2> QED
    BY <1>2, <2>1
<1>4. ASSUME NEW c \in Calls, StartOperation(c) PROVE WorksInLock'
  <2>1. PICK q \in Requests : Begin(c, q)
    BY <1>4 DEF StartOperation
  <2>2. /\ pc[c] = "holding" /\ pc' = pc
        /\ outcome' = [outcome EXCEPT ![c] = "none"]
        /\ \E to \in Steps : step' = [step EXCEPT ![c] = to]
    BY <1>4, <2>1, BeginMoves DEF StartOperation, lockVars
  <2> QED
    BY <2>2 DEF Typed, Outcomes
<1>5. ASSUME NEW c \in Calls, Work(c) \/ Reject(c) PROVE WorksInLock'
  <2>1. pc[c] = "holding" /\ pc' = pc /\ Moves(c)
    BY <1>5, StepMoves DEF Work, Reject, lockVars
  <2> QED
    BY <1>1, <2>1
<1>6. ASSUME NEW c \in Calls, EndOperation(c) PROVE WorksInLock'
  <2>1. /\ step[c] = "idle"
        /\ UNCHANGED <<step, outcome>>
        /\ pc' = [pc EXCEPT ![c] = "leaving"]
    BY <1>6 DEF EndOperation, Finish, Goto, journalVars, callVars
  <2> QED
    BY <1>2, <2>1 DEF Phases
<1>7. ASSUME NEW p \in Procs, ProcessCrash(p) PROVE WorksInLock'
  <2> DEFINE lost == {c \in Calls : CallProc[c] = p /\ step[c] # "idle"}
  <2>1. \A c \in Calls : CallProc[c] # p => pc'[c] = pc[c]
    BY <1>7 DEF ProcessCrash, Crash
  <2>2. CASE lost = {}
    <3>1. UNCHANGED <<step, outcome>>
      BY <1>7, <2>2 DEF ProcessCrash, journalVars, callVars
    <3> QED
      BY <2>1, <2>2, <3>1 DEF Typed
  <2>3. CASE lost # {}
    <3>1. PICK c \in lost : Interrupt(c)
      BY <1>7, <2>3 DEF ProcessCrash
    <3>2. \A d \in lost : d = c
      BY DEF OneAtATimePerProcess, Running
    <3>3. PICK result \in Outcomes : /\ step' = [step EXCEPT ![c] = "idle"]
                                     /\ outcome' = [outcome EXCEPT ![c] = result]
      BY <3>1 DEF Interrupt, Answer, Outcomes
    <3> QED
      BY <2>1, <3>2, <3>3 DEF Typed, Steps
  <2> QED
    BY <2>2, <2>3
<1>8. CASE LockAges \/ UNCHANGED storeVars
  BY <1>8 DEF LockAges, Age, storeVars, lockVars, journalVars, callVars, Typed
<1> QED
  BY <1>3, <1>4, <1>5, <1>6, <1>7, <1>8 DEF StoreNext

LEMMA StoreWorksInLock ==
  StoreSpec => [](LockTypeOK /\ OneAtATimePerProcess /\ WorksInLock)
<1>1. StoreInit => WorksInLock
  BY StoreAssumption DEF StoreInit, CreatedInit, WorksInLock, Typed, Steps, Outcomes
<1>2. /\ LockTypeOK /\ OneAtATimePerProcess /\ WorksInLock /\ [StoreNext]_storeVars
      => WorksInLock'
  BY WorksInLockStep
<1> QED
  BY <1>1, <1>2, StoreUsesLock, LockTypeCorrect, ChainIsExclusive, PTL DEF StoreSpec

(***************************************************************************)
(* "In-process operations on the same root run strictly one at a time":    *)
(* whatever becomes of the lock directory, two operations of one process   *)
(* never work on the files together.                                       *)
(***************************************************************************)
THEOREM StoreIsSerialPerProcess == StoreSpec => []OneOperationPerProcess
<1>1. OneAtATimePerProcess /\ WorksInLock => OneOperationPerProcess
  BY DEF OneAtATimePerProcess, WorksInLock, OneOperationPerProcess, Running
<1> QED
  BY <1>1, StoreWorksInLock, PTL

-----------------------------------------------------------------------------
(***************************************************************************)
(* Across processes.  While no lock is broken under a call at work, the    *)
(* lock directory is that of the call which holds the lock; so an          *)
(* operation begins when no other is under way, in any process.            *)
(***************************************************************************)
Abandoned ==
    \A c \in Calls :
        (pc[c] = "breaking" /\ pc'[c] = "probing" /\ lockDir # NoCall)
            => pc[lockDir] \notin {"holding", "leaving"}

HolderMadeLock ==
    \A c \in Calls : pc[c] \in {"holding", "leaving"} => lockDir = c

LEMMA HolderStep ==
  ASSUME LockTypeOK, HolderMadeLock, [LockNext]_lockVars,
         Abandoned \/ UNCHANGED lockVars
  PROVE  HolderMadeLock'
<1> USE LockAssumption DEF LockTypeOK, HolderMadeLock
<1>1. ASSUME NEW c \in Calls, pc[c] \notin {"holding", "leaving"},
             NEW to, to \notin {"holding", "leaving"},
             pc' = [pc EXCEPT ![c] = to], UNCHANGED lockDir
      PROVE  HolderMadeLock'
  BY <1>1
<1>2. ASSUME NEW c \in Calls,
             \/ Enqueue(c) \/ Dequeue(c) \/ FindLock(c) \/ SeeFresh(c)
             \/ SeeStale(c) \/ GiveUp(c)
      PROVE  HolderMadeLock'
  <2>1. /\ pc[c] \notin {"holding", "leaving"}
        /\ \E to \in Phases \ {"holding", "leaving"} : pc' = [pc EXCEPT ![c] = to]
        /\ UNCHANGED lockDir
    BY <1>2 DEF Enqueue, Dequeue, FindLock, SeeFresh, SeeStale, GiveUp, Goto,
                dirVars, Phases, Ended
  <2> QED
    BY <1>1, <2>1
<1>3. ASSUME NEW c \in Calls, MakeLock(c) PROVE HolderMadeLock'
  BY <1>3 DEF MakeLock, Goto
<1>4. ASSUME NEW c \in Calls, BreakLock(c) PROVE HolderMadeLock'
  <2>1. pc[c] = "breaking" /\ pc'[c] = "probing"
    BY <1>4 DEF BreakLock, Goto
  <2>2. Abandoned
    BY <2>1 DEF lockVars
  <2>3. \A d \in Calls : pc[d] \notin {"holding", "leaving"}
    BY <2>1, <2>2 DEF Abandoned
  <2> QED
    BY <1>4, <2>3 DEF BreakLock, Goto
<1>5. ASSUME NEW c \in Calls, Finish(c) PROVE HolderMadeLock'
  BY <1>5 DEF Finish, Goto, dirVars
<1>6. ASSUME NEW c \in Calls, Leave(c) PROVE HolderMadeLock'
  BY <1>6 DEF Leave, Goto
<1>7. ASSUME NEW c \in Calls, Raise(c) PROVE HolderMadeLock'
  BY <1>7 DEF Raise, dirVars
<1>8. ASSUME NEW p \in Procs, Crash(p) PROVE HolderMadeLock'
  BY <1>8 DEF Crash, dirVars
<1>9. CASE Age \/ UNCHANGED lockVars
  BY <1>9 DEF Age, lockVars, dirVars
<1> QED
  BY <1>2, <1>3, <1>4, <1>5, <1>6, <1>7, <1>8, <1>9 DEF LockNext, LockStep

LEMMA HolderStays ==
  StoreSpec /\ BrokenLocksAreAbandoned => []HolderMadeLock
<1>1. LockInit => HolderMadeLock
  BY DEF LockInit, HolderMadeLock
<1>2. /\ LockTypeOK /\ HolderMadeLock /\ [LockNext]_lockVars /\ [Abandoned]_storeVars
      => HolderMadeLock'
  BY HolderStep DEF storeVars
<1>3. BrokenLocksAreAbandoned => [][Abandoned]_storeVars
  BY DEF BrokenLocksAreAbandoned, Abandoned
<1> QED
  BY <1>1, <1>2, <1>3, StoreUsesLock, LockTypeCorrect, PTL DEF LockSpec

(***************************************************************************)
(* The lock gives the protocol what it was written for.                    *)
(***************************************************************************)
LEMMA ServedStep ==
  ASSUME WorksInLock, HolderMadeLock, [StoreNext]_storeVars
  PROVE  [JournalNext]_journalVars
<1> USE StoreAssumption
<1>1. ASSUME NEW c \in Calls, StartOperation(c) PROVE JournalNext
  <2>1. PICK q \in Requests : q.kind \in Asks[c] /\ Begin(c, q)
    BY <1>1 DEF StartOperation
  <2>2. pc[c] = "holding" /\ step[c] = "idle"
    BY <1>1, <2>1, BeginMoves DEF StartOperation
  <2>3. \A d \in Calls : step[d] = "idle"
    BY <2>2 DEF WorksInLock, HolderMadeLock
  <2>4. Free(q)
    BY <2>3 DEF Free
  <2>5. Once(c, q)
    BY <2>1 DEF Once
  <2> QED
    BY <2>1, <2>4, <2>5 DEF Ask, JournalNext
<1>2. ASSUME NEW c \in Calls, Work(c) \/ Reject(c) PROVE JournalNext
  BY <1>2 DEF Work, Reject, JournalNext
<1>3. ASSUME NEW p \in Procs, ProcessCrash(p) PROVE [JournalNext]_journalVars
  BY <1>3 DEF ProcessCrash, JournalNext
<1>4. ASSUME NEW c \in Calls, LockOnly(c) \/ EndOperation(c)
      PROVE  UNCHANGED journalVars
  BY <1>4 DEF LockOnly, EndOperation
<1>5. CASE LockAges \/ UNCHANGED storeVars
  BY <1>5 DEF LockAges, storeVars
<1> QED
  BY <1>1, <1>2, <1>3, <1>4, <1>5 DEF StoreNext

(***************************************************************************)
(* As long as no lock is broken under a call at work, every step of the    *)
(* store is a step of the commit protocol as the lock is to serve it,      *)
(* whoever crashed and whoever took the lock over.                         *)
(***************************************************************************)
THEOREM LockServes == StoreSpec /\ BrokenLocksAreAbandoned => LockServesJournal
<1>1. WorksInLock /\ HolderMadeLock /\ [StoreNext]_storeVars
        => [JournalNext]_journalVars
  BY ServedStep
<1> QED
  BY <1>1, HolderStays, StoreWorksInLock, PTL DEF StoreSpec, LockServesJournal

(***************************************************************************)
(* A project that was created satisfies the invariant of the protocol.     *)
(***************************************************************************)
LEMMA StoreAsksAlone == JournalInv => CreatesAlone /\ AsksAlone
<1> SUFFICES ASSUME JournalInv PROVE CreatesAlone /\ AsksAlone
  OBVIOUS
<1>1. ASSUME NEW c \in Actors, step[c] # "idle" PROVE request[c].kind # "create"
  BY <1>1, StoreAssumption DEF JournalInv, CommitInv, CallInv, Asked
<1>2. CreatesAlone
  BY <1>1 DEF CreatesAlone
<1>3. ASSUME NEW c \in Actors, Ask(c), NEW d \in Actors PROVE step[d] = "idle"
  <2>1. PICK q \in Requests : q.kind # "create" /\ Free(q)
    BY <1>3, StoreAssumption DEF Ask
  <2> QED
    BY <1>1, <2>1, StoreAssumption DEF Free
<1> QED
  BY <1>2, <1>3 DEF AsksAlone

LEMMA CreatedIsWhole == CreatedInit => JournalInv
<1> SUFFICES ASSUME CreatedInit PROVE JournalInv
  OBVIOUS
<1>1. PICK r \in InitialRevisions, m \in Contents :
        LET first == [kind |-> "create", sequence |-> 0, revision |-> r,
                      previous |-> Null, content |-> m] IN
        /\ project = r
        /\ mapspec = SpecOf(first)
        /\ receipts = [x \in Revisions |-> IF x = r THEN first ELSE Null]
        /\ acked = {first}
  BY DEF CreatedInit
<1> DEFINE first == [kind |-> "create", sequence |-> 0, revision |-> r,
                     previous |-> Null, content |-> m]
           none == [x \in Revisions |-> Null]
<1>2. first \in Receipt /\ r \in Revisions /\ first # Null
  BY JournalAssumption DEF Receipt
<1>3. /\ first.revision = r /\ first.sequence = 0 /\ first.previous = Null
      /\ SpecOf(first) \in Spec /\ SpecOf(first) # Null
  BY <1>2, JournalAssumption DEF SpecOf, Spec
<1> HIDE DEF first
<1>4. /\ project = r /\ mapspec = SpecOf(first)
      /\ receipts = [none EXCEPT ![r] = first]
      /\ acked = {first}
  BY <1>1, <1>2 DEF first
<1>5. none \in [Revisions -> Receipt \cup {Null}]
  OBVIOUS
<1>6. Whole(project, mapspec, receipts)
  BY <1>2, <1>3, <1>4, <1>5, BeginsWhole
<1>7. receipts \in [Revisions -> Receipt \cup {Null}] /\ receipts[r] = first
      /\ \A x \in Revisions : receipts[x] # Null => x = r
  BY <1>2, <1>4, <1>5
<1>8. JournalTypeOK /\ Equipped
  BY <1>2, <1>3, <1>4, <1>7 DEF CreatedInit, JournalTypeOK, Equipped, Committing,
     Steps, Requests, Outcomes, NothingSeen, ReceiptFile
<1>9. journal = Null
  BY DEF CreatedInit
<1>10. /\ RecoveredProject = project
       /\ RecoveredSpec = mapspec
       /\ RecoveredReceipts = receipts
  BY <1>8, <1>9, NothingPending
<1>11. FilesInv
  BY <1>3, <1>4, <1>6, <1>7, <1>9, <1>10 DEF FilesInv, Indexed, InPlace,
     Recoverable, Uncreated, AckedDurable
<1>12. Serial /\ \A c \in Actors : CallInv(c)
  BY DEF CreatedInit, Serial, CallInv, Asked, Redoing, Reading, Preparing,
         Staging, Renaming
<1> QED
  BY <1>8, <1>11, <1>12 DEF JournalInv, CommitInv

LEMMA StoreKeepsJournalInv ==
  StoreSpec /\ BrokenLocksAreAbandoned => []JournalInv
<1>1. JournalInv /\ [JournalNext]_journalVars => JournalInv'
  BY EquippedInductive, CommitInvInductive, StoreAsksAlone DEF JournalInv
<1>2. StoreInit => JournalInv
  BY CreatedIsWhole DEF StoreInit
<1> QED
  BY <1>1, <1>2, LockServes, PTL DEF StoreSpec, LockServesJournal

(***************************************************************************)
(* "No partial write is allowed": cut a process down anywhere, let another *)
(* take its lock over, and what it recovers is one committed revision.     *)
(***************************************************************************)
THEOREM StoreIsAtomic == StoreSpec /\ BrokenLocksAreAbandoned => []NoPartialWrite
<1>1. JournalInv => NoPartialWrite
  BY FilesAreAtomic DEF JournalInv, CommitInv
<1> QED
  BY <1>1, StoreKeepsJournalInv, PTL

(***************************************************************************)
(* A commit that was acknowledged survives every later crash and takeover. *)
(***************************************************************************)
THEOREM StoreKeepsAcks == StoreSpec /\ BrokenLocksAreAbandoned => []AckedDurable
<1>1. JournalInv => AckedDurable
  BY DEF JournalInv, CommitInv, FilesInv
<1> QED
  BY <1>1, StoreKeepsJournalInv, PTL

(***************************************************************************)
(* What an open puts together from its separate reads is one committed     *)
(* revision, in the store as in the protocol alone.                        *)
(***************************************************************************)
THEOREM StoreReadsCommitted ==
  StoreSpec /\ BrokenLocksAreAbandoned => OpenReadsCommitted
<1>1. JournalInv => JournalTypeOK /\ Promised
  BY CommitInvPromises DEF JournalInv
<1> QED
  BY <1>1, StoreKeepsJournalInv, LockServes, PromisedReads, PTL
     DEF LockServesJournal

(***************************************************************************)
(* An apply or a restore takes effect on the revision its client saw.      *)
(***************************************************************************)
THEOREM StoreCommitsReviewed ==
  StoreSpec /\ BrokenLocksAreAbandoned => CommitsOnReviewedBase
<1>1. JournalInv => Promised
  BY CommitInvPromises DEF JournalInv
<1> QED
  BY <1>1, StoreKeepsJournalInv, PromisedReviewed, PTL

-----------------------------------------------------------------------------
(***************************************************************************)
(* History.  The receipt of an unfinished commit is not yet in place, and  *)
(* its place is free: since the check in commitProjectState nobody else    *)
(* has committed.                                                          *)
(***************************************************************************)
PlaceIsFree == Pending(ReceiptFile) => receipts[journal.receipt.revision] = Null

HistoryStays ==
    \A r \in Revisions : receipts[r] # Null => receipts'[r] = receipts[r]

(* The receipt is renamed into a place that is free. *)
LEMMA InstallKeepsHistory ==
  ASSUME JournalTypeOK, PlaceIsFree, NEW c \in Actors, receipt[c] \in Receipt,
         OnJournal(c), NEW f \in Files, Unmoved(c, f), Install(c, f),
         UNCHANGED journal
  PROVE  PlaceIsFree' /\ HistoryStays
<1> USE DEF Files, ReceiptFile, SpecFile, ProjectFile
<1>1. /\ journal # Null /\ journal' = journal
      /\ journal.txn = txn[c] /\ journal.receipt = receipt[c]
  BY DEF OnJournal
<1>2. \A g \in Files : Pending(g)' <=> Pending(g) /\ g # f
  BY InstallKeepsRecovered
<1>3. CASE f = ReceiptFile
  <2>1. receipts[receipt[c].revision] = Null
    BY <1>1, <1>3 DEF PlaceIsFree, Pending, Unmoved
  <2>2. receipts' = [receipts EXCEPT ![receipt[c].revision] = receipt[c]]
    BY <1>3 DEF Install
  <2> QED
    BY <1>2, <1>3, <2>1, <2>2 DEF PlaceIsFree, HistoryStays, JournalTypeOK
<1>4. CASE f # ReceiptFile
  <2>1. receipts' = receipts /\ (Pending(ReceiptFile)' <=> Pending(ReceiptFile))
    BY <1>2, <1>4 DEF Install
  <2> QED
    BY <1>1, <2>1 DEF PlaceIsFree, HistoryStays
<1> QED
  BY <1>3, <1>4

LEMMA HistoryStep ==
  ASSUME \A c \in Actors : "create" \notin Asks[c],
         JournalInv, PlaceIsFree, [JournalNext]_journalVars
  PROVE  PlaceIsFree' /\ HistoryStays
<1> USE DEF JournalInv, CommitInv
<1>1. ASSUME UNCHANGED <<receipts, journal, staged>>
      PROVE  PlaceIsFree' /\ HistoryStays
  BY <1>1 DEF PlaceIsFree, HistoryStays, Pending
<1>2. ASSUME NEW c \in Actors,
             \/ Ask(c) \/ Interrupt(c) \/ InspectTaken(c) \/ InspectEmpty(c)
             \/ RecoverNothing(c) \/ RecoverBegin(c) \/ RedoSkip(c) \/ RedoFind(c)
             \/ MoveGone(c) \/ ReadProject(c) \/ ReadSpec(c) \/ ReadHistory(c)
             \/ ReadMissing(c) \/ ReadInvalid(c) \/ Open(c) \/ Conflict(c)
             \/ Fail(c) \/ Plan(c) \/ CheckTaken(c) \/ CheckFree(c) \/ RenameGone(c)
      PROVE  PlaceIsFree' /\ HistoryStays
  <2>1. UNCHANGED <<receipts, journal, staged>>
    BY <1>2 DEF Ask, Begin, Interrupt, InspectTaken, InspectEmpty, RecoverNothing,
       RecoverBegin, RedoSkip, RedoFind, MoveGone, ReadProject, ReadSpec,
       ReadHistory, ReadMissing, ReadInvalid, Open, Conflict, Fail, Plan,
       CheckTaken, CheckFree, RenameGone, diskVars, filesVars
  <2> QED
    BY <1>1, <2>1
<1>3. ASSUME NEW c \in Actors, RedoMove(c) PROVE PlaceIsFree' /\ HistoryStays
  <2>1. /\ step[c] = "move" /\ Unmoved(c, at[c])
        /\ Install(c, at[c]) /\ UNCHANGED journal
    BY <1>3 DEF RedoMove, Move, Unmoved
  <2>2. receipt[c] \in Receipt /\ at[c] \in Files /\ OnJournal(c)
    BY <2>1 DEF Equipped, Committing, CallInv, Redoing
  <2> QED
    BY <2>1, <2>2, InstallKeepsHistory
<1>4. ASSUME NEW c \in Actors, Rename(c) PROVE PlaceIsFree' /\ HistoryStays
  <2>1. /\ step[c] = "rename" /\ Unmoved(c, at[c])
        /\ Install(c, at[c]) /\ UNCHANGED journal
    BY <1>4 DEF Rename, Unmoved
  <2>2. receipt[c] \in Receipt /\ at[c] \in Files /\ OnJournal(c)
    BY <2>1 DEF Equipped, Committing, CallInv, Renaming
  <2> QED
    BY <2>1, <2>2, InstallKeepsHistory
<1>5. ASSUME NEW c \in Actors, Stage(c) PROVE PlaceIsFree' /\ HistoryStays
  <2>1. /\ staged' = staged \cup {<<txn[c], at[c]>>}
        /\ UNCHANGED <<receipts, journal>>
        /\ journal # Null => journal.txn # txn[c]
    BY <1>5 DEF Stage, CallInv, Staging
  <2> QED
    BY <2>1 DEF PlaceIsFree, HistoryStays, Pending
<1>6. ASSUME NEW c \in Actors, Publish(c) PROVE PlaceIsFree' /\ HistoryStays
  <2>1. /\ step[c] = "publish" /\ UNCHANGED receipts
        /\ journal' = [txn |-> txn[c], receipt |-> receipt[c]]
    BY <1>6 DEF Publish, Move, filesVars
  <2>2. request[c].kind # "create"
    BY <2>1 DEF CallInv, Asked
  <2>3. receipts[receipt[c].revision] = Null
    BY <2>1, <2>2 DEF CallInv, Preparing, Continues
  <2> QED
    BY <2>1, <2>3 DEF PlaceIsFree, HistoryStays
<1>7. ASSUME NEW c \in Actors, RedoDone(c) \/ Clear(c)
      PROVE  PlaceIsFree' /\ HistoryStays
  <2>1. journal' = Null /\ UNCHANGED receipts
    BY <1>7 DEF RedoDone, Clear, filesVars
  <2> QED
    BY <2>1 DEF PlaceIsFree, HistoryStays, Pending
<1>8. CASE UNCHANGED journalVars
  BY <1>1, <1>8 DEF journalVars, diskVars, filesVars
<1> QED
  BY <1>2, <1>3, <1>4, <1>5, <1>6, <1>7, <1>8 DEF JournalNext, JournalStep

(***************************************************************************)
(* "Restore creates a new revision; history is never rewritten": a receipt *)
(* that exists stays as it is, through every recovery.                     *)
(***************************************************************************)
THEOREM StoreKeepsHistory ==
  StoreSpec /\ BrokenLocksAreAbandoned => HistoryNeverRewritten
<1>1. JournalInv /\ PlaceIsFree /\ [JournalNext]_journalVars
        => PlaceIsFree' /\ HistoryStays
  BY HistoryStep, StoreAssumption
<1>2. StoreInit => PlaceIsFree
  BY DEF StoreInit, CreatedInit, PlaceIsFree, Pending
<1>3. StoreSpec /\ BrokenLocksAreAbandoned => [][HistoryStays]_storeVars
  BY <1>1, <1>2, StoreKeepsJournalInv, LockServes, PTL
     DEF StoreSpec, LockServesJournal
<1> QED
  BY <1>3 DEF HistoryNeverRewritten, HistoryStays

-----------------------------------------------------------------------------
(***************************************************************************)
(* The log.  A created project has a log of one entry, and a step of the   *)
(* store is one of the protocol, so it appends to the log or leaves it.    *)
(***************************************************************************)
LogIsBegun == \E e \in Log!Entry : e.kind = "create" /\ CommittedLog = <<e>>

LEMMA CreatedLog == CreatedInit => LogInv /\ LogIsBegun
<1> SUFFICES ASSUME CreatedInit PROVE LogInv /\ LogIsBegun
  OBVIOUS
<1>1. PICK r \in InitialRevisions, m \in Contents :
        LET first == [kind |-> "create", sequence |-> 0, revision |-> r,
                      previous |-> Null, content |-> m] IN
        /\ project = r
        /\ mapspec = SpecOf(first)
        /\ receipts = [x \in Revisions |-> IF x = r THEN first ELSE Null]
  BY DEF CreatedInit
<1> DEFINE first == [kind |-> "create", sequence |-> 0, revision |-> r,
                     previous |-> Null, content |-> m]
<1>2. /\ first \in Receipt /\ r \in Revisions /\ first # Null
      /\ mapspec # Null /\ EntryOf(first) \in Log!Entry
      /\ EntryOf(first).kind = "create"
  BY <1>1, JournalAssumption DEF Receipt, SpecOf, Spec, EntryOf, Log!Entry, Revisions
<1>3. receipts = [x \in Revisions |-> IF x = r THEN first ELSE Null]
  BY <1>1
<1> HIDE DEF first
<1>4. History(receipts) = {first} /\ receipts[r] = first
  BY <1>2, <1>3 DEF History
<1>5. JournalInv
  BY CreatedIsWhole
<1>6. RecoveredReceipts = receipts
  BY <1>5, NothingPending DEF JournalInv, CreatedInit
<1>7. Connected(receipts) /\ receipts \in [Revisions -> Receipt \cup {Null}]
  BY <1>2, <1>5, <1>6
     DEF JournalInv, JournalTypeOK, CommitInv, FilesInv, Recoverable, Whole, Readable,
         CreatedInit, RecoveredSpec, Pending
<1>8. Counted(receipts) /\ Entries(receipts) = <<EntryOf(first)>>
  BY <1>2, <1>4, <1>7, FirstEntry
<1>9. LogInv
  BY <1>2, <1>6, <1>8 DEF LogInv, Creating, Follows, Prepared, CreatedInit
<1> QED
  BY <1>2, <1>6, <1>8, <1>9, CommittedEntries DEF LogIsBegun

(***************************************************************************)
(* The store with the lock it has, and with processes that crash, is the   *)
(* log of a project that has been created: each step appends one revision  *)
(* to it or none, and the log is never rewritten.                          *)
(***************************************************************************)
THEOREM StoreAppends ==
  StoreSpec /\ BrokenLocksAreAbandoned
    => LogIsBegun /\ [][Log!LogNext]_CommittedLog
<1>1. JournalInv /\ LogInv /\ [JournalNext]_journalVars
        => LogInv' /\ [Log!LogNext]_CommittedLog
  BY CommitInvIsOrderly, LogStep, StoreAsksAlone DEF JournalInv, CommitInv
<1>2. StoreInit => LogInv /\ LogIsBegun
  BY CreatedLog DEF StoreInit
<1> QED
  BY <1>1, <1>2, StoreKeepsJournalInv, LockServes, PTL
     DEF StoreSpec, LockServesJournal

-----------------------------------------------------------------------------
(***************************************************************************)
(* What the theorems above assume is so at least until a lock directory    *)
(* has grown stale: before that nobody breaks one.                         *)
(***************************************************************************)
THEOREM FreshLocksAreKept ==
  StoreSpec /\ []~everStale => BrokenLocksAreAbandoned
<1>1. DirInv /\ ~everStale => Abandoned
  BY DEF DirInv, Abandoned
<1>2. StoreSpec /\ []~everStale => [][Abandoned]_storeVars
  BY <1>1, StoreUsesLock, DirCorrect, PTL
<1> QED
  BY <1>2 DEF BrokenLocksAreAbandoned, Abandoned
=============================================================================
