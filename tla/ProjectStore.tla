---------------------------- MODULE ProjectStore ----------------------------
(***************************************************************************)
(* The Workbench project store: the commit protocol of CommitJournal run   *)
(* by the calls of ProjectLock, several server processes on one project    *)
(* directory.                                                              *)
(*                                                                         *)
(* Open, apply and restore do their work while their pc is "holding".  The *)
(* project exists from the start: a create does not take the lock, and     *)
(* CommitJournal alone lets it run beside the others.                      *)
(***************************************************************************)
EXTENDS ProjectLock, CommitJournal

ASSUME StoreAssumption ==
    /\ Actors = Calls
    /\ \A c \in Calls : "create" \notin Asks[c]
    /\ Unlocked = {"create"}

storeVars == <<lockVars, journalVars>>

(* A project that was created and not yet changed. *)
CreatedInit ==
    /\ \E r \in InitialRevisions, m \in Contents :
         LET first == [kind |-> "create", sequence |-> 0, revision |-> r,
                       previous |-> Null, content |-> m] IN
         /\ project = r
         /\ mapspec = SpecOf(first)
         /\ receipts = [x \in Revisions |-> IF x = r THEN first ELSE Null]
         /\ acked = {first}
    /\ journal = Null
    /\ staged = {}
    /\ step = [c \in Actors |-> "idle"]
    /\ request = [c \in Actors |-> NoRequest]
    /\ receipt = [c \in Actors |-> Null]
    /\ txn = [c \in Actors |-> Null]
    /\ at = [c \in Actors |-> ReceiptFile]
    /\ seen = [c \in Actors |-> NothingSeen]
    /\ outcome = [c \in Actors |-> "none"]
    /\ interrupts = 0

StoreInit == LockInit /\ CreatedInit

-----------------------------------------------------------------------------
(* Waiting for, breaking and leaving the lock. *)
LockOnly(c) ==
    /\ Enqueue(c) \/ LockStep(c) \/ Raise(c)
    /\ UNCHANGED journalVars

(* A call has the lock: its operation begins ... *)
StartOperation(c) ==
    /\ pc[c] = "holding"
    /\ outcome[c] = "none"
    /\ \E q \in Requests : q.kind \in Asks[c] /\ Begin(c, q)
    /\ UNCHANGED lockVars

(* ... proceeds ... *)
Work(c) ==
    /\ pc[c] = "holding"
    /\ JournalStep(c)
    /\ UNCHANGED lockVars

(* ... may be rejected by a system call, upon which the lock is left ... *)
Reject(c) ==
    /\ MayFail
    /\ pc[c] = "holding"
    /\ Interrupt(c)
    /\ UNCHANGED lockVars

(* ... and when it has answered, the finally block runs. *)
EndOperation(c) ==
    /\ outcome[c] # "none"
    /\ Finish(c)
    /\ UNCHANGED journalVars

(***************************************************************************)
(* A process dies: besides its place in the lock, the operation it was in  *)
(* the middle of is lost.                                                  *)
(***************************************************************************)
ProcessCrash(p) ==
    LET lost == {c \in Calls : CallProc[c] = p /\ step[c] # "idle"} IN
    /\ Crash(p)
    /\ IF lost = {} THEN UNCHANGED journalVars
                    ELSE \E c \in lost : Interrupt(c)

LockAges == Age /\ UNCHANGED journalVars

StoreNext ==
    \/ \E c \in Calls :
         \/ LockOnly(c) \/ StartOperation(c) \/ Work(c)
         \/ Reject(c) \/ EndOperation(c)
    \/ \E p \in Procs : ProcessCrash(p)
    \/ LockAges

StoreSpec == StoreInit /\ [][StoreNext]_storeVars

-----------------------------------------------------------------------------
(***************************************************************************)
(* What the theorems about the store assume: a lock is only broken when    *)
(* the call that made it is gone -- it died, or an error took it past its  *)
(* cleanup.  The code does not ensure it: rm names a path, so a second     *)
(* waiter that found the same stale lock removes the lock of the first,    *)
(* which is at work by then (the run store_rewrite).                       *)
(***************************************************************************)
BrokenLocksAreAbandoned ==
    [][\A c \in Calls :
          (pc[c] = "breaking" /\ pc'[c] = "probing" /\ lockDir # NoCall)
             => pc[lockDir] \notin {"holding", "leaving"}]_storeVars

(***************************************************************************)
(* The lock gives the protocol what it was written for: an operation       *)
(* begins only when no other is under way, in any process.                 *)
(***************************************************************************)
LockServesJournal == [][JournalNext]_journalVars

(***************************************************************************)
(* "In-process operations on the same root run strictly one at a time":    *)
(* two operations of one process never interleave on the files, even when  *)
(* a lock has been broken.                                                 *)
(***************************************************************************)
OneOperationPerProcess ==
    \A c, d \in Calls :
        (CallProc[c] = CallProc[d] /\ step[c] # "idle" /\ step[d] # "idle")
            => c = d

(***************************************************************************)
(* "Restore creates a new revision; history is never rewritten"            *)
(* (gis-engine-workbench-v1.md): a receipt that exists stays as it is.     *)
(***************************************************************************)
HistoryNeverRewritten ==
    [][\A r \in Revisions :
          receipts[r] # Null => receipts'[r] = receipts[r]]_storeVars
=============================================================================
