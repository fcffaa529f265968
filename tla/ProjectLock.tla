---------------------------- MODULE ProjectLock ----------------------------
(***************************************************************************)
(* withProjectLock of apps/workbench/server/project-store.mjs: the two     *)
(* locks around every operation on a Workbench project directory.          *)
(*                                                                         *)
(* Inside one server process, calls on the same root are chained through   *)
(* the map projectLockTails: a call waits for the promise it found there   *)
(* and leaves its own.  Between processes, the directory                   *)
(* .gis-engine/project.lock is created with mkdir, probed a bounded number *)
(* of times, and broken when its mtime is older than five minutes.         *)
(*                                                                         *)
(* A call is one invocation of withProjectLock.  The operation it protects *)
(* is the interval in which its pc is "holding"; ProjectStore.tla puts the *)
(* commit protocol there.                                                  *)
(***************************************************************************)
EXTENDS Naturals, FiniteSets

CONSTANTS
    Procs,          \* server processes sharing one project directory
    Calls,          \* invocations of withProjectLock
    CallProc,       \* the process that makes each call
    NoCall,         \* no call: no tail in the map, no lock directory
    RetryLimit,     \* PROJECT_LOCK_RETRY_LIMIT
    MayOutlast,     \* may a live holder outlast PROJECT_LOCK_STALE_MS?
    MayFail,        \* may mkdir, stat or rm fail with an unexpected code?
    CrashLimit      \* bound: crashes of a process in one behaviour

ASSUME LockAssumption ==
    /\ CallProc \in [Calls -> Procs]
    /\ NoCall \notin Calls
    /\ RetryLimit \in Nat
    /\ MayOutlast \in BOOLEAN
    /\ MayFail \in BOOLEAN
    /\ CrashLimit \in Nat

VARIABLES
    pc,         \* where each call stands in withProjectLock
    prev,       \* previous: the call whose chain this one awaits
    released,   \* has releaseTail been called?
    tail,       \* projectLockTails.get(root) in each process
    attempt,    \* the retry counter of each call
    lockDir,    \* the call that made the lock directory, or NoCall
    stale,      \* is its mtime older than PROJECT_LOCK_STALE_MS?
    crashes,    \* number of crashes so far
    (***********************************************************************)
    (* History variables: read by the properties only.                     *)
    (***********************************************************************)
    arrival,    \* position of each call in arrival order, 0 before it
    arrivals,   \* number of calls so far
    everStale   \* has any lock directory ever become stale?

queueVars == <<prev, released, tail, arrival, arrivals>>
dirVars   == <<lockDir, stale, everStale>>
lockVars  == <<pc, queueVars, attempt, dirVars, crashes>>

(***************************************************************************)
(* "idle": not called.  "queued": await previous.  "probing": about to     *)
(* mkdir.  "blocked": mkdir said EEXIST, about to stat.  "breaking": stat  *)
(* said stale, about to rm.  "holding": inside the operation.  "leaving":  *)
(* in the finally block.  The others are final: returned, gave up as busy, *)
(* rejected by an unexpected error, lost with its process.                 *)
(***************************************************************************)
Ended == {"returned", "busy", "failed", "dead"}
Phases == {"idle", "queued", "probing", "blocked", "breaking",
           "holding", "leaving"} \cup Ended

(***************************************************************************)
(* Past `await previous`, and not done with the lock.                      *)
(***************************************************************************)
Running == {"probing", "blocked", "breaking", "holding", "leaving"}
Live    == Running \cup {"queued"}

LockInit ==
    /\ pc = [c \in Calls |-> "idle"]
    /\ prev = [c \in Calls |-> NoCall]
    /\ released = [c \in Calls |-> FALSE]
    /\ tail = [p \in Procs |-> NoCall]
    /\ attempt = [c \in Calls |-> 0]
    /\ lockDir = NoCall
    /\ stale = FALSE
    /\ crashes = 0
    /\ arrival = [c \in Calls |-> 0]
    /\ arrivals = 0
    /\ everStale = FALSE

Goto(c, from, to) ==
    /\ pc[c] = from
    /\ pc' = [pc EXCEPT ![c] = to]

-----------------------------------------------------------------------------
(***************************************************************************)
(* The in-process chain.                                                   *)
(***************************************************************************)

(***************************************************************************)
(* The synchronous prefix: read the current tail, install a new one.       *)
(***************************************************************************)
Enqueue(c) ==
    /\ Goto(c, "idle", "queued")
    /\ prev' = [prev EXCEPT ![c] = tail[CallProc[c]]]
    /\ tail' = [tail EXCEPT ![CallProc[c]] = c]
    /\ arrival' = [arrival EXCEPT ![c] = arrivals + 1]
    /\ arrivals' = arrivals + 1
    /\ UNCHANGED <<released, attempt, dirVars, crashes>>

(* Mutant of PredecessorSettled: the call does not await previous. *)
NoWait(c) == c \in Calls

(***************************************************************************)
(* chain = previous.then(() => tail) resolves when every earlier chain has *)
(* and this tail is released; a call releases only after its own wait, so  *)
(* the predecessor's release is what is awaited.                           *)
(***************************************************************************)
PredecessorSettled(c) == prev[c] # NoCall => released[prev[c]]

Dequeue(c) ==
    /\ PredecessorSettled(c)
    /\ Goto(c, "queued", "probing")
    /\ UNCHANGED <<queueVars, attempt, dirVars, crashes>>

(* Mutant of Release: the map entry is deleted whoever owns it. *)
ReleaseAnyTail(c) ==
    /\ released' = [released EXCEPT ![c] = TRUE]
    /\ tail' = [tail EXCEPT ![CallProc[c]] = NoCall]
    /\ UNCHANGED <<prev, arrival, arrivals>>

(***************************************************************************)
(* releaseTail() followed by settleLockTail: the map entry is deleted only *)
(* if no later call has replaced it.                                       *)
(***************************************************************************)
Release(c) ==
    /\ released' = [released EXCEPT ![c] = TRUE]
    /\ tail' = [tail EXCEPT ![CallProc[c]] = IF @ = c THEN NoCall ELSE @]
    /\ UNCHANGED <<prev, arrival, arrivals>>

-----------------------------------------------------------------------------
(***************************************************************************)
(* The lock directory.                                                     *)
(***************************************************************************)

(* Mutant of MakeLock: mkdir with recursive: true never says EEXIST. *)
MakeLockRecursive(c) ==
    /\ attempt[c] < RetryLimit
    /\ Goto(c, "probing", "holding")
    /\ lockDir' = c
    /\ stale' = FALSE
    /\ UNCHANGED <<queueVars, attempt, everStale, crashes>>

MakeLock(c) ==
    /\ attempt[c] < RetryLimit
    /\ lockDir = NoCall
    /\ Goto(c, "probing", "holding")
    /\ lockDir' = c
    /\ stale' = FALSE
    /\ UNCHANGED <<queueVars, attempt, everStale, crashes>>

FindLock(c) ==
    /\ attempt[c] < RetryLimit
    /\ lockDir # NoCall
    /\ Goto(c, "probing", "blocked")
    /\ UNCHANGED <<queueVars, attempt, dirVars, crashes>>

(***************************************************************************)
(* The directory is fresh, or gone by the time of the stat: sleep, retry.  *)
(***************************************************************************)
SeeFresh(c) ==
    /\ lockDir # NoCall => ~stale
    /\ Goto(c, "blocked", "probing")
    /\ attempt' = [attempt EXCEPT ![c] = @ + 1]
    /\ UNCHANGED <<queueVars, dirVars, crashes>>

(* Mutant of SeeStale: the age of the directory is not compared. *)
SeeAnyAge(c) ==
    /\ lockDir # NoCall
    /\ Goto(c, "blocked", "breaking")
    /\ UNCHANGED <<queueVars, attempt, dirVars, crashes>>

SeeStale(c) ==
    /\ lockDir # NoCall
    /\ stale
    /\ Goto(c, "blocked", "breaking")
    /\ UNCHANGED <<queueVars, attempt, dirVars, crashes>>

(* Mutant of BreakLock: a broken lock gives the attempt back, twice. *)
BreakLockRefund(c) ==
    /\ Goto(c, "breaking", "probing")
    /\ lockDir' = NoCall
    /\ stale' = FALSE
    /\ attempt' = [attempt EXCEPT ![c] = @ - 1]
    /\ UNCHANGED <<queueVars, everStale, crashes>>

(***************************************************************************)
(* rm names the path, not the directory that was found stale: it removes   *)
(* whatever is there by now.                                               *)
(***************************************************************************)
BreakLock(c) ==
    /\ Goto(c, "breaking", "probing")
    /\ lockDir' = NoCall
    /\ stale' = FALSE
    /\ attempt' = [attempt EXCEPT ![c] = @ + 1]
    /\ UNCHANGED <<queueVars, everStale, crashes>>

(* Mutant of GiveUp: the busy path forgets releaseTail. *)
GiveUpHoldingTail(c) ==
    /\ attempt[c] >= RetryLimit
    /\ Goto(c, "probing", "busy")
    /\ UNCHANGED <<queueVars, attempt, dirVars, crashes>>

GiveUp(c) ==
    /\ attempt[c] >= RetryLimit
    /\ Goto(c, "probing", "busy")
    /\ Release(c)
    /\ UNCHANGED <<attempt, dirVars, crashes>>

(***************************************************************************)
(* The operation returned or threw.                                        *)
(***************************************************************************)
Finish(c) ==
    /\ Goto(c, "holding", "leaving")
    /\ UNCHANGED <<queueVars, attempt, dirVars, crashes>>

(***************************************************************************)
(* The finally block; again rm names the path.                             *)
(***************************************************************************)
Leave(c) ==
    /\ Goto(c, "leaving", "returned")
    /\ lockDir' = NoCall
    /\ stale' = FALSE
    /\ Release(c)
    /\ UNCHANGED <<attempt, everStale, crashes>>

(***************************************************************************)
(* mkdir, stat or rm fails with an unexpected code.  The error leaves      *)
(* withProjectLock by a path on which releaseTail is not called.           *)
(***************************************************************************)
Raise(c) ==
    /\ MayFail
    /\ pc[c] \in Running \ {"holding"}
    /\ pc' = [pc EXCEPT ![c] = "failed"]
    /\ UNCHANGED <<queueVars, attempt, dirVars, crashes>>

-----------------------------------------------------------------------------
(***************************************************************************)
(* The environment.                                                        *)
(***************************************************************************)

(***************************************************************************)
(* The process dies and is started again: its calls and its map are lost,  *)
(* the directory stays.                                                    *)
(***************************************************************************)
Crash(p) ==
    /\ crashes < CrashLimit
    /\ \E c \in Calls : CallProc[c] = p /\ pc[c] \in Live
    /\ pc' = [c \in Calls |-> IF CallProc[c] = p /\ pc[c] \in Live
                              THEN "dead" ELSE pc[c]]
    /\ tail' = [tail EXCEPT ![p] = NoCall]
    /\ crashes' = crashes + 1
    /\ UNCHANGED <<prev, released, arrival, arrivals, attempt, dirVars>>

(***************************************************************************)
(* Five minutes pass over a lock directory.  An operation takes            *)
(* milliseconds: a directory whose maker is still at work ages only if     *)
(* MayOutlast (a suspended machine, a stalled disk).                       *)
(***************************************************************************)
Age ==
    /\ lockDir # NoCall
    /\ ~stale
    /\ ~MayOutlast => pc[lockDir] \notin Running
    /\ stale' = TRUE
    /\ everStale' = TRUE
    /\ UNCHANGED <<pc, queueVars, attempt, lockDir, crashes>>

-----------------------------------------------------------------------------
LockStep(c) ==
    \/ Dequeue(c)
    \/ MakeLock(c)
    \/ FindLock(c)
    \/ SeeFresh(c)
    \/ SeeStale(c)
    \/ BreakLock(c)
    \/ GiveUp(c)
    \/ Leave(c)

LockNext ==
    \/ \E c \in Calls : Enqueue(c) \/ LockStep(c) \/ Finish(c) \/ Raise(c)
    \/ \E p \in Procs : Crash(p)
    \/ Age

LockSpec == LockInit /\ [][LockNext]_lockVars

(***************************************************************************)
(* The event loop runs every call that can move, and every operation ends: *)
(* it is a finite sequence of file system calls.                           *)
(***************************************************************************)
FairLockSpec ==
    /\ LockSpec
    /\ \A c \in Calls : WF_lockVars(LockStep(c)) /\ WF_lockVars(Finish(c))

-----------------------------------------------------------------------------
LockTypeOK ==
    /\ pc \in [Calls -> Phases]
    /\ prev \in [Calls -> Calls \cup {NoCall}]
    /\ released \in [Calls -> BOOLEAN]
    /\ tail \in [Procs -> Calls \cup {NoCall}]
    /\ attempt \in [Calls -> Nat]
    /\ lockDir \in Calls \cup {NoCall}
    /\ stale \in BOOLEAN
    /\ crashes \in Nat
    /\ arrival \in [Calls -> Nat]
    /\ arrivals \in Nat
    /\ everStale \in BOOLEAN

(***************************************************************************)
(* "In-process operations on the same root run strictly one at a time":    *)
(* two calls of one process are never both past the chain, whatever        *)
(* crashes, errors and stale locks do.                                     *)
(***************************************************************************)
OneAtATimePerProcess ==
    \A c, d \in Calls :
        (c # d /\ CallProc[c] = CallProc[d])
            => ~(pc[c] \in Running /\ pc[d] \in Running)

(***************************************************************************)
(* A call is past the chain only when every earlier call of its process    *)
(* has ended: no call overtakes another.                                   *)
(***************************************************************************)
InArrivalOrder ==
    \A c, d \in Calls :
        ( /\ CallProc[c] = CallProc[d]
          /\ 0 < arrival[c]
          /\ arrival[c] < arrival[d]
          /\ pc[d] \in Running )
            => pc[c] \in Ended

(***************************************************************************)
(* "The fs lock below only guards other processes": no two calls, of any   *)
(* processes, are inside the operation together.                           *)
(***************************************************************************)
Exclusive ==
    \A c, d \in Calls : (pc[c] = "holding" /\ pc[d] = "holding") => c = d

(***************************************************************************)
(* The same, as far as it is true: until some lock directory has grown     *)
(* stale, at most one call is inside the operation, and the directory is   *)
(* the one it made.                                                        *)
(***************************************************************************)
ExclusiveUntilStale ==
    ~everStale =>
        /\ Exclusive
        /\ \A c \in Calls : pc[c] = "holding" => lockDir = c

(***************************************************************************)
(* Every call that entered the chain ends, unless an earlier call of its   *)
(* process was rejected by an unexpected error and left its tail           *)
(* unreleased.                                                             *)
(***************************************************************************)
EveryCallSettles ==
    \A c \in Calls :
        pc[c] = "queued"
            ~> \/ pc[c] \in Ended
               \/ \E d \in Calls : /\ CallProc[d] = CallProc[c]
                                   /\ arrival[d] < arrival[c]
                                   /\ pc[d] = "failed"
=============================================================================
