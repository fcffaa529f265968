----------------------------- MODULE MapRuntime -----------------------------
(***************************************************************************)
(* The class MapRuntime of packages/engine/src/runtime/MapRuntime.ts: one  *)
(* map, its committed MapSpec and the renderer adapter that shows it.      *)
(*                                                                         *)
(* Applies run one after the other through the promise #applyQueue.  Each  *)
(* hands a patch to the adapter and commits the new spec when the adapter  *)
(* has accepted it; when it has not, the adapter is given the last         *)
(* committed spec again, and if that fails too, the next apply starts by   *)
(* retrying it.  Reads and destroy wait for the queue as they find it.     *)
(*                                                                         *)
(* A MapSpec is the sequence of the applies that made it.  A step is what  *)
(* runs between two awaits; the adapter's own steps are its answers.       *)
(***************************************************************************)
EXTENDS Naturals, Sequences

CONSTANTS
    Applies,        \* calls of apply
    Reads,          \* calls of snapshot and queryFeatures
    Destroys,       \* calls of destroy
    NoCall,         \* the resolved promise: nothing to wait for
    Torn            \* the adapter shows something that is no MapSpec

RuntimeCalls == Applies \cup Reads \cup Destroys

ASSUME RuntimeAssumption ==
    /\ Applies \cap Reads = {}
    /\ Applies \cap Destroys = {}
    /\ Reads \cap Destroys = {}
    /\ NoCall \notin RuntimeCalls
    /\ Torn \notin Seq(Applies)

VARIABLES
    (***********************************************************************)
    (* The runtime.                                                        *)
    (***********************************************************************)
    spec,           \* #spec
    needsReload,    \* #needsReload
    closing,        \* #closing
    destroyed,      \* #destroyed: the adapter has been told to release
    tail,           \* the last apply in #applyQueue, or NoCall
    (***********************************************************************)
    (* The calls.                                                          *)
    (***********************************************************************)
    pc,             \* where each call stands
    behind,         \* the apply each call waits for
    result,         \* what each call answered
    (***********************************************************************)
    (* The adapter.                                                        *)
    (***********************************************************************)
    shown,          \* the MapSpec it shows, or Torn
    (***********************************************************************)
    (* History.                                                            *)
    (***********************************************************************)
    accepted,       \* the applies that entered the queue, in order
    asked           \* how many there were when each read was called

lifeVars    == <<closing, destroyed>>
historyVars == <<accepted, asked>>
callVars    == <<pc, behind, result>>
runtimeVars ==
    <<spec, needsReload, lifeVars, tail, callVars, shown, historyVars>>

(***************************************************************************)
(* "recovering" and "reloading": adapter.load is under way, before and     *)
(* after applyPatch; "patching": adapter.applyPatch is.                    *)
(***************************************************************************)
Changing == {"recovering", "patching", "reloading"}
Phases == {"idle", "queued", "reading", "releasing", "done"} \cup Changing

(***************************************************************************)
(* "unchanged": an apply of which nothing was committed -- its commands    *)
(* failed, were skipped or threw, or it was a dry run.                     *)
(***************************************************************************)
Results == {"none", "applied", "unchanged", "failed",
            "answered", "released", "already", "rejected"}

(***************************************************************************)
(* MapRuntime.create has loaded the first spec.                            *)
(***************************************************************************)
RuntimeInit ==
    /\ spec = <<>>
    /\ needsReload = FALSE
    /\ closing = FALSE
    /\ destroyed = FALSE
    /\ tail = NoCall
    /\ pc = [c \in RuntimeCalls |-> "idle"]
    /\ behind = [c \in RuntimeCalls |-> NoCall]
    /\ result = [c \in RuntimeCalls |-> "none"]
    /\ shown = <<>>
    /\ accepted = <<>>
    /\ asked = [r \in Reads |-> 0]

Goto(c, from, to) ==
    /\ pc[c] = from
    /\ pc' = [pc EXCEPT ![c] = to]
    /\ UNCHANGED <<behind, result>>

Settle(c, from, answer) ==
    /\ pc[c] = from
    /\ pc' = [pc EXCEPT ![c] = "done"]
    /\ result' = [result EXCEPT ![c] = answer]
    /\ UNCHANGED behind

Wait(c) ==
    /\ pc' = [pc EXCEPT ![c] = "queued"]
    /\ behind' = [behind EXCEPT ![c] = tail]
    /\ UNCHANGED result

(* Mutant of Reached: a failed apply blocks the queue. *)
ReachedOnSuccess(c) ==
    behind[c] # NoCall =>
        pc[behind[c]] = "done" /\ result[behind[c]] # "failed"

(***************************************************************************)
(* The promise a call waits for has settled.  #applyQueue swallows         *)
(* rejections, so it does not matter how.                                  *)
(***************************************************************************)
Reached(c) == behind[c] # NoCall => pc[behind[c]] = "done"

-----------------------------------------------------------------------------
(***************************************************************************)
(* apply.                                                                  *)
(***************************************************************************)

(* #assertAlive *)
Refuse(c) ==
    /\ closing \/ destroyed
    /\ Settle(c, "idle", "rejected")
    /\ UNCHANGED <<spec, needsReload, lifeVars, tail, shown, historyVars>>

(* Mutant of Submit: the applies are not chained. *)
SubmitAtOnce(a) ==
    /\ ~closing /\ ~destroyed
    /\ Goto(a, "idle", "queued")
    /\ tail' = a
    /\ accepted' = Append(accepted, a)
    /\ UNCHANGED <<spec, needsReload, lifeVars, shown, asked>>

Submit(a) ==
    /\ ~closing /\ ~destroyed
    /\ pc[a] = "idle"
    /\ Wait(a)
    /\ tail' = a
    /\ accepted' = Append(accepted, a)
    /\ UNCHANGED <<spec, needsReload, lifeVars, shown, asked>>

(***************************************************************************)
(* #applyImmediately finds that the adapter is out of step.                *)
(***************************************************************************)
Recover(a) ==
    /\ Reached(a)
    /\ needsReload
    /\ Goto(a, "queued", "recovering")
    /\ UNCHANGED <<spec, needsReload, lifeVars, tail, shown, historyVars>>

RecoverFails(a) ==
    /\ Settle(a, "recovering", "failed")
    /\ shown' \in {shown, Torn}
    /\ UNCHANGED <<spec, needsReload, lifeVars, tail, historyVars>>

(***************************************************************************)
(* applyCommands on the committed spec: there is a patch for the adapter,  *)
(* or there is none and the call is over.                                  *)
(***************************************************************************)
Decide(a, from) ==
    /\ \/ Goto(a, from, "patching")
       \/ Settle(a, from, "unchanged")
    /\ UNCHANGED <<spec, lifeVars, tail, historyVars>>

Start(a) ==
    /\ Reached(a)
    /\ ~needsReload
    /\ Decide(a, "queued")
    /\ UNCHANGED <<needsReload, shown>>

RecoverSucceeds(a) ==
    /\ Decide(a, "recovering")
    /\ shown' = spec
    /\ needsReload' = FALSE

(***************************************************************************)
(* The adapter patches what it shows.                                      *)
(***************************************************************************)
Patched(a) == IF shown = Torn THEN Torn ELSE Append(shown, a)

PatchSucceeds(a) ==
    /\ Settle(a, "patching", "applied")
    /\ shown' = Patched(a)
    /\ spec' = Append(spec, a)
    /\ UNCHANGED <<needsReload, lifeVars, tail, historyVars>>

(* Mutant of PatchFails: #needsReload is left alone. *)
PatchFailsUnmarked(a) ==
    /\ Goto(a, "patching", "reloading")
    /\ shown' \in {shown, Torn, Patched(a)}
    /\ UNCHANGED <<spec, needsReload, lifeVars, tail, historyVars>>

(* Mutant of PatchFails: the new spec is kept whatever the adapter says. *)
PatchFailsCommitted(a) ==
    /\ Goto(a, "patching", "reloading")
    /\ shown' \in {shown, Torn, Patched(a)}
    /\ needsReload' = TRUE
    /\ spec' = Append(spec, a)
    /\ UNCHANGED <<lifeVars, tail, historyVars>>

(***************************************************************************)
(* The adapter rejects, or answers with an error: it may have applied all  *)
(* of the patch, some of it or nothing.  The reload begins at once.        *)
(***************************************************************************)
PatchFails(a) ==
    /\ Goto(a, "patching", "reloading")
    /\ shown' \in {shown, Torn, Patched(a)}
    /\ needsReload' = TRUE
    /\ UNCHANGED <<spec, lifeVars, tail, historyVars>>

ReloadSucceeds(a) ==
    /\ Settle(a, "reloading", "failed")
    /\ shown' = spec
    /\ needsReload' = FALSE
    /\ UNCHANGED <<spec, lifeVars, tail, historyVars>>

ReloadFails(a) ==
    /\ Settle(a, "reloading", "failed")
    /\ shown' \in {shown, Torn}
    /\ UNCHANGED <<spec, needsReload, lifeVars, tail, historyVars>>

-----------------------------------------------------------------------------
(***************************************************************************)
(* snapshot and queryFeatures.                                             *)
(***************************************************************************)

(* Mutant of Ask: a read does not wait for the queue. *)
AskAtOnce(r) ==
    /\ ~closing /\ ~destroyed
    /\ Goto(r, "idle", "queued")
    /\ asked' = [asked EXCEPT ![r] = Len(accepted)]
    /\ UNCHANGED <<spec, needsReload, lifeVars, tail, shown, accepted>>

Ask(r) ==
    /\ ~closing /\ ~destroyed
    /\ pc[r] = "idle"
    /\ Wait(r)
    /\ asked' = [asked EXCEPT ![r] = Len(accepted)]
    /\ UNCHANGED <<spec, needsReload, lifeVars, tail, shown, accepted>>

(***************************************************************************)
(* The queue as the read found it has settled: #assertAlive once more, and *)
(* the adapter is asked.                                                   *)
(***************************************************************************)
Read(r) ==
    /\ Reached(r)
    /\ ~closing /\ ~destroyed
    /\ Goto(r, "queued", "reading")
    /\ UNCHANGED <<spec, needsReload, lifeVars, tail, shown, historyVars>>

ReadRefused(r) ==
    /\ Reached(r)
    /\ closing \/ destroyed
    /\ Settle(r, "queued", "rejected")
    /\ UNCHANGED <<spec, needsReload, lifeVars, tail, shown, historyVars>>

ReadAnswered(r) ==
    /\ Settle(r, "reading", "answered")
    /\ UNCHANGED <<spec, needsReload, lifeVars, tail, shown, historyVars>>

-----------------------------------------------------------------------------
(***************************************************************************)
(* destroy.                                                                *)
(***************************************************************************)
DestroyAgain(d) ==
    /\ closing \/ destroyed
    /\ Settle(d, "idle", "already")
    /\ UNCHANGED <<spec, needsReload, lifeVars, tail, shown, historyVars>>

(* Mutant of Close: destroy becomes the tail of the queue. *)
CloseAsTail(d) ==
    /\ ~closing /\ ~destroyed
    /\ pc[d] = "idle"
    /\ closing' = TRUE
    /\ Wait(d)
    /\ tail' = d
    /\ UNCHANGED <<spec, needsReload, destroyed, shown, historyVars>>

Close(d) ==
    /\ ~closing /\ ~destroyed
    /\ pc[d] = "idle"
    /\ closing' = TRUE
    /\ Wait(d)
    /\ tail' = NoCall
    /\ UNCHANGED <<spec, needsReload, destroyed, shown, historyVars>>

(* Mutant of Release: the queue is not awaited. *)
ReleaseAtOnce(d) ==
    /\ ~destroyed
    /\ Goto(d, "queued", "releasing")
    /\ destroyed' = TRUE
    /\ UNCHANGED <<spec, needsReload, closing, tail, shown, historyVars>>

(***************************************************************************)
(* adapter.destroy is called.  (The test of #destroyed before it never     *)
(* succeeds: a second destroy has not got past #closing.)                  *)
(***************************************************************************)
Release(d) ==
    /\ Reached(d)
    /\ ~destroyed
    /\ Goto(d, "queued", "releasing")
    /\ destroyed' = TRUE
    /\ UNCHANGED <<spec, needsReload, closing, tail, shown, historyVars>>

Released(d) ==
    /\ Settle(d, "releasing", "released")
    /\ UNCHANGED <<spec, needsReload, lifeVars, tail, shown, historyVars>>

-----------------------------------------------------------------------------
(***************************************************************************)
(* What a call does once it is made.                                       *)
(***************************************************************************)
ApplyStep(a) ==
    \/ Recover(a) \/ RecoverFails(a) \/ RecoverSucceeds(a) \/ Start(a)
    \/ PatchSucceeds(a) \/ PatchFails(a) \/ ReloadSucceeds(a) \/ ReloadFails(a)

ReadStep(r) == Read(r) \/ ReadRefused(r) \/ ReadAnswered(r)

DestroyStep(d) == Release(d) \/ Released(d)

RuntimeNext ==
    \/ \E a \in Applies : Submit(a) \/ Refuse(a) \/ ApplyStep(a)
    \/ \E r \in Reads : Ask(r) \/ Refuse(r) \/ ReadStep(r)
    \/ \E d \in Destroys : Close(d) \/ DestroyAgain(d) \/ DestroyStep(d)

RuntimeSpec == RuntimeInit /\ [][RuntimeNext]_runtimeVars

(***************************************************************************)
(* The event loop runs what can run, and the adapter settles every promise *)
(* it returns.                                                             *)
(***************************************************************************)
FairRuntimeSpec ==
    /\ RuntimeSpec
    /\ \A a \in Applies : WF_runtimeVars(ApplyStep(a))
    /\ \A r \in Reads : WF_runtimeVars(ReadStep(r))
    /\ \A d \in Destroys : WF_runtimeVars(DestroyStep(d))

-----------------------------------------------------------------------------
RuntimeTypeOK ==
    /\ spec \in Seq(Applies)
    /\ needsReload \in BOOLEAN
    /\ closing \in BOOLEAN
    /\ destroyed \in BOOLEAN
    /\ tail \in Applies \cup {NoCall}
    /\ pc \in [RuntimeCalls -> Phases]
    /\ behind \in [RuntimeCalls -> Applies \cup {NoCall}]
    /\ result \in [RuntimeCalls -> Results]
    /\ shown \in Seq(Applies) \cup {Torn}
    /\ accepted \in Seq(Applies)
    /\ asked \in [Reads -> Nat]

(***************************************************************************)
(* The adapter is never given two changes at once, by two applies.         *)
(***************************************************************************)
OneChangeAtATime ==
    \A a, b \in Applies : (pc[a] \in Changing /\ pc[b] \in Changing) => a = b

(***************************************************************************)
(* Whenever no apply is at work, the adapter shows the committed spec, or  *)
(* the runtime knows that it may not.                                      *)
(***************************************************************************)
RendererAgrees ==
    (\A a \in Applies : pc[a] \notin Changing) => shown = spec \/ needsReload

(***************************************************************************)
(* The committed spec is made of exactly the applies that answered         *)
(* "applied", in the order in which they were submitted: a failed apply    *)
(* leaves nothing behind, and none is lost, repeated or reordered.         *)
(***************************************************************************)
CommitsInOrder ==
    /\ \A a \in Applies :
          result[a] = "applied" <=> \E k \in DOMAIN spec : spec[k] = a
    /\ \A k, l \in DOMAIN spec :
          k < l => \E i, j \in DOMAIN accepted :
                      i < j /\ accepted[i] = spec[k] /\ accepted[j] = spec[l]

(***************************************************************************)
(* "every accepted apply settles before the adapter is released": once     *)
(* destroy has called adapter.destroy, no apply is at work.                *)
(***************************************************************************)
DrainedBeforeRelease ==
    destroyed => \A a \in Applies : pc[a] \in {"idle", "done"}

(***************************************************************************)
(* A read sees every apply that was submitted before it: when the adapter  *)
(* is asked, each of them has settled.                                     *)
(***************************************************************************)
ReadsOwnWrites ==
    \A r \in Reads :
        pc[r] = "reading" => \A i \in 1..asked[r] : pc[accepted[i]] = "done"

(***************************************************************************)
(* "Reads observe the last committed state: an in-flight apply must settle *)
(* first."                                                                 *)
(***************************************************************************)
ReadsCommitted ==
    [][\A r \in Reads :
          (pc[r] # "reading" /\ pc'[r] = "reading")
            => \A a \in Applies : pc[a] \notin Changing]_runtimeVars

(***************************************************************************)
(* Every call settles: no failure of the adapter blocks the queue.         *)
(***************************************************************************)
EveryCallAnswers ==
    \A c \in RuntimeCalls : pc[c] = "queued" ~> pc[c] = "done"
=============================================================================
