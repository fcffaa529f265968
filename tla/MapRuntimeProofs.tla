-------------------------- MODULE MapRuntimeProofs --------------------------
(***************************************************************************)
(* Proofs about MapRuntime for any sets of applies, reads and destroys,    *)
(* and an adapter that fails at will.                                      *)
(***************************************************************************)
EXTENDS MapRuntime, SequenceTheorems, TLAPS

(***************************************************************************)
(* Type correctness of the runtime.                                        *)
(***************************************************************************)
THEOREM RuntimeTypeCorrect == RuntimeSpec => []RuntimeTypeOK
<1>1. RuntimeInit => RuntimeTypeOK
  <2> SUFFICES ASSUME RuntimeInit PROVE RuntimeTypeOK
    OBVIOUS
  <2>1. needsReload \in BOOLEAN /\ closing \in BOOLEAN /\ destroyed \in BOOLEAN
    BY DEF RuntimeInit
  <2>2. /\ spec \in Seq(Applies)
        /\ shown \in Seq(Applies)
        /\ accepted \in Seq(Applies)
    BY DEF RuntimeInit
  <2>3. /\ pc \in [RuntimeCalls -> Phases]
        /\ result \in [RuntimeCalls -> Results]
        /\ behind \in [RuntimeCalls -> Applies \cup {NoCall}]
        /\ tail \in Applies \cup {NoCall}
        /\ asked \in [Reads -> Nat]
    BY DEF RuntimeInit, Phases, Results
  <2> QED
    BY <2>1, <2>2, <2>3 DEF RuntimeTypeOK
<1>2. RuntimeTypeOK /\ [RuntimeNext]_runtimeVars => RuntimeTypeOK'
  <2> SUFFICES ASSUME RuntimeTypeOK, [RuntimeNext]_runtimeVars
               PROVE  RuntimeTypeOK'
    OBVIOUS
  <2> USE RuntimeAssumption
      DEF RuntimeTypeOK, Goto, Settle, Wait, lifeVars, historyVars
  <2> /\ Applies \subseteq RuntimeCalls
      /\ Reads \subseteq RuntimeCalls
      /\ Destroys \subseteq RuntimeCalls
    BY DEF RuntimeCalls
  <2> USE DEF Phases, Results, Changing
  <2>1. ASSUME NEW a \in Applies, Submit(a) PROVE RuntimeTypeOK'
    BY <2>1 DEF Submit
  <2>2. ASSUME NEW c \in RuntimeCalls, Refuse(c) \/ DestroyAgain(c)
        PROVE RuntimeTypeOK'
    BY <2>2 DEF Refuse, DestroyAgain
  <2>3. ASSUME NEW a \in Applies, Recover(a) PROVE RuntimeTypeOK'
    BY <2>3 DEF Recover
  <2>4. ASSUME NEW a \in Applies, RecoverFails(a) \/ ReloadFails(a)
        PROVE RuntimeTypeOK'
    BY <2>4 DEF RecoverFails, ReloadFails
  <2>5. ASSUME NEW a \in Applies, RecoverSucceeds(a) PROVE RuntimeTypeOK'
    BY <2>5 DEF RecoverSucceeds, Decide
  <2>6. ASSUME NEW a \in Applies, Start(a) PROVE RuntimeTypeOK'
    <3>1. Decide(a, "queued") /\ UNCHANGED <<needsReload, shown>>
      BY <2>6 DEF Start
    <3> QED
      BY <3>1 DEF Decide
  <2>7. ASSUME NEW a \in Applies PROVE Patched(a) \in Seq(Applies) \cup {Torn}
    BY DEF Patched
  <2>8. ASSUME NEW a \in Applies, PatchSucceeds(a) PROVE RuntimeTypeOK'
    BY <2>7, <2>8 DEF PatchSucceeds
  <2>9. ASSUME NEW a \in Applies, PatchFails(a) PROVE RuntimeTypeOK'
    BY <2>7, <2>9 DEF PatchFails
  <2>10. ASSUME NEW a \in Applies, ReloadSucceeds(a) PROVE RuntimeTypeOK'
    BY <2>10 DEF ReloadSucceeds
  <2>11. ASSUME NEW r \in Reads, Ask(r) PROVE RuntimeTypeOK'
    BY <2>11 DEF Ask
  <2>12. ASSUME NEW r \in Reads, ReadStep(r) PROVE RuntimeTypeOK'
    BY <2>12 DEF ReadStep, Read, ReadRefused, ReadAnswered
  <2>13. ASSUME NEW d \in Destroys, Close(d) PROVE RuntimeTypeOK'
    BY <2>13 DEF Close
  <2>14. ASSUME NEW d \in Destroys, DestroyStep(d) PROVE RuntimeTypeOK'
    BY <2>14 DEF DestroyStep, Release, Released
  <2>15. CASE UNCHANGED runtimeVars
    BY <2>15 DEF runtimeVars, callVars
  <2> QED
    BY <2>1, <2>2, <2>3, <2>4, <2>5, <2>6, <2>8, <2>9, <2>10, <2>11,
       <2>12, <2>13, <2>14, <2>15 DEF RuntimeNext, ApplyStep
<1> QED
  BY <1>1, <1>2, PTL DEF RuntimeSpec
-----------------------------------------------------------------------------
(***************************************************************************)
(* The queue.  `accepted` lists the applies in the order in which they     *)
(* were chained; each waits for the one before it.                         *)
(***************************************************************************)
Distinct ==
    \A i, j \in DOMAIN accepted : accepted[i] = accepted[j] => i = j

(* An apply is in the list as soon as it has more to do than to be refused. *)
Listed ==
    \A a \in Applies :
        pc[a] \in {"queued"} \cup Changing =>
            \E i \in DOMAIN accepted : accepted[i] = a

Made == \A i \in DOMAIN accepted : pc[accepted[i]] # "idle"

WaitsForEarlier ==
    \A i \in DOMAIN accepted :
        behind[accepted[i]] = IF i = 1 THEN NoCall ELSE accepted[i - 1]

(* What has begun has nothing unfinished before it. *)
BegunInOrder ==
    \A i \in DOMAIN accepted :
        pc[accepted[i]] # "queued" =>
            \A j \in 1..(i - 1) : pc[accepted[j]] = "done"

(* Until destroy takes it away, the tail is the last apply. *)
TailIsLast ==
    ~closing =>
        tail = IF accepted = <<>> THEN NoCall ELSE accepted[Len(accepted)]

Queue == /\ Distinct /\ Listed /\ Made /\ WaitsForEarlier
         /\ BegunInOrder /\ TailIsLast

(***************************************************************************)
(* A step that moves one apply on: it was queued with its predecessor      *)
(* done, or had begun already.                                             *)
(***************************************************************************)
LEMMA ProgressKeepsQueue ==
  ASSUME RuntimeTypeOK, Queue,
         NEW a \in Applies, NEW to \in Changing \cup {"done"},
         \/ pc[a] = "queued" /\ Reached(a)
         \/ pc[a] \in Changing,
         pc' = [pc EXCEPT ![a] = to],
         UNCHANGED <<behind, accepted, tail, closing>>
  PROVE  Queue'
<1> USE RuntimeAssumption DEF RuntimeTypeOK, Changing
<1> a \in RuntimeCalls
  BY DEF RuntimeCalls
<1> to # "idle" /\ to # "queued"
  OBVIOUS
<1>2. /\ DOMAIN accepted = 1..Len(accepted)
      /\ Len(accepted) \in Nat
      /\ \A i \in DOMAIN accepted : accepted[i] \in Applies /\ accepted[i] \in RuntimeCalls
  BY DEF RuntimeCalls
<1>3. Distinct' /\ WaitsForEarlier' /\ TailIsLast'
  BY DEF Queue, Distinct, WaitsForEarlier, TailIsLast
<1>4. Listed' /\ Made'
  BY <1>2 DEF Queue, Listed, Made, RuntimeCalls, Phases
<1>5. BegunInOrder'
  <2> SUFFICES ASSUME NEW i \in DOMAIN accepted, pc'[accepted[i]] # "queued",
                      NEW j \in 1..(i - 1)
               PROVE  pc'[accepted[j]] = "done"
    BY DEF BegunInOrder
  <2>1. j \in DOMAIN accepted /\ j < i
    BY <1>2
  <2>2. CASE accepted[i] # a
    <3>1. pc[accepted[i]] # "queued"
      BY <2>2, <1>2 DEF Phases
    <3>2. pc[accepted[j]] = "done"
      BY <3>1 DEF Queue, BegunInOrder
    <3>3. accepted[j] # a
      BY <3>2
    <3> QED
      BY <3>2, <3>3, <2>1, <1>2 DEF Phases
  <2>3. CASE accepted[i] = a /\ pc[a] \in Changing
    <3>1. pc[accepted[j]] = "done"
      BY <2>3 DEF Queue, BegunInOrder
    <3> QED
      BY <3>1, <2>1, <2>3, <1>2 DEF Phases
  <2>4. CASE accepted[i] = a /\ pc[a] = "queued" /\ Reached(a)
    <3>1. i # 1 /\ i - 1 \in DOMAIN accepted
      BY <2>1, <1>2
    <3>2. behind[a] = accepted[i - 1] /\ accepted[i - 1] # NoCall
      BY <2>4, <3>1, <1>2 DEF Queue, WaitsForEarlier, RuntimeCalls
    <3>3. pc[accepted[i - 1]] = "done"
      BY <2>4, <3>2 DEF Reached
    <3>4. pc[accepted[j]] = "done"
      <4>1. CASE j = i - 1
        BY <4>1, <3>3
      <4>2. CASE j # i - 1
        <5>1. j \in 1..((i - 1) - 1)
          BY <4>2, <1>2
        <5> QED
          BY <5>1, <3>1, <3>3 DEF Queue, BegunInOrder
      <4> QED
        BY <4>1, <4>2
    <3> QED
      BY <3>4, <2>1, <2>4, <1>2 DEF Phases
  <2> QED
    BY <2>2, <2>3, <2>4
<1> QED
  BY <1>3, <1>4, <1>5 DEF Queue

(***************************************************************************)
(* A step of a call that is not in the queue: a read, a destroy, or an     *)
(* apply that is refused.                                                  *)
(***************************************************************************)
LEMMA OthersKeepQueue ==
  ASSUME RuntimeTypeOK, Queue,
         NEW c \in RuntimeCalls,
         c \in Applies => pc[c] = "idle" /\ pc'[c] = "done",
         \A d \in RuntimeCalls :
            d # c => pc'[d] = pc[d] /\ behind'[d] = behind[d],
         accepted' = accepted,
         ~closing' => ~closing /\ tail' = tail
  PROVE  Queue'
<1> USE RuntimeAssumption DEF RuntimeTypeOK, Changing
<1>1. /\ DOMAIN accepted = 1..Len(accepted)
      /\ Len(accepted) \in Nat
      /\ \A i \in DOMAIN accepted :
            accepted[i] \in Applies /\ accepted[i] \in RuntimeCalls
  BY DEF RuntimeCalls
<1>2. \A i \in DOMAIN accepted : accepted[i] # c
  BY <1>1 DEF Queue, Made
<1>3. Distinct' /\ TailIsLast'
  BY DEF Queue, Distinct, TailIsLast
<1>4. Listed'
  BY <1>1 DEF Queue, Listed, RuntimeCalls, Phases
<1>5. \A i \in DOMAIN accepted :
         /\ pc'[accepted[i]] = pc[accepted[i]]
         /\ behind'[accepted[i]] = behind[accepted[i]]
  BY <1>1, <1>2
<1>6. Made' /\ WaitsForEarlier'
  BY <1>5 DEF Queue, Made, WaitsForEarlier
<1>7. BegunInOrder'
  <2> SUFFICES ASSUME NEW i \in DOMAIN accepted, pc'[accepted[i]] # "queued",
                      NEW j \in 1..(i - 1)
               PROVE  pc'[accepted[j]] = "done"
    BY DEF BegunInOrder
  <2>1. pc[accepted[j]] = "done"
    BY <1>5 DEF Queue, BegunInOrder
  <2>2. j \in DOMAIN accepted
    BY <1>1
  <2> QED
    BY <2>1, <2>2, <1>5
<1> QED
  BY <1>3, <1>4, <1>6, <1>7 DEF Queue

(* An apply enters the queue. *)
LEMMA SubmitKeepsQueue ==
  ASSUME RuntimeTypeOK, Queue, NEW a \in Applies, Submit(a)
  PROVE  Queue'
<1> USE RuntimeAssumption DEF RuntimeTypeOK, Changing
<1> DEFINE n == Len(accepted)
<1>1. /\ DOMAIN accepted = 1..n
      /\ n \in Nat
      /\ \A i \in DOMAIN accepted :
            accepted[i] \in Applies /\ accepted[i] \in RuntimeCalls
      /\ a \in RuntimeCalls
  BY DEF RuntimeCalls
<1>2. /\ pc[a] = "idle"
      /\ pc' = [pc EXCEPT ![a] = "queued"]
      /\ behind' = [behind EXCEPT ![a] = tail]
      /\ tail' = a
      /\ accepted' = Append(accepted, a)
      /\ ~closing /\ UNCHANGED closing
  BY DEF Submit, Wait, lifeVars
<1>3. /\ DOMAIN accepted' = 1..(n + 1)
      /\ Len(accepted') = n + 1
      /\ accepted'[n + 1] = a
      /\ \A i \in 1..n : accepted'[i] = accepted[i]
  BY <1>1, <1>2
<1> accepted' # <<>>
  BY <1>1, <1>3
<1>4. \A i \in 1..n : accepted[i] # a
  BY <1>1, <1>2 DEF Queue, Made
<1>5. \A i \in 1..n : /\ pc'[accepted'[i]] = pc[accepted[i]]
                      /\ behind'[accepted'[i]] = behind[accepted[i]]
  BY <1>1, <1>2, <1>3, <1>4
<1>6. pc'[a] = "queued" /\ behind'[a] = tail
  BY <1>1, <1>2
<1>7. Distinct'
  BY <1>1, <1>3, <1>4 DEF Queue, Distinct
<1>8. Listed'
  <2> SUFFICES ASSUME NEW b \in Applies, pc'[b] \in {"queued"} \cup Changing
               PROVE  \E i \in DOMAIN accepted' : accepted'[i] = b
    BY DEF Listed
  <2>1. CASE b = a
    BY <2>1, <1>1, <1>3
  <2>2. CASE b # a
    <3>1. pc[b] \in {"queued"} \cup Changing
      BY <2>2, <1>2 DEF RuntimeCalls
    <3>2. PICK i \in 1..n : accepted[i] = b
      BY <3>1, <1>1 DEF Queue, Listed
    <3>3. i \in 1..(n + 1) /\ accepted'[i] = b
      BY <3>2, <1>1, <1>3
    <3> QED
      BY <3>3, <1>3
  <2> QED
    BY <2>1, <2>2
<1>9. Made'
  BY <1>1, <1>3, <1>5, <1>6 DEF Queue, Made
<1>10. WaitsForEarlier'
  <2> SUFFICES ASSUME NEW i \in 1..(n + 1)
               PROVE  behind'[accepted'[i]] =
                        IF i = 1 THEN NoCall ELSE accepted'[i - 1]
    BY <1>3 DEF WaitsForEarlier
  <2>1. CASE i \in 1..n
    <3>1. i # 1 => i - 1 \in 1..n
      BY <2>1, <1>1
    <3> QED
      BY <2>1, <3>1, <1>1, <1>3, <1>5 DEF Queue, WaitsForEarlier
  <2>2. CASE i = n + 1
    <3>1. CASE n = 0
      BY <2>2, <3>1, <1>2, <1>3, <1>6 DEF Queue, TailIsLast
    <3>2. CASE n # 0
      <4>1. i # 1 /\ i - 1 = n /\ n \in 1..n /\ accepted # <<>>
        BY <2>2, <3>2, <1>1
      <4>2. tail = accepted[n]
        BY <4>1, <1>2 DEF Queue, TailIsLast
      <4> QED
        BY <4>1, <4>2, <2>2, <1>3, <1>6
    <3> QED
      BY <3>1, <3>2
  <2> QED
    BY <2>1, <2>2, <1>1
<1>11. BegunInOrder'
  <2> SUFFICES ASSUME NEW i \in 1..(n + 1), pc'[accepted'[i]] # "queued",
                      NEW j \in 1..(i - 1)
               PROVE  pc'[accepted'[j]] = "done"
    BY <1>3 DEF BegunInOrder
  <2>1. i # n + 1
    BY <1>3, <1>6
  <2>2. n \in Nat
    BY <1>1
  <2>3. i \in 1..n /\ j \in 1..n
    <3> HIDE DEF n
    <3> QED
      BY <2>1, <2>2
  <2>4. pc[accepted[j]] = "done"
    BY <2>3, <1>1, <1>5 DEF Queue, BegunInOrder
  <2> QED
    BY <2>3, <2>4, <1>5
<1>12. TailIsLast'
  BY <1>2, <1>3 DEF TailIsLast
<1> QED
  BY <1>7, <1>8, <1>9, <1>10, <1>11, <1>12 DEF Queue

(* The queue is as the properties of the runtime need it. *)
THEOREM QueueCorrect == RuntimeSpec => []Queue
<1>1. RuntimeInit => Queue
  BY DEF RuntimeInit, Queue, Distinct, Listed, Made, WaitsForEarlier,
         BegunInOrder, TailIsLast, RuntimeCalls, Changing
<1>2. RuntimeTypeOK /\ Queue /\ [RuntimeNext]_runtimeVars => Queue'
  <2> SUFFICES ASSUME RuntimeTypeOK, Queue, [RuntimeNext]_runtimeVars
               PROVE  Queue'
    OBVIOUS
  <2> /\ Applies \subseteq RuntimeCalls
      /\ Reads \subseteq RuntimeCalls
      /\ Destroys \subseteq RuntimeCalls
    BY DEF RuntimeCalls
  <2>1. ASSUME NEW a \in Applies, Submit(a) PROVE Queue'
    BY <2>1, SubmitKeepsQueue
  <2>2. ASSUME NEW a \in Applies, ApplyStep(a) PROVE Queue'
    <3>1. /\ \/ pc[a] = "queued" /\ Reached(a)
             \/ pc[a] \in Changing
          /\ \E to \in Changing \cup {"done"} : pc' = [pc EXCEPT ![a] = to]
          /\ UNCHANGED <<behind, accepted, tail, closing>>
      BY <2>2 DEF ApplyStep, Recover, RecoverFails, RecoverSucceeds, Start,
                  PatchSucceeds, PatchFails, ReloadSucceeds, ReloadFails,
                  Decide, Goto, Settle, Changing, lifeVars, historyVars
    <3> QED
      BY <3>1, ProgressKeepsQueue
  <2>3. ASSUME NEW c \in RuntimeCalls,
               \/ Refuse(c)
               \/ c \in Reads /\ (Ask(c) \/ ReadStep(c))
               \/ c \in Destroys /\ (Close(c) \/ DestroyAgain(c) \/ DestroyStep(c))
        PROVE Queue'
    <3>1. c \in Applies => pc[c] = "idle" /\ pc'[c] = "done"
      BY <2>3, RuntimeAssumption DEF Refuse, Settle, RuntimeTypeOK
    <3>2. \A d \in RuntimeCalls :
             d # c => pc'[d] = pc[d] /\ behind'[d] = behind[d]
      BY <2>3 DEF Refuse, Ask, ReadStep, Read, ReadRefused, ReadAnswered,
                  Close, DestroyAgain, DestroyStep, Release, Released,
                  Goto, Settle, Wait, RuntimeTypeOK
    <3>3. accepted' = accepted /\ (~closing' => ~closing /\ tail' = tail)
      BY <2>3 DEF Refuse, Ask, ReadStep, Read, ReadRefused, ReadAnswered,
                  Close, DestroyAgain, DestroyStep, Release, Released,
                  lifeVars, historyVars
    <3> QED
      BY <3>1, <3>2, <3>3, OthersKeepQueue
  <2>4. CASE UNCHANGED runtimeVars
    BY <2>4 DEF runtimeVars, callVars, lifeVars, historyVars, Queue, Distinct,
                Listed, Made, WaitsForEarlier, BegunInOrder, TailIsLast
  <2> QED
    BY <2>1, <2>2, <2>3, <2>4 DEF RuntimeNext
<1> QED
  BY <1>1, <1>2, RuntimeTypeCorrect, PTL DEF RuntimeSpec

(***************************************************************************)
(* The adapter is never given two changes at once: of two applies, the     *)
(* later one has not begun while the earlier one is at work.               *)
(***************************************************************************)
LEMMA OneChanging == RuntimeTypeOK /\ Queue => OneChangeAtATime
<1> SUFFICES ASSUME RuntimeTypeOK, Queue,
                    NEW a \in Applies, NEW b \in Applies,
                    pc[a] \in Changing, pc[b] \in Changing, a # b
             PROVE  FALSE
  BY DEF OneChangeAtATime
<1>1. PICK i \in DOMAIN accepted : accepted[i] = a
  BY DEF Queue, Listed
<1>2. PICK j \in DOMAIN accepted : accepted[j] = b
  BY DEF Queue, Listed
<1>3. i \in Nat /\ j \in Nat /\ i >= 1 /\ j >= 1 /\ i # j
  BY <1>1, <1>2 DEF RuntimeTypeOK
<1>4. ASSUME i < j PROVE FALSE
  <2>1. i \in 1..(j - 1)
    BY <1>3, <1>4
  <2> QED
    BY <2>1, <1>1, <1>2 DEF Queue, BegunInOrder, Changing
<1>5. ASSUME j < i PROVE FALSE
  <2>1. j \in 1..(i - 1)
    BY <1>3, <1>5
  <2> QED
    BY <2>1, <1>1, <1>2 DEF Queue, BegunInOrder, Changing
<1> QED
  BY <1>3, <1>4, <1>5

THEOREM ChangesAreSerial == RuntimeSpec => []OneChangeAtATime
BY OneChanging, QueueCorrect, RuntimeTypeCorrect, PTL

-----------------------------------------------------------------------------
(***************************************************************************)
(* The renderer.  #needsReload is set exactly as long as a reload is due,  *)
(* and a patch is made only of what shows the committed spec.              *)
(***************************************************************************)
Marked ==
    /\ shown = spec \/ needsReload
    /\ \A a \in Applies : pc[a] = "patching" => ~needsReload
    /\ \A a \in Applies : pc[a] \in {"recovering", "reloading"} => needsReload

THEOREM RendererIsMarked == RuntimeSpec => []RendererAgrees
<1>1. RuntimeInit => Marked
  BY DEF RuntimeInit, Marked, RuntimeCalls
<1>2. /\ RuntimeTypeOK /\ OneChangeAtATime /\ Marked /\ [RuntimeNext]_runtimeVars
      => Marked'
  <2> SUFFICES ASSUME RuntimeTypeOK, OneChangeAtATime, Marked,
                      [RuntimeNext]_runtimeVars
               PROVE  Marked'
    OBVIOUS
  <2> Applies \subseteq RuntimeCalls
    BY DEF RuntimeCalls
  <2> pc \in [RuntimeCalls -> Phases]
    BY DEF RuntimeTypeOK
  <2> USE DEF Marked, Goto, Settle, Wait, lifeVars, historyVars
  <2>1. ASSUME NEW a \in Applies, Submit(a) PROVE Marked'
    BY <2>1 DEF Submit
  <2>2. ASSUME NEW c \in RuntimeCalls, Refuse(c) \/ DestroyAgain(c)
        PROVE Marked'
    BY <2>2 DEF Refuse, DestroyAgain
  <2>3. ASSUME NEW a \in Applies, Recover(a) PROVE Marked'
    BY <2>3 DEF Recover
  <2>4. ASSUME NEW a \in Applies, RecoverFails(a) \/ ReloadFails(a)
        PROVE Marked'
    BY <2>4 DEF RecoverFails, ReloadFails
  <2>5. ASSUME NEW a \in Applies, RecoverSucceeds(a) PROVE Marked'
    BY <2>5 DEF RecoverSucceeds, Decide, OneChangeAtATime, Changing
  <2>6. ASSUME NEW a \in Applies, Start(a) PROVE Marked'
    BY <2>6 DEF Start, Decide
  <2>7. ASSUME NEW a \in Applies, PatchSucceeds(a) PROVE Marked'
    <3>1. shown = spec /\ spec # Torn /\ UNCHANGED needsReload
      BY <2>7, RuntimeAssumption DEF PatchSucceeds, RuntimeTypeOK
    <3>2. shown' = spec'
      BY <2>7, <3>1 DEF PatchSucceeds, Patched
    <3> QED
      BY <2>7, <3>1, <3>2 DEF PatchSucceeds
  <2>8. ASSUME NEW a \in Applies, PatchFails(a) PROVE Marked'
    BY <2>8 DEF PatchFails, OneChangeAtATime, Changing
  <2>9. ASSUME NEW a \in Applies, ReloadSucceeds(a) PROVE Marked'
    BY <2>9 DEF ReloadSucceeds, OneChangeAtATime, Changing
  <2>10. ASSUME NEW r \in Reads, Ask(r) \/ ReadStep(r) PROVE Marked'
    BY <2>10, RuntimeAssumption DEF Ask, ReadStep, Read, ReadRefused, ReadAnswered
  <2>11. ASSUME NEW d \in Destroys, Close(d) \/ DestroyStep(d) PROVE Marked'
    BY <2>11, RuntimeAssumption DEF Close, DestroyStep, Release, Released
  <2>12. CASE UNCHANGED runtimeVars
    BY <2>12 DEF runtimeVars, callVars
  <2> QED
    BY <2>1, <2>2, <2>3, <2>4, <2>5, <2>6, <2>7, <2>8, <2>9, <2>10,
       <2>11, <2>12 DEF RuntimeNext, ApplyStep, RuntimeCalls
<1>3. Marked => RendererAgrees
  BY DEF Marked, RendererAgrees
<1> QED
  BY <1>1, <1>2, <1>3, RuntimeTypeCorrect, ChangesAreSerial, PTL DEF RuntimeSpec

-----------------------------------------------------------------------------
(***************************************************************************)
(* The commits.  An apply that was committed is done, so every apply that  *)
(* was submitted before it is: the next one to be committed is later.      *)
(***************************************************************************)
AppliedIsDone ==
    \A a \in Applies :
        result[a] = "applied" =>
            pc[a] = "done" /\ \E i \in DOMAIN accepted : accepted[i] = a

Committed == AppliedIsDone /\ CommitsInOrder

(* No commit: the results tell the same applies from the others as before. *)
LEMMA NoCommit ==
  ASSUME RuntimeTypeOK, Committed, spec' = spec,
         \A a \in Applies : result'[a] = "applied" <=> result[a] = "applied",
         \A a \in Applies : pc[a] = "done" => pc'[a] = "done",
         \A i \in DOMAIN accepted :
            i \in DOMAIN accepted' /\ accepted'[i] = accepted[i]
  PROVE  Committed'
<1>1. AppliedIsDone'
  BY DEF Committed, AppliedIsDone
<1>2. ASSUME NEW k \in DOMAIN spec, NEW l \in DOMAIN spec, k < l
      PROVE  \E i, j \in DOMAIN accepted' :
                i < j /\ accepted'[i] = spec[k] /\ accepted'[j] = spec[l]
  <2>1. PICK i, j \in DOMAIN accepted :
                i < j /\ accepted[i] = spec[k] /\ accepted[j] = spec[l]
    BY <1>2 DEF Committed, CommitsInOrder
  <2> QED
    BY <2>1
<1>3. CommitsInOrder'
  BY <1>2 DEF Committed, CommitsInOrder
<1> QED
  BY <1>1, <1>3 DEF Committed

(* A commit: every apply that was committed before was submitted before. *)
LEMMA CommitIsNext ==
  ASSUME RuntimeTypeOK, Queue, Committed, NEW a \in Applies, PatchSucceeds(a)
  PROVE  Committed'
<1> DEFINE n == Len(spec)
<1>1. /\ a \in RuntimeCalls /\ pc[a] = "patching" /\ accepted' = accepted
      /\ pc' = [pc EXCEPT ![a] = "done"]
      /\ result' = [result EXCEPT ![a] = "applied"]
      /\ spec' = Append(spec, a)
  BY DEF PatchSucceeds, Settle, RuntimeCalls, historyVars
<1>2. /\ n \in Nat /\ DOMAIN spec = 1..n /\ DOMAIN spec' = 1..n + 1
      /\ spec'[n + 1] = a /\ \A k \in 1..n : spec'[k] = spec[k]
      /\ \A k \in 1..n : spec[k] \in Applies
      /\ \A k \in 1..n + 1 : k \in 1..n \/ k = n + 1
      /\ DOMAIN accepted = 1..Len(accepted) /\ Len(accepted) \in Nat
  BY <1>1 DEF RuntimeTypeOK
<1> HIDE DEF n
<1>3. \A b \in Applies : /\ b # a => pc'[b] = pc[b] /\ result'[b] = result[b]
                         /\ b = a => pc'[b] = "done" /\ result'[b] = "applied"
  BY <1>1 DEF RuntimeTypeOK, RuntimeCalls
<1>4. PICK i \in DOMAIN accepted : accepted[i] = a
  BY <1>1 DEF Queue, Listed, Changing
<1>5. ASSUME NEW k \in 1..n
      PROVE  \E j \in DOMAIN accepted : j < i /\ accepted[j] = spec[k]
  <2>1. result[spec[k]] = "applied" /\ pc[spec[k]] = "done"
    BY <1>2 DEF Committed, CommitsInOrder, AppliedIsDone
  <2>2. /\ spec[k] \in Applies /\ spec[k] # a
        /\ \E j \in DOMAIN accepted : accepted[j] = spec[k]
    <3>1. \E j \in DOMAIN accepted : accepted[j] = spec[k]
      BY <1>2, <2>1 DEF Committed, AppliedIsDone
    <3> QED
      BY <1>1, <1>2, <2>1, <3>1
  <2>3. PICK j \in DOMAIN accepted : accepted[j] = spec[k]
    BY <2>2
  <2>4. j # i
    BY <1>4, <2>2, <2>3
  <2>5. ASSUME j > i PROVE FALSE
    <3>1. i \in 1..(j - 1)
      BY <1>2, <2>5
    <3> QED
      BY <1>1, <1>4, <2>1, <2>3, <3>1 DEF Queue, BegunInOrder
  <2> QED
    BY <1>2, <2>3, <2>4, <2>5
<1>6. AppliedIsDone'
  BY <1>1, <1>3, <1>4 DEF Committed, AppliedIsDone
<1>7. ASSUME NEW b \in Applies
      PROVE  result'[b] = "applied" <=> \E k \in 1..n + 1 : spec'[k] = b
  <2>1. CASE b = a
    <3>1. n + 1 \in 1..n + 1
      BY <1>2
    <3> QED
      BY <1>2, <1>3, <2>1, <3>1
  <2>2. CASE b # a
    <3>1. \A k \in 1..n : k \in 1..n + 1
      BY <1>2
    <3>2. result[b] = "applied" <=> \E k \in 1..n : spec[k] = b
      BY <1>2 DEF Committed, CommitsInOrder
    <3> QED
      BY <1>2, <1>3, <2>2, <3>1, <3>2
  <2> QED
    BY <2>1, <2>2
<1>8. ASSUME NEW k \in 1..n + 1, NEW l \in 1..n + 1, k < l
      PROVE  \E g, h \in DOMAIN accepted :
                g < h /\ accepted[g] = spec'[k] /\ accepted[h] = spec'[l]
  <2>1. k \in 1..n
    BY <1>2, <1>8
  <2>2. CASE l \in 1..n
    <3>1. spec'[k] = spec[k] /\ spec'[l] = spec[l]
      BY <1>2, <2>1, <2>2
    <3>2. \E g, h \in DOMAIN accepted :
             g < h /\ accepted[g] = spec[k] /\ accepted[h] = spec[l]
      <4>1. k \in DOMAIN spec /\ l \in DOMAIN spec
        BY <1>2, <2>1, <2>2
      <4> QED
        BY <1>8, <4>1 DEF Committed, CommitsInOrder
    <3> QED
      BY <3>1, <3>2
  <2>3. CASE l = n + 1
    <3>1. PICK g \in DOMAIN accepted : g < i /\ accepted[g] = spec[k]
      BY <1>5, <2>1
    <3>2. spec'[k] = spec[k] /\ spec'[l] = accepted[i]
      BY <1>2, <1>4, <2>1, <2>3
    <3> QED
      BY <1>4, <3>1, <3>2
  <2> QED
    BY <1>2, <2>2, <2>3
<1>9. CommitsInOrder'
  <2>1. DOMAIN spec' = 1..n + 1 /\ DOMAIN accepted' = DOMAIN accepted
    BY <1>1, <1>2
  <2>2. \A k, l \in 1..n + 1 :
           k < l => \E g, h \in DOMAIN accepted' :
                      g < h /\ accepted'[g] = spec'[k] /\ accepted'[h] = spec'[l]
    BY <1>1, <1>8, <2>1
  <2> QED
    BY <1>7, <2>1, <2>2 DEF CommitsInOrder
<1> QED
  BY <1>6, <1>9 DEF Committed

(***************************************************************************)
(* The committed spec is what answered "applied", in the order in which it *)
(* was submitted.                                                          *)
(***************************************************************************)
THEOREM CommitsFollowTheQueue == RuntimeSpec => []CommitsInOrder
<1>1. RuntimeInit => Committed
  BY DEF RuntimeInit, Committed, AppliedIsDone, CommitsInOrder, RuntimeCalls
<1>2. /\ RuntimeTypeOK /\ Queue /\ Committed /\ [RuntimeNext]_runtimeVars
      => Committed'
  <2> SUFFICES ASSUME RuntimeTypeOK, Queue, Committed, [RuntimeNext]_runtimeVars
               PROVE  Committed'
    OBVIOUS
  <2> /\ Applies \subseteq RuntimeCalls
      /\ Reads \subseteq RuntimeCalls
      /\ Destroys \subseteq RuntimeCalls
    BY DEF RuntimeCalls
  <2> USE RuntimeAssumption DEF Goto, Settle, Wait, lifeVars, historyVars
  <2>1. ASSUME NEW a \in Applies, PatchSucceeds(a) PROVE Committed'
    BY <2>1, CommitIsNext
  <2>2. ASSUME NEW a \in Applies, Submit(a) PROVE Committed'
    <3>1. /\ accepted' = Append(accepted, a) /\ UNCHANGED <<spec, result>>
          /\ pc[a] = "idle" /\ pc' = [pc EXCEPT ![a] = "queued"]
      BY <2>2 DEF Submit
    <3>2. \A i \in DOMAIN accepted :
             i \in DOMAIN accepted' /\ accepted'[i] = accepted[i]
      BY <3>1 DEF RuntimeTypeOK
    <3>3. \A b \in Applies : pc[b] = "done" => pc'[b] = "done"
      BY <3>1 DEF RuntimeTypeOK
    <3> QED
      BY <3>1, <3>2, <3>3, NoCommit
  <2>3. ASSUME NEW a \in Applies,
               \/ Refuse(a) \/ Recover(a) \/ RecoverFails(a) \/ RecoverSucceeds(a)
               \/ Start(a) \/ PatchFails(a) \/ ReloadSucceeds(a) \/ ReloadFails(a)
        PROVE Committed'
    <3>1. UNCHANGED <<spec, accepted>> /\ pc[a] # "done"
      BY <2>3 DEF Refuse, Recover, RecoverFails, RecoverSucceeds, Start, Decide,
                  PatchFails, ReloadSucceeds, ReloadFails
    <3>2. \E to : pc' = [pc EXCEPT ![a] = to]
      BY <2>3 DEF Refuse, Recover, RecoverFails, RecoverSucceeds, Start, Decide,
                  PatchFails, ReloadSucceeds, ReloadFails
    <3>3. \/ result' = result
          \/ \E answer : answer # "applied" /\ result' = [result EXCEPT ![a] = answer]
      BY <2>3 DEF Refuse, Recover, RecoverFails, RecoverSucceeds, Start, Decide,
                  PatchFails, ReloadSucceeds, ReloadFails
    <3>4. result[a] # "applied"
      BY <3>1 DEF Committed, AppliedIsDone
    <3> QED
      BY <3>1, <3>2, <3>3, <3>4, NoCommit DEF RuntimeTypeOK
  <2>4. ASSUME NEW c \in Reads \cup Destroys,
               \/ Refuse(c) \/ DestroyAgain(c)
               \/ c \in Reads /\ (Ask(c) \/ ReadStep(c))
               \/ c \in Destroys /\ (Close(c) \/ DestroyStep(c))
        PROVE Committed'
    <3>1. UNCHANGED <<spec, accepted>>
      BY <2>4 DEF Refuse, DestroyAgain, Ask, ReadStep, Read, ReadRefused,
                  ReadAnswered, Close, DestroyStep, Release, Released
    <3>2. \A a \in Applies : pc'[a] = pc[a] /\ result'[a] = result[a]
      BY <2>4 DEF Refuse, DestroyAgain, Ask, ReadStep, Read, ReadRefused,
                  ReadAnswered, Close, DestroyStep, Release, Released, RuntimeTypeOK
    <3> QED
      BY <3>1, <3>2, NoCommit
  <2>5. CASE UNCHANGED runtimeVars
    BY <2>5, NoCommit DEF runtimeVars, callVars
  <2> QED
    BY <2>1, <2>2, <2>3, <2>4, <2>5 DEF RuntimeNext, ApplyStep
<1>3. Committed => CommitsInOrder
  BY DEF Committed
<1> QED
  BY <1>1, <1>2, <1>3, RuntimeTypeCorrect, QueueCorrect, PTL DEF RuntimeSpec

-----------------------------------------------------------------------------
(***************************************************************************)
(* Reads and destroy.  Each waits for the last apply that was accepted     *)
(* before it, hence for all of them; and what is done stays done.          *)
(***************************************************************************)
Nth(n) == IF n = 0 THEN NoCall ELSE accepted[n]

ReadsWait ==
    \A r \in Reads :
        /\ asked[r] <= Len(accepted)
        /\ pc[r] = "queued" => behind[r] = Nth(asked[r])
        /\ pc[r] = "reading" => \A i \in 1..asked[r] : pc[accepted[i]] = "done"

DestroyWaits ==
    /\ \A a \in Applies : pc[a] \notin {"reading", "releasing"}
    /\ destroyed => closing
    /\ destroyed => \A i \in DOMAIN accepted : pc[accepted[i]] = "done"
    /\ \A d \in Destroys :
          pc[d] = "queued" => closing /\ behind[d] = Nth(Len(accepted))

(* Whoever waits for the n-th apply and is let through waited for the first n. *)
LEMMA ReachedAll ==
  ASSUME RuntimeTypeOK, Queue, NEW n \in Nat, n <= Len(accepted),
         NEW c \in RuntimeCalls, behind[c] = Nth(n), Reached(c)
  PROVE  \A i \in 1..n : pc[accepted[i]] = "done"
<1>1. CASE n = 0
  BY <1>1
<1>2. CASE n # 0
  <2>1. n \in DOMAIN accepted /\ accepted[n] \in Applies
    BY <1>2 DEF RuntimeTypeOK
  <2>2. behind[c] = accepted[n] /\ accepted[n] # NoCall
    BY <1>2, <2>1, RuntimeAssumption DEF Nth, RuntimeCalls
  <2>3. pc[accepted[n]] = "done"
    BY <2>2 DEF Reached
  <2>4. ASSUME NEW i \in 1..n, i # n PROVE pc[accepted[i]] = "done"
    <3>1. i \in 1..(n - 1)
      BY <2>4
    <3> QED
      BY <3>1, <2>1, <2>3 DEF Queue, BegunInOrder
  <2> QED
    BY <2>3, <2>4
<1> QED
  BY <1>1, <1>2

(* What is done stays done: applies move only while they are in the queue. *)
LEMMA DoneStays ==
  ASSUME RuntimeTypeOK, [RuntimeNext]_runtimeVars,
         NEW a \in Applies, pc[a] = "done"
  PROVE  pc'[a] = "done"
<1> pc \in [RuntimeCalls -> Phases] /\ a \in RuntimeCalls
  BY DEF RuntimeTypeOK, RuntimeCalls
<1> USE DEF Goto, Settle, Wait
<1>1. ASSUME NEW b \in Applies, Submit(b) \/ Refuse(b) \/ ApplyStep(b)
      PROVE  pc'[a] = "done"
  BY <1>1 DEF Submit, Refuse, ApplyStep, Recover, RecoverFails,
              RecoverSucceeds, Start, PatchSucceeds, PatchFails,
              ReloadSucceeds, ReloadFails, Decide
<1>2. ASSUME NEW r \in Reads, Ask(r) \/ Refuse(r) \/ ReadStep(r)
      PROVE  pc'[a] = "done"
  BY <1>2, RuntimeAssumption DEF Ask, Refuse, ReadStep, Read, ReadRefused, ReadAnswered
<1>3. ASSUME NEW d \in Destroys, Close(d) \/ DestroyAgain(d) \/ DestroyStep(d)
      PROVE  pc'[a] = "done"
  BY <1>3, RuntimeAssumption DEF Close, DestroyAgain, DestroyStep, Release, Released
<1>4. CASE UNCHANGED runtimeVars
  BY <1>4 DEF runtimeVars, callVars
<1> QED
  BY <1>1, <1>2, <1>3, <1>4 DEF RuntimeNext

(* A read keeps its place while others move and the list only grows. *)
LEMMA ReadUndisturbed ==
  ASSUME RuntimeTypeOK, RuntimeTypeOK', [RuntimeNext]_runtimeVars, ReadsWait,
         NEW r \in Reads,
         asked'[r] = asked[r], pc'[r] = pc[r], behind'[r] = behind[r],
         Len(accepted) <= Len(accepted'),
         \A i \in 1..Len(accepted) : accepted'[i] = accepted[i]
  PROVE  /\ asked'[r] <= Len(accepted')
         /\ pc'[r] = "queued" => behind'[r] = Nth(asked[r])'
         /\ pc'[r] = "reading" =>
              \A i \in 1..asked'[r] : pc'[accepted'[i]] = "done"
<1>1. /\ asked[r] \in Nat
      /\ Len(accepted) \in Nat
      /\ Len(accepted') \in Nat
      /\ asked[r] <= Len(accepted)
      /\ \A i \in 1..Len(accepted) : accepted[i] \in Applies
  BY DEF RuntimeTypeOK, ReadsWait
<1>2. Nth(asked[r])' = Nth(asked[r])
  BY <1>1 DEF Nth
<1>3. ASSUME NEW i \in 1..asked[r], pc[accepted[i]] = "done"
      PROVE  pc'[accepted'[i]] = "done"
  <2>1. i \in 1..Len(accepted)
    BY <1>1
  <2> QED
    BY <2>1, <1>1, <1>3, DoneStays
<1>4. asked'[r] <= Len(accepted')
  BY <1>1
<1> QED
  BY <1>2, <1>3, <1>4 DEF ReadsWait

THEOREM ReadsWaitCorrect == RuntimeSpec => []ReadsWait
<1>1. RuntimeInit => ReadsWait
  BY DEF RuntimeInit, ReadsWait, RuntimeCalls
<1>2. /\ RuntimeTypeOK /\ RuntimeTypeOK' /\ Queue /\ ReadsWait
      /\ [RuntimeNext]_runtimeVars
      => ReadsWait'
  <2> SUFFICES ASSUME RuntimeTypeOK, RuntimeTypeOK', Queue, ReadsWait,
                      [RuntimeNext]_runtimeVars, NEW r \in Reads
               PROVE  /\ asked'[r] <= Len(accepted')
                      /\ pc'[r] = "queued" => behind'[r] = Nth(asked[r])'
                      /\ pc'[r] = "reading" =>
                           \A i \in 1..asked'[r] : pc'[accepted'[i]] = "done"
    BY DEF ReadsWait
  <2> r \in RuntimeCalls
    BY DEF RuntimeCalls
  <2> USE DEF Goto, Settle, Wait, lifeVars, historyVars
  <2>1. ASSUME NEW c \in RuntimeCalls, c # r,
               \/ Refuse(c) \/ DestroyAgain(c)
               \/ c \in Applies /\ ApplyStep(c)
               \/ c \in Reads /\ (Ask(c) \/ ReadStep(c))
               \/ c \in Destroys /\ (Close(c) \/ DestroyStep(c))
        PROVE  /\ UNCHANGED <<accepted, asked[r]>>
               /\ pc'[r] = pc[r]
               /\ behind'[r] = behind[r]
    BY <2>1 DEF Refuse, DestroyAgain, ApplyStep, Recover, RecoverFails,
                RecoverSucceeds, Start, PatchSucceeds, PatchFails,
                ReloadSucceeds, ReloadFails, Decide, Ask, ReadStep, Read,
                ReadRefused, ReadAnswered, Close, DestroyStep, Release,
                Released, RuntimeTypeOK
  <2>2. CASE UNCHANGED <<accepted, asked[r]>> /\ pc'[r] = pc[r] /\ behind'[r] = behind[r]
    BY <2>2, ReadUndisturbed DEF RuntimeTypeOK
  <2>3. CASE \E a \in Applies : Submit(a)
    <3>1. PICK a \in Applies : Submit(a)
      BY <2>3
    <3>2. a # r /\ a \in RuntimeCalls
      BY RuntimeAssumption DEF RuntimeCalls
    <3>3. asked'[r] = asked[r] /\ pc'[r] = pc[r] /\ behind'[r] = behind[r]
      BY <3>1, <3>2 DEF Submit, RuntimeTypeOK
    <3>4. accepted' = Append(accepted, a)
      BY <3>1 DEF Submit
    <3>5. /\ Len(accepted) <= Len(accepted')
          /\ \A i \in 1..Len(accepted) : accepted'[i] = accepted[i]
      BY <3>4 DEF RuntimeTypeOK
    <3> QED
      BY <3>3, <3>5, ReadUndisturbed
  <2>4. CASE Ask(r)
    <3>1. /\ asked'[r] = Len(accepted)
          /\ pc'[r] = "queued"
          /\ behind'[r] = tail
          /\ accepted' = accepted
          /\ ~closing
      BY <2>4 DEF Ask, RuntimeTypeOK
    <3>2. tail = Nth(Len(accepted))
      BY <3>1 DEF Queue, TailIsLast, Nth, RuntimeTypeOK
    <3>3. Nth(asked[r])' = Nth(Len(accepted))
      BY <3>1 DEF Nth
    <3> QED
      BY <3>1, <3>2, <3>3 DEF RuntimeTypeOK
  <2>5. CASE Read(r)
    <3>1. /\ UNCHANGED <<accepted, asked>>
          /\ pc[r] = "queued" /\ Reached(r)
          /\ pc' = [pc EXCEPT ![r] = "reading"]
      BY <2>5 DEF Read
    <3>2. \A i \in 1..asked[r] : pc[accepted[i]] = "done"
      BY <3>1, ReachedAll DEF ReadsWait, RuntimeTypeOK
    <3>3. \A i \in 1..asked[r] : accepted[i] \in Applies
      BY DEF ReadsWait, RuntimeTypeOK
    <3>4. \A i \in 1..asked[r] : pc'[accepted[i]] = "done"
      BY <3>2, <3>3, DoneStays
    <3>5. pc'[r] = "reading"
      BY <3>1 DEF RuntimeTypeOK
    <3> QED
      BY <3>1, <3>4, <3>5 DEF ReadsWait
  <2>6. CASE Refuse(r) \/ ReadRefused(r) \/ ReadAnswered(r)
    <3>1. UNCHANGED <<accepted, asked>> /\ pc'[r] = "done"
      BY <2>6 DEF Refuse, ReadRefused, ReadAnswered, RuntimeTypeOK
    <3> QED
      BY <3>1 DEF ReadsWait
  <2>7. CASE UNCHANGED runtimeVars
    BY <2>2, <2>7 DEF runtimeVars, callVars
  <2> QED
    BY <2>1, <2>2, <2>3, <2>4, <2>5, <2>6, <2>7, RuntimeAssumption
    DEF RuntimeNext, RuntimeCalls, ReadStep
<1> QED
  BY <1>1, <1>2, QueueCorrect, RuntimeTypeCorrect, PTL DEF RuntimeSpec

(***************************************************************************)
(* A read sees every apply that was submitted before it.                   *)
(***************************************************************************)
THEOREM ReadsFollowWrites == RuntimeSpec => []ReadsOwnWrites
<1>1. ReadsWait => ReadsOwnWrites
  BY DEF ReadsWait, ReadsOwnWrites
<1> QED
  BY <1>1, ReadsWaitCorrect, PTL

(* Destroy drains the queue: the invariant behind DrainedBeforeRelease. *)
THEOREM DestroyWaitsCorrect == RuntimeSpec => []DestroyWaits
<1>1. RuntimeInit => DestroyWaits
  BY DEF RuntimeInit, DestroyWaits, RuntimeCalls
<1>2. RuntimeTypeOK /\ Queue /\ DestroyWaits /\ [RuntimeNext]_runtimeVars => DestroyWaits'
  <2> SUFFICES ASSUME RuntimeTypeOK, Queue, DestroyWaits, [RuntimeNext]_runtimeVars
               PROVE  DestroyWaits'
    OBVIOUS
  <2> /\ Applies \subseteq RuntimeCalls
      /\ Reads \subseteq RuntimeCalls
      /\ Destroys \subseteq RuntimeCalls
      /\ pc \in [RuntimeCalls -> Phases]
      /\ behind \in [RuntimeCalls -> Applies \cup {NoCall}]
      /\ \A i \in DOMAIN accepted : accepted[i] \in Applies
    BY DEF RuntimeCalls, RuntimeTypeOK
  <2> USE RuntimeAssumption DEF Goto, Settle, Wait, lifeVars, historyVars
  <2>1. ASSUME UNCHANGED accepted
        PROVE  /\ Nth(Len(accepted))' = Nth(Len(accepted))
               /\ \A i \in DOMAIN accepted :
                     pc[accepted[i]] = "done" => pc'[accepted'[i]] = "done"
    BY <2>1, DoneStays DEF Nth
  <2>2. ASSUME NEW a \in Applies, Submit(a) PROVE DestroyWaits'
    <3>1. ~closing /\ ~destroyed /\ UNCHANGED <<closing, destroyed>>
      BY <2>2 DEF Submit
    <3> QED
      BY <2>2, <3>1 DEF Submit, DestroyWaits
  <2>3. ASSUME NEW c \in RuntimeCalls,
               \/ Refuse(c) \/ DestroyAgain(c)
               \/ c \in Applies /\ ApplyStep(c)
               \/ c \in Reads /\ (Ask(c) \/ ReadStep(c))
               \/ c \in Destroys /\ Released(c)
        PROVE DestroyWaits'
    <3>1. UNCHANGED <<accepted, closing, destroyed>>
      BY <2>3 DEF Refuse, DestroyAgain, ApplyStep, Recover, RecoverFails,
                  RecoverSucceeds, Start, PatchSucceeds, PatchFails,
                  ReloadSucceeds, ReloadFails, Decide, Ask, ReadStep, Read,
                  ReadRefused, ReadAnswered, Released
    <3>2. /\ \A a \in Applies : pc'[a] \notin {"reading", "releasing"}
          /\ \A d \in Destroys :
                pc'[d] = "queued" => pc[d] = "queued" /\ behind'[d] = behind[d]
      BY <2>3 DEF DestroyWaits, Refuse, DestroyAgain, ApplyStep, Recover, RecoverFails,
                  RecoverSucceeds, Start, PatchSucceeds, PatchFails,
                  ReloadSucceeds, ReloadFails, Decide, Ask, ReadStep, Read,
                  ReadRefused, ReadAnswered, Released
    <3> QED
      BY <2>1, <3>1, <3>2 DEF DestroyWaits
  <2>4. ASSUME NEW d \in Destroys, Close(d) PROVE DestroyWaits'
    <3>1. /\ ~closing /\ ~destroyed /\ closing' /\ ~destroyed'
          /\ accepted' = accepted
          /\ pc' = [pc EXCEPT ![d] = "queued"]
          /\ behind' = [behind EXCEPT ![d] = tail]
      BY <2>4 DEF Close, DestroyWaits
    <3>2. tail = Nth(Len(accepted))
      BY <3>1 DEF Queue, TailIsLast, Nth, RuntimeTypeOK
    <3>3. \A e \in Destroys : pc'[e] = "queued" => e = d
      BY <3>1 DEF DestroyWaits
    <3> QED
      BY <2>1, <3>1, <3>2, <3>3 DEF DestroyWaits
  <2>5. ASSUME NEW d \in Destroys, Release(d) PROVE DestroyWaits'
    <3>1. /\ pc[d] = "queued" /\ Reached(d)
          /\ pc' = [pc EXCEPT ![d] = "releasing"]
          /\ UNCHANGED <<accepted, behind, closing>>
          /\ closing
      BY <2>5 DEF Release, DestroyWaits
    <3>2. \A i \in 1..Len(accepted) : pc[accepted[i]] = "done"
      BY <3>1, ReachedAll DEF DestroyWaits, RuntimeTypeOK
    <3>3. \A i \in DOMAIN accepted' : pc'[accepted'[i]] = "done"
      BY <3>1, <3>2, <2>1 DEF RuntimeTypeOK
    <3>4. \A a \in Applies : pc'[a] \notin {"reading", "releasing"}
      BY <3>1 DEF DestroyWaits
    <3>5. \A e \in Destroys : pc'[e] = "queued" => pc[e] = "queued"
      BY <3>1
    <3> QED
      BY <2>1, <3>1, <3>3, <3>4, <3>5 DEF DestroyWaits
  <2>6. CASE UNCHANGED runtimeVars
    BY <2>6 DEF runtimeVars, callVars, DestroyWaits, Nth
  <2> QED
    BY <2>2, <2>3, <2>4, <2>5, <2>6 DEF RuntimeNext, DestroyStep
<1> QED
  BY <1>1, <1>2, QueueCorrect, RuntimeTypeCorrect, PTL DEF RuntimeSpec

(***************************************************************************)
(* "every accepted apply settles before the adapter is released", and none *)
(* is at work on it afterwards.                                            *)
(***************************************************************************)
THEOREM DestroyDrains == RuntimeSpec => []DrainedBeforeRelease
<1>1. RuntimeTypeOK /\ Queue /\ DestroyWaits => DrainedBeforeRelease
  <2> SUFFICES ASSUME RuntimeTypeOK, Queue, DestroyWaits, destroyed,
                      NEW a \in Applies
               PROVE  pc[a] \in {"idle", "done"}
    BY DEF DrainedBeforeRelease
  <2>1. pc[a] \in Phases /\ pc[a] \notin {"reading", "releasing"}
    BY DEF RuntimeTypeOK, RuntimeCalls, DestroyWaits
  <2>2. pc[a] \in {"queued"} \cup Changing => pc[a] = "done"
    BY DEF Queue, Listed, DestroyWaits
  <2> QED
    BY <2>1, <2>2 DEF Phases
<1> QED
  BY <1>1, DestroyWaitsCorrect, QueueCorrect, RuntimeTypeCorrect, PTL
=============================================================================
